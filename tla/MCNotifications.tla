--------------------------- MODULE MCNotifications ---------------------------
(***************************************************************************)
(* Instance of Notifications for TLC.                                      *)
(***************************************************************************)
EXTENDS Notifications, TLC

\* Four rows of an agent that stays away, two pages that use up the budget of a scan
\* before it gets to the row of one that comes and goes; the fourth of them is recorded
\* while the scans go on, between rows of the backlog.  The first row is the operator's,
\* which is not pushed.
Owners == <<"operator", "ghost", "ghost", "ghost", "ghost", "alice">>
=============================================================================
