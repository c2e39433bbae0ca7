---------------------------- MODULE FederationSpec ----------------------------
(***************************************************************************)
(* What federation promises between families, without outboxes, retries,   *)
(* crashes or a network: a message a family accepted for sending enters    *)
(* the receiver's log at most once and unchanged; the recipient may        *)
(* acknowledge it after that; a family learns only of acknowledgements     *)
(* that were really given.                                                 *)
(***************************************************************************)
CONSTANTS
    Message,    \* messages: records with at least an origin and an event_id
    AckKinds    \* "received" and "applied"

VARIABLES
    submitted,  \* messages accepted for sending
    stored,     \* messages in the receiver's log
    acked,      \* acknowledgements by the recipients, as <<message, kind>>
    reported    \* acknowledgements their origins know of, as <<message, kind>>

fvars == <<submitted, stored, acked, reported>>

\* A family uses an event id for one message.
Submit(m) ==
    /\ m \in Message
    /\ \A n \in submitted : n.origin = m.origin => n.event_id # m.event_id
    /\ submitted' = submitted \cup {m}
    /\ UNCHANGED <<stored, acked, reported>>

\* The receiver stores a message somebody submitted, once per event id.
Store(m) ==
    /\ m \in submitted
    /\ \A n \in stored : n.event_id # m.event_id
    /\ stored' = stored \cup {m}
    /\ UNCHANGED <<submitted, acked, reported>>

Acknowledge(m, k) ==
    /\ m \in stored
    /\ acked' = acked \cup {<<m, k>>}
    /\ UNCHANGED <<submitted, stored, reported>>

Report(m, k) ==
    /\ <<m, k>> \in acked
    /\ reported' = reported \cup {<<m, k>>}
    /\ UNCHANGED <<submitted, stored, acked>>

FInit ==
    /\ submitted = {}
    /\ stored = {}
    /\ acked = {}
    /\ reported = {}

FNext ==
    \E m \in submitted' :
        \/ Submit(m)
        \/ Store(m)
        \/ \E k \in AckKinds : Acknowledge(m, k) \/ Report(m, k)

FSpec == FInit /\ [][FNext]_fvars
=============================================================================
