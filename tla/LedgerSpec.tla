------------------------------ MODULE LedgerSpec ------------------------------
(***************************************************************************)
(* What an ATalk ledger promises, whatever storage backend keeps it.       *)
(*                                                                         *)
(* The ledger is a list of accepted events and a set of acknowledgements.  *)
(* An event is accepted at most once per event_id and never takes a        *)
(* (source, seq) pair that is already used; an accepted event is never     *)
(* changed or dropped; an acknowledgement is never withdrawn.  A backend   *)
(* may also check that an acknowledgement names an accepted event: SQLite  *)
(* does, by a foreign key, and rqlite only where its nodes are told to.    *)
(* The SQLite ledger served by concurrent request threads (Ledger) and the *)
(* rqlite ledger (RaftLedger) are shown to implement this specification.   *)
(***************************************************************************)
EXTENDS Naturals, Sequences

CONSTANTS Event,     \* the events that may be accepted
          Ack,       \* the acknowledgements that may be recorded
          ChecksAcks \* TRUE when an acknowledgement must name an accepted event

VARIABLES log,       \* accepted events, in the order of their database id
          acked      \* acknowledgements recorded so far

svars == <<log, acked>>

\* Some accepted event carries this event_id.
Accepted(eid) == \E i \in 1..Len(log) : log[i].event_id = eid

SInit ==
    /\ log = <<>>
    /\ acked = {}

\* Accept a new event e, whose event_id and (source, seq) pair are both new.
AcceptEvent(e) ==
    /\ e \in Event
    /\ \A i \in 1..Len(log) :
          /\ log[i].event_id # e.event_id
          /\ log[i].source = e.source => log[i].seq # e.seq
    /\ log' = Append(log, e)

\* The log grows by one event.
Accept ==
    /\ Len(log') = Len(log) + 1
    /\ AcceptEvent(log'[Len(log')])
    /\ UNCHANGED acked

\* Record an acknowledgement.
Acknowledge(a) ==
    /\ a \in Ack
    /\ ChecksAcks => Accepted(a.event_id)
    /\ acked' = acked \cup {a}
    /\ UNCHANGED log

SNext ==
    \/ Accept
    \/ \E a \in acked' : Acknowledge(a)

SSpec == SInit /\ [][SNext]_svars
=============================================================================
