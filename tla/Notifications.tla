---------------------------- MODULE Notifications ----------------------------
(***************************************************************************)
(* Federation notifications after they are recorded: the push scan         *)
(* (atalk/federation/runtime.py, hint_notifications), which walks the      *)
(* pending rows in pages from a cursor shared by all threads, and the      *)
(* durable pull and acknowledgement (atalk/server.py and                   *)
(* atalk/federation/store.py).                                             *)
(*                                                                         *)
(* The federation worker scans at the end of each of its cycles; request   *)
(* threads scan after they stored an acknowledgement or a receipt.  Rows   *)
(* are named by their place in the order (created_at, intent_id).  Rows    *)
(* created in one second are ordered by their intent ids, so that a row    *)
(* may appear before one that is already there.                            *)
(***************************************************************************)
EXTENDS Naturals, FiniteSets, FiniteSetsExt

CONSTANTS
    MaxRows,      \* bound: notifications recorded
    Agents,       \* local agents
    Operator,     \* the reader of rows without an agent
    Owner,        \* whom each row is for
    Backlog,      \* rows recorded before the server started, all pending
    Visitors,     \* agents that open a stream now and then
    Pullers,      \* readers that poll for their rows
    Scanners,     \* threads that run hint_notifications
    Worker,       \* the federation worker, one of them
    PageSize,     \* rows of a page, 100 in the code
    Budget,       \* HINT_SCAN_BUDGET, 5000 in the code
    MaxRestarts   \* bound: restarts of the server

Rows == 1..MaxRows
Readers == Agents \cup {Operator}

ASSUME NotificationsAssumption ==
    /\ MaxRows \in Nat /\ MaxRestarts \in Nat
    /\ Operator \notin Agents
    /\ Visitors \subseteq Agents /\ Pullers \subseteq Readers
    /\ Owner \in [Rows -> Readers] /\ Backlog \subseteq Rows
    /\ Worker \in Scanners
    /\ PageSize \in Nat \ {0} /\ Budget \in Nat \ {0}

VARIABLES
    recorded,   \* rows of federation_notifications
    hinted,     \* those with hint_sent = 1
    acked,      \* those with acked = 1
    online,     \* agents whose lane has a queue with room
    cursor,     \* _hint_cursor: the last row scanned, 0 for None
    pc,         \* where each scanner is
    after,      \* its local after, 0 for None
    scanned,    \* rows it has read in this scan
    page,       \* the rows of its page
    todo,       \* those it has still to push
    pulled,     \* what each reader's last pull returned
    restarts    \* restarts so far

store == <<recorded, hinted, acked>>
scan == <<pc, after, scanned, page, todo>>
vars == <<recorded, hinted, acked, online, cursor, pc, after, scanned, page,
          todo, pulled, restarts>>

-----------------------------------------------------------------------------
(* Rows *)

\* ORDER BY created_at, intent_id LIMIT n.
Oldest(set, n) == {r \in set : Cardinality({q \in set : q <= r}) <= n}

\* undelivered_notification_hints, before its LIMIT.
Pushable(from) ==
    {r \in recorded \ (hinted \cup acked) : Owner[r] \in Agents /\ r > from}

\* Mutant of Pullable: rows that were pushed once are left out.
PullableUnhinted(a) == {r \in recorded \ (hinted \cup acked) : Owner[r] = a}

\* notification_hints_for, operator_notification_hints, before their LIMIT.
Pullable(a) == {r \in recorded \ acked : Owner[r] = a}

\* A thread records a notification.
Insert(r) ==
    /\ r \in Rows \ recorded
    /\ recorded' = recorded \cup {r}
    /\ UNCHANGED <<hinted, acked, online, cursor, scan, pulled, restarts>>

-----------------------------------------------------------------------------
(* hint_notifications *)

Goto(s, where) == pc' = [pc EXCEPT ![s] = where]

\* Mutant of StartScan: every scan begins with the oldest row.
StartScanAtOldest(s) ==
    /\ pc[s] = "idle"
    /\ Goto(s, "fetch")
    /\ UNCHANGED <<store, online, cursor, after, scanned, page, todo, pulled, restarts>>

StartScan(s) ==
    /\ pc[s] = "idle"
    /\ after' = [after EXCEPT ![s] = cursor]
    /\ Goto(s, "fetch")
    /\ UNCHANGED <<store, online, cursor, scanned, page, todo, pulled, restarts>>

\* hint_notifications returns; its locals are gone.
Return(s) ==
    /\ Goto(s, "idle")
    /\ after' = [after EXCEPT ![s] = 0]
    /\ scanned' = [scanned EXCEPT ![s] = 0]

\* The next page is read; after an empty one the next scan wraps around.
FetchPage(s) ==
    /\ pc[s] = "fetch"
    /\ LET rows == Oldest(Pushable(after[s]), PageSize) IN
       IF rows = {}
         THEN /\ Return(s)
              /\ cursor' = 0
              /\ UNCHANGED <<page, todo>>
         ELSE /\ page' = [page EXCEPT ![s] = rows]
              /\ todo' = [todo EXCEPT ![s] = rows]
              /\ Goto(s, "push")
              /\ UNCHANGED <<cursor, after, scanned>>
    /\ UNCHANGED <<store, online, pulled, restarts>>

\* _hint_one: the agent's queue accepts the row, which is marked as hinted, or
\* there is none and the row is passed over.
HintOne(s) ==
    /\ pc[s] = "push" /\ todo[s] # {}
    /\ LET row == Min(todo[s]) IN
       /\ hinted' = IF Owner[row] \in online THEN hinted \cup {row} ELSE hinted
       /\ todo' = [todo EXCEPT ![s] = @ \ {row}]
    /\ UNCHANGED <<recorded, acked, online, cursor, pc, after, scanned, page, pulled, restarts>>

\* The push or the update fails; _guarded logs it and goes on with the next row.
HintFails(s) ==
    /\ pc[s] = "push" /\ todo[s] # {}
    /\ todo' = [todo EXCEPT ![s] = @ \ {Min(@)}]
    /\ UNCHANGED <<store, online, cursor, pc, after, scanned, page, pulled, restarts>>

\* Mutant of EndPage: the budget is tested with <= .
EndPageOverBudget(s) ==
    /\ pc[s] = "push" /\ todo[s] = {}
    /\ cursor' = Max(page[s])
    /\ page' = [page EXCEPT ![s] = {}]
    /\ LET read == scanned[s] + Cardinality(page[s]) IN
       IF Cardinality(page[s]) = PageSize /\ read <= Budget
         THEN /\ after' = [after EXCEPT ![s] = Max(page[s])]
              /\ scanned' = [scanned EXCEPT ![s] = read]
              /\ Goto(s, "fetch")
         ELSE /\ after' = [after EXCEPT ![s] = 0]
              /\ scanned' = [scanned EXCEPT ![s] = 0]
              /\ Goto(s, IF Cardinality(page[s]) < PageSize THEN "wrap" ELSE "idle")
    /\ UNCHANGED <<store, online, todo, pulled, restarts>>

\* The end of a page: the cursor follows.  A short page was the last one; the
\* scan also ends when its budget is spent.
EndPage(s) ==
    /\ pc[s] = "push" /\ todo[s] = {}
    /\ cursor' = Max(page[s])
    /\ page' = [page EXCEPT ![s] = {}]
    /\ LET read == scanned[s] + Cardinality(page[s]) IN
       IF Cardinality(page[s]) = PageSize /\ read < Budget
         THEN /\ after' = [after EXCEPT ![s] = Max(page[s])]
              /\ scanned' = [scanned EXCEPT ![s] = read]
              /\ Goto(s, "fetch")
         ELSE /\ after' = [after EXCEPT ![s] = 0]
              /\ scanned' = [scanned EXCEPT ![s] = 0]
              /\ Goto(s, IF Cardinality(page[s]) < PageSize THEN "wrap" ELSE "idle")
    /\ UNCHANGED <<store, online, todo, pulled, restarts>>

\* After a short page the next scan wraps around.
Wrap(s) ==
    /\ pc[s] = "wrap"
    /\ cursor' = 0
    /\ Goto(s, "idle")
    /\ UNCHANGED <<store, online, after, scanned, page, todo, pulled, restarts>>

-----------------------------------------------------------------------------
(* Readers *)

\* GET /federation/notifications changes nothing at the server.
Pull(a) ==
    /\ pulled' = [pulled EXCEPT ![a] = Oldest(Pullable(a), PageSize)]
    /\ pulled' # pulled
    /\ UNCHANGED <<store, online, cursor, scan, restarts>>

\* ack_notification_hints touches the reader's own rows only.
OwnRows(a, ids) == {r \in ids : Owner[r] = a}

\* POST /federation/notifications/ack for what was pulled.
Ack(a) ==
    /\ pulled[a] \ acked # {}
    /\ acked' = acked \cup OwnRows(a, pulled[a])
    /\ UNCHANGED <<recorded, hinted, online, cursor, scan, pulled, restarts>>

\* The reader dies with what it pulled.
Forget(a) ==
    /\ pulled[a] # {}
    /\ pulled' = [pulled EXCEPT ![a] = {}]
    /\ UNCHANGED <<store, online, cursor, scan, restarts>>

Connect(a) ==
    /\ a \notin online
    /\ online' = online \cup {a}
    /\ UNCHANGED <<store, cursor, scan, pulled, restarts>>

Disconnect(a) ==
    /\ a \in online
    /\ online' = online \ {a}
    /\ UNCHANGED <<store, cursor, scan, pulled, restarts>>

\* The server restarts: cursor, scans and queues are gone, the rows stay.
Restart ==
    /\ restarts < MaxRestarts
    /\ restarts' = restarts + 1
    /\ cursor' = 0
    /\ online' = {}
    /\ pc' = [s \in Scanners |-> "idle"]
    /\ after' = [s \in Scanners |-> 0]
    /\ scanned' = [s \in Scanners |-> 0]
    /\ page' = [s \in Scanners |-> {}]
    /\ todo' = [s \in Scanners |-> {}]
    /\ UNCHANGED <<store, pulled>>

-----------------------------------------------------------------------------
Init ==
    /\ recorded = Backlog /\ hinted = {} /\ acked = {}
    /\ online = {} /\ cursor = 0 /\ restarts = 0
    /\ pc = [s \in Scanners |-> "idle"]
    /\ after = [s \in Scanners |-> 0]
    /\ scanned = [s \in Scanners |-> 0]
    /\ page = [s \in Scanners |-> {}]
    /\ todo = [s \in Scanners |-> {}]
    /\ pulled = [a \in Pullers |-> {}]

Step(s) ==
    \/ StartScan(s) \/ FetchPage(s) \/ HintOne(s) \/ HintFails(s)
    \/ EndPage(s) \/ Wrap(s)

Next ==
    \/ \E r \in Rows : Insert(r)
    \/ \E s \in Scanners : Step(s)
    \/ \E a \in Pullers : Pull(a) \/ Ack(a) \/ Forget(a)
    \/ \E a \in Visitors : Connect(a) \/ Disconnect(a)
    \/ Restart

Spec == Init /\ [][Next]_vars

(***************************************************************************)
(* The worker's thread runs, and pushing a row fails now and then but not  *)
(* every time, whichever thread tries.                                     *)
(***************************************************************************)
WorkerFairness ==
    /\ WF_vars(Step(Worker))
    /\ \A r \in {r \in Rows : Owner[r] \in Agents} :
          SF_vars(\E s \in Scanners : HintOne(s) /\ r = Min(todo[s]))

(***************************************************************************)
(* A reader polls and acknowledges; it does not die between every pull and *)
(* its acknowledgement.                                                    *)
(***************************************************************************)
ReaderFairness == \A a \in Pullers : WF_vars(Pull(a)) /\ SF_vars(Ack(a))

FairSpec == Spec /\ WorkerFairness

-----------------------------------------------------------------------------
(* Properties *)

\* Every variable has its type; operator rows never get into a scan.
TypeOK ==
    /\ recorded \subseteq Rows /\ hinted \subseteq recorded /\ acked \subseteq recorded
    /\ online \subseteq Visitors
    /\ cursor \in 0..MaxRows /\ restarts \in 0..MaxRestarts
    /\ pc \in [Scanners -> {"idle", "fetch", "push", "wrap"}]
    /\ after \in [Scanners -> 0..MaxRows]
    /\ scanned \in [Scanners -> 0..(Budget - 1)]
    /\ page \in [Scanners -> SUBSET {r \in recorded : Owner[r] \in Agents}]
    /\ \A s \in Scanners : todo[s] \subseteq page[s] /\ (pc[s] = "push" <=> page[s] # {})
    /\ pulled \in [Pullers -> SUBSET recorded]

\* Every pending row of an agent that stays connected is pushed sooner or later
\* (unless its reader has acknowledged it): a backlog beyond the budget, rows that appear behind the
\* cursor, other threads that move the cursor, failures and restarts only delay.
EveryHintPushed ==
    \A r \in Rows :
        (<>[](r \in recorded /\ Owner[r] \in online)) => <>(r \in hinted \cup acked)

\* If the readers keep polling, every notification is pulled and acknowledged
\* sooner or later, those too that were pushed to a queue which nobody read.
EveryNotificationAcked ==
    ReaderFairness =>
        \A r \in Rows : Owner[r] \in Pullers => (r \in recorded ~> r \in acked)
=============================================================================
