------------------------------- MODULE Adapter -------------------------------
(***************************************************************************)
(* One agent's adapter process (atalk/adapter.py): the loop that reads the *)
(* agent's events by cursor, acknowledges them, hands them to a model and  *)
(* sends the reply, with the durable task ledger of OpenClaw mode.         *)
(*                                                                         *)
(* The bus is seen through its promises: events get increasing ids, an     *)
(* event or an acknowledgement is stored at most once.  Every call to the  *)
(* bus may fail, before or after the bus has committed it; the model may   *)
(* fail; the process may die between any two steps.  The cursor file and   *)
(* the task file are replaced atomically and survive.                      *)
(***************************************************************************)
EXTENDS Naturals, FiniteSets

CONSTANTS
    Mode,            \* "openclaw", or "chat" for the handlers with no task ledger
    MaxId,           \* bound: events published
    PageSize,        \* limit of GET /events
    MaxRetry,        \* bound: waiting outcomes in a row
    WaitEventDriven, \* --wait-event-driven
    WorkThreads,     \* keys of the task ledger
    ThreadOf,        \* thread_key of each event
    Kind             \* "work", "skip" (loop prevention) or "empty" (no text)

Ids == 1..MaxId
Kinds == {"work", "skip", "empty"}
Outcomes == {"complete", "waiting", "blocked"}

ASSUME AdapterAssumption ==
    /\ Mode \in {"openclaw", "chat"}
    /\ MaxId \in Nat /\ PageSize \in Nat \ {0} /\ MaxRetry \in Nat
    /\ WaitEventDriven \in BOOLEAN
    /\ ThreadOf \in [Ids -> WorkThreads]
    /\ Kind \in [Ids -> Kinds]

VARIABLES
    published,  \* bus: events 1..published are addressed to the agent
    received,   \* bus: events with a "received" acknowledgement
    applied,    \* bus: events with an "applied" acknowledgement
    replies,    \* bus: replies stored, by their event id
    answered,   \* history: events in the thread when a completion reply was stored
    cursor,     \* cursor file
    tasks,      \* task file: the entry of each thread key, ids = {} when there is none
    ripe,       \* waiting threads whose next_retry_at has passed
    pc,         \* where the process is
    batch,      \* events of the page still to be handled
    cur,        \* the event being handled
    retry,      \* "yes" while process runs for retry_due
    outcome,    \* the model's ATALK_APPLY line
    attempt,    \* retry_count before set_status
    to_ack,     \* applied_event_ids still to be acknowledged
    due         \* threads retry_due has still to run

bus == <<published, received, applied, replies, answered>>
files == <<cursor, tasks, ripe>>
process == <<pc, batch, cur, retry, outcome, attempt, to_ack, due>>
vars == <<published, received, applied, replies, answered, cursor, tasks, ripe,
          pc, batch, cur, retry, outcome, attempt, to_ack, due>>

NoTask == [ids |-> {}, status |-> "none", latest |-> 0, retries |-> 0]
Key == ThreadOf[cur]

-----------------------------------------------------------------------------
\* Somebody sends the agent an event.
Publish ==
    /\ published < MaxId
    /\ published' = published + 1
    /\ UNCHANGED <<received, applied, replies, answered, files, process>>

\* GET /events?since_id=cursor: unapplied events after the cursor.
Pending == {e \in (cursor + 1)..published : e \notin applied}

Poll ==
    /\ pc = "poll"
    /\ batch' = {e \in Pending : Cardinality({f \in Pending : f < e}) < PageSize}
    /\ pc' = "next"
    /\ UNCHANGED <<bus, files, cur, retry, outcome, attempt, to_ack, due>>

\* run_once takes the next event of the page and acknowledges it as received.
TakeNext(e) ==
    /\ pc = "next"
    /\ e \in batch /\ \A f \in batch : e <= f
    /\ cur' = e
    /\ batch' = batch \ {e}
    /\ retry' = "no"
    /\ UNCHANGED <<published, applied, replies, answered, files, outcome, attempt, to_ack, due>>

AckReceived(e) ==
    /\ TakeNext(e)
    /\ received' = received \cup {e}
    /\ pc' = "handle"

\* Mutant of AckReceivedFails: the failure is swallowed and the event handled.
AckFailureSwallowed(e) ==
    /\ TakeNext(e)
    /\ received' \in {received, received \cup {e}}
    /\ pc' = "handle"

\* The call fails, with or without effect; the exception reaches main.
AckReceivedFails(e) ==
    /\ TakeNext(e)
    /\ received' \in {received, received \cup {e}}
    /\ pc' = "poll"

\* process: skip, reject, or record the event in its thread
\* (OpenClawTaskStore.append).
Handle ==
    /\ pc = "handle"
    /\ \/ /\ Kind[cur] = "skip"
          /\ to_ack' = {}
          /\ pc' = "ack"
          /\ UNCHANGED <<tasks, ripe>>
       \/ /\ Kind[cur] = "empty"
          /\ pc' = "error"
          /\ UNCHANGED <<tasks, ripe, to_ack>>
       \/ /\ Kind[cur] = "work"
          /\ pc' = "model"
          /\ IF Mode = "openclaw"
               THEN /\ tasks' = [tasks EXCEPT ![Key] =
                           [ids |-> @.ids \cup {cur}, status |-> "active",
                            latest |-> cur, retries |-> 0]]
                    /\ ripe' = ripe \ {Key}
               ELSE UNCHANGED <<tasks, ripe>>
          /\ UNCHANGED to_ack
    /\ UNCHANGED <<bus, cursor, batch, cur, retry, outcome, attempt, due>>

\* The model answers and set_status records its outcome.  A retry that is still
\* waiting sends nothing and acknowledges nothing.
ModelAnswers(o) ==
    /\ pc = "model"
    /\ outcome' = o
    /\ attempt' = IF Mode = "openclaw" THEN tasks[Key].retries ELSE 0
    /\ IF Mode = "openclaw"
         THEN /\ o = "waiting" => tasks[Key].retries < MaxRetry
              /\ tasks' = [tasks EXCEPT ![Key].status = o,
                             ![Key].retries = IF o = "waiting" THEN @ + 1 ELSE @]
              /\ ripe' = ripe \ {Key}
         ELSE /\ o = "complete"
              /\ UNCHANGED <<tasks, ripe>>
    /\ pc' = IF retry = "yes" /\ o = "waiting" THEN "due" ELSE "reply"
    /\ UNCHANGED <<bus, cursor, batch, cur, retry, to_ack, due>>

\* Where an exception leads that process raises: run_once acknowledges the
\* event as received again and re-raises; retry_due does not catch it.
Raised == IF retry = "yes" THEN "poll" ELSE "error"

\* The model times out, or its answer has no reply or no outcome line.
ModelFails ==
    /\ pc = "model"
    /\ pc' = Raised
    /\ UNCHANGED <<bus, files, batch, cur, retry, outcome, attempt, to_ack, due>>

\* Mutant of ReplyId: a fresh id for every reply.
FreshReplyId == [event |-> cur, status |-> "reply", attempt |-> Cardinality(replies)]

\* The reply's event id: a UUID derived from these.
ReplyId ==
    IF Mode = "openclaw" THEN [event |-> cur, status |-> outcome, attempt |-> attempt]
                         ELSE [event |-> cur, status |-> "reply", attempt |-> 0]

\* The events a completion reply speaks for.
ThreadIds == IF Mode = "openclaw" THEN tasks[Key].ids ELSE {cur}

StoreReply ==
    /\ replies' = replies \cup {ReplyId}
    /\ answered' = IF outcome = "complete" THEN answered \cup ThreadIds ELSE answered

SendReply ==
    /\ pc = "reply"
    /\ StoreReply
    /\ to_ack' = IF outcome = "complete" THEN ThreadIds ELSE {}
    /\ pc' = IF outcome = "complete" THEN "finalize"
             ELSE IF retry = "yes" THEN "due" ELSE "ack"
    /\ UNCHANGED <<published, received, applied, files, batch, cur, retry, outcome,
                   attempt, due>>

\* Mutant of SendReplyFails: the failure is swallowed and the task finalized.
SendFailureSwallowed ==
    /\ pc = "reply"
    /\ to_ack' = ThreadIds
    /\ pc' = "finalize"
    /\ UNCHANGED <<bus, files, batch, cur, retry, outcome, attempt, due>>

SendReplyFails ==
    /\ pc = "reply"
    /\ StoreReply \/ UNCHANGED <<replies, answered>>
    /\ pc' = Raised
    /\ UNCHANGED <<published, received, applied, files, batch, cur, retry, outcome,
                   attempt, to_ack, due>>

\* finalize_complete: the thread is forgotten.
Finalize ==
    /\ pc = "finalize"
    /\ tasks' = IF Mode = "openclaw" THEN [tasks EXCEPT ![Key] = NoTask] ELSE tasks
    /\ ripe' = IF Mode = "openclaw" THEN ripe \ {Key} ELSE ripe
    /\ pc' = "ack"
    /\ UNCHANGED <<bus, cursor, batch, cur, retry, outcome, attempt, to_ack, due>>

\* Acknowledge the thread's events as applied, oldest first.
AckApplied(e) ==
    /\ pc = "ack"
    /\ e \in to_ack /\ \A f \in to_ack : e <= f
    /\ applied' = applied \cup {e}
    /\ to_ack' = to_ack \ {e}
    /\ UNCHANGED <<published, received, replies, answered, files, pc, batch, cur, retry,
                   outcome, attempt, due>>

\* Mutant of AckAppliedFails: the failure is swallowed and the next event acknowledged.
AckAppliedSwallowed(e) ==
    /\ pc = "ack"
    /\ e \in to_ack /\ \A f \in to_ack : e <= f
    /\ to_ack' = to_ack \ {e}
    /\ UNCHANGED <<bus, files, pc, batch, cur, retry, outcome, attempt, due>>

AckAppliedFails(e) ==
    /\ pc = "ack"
    /\ e \in to_ack /\ \A f \in to_ack : e <= f
    /\ applied' \in {applied, applied \cup {e}}
    /\ to_ack' = {}
    /\ pc' = "poll"
    /\ UNCHANGED <<published, received, replies, answered, files, batch, cur, retry,
                   outcome, attempt, due>>

\* Mutant of Done: the cursor advances only past applied events.
DoneWhenApplied ==
    /\ pc = "ack"
    /\ to_ack = {}
    /\ IF retry = "yes"
         THEN pc' = "due" /\ UNCHANGED cursor
         ELSE pc' = "next" /\ cursor' = IF cur > cursor /\ cur \in applied THEN cur ELSE cursor
    /\ UNCHANGED <<bus, tasks, ripe, batch, cur, retry, outcome, attempt, to_ack, due>>

\* Everything acknowledged: run_once advances the cursor, retry_due goes on.
Done ==
    /\ pc = "ack"
    /\ to_ack = {}
    /\ IF retry = "yes"
         THEN pc' = "due" /\ UNCHANGED cursor
         ELSE pc' = "next" /\ cursor' = IF cur > cursor THEN cur ELSE cursor
    /\ UNCHANGED <<bus, tasks, ripe, batch, cur, retry, outcome, attempt, to_ack, due>>

\* run_once's except clause: received again, with the error; then re-raise.
ReportError ==
    /\ pc = "error"
    /\ received' \in {received, received \cup {cur}}
    /\ pc' = "poll"
    /\ UNCHANGED <<published, applied, replies, answered, files, batch, cur, retry,
                   outcome, attempt, to_ack, due>>

\* The page is finished: retry_due lists the waiting threads whose time has come.
StartRetries ==
    /\ pc = "next"
    /\ batch = {}
    /\ due' = IF WaitEventDriven \/ Mode # "openclaw" THEN {}
              ELSE {k \in ripe : tasks[k].status = "waiting"}
    /\ pc' = "due"
    /\ UNCHANGED <<bus, files, batch, cur, retry, outcome, attempt, to_ack>>

RetryThread(k) ==
    /\ pc = "due"
    /\ k \in due
    /\ due' = due \ {k}
    /\ cur' = tasks[k].latest
    /\ retry' = "yes"
    /\ pc' = "model"
    /\ UNCHANGED <<bus, files, batch, outcome, attempt, to_ack>>

RetriesDone ==
    /\ pc = "due"
    /\ due = {}
    /\ pc' = "poll"
    /\ UNCHANGED <<bus, files, batch, cur, retry, outcome, attempt, to_ack, due>>

\* A waiting thread's next_retry_at passes.
Ripen(k) ==
    /\ tasks[k].status = "waiting"
    /\ k \notin ripe
    /\ ripe' = ripe \cup {k}
    /\ UNCHANGED <<bus, cursor, tasks, process>>

\* The process dies and is restarted.
Crash ==
    /\ pc # "poll"
    /\ pc' = "poll"
    /\ batch' = {} /\ to_ack' = {} /\ due' = {}
    /\ UNCHANGED <<bus, files, cur, retry, outcome, attempt>>

Init ==
    /\ published = 0
    /\ received = {} /\ applied = {} /\ replies = {} /\ answered = {}
    /\ cursor = 0
    /\ tasks = [k \in WorkThreads |-> NoTask]
    /\ ripe = {}
    /\ pc = "poll"
    /\ batch = {} /\ cur = 0 /\ retry = "no" /\ outcome = "none" /\ attempt = 0
    /\ to_ack = {} /\ due = {}

\* The steps the adapter takes when nothing fails.
Works ==
    \/ Poll \/ Handle \/ SendReply \/ Finalize \/ Done \/ StartRetries \/ RetriesDone
    \/ ReportError
    \/ \E e \in Ids : AckReceived(e) \/ AckApplied(e)
    \/ \E o \in Outcomes : ModelAnswers(o)
    \/ \E k \in WorkThreads : RetryThread(k)

Fails ==
    \/ ModelFails \/ SendReplyFails \/ Crash
    \/ \E e \in Ids : AckReceivedFails(e) \/ AckAppliedFails(e)

Next ==
    \/ Publish
    \/ Works
    \/ Fails
    \/ \E k \in WorkThreads : Ripen(k)

Spec == Init /\ [][Next]_vars

(***************************************************************************)
(* The process is restarted by its supervisor and loops for ever, so its   *)
(* steps are weakly fair; calls to the bus and to the model may fail any   *)
(* number of times but not every time, which is strong fairness of the     *)
(* steps in which they succeed.                                            *)
(***************************************************************************)
Fairness ==
    /\ WF_vars(Works)
    /\ SF_vars(\E e \in Ids : AckReceived(e))
    /\ SF_vars(\E e \in Ids : AckApplied(e))
    /\ SF_vars(Handle) /\ SF_vars(SendReply) /\ SF_vars(Finalize) /\ SF_vars(Done)
    /\ SF_vars(\E o \in Outcomes : ModelAnswers(o))
    /\ \A k \in WorkThreads : WF_vars(Ripen(k))

FairSpec == Spec /\ Fairness

-----------------------------------------------------------------------------
(* Properties *)

Task == [ids : SUBSET Ids, status : {"none", "active"} \cup Outcomes,
         latest : 0..MaxId, retries : Nat]

BusOK ==
    /\ published \in 0..MaxId
    /\ received \subseteq Ids /\ applied \subseteq Ids /\ answered \subseteq Ids
    /\ replies \subseteq [event : Ids, status : Outcomes \cup {"reply"}, attempt : Nat]

FilesOK ==
    /\ cursor \in 0..MaxId
    /\ tasks \in [WorkThreads -> Task]
    /\ ripe \subseteq WorkThreads

ProcessOK ==
    /\ pc \in {"poll", "next", "handle", "model", "reply", "finalize", "ack", "error", "due"}
    /\ batch \subseteq Ids
    /\ cur \in 0..MaxId
    /\ retry \in {"yes", "no"}
    /\ outcome \in Outcomes \cup {"none"}
    /\ attempt \in Nat
    /\ to_ack \subseteq Ids
    /\ due \subseteq WorkThreads

\* Every variable has its type.
TypeOK == BusOK /\ FilesOK /\ ProcessOK

\* An event still listed in a thread of the task ledger.
InLedger(e) == \E k \in WorkThreads : e \in tasks[k].ids

\* The cursor never passes an event that was not acknowledged as received.
CursorBehindReceived == \A e \in Ids : e <= cursor => e \in received

\* finalize_complete's promise: an event behind the cursor is in the task
\* ledger until a completion reply that speaks for it is on the bus.
AnsweredBeforeForgotten ==
    \A e \in Ids :
        e <= cursor /\ Kind[e] = "work" => e \in answered \/ InLedger(e)

\* "applied" is evidence: only events received and spoken for by a completion
\* reply on the bus are ever acknowledged as applied.
AppliedMeansAnswered == applied \subseteq received \cap answered

\* Acknowledgements and cursor are evidence of what happened to an event.
AcksAreEvidence == CursorBehindReceived /\ AppliedMeansAnswered

\* What the comment in set_status says: a task is forgotten only after the
\* applied acknowledgement was attempted, so that a failure does not lose it.
NothingForgotten ==
    \A e \in Ids :
        e <= cursor /\ Kind[e] = "work" =>
            e \in applied \/ InLedger(e) \/ (pc = "ack" /\ e \in to_ack)

\* What docs/PROTOCOL.md says: once an event has its final reply, redelivery
\* cannot add another one.
FinalReplyOnce ==
    [][\A e \in Ids :
          (\E r \in replies : r.event = e /\ r.status \in {"complete", "reply"}) =>
              {r \in replies' : r.event = e} = {r \in replies : r.event = e}]_vars

\* Every event is eventually received, and then left behind by the cursor or
\* applied, however often calls fail and the process dies.
EveryEventHandled ==
    \A e \in Ids :
        e <= published ~> e \in received /\ (e <= cursor \/ e \in applied)

\* A thread whose work is complete does not stay in the task ledger for ever.
CompletedThreadsLeave ==
    \A k \in WorkThreads :
        tasks[k].status = "complete" ~> tasks[k].status # "complete"
=============================================================================
