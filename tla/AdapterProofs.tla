----------------------------- MODULE AdapterProofs -----------------------------
(***************************************************************************)
(* Proofs about Adapter, for any number of events, page size, threads of   *)
(* work and both kinds of handler.                                         *)
(***************************************************************************)
EXTENDS Adapter, FiniteSetTheorems, TLAPS

\* The process is handling the event cur.
Processing == {"handle", "model", "reply", "finalize", "ack", "error"}

\* A thread in the task ledger remembers one of its own events; the threads
\* retry_due has still to run are in the ledger; a handler with no ledger never
\* retries.
TasksInv ==
    /\ \A k \in WorkThreads : tasks[k].status # "none" =>
          tasks[k].latest \in Ids /\ ThreadOf[tasks[k].latest] = k
    /\ pc \in Processing => cur \in Ids
    /\ pc \in {"model", "reply"} /\ Mode = "openclaw" => tasks[Key].status # "none"
    /\ pc = "due" => \A k \in due : tasks[k].status # "none"
    /\ pc \in Processing /\ retry = "yes" =>
          Key \notin due /\ \A k \in due : tasks[k].status # "none"
    /\ Mode = "chat" => due = {} /\ retry = "no"
    /\ pc = "handle" => retry = "no"
    /\ pc \in {"reply", "finalize"} => outcome \in Outcomes
    /\ pc = "reply" /\ Mode = "chat" => outcome = "complete"

\* The thread of an event is one of the threads of work.
LEMMA KeyOK == cur \in Ids => Key \in WorkThreads
BY AdapterAssumption DEF Key

\* Every step keeps the types of the bus.
LEMMA BusStep == TypeOK /\ TasksInv /\ Next => BusOK'
<1> SUFFICES ASSUME TypeOK, TasksInv, Next PROVE BusOK'
  OBVIOUS
<1>0. BusOK /\ MaxId \in Nat
  BY AdapterAssumption DEF TypeOK
<1>1. CASE UNCHANGED bus
  BY <1>0, <1>1 DEF BusOK, bus
<1>2. CASE Publish
  BY <1>0, <1>2 DEF BusOK, Publish
<1>3. ASSUME NEW e \in Ids, AckReceived(e) \/ AckReceivedFails(e) PROVE BusOK'
  BY <1>0, <1>3 DEF BusOK, AckReceived, AckReceivedFails, TakeNext
<1>4. ASSUME NEW e \in Ids, AckApplied(e) \/ AckAppliedFails(e) PROVE BusOK'
  BY <1>0, <1>4 DEF BusOK, AckApplied, AckAppliedFails
<1>5. CASE ReportError
  <2>1. cur \in Ids
    BY <1>5 DEF ReportError, TasksInv, Processing
  <2> QED
    BY <1>0, <1>5, <2>1 DEF BusOK, ReportError
<1>6. ASSUME pc = "reply", StoreReply, UNCHANGED <<published, received, applied>>
      PROVE  BusOK'
  <2>1. cur \in Ids /\ outcome \in Outcomes /\ attempt \in Nat
    BY <1>6 DEF TasksInv, Processing, TypeOK, ProcessOK
  <2>2. ThreadIds \subseteq Ids
    BY <2>1, KeyOK DEF ThreadIds, TypeOK, FilesOK, Task
  <2>3. ReplyId \in [event : Ids, status : Outcomes \cup {"reply"}, attempt : Nat]
    BY <2>1 DEF ReplyId
  <2> QED
    BY <1>0, <1>6, <2>2, <2>3 DEF BusOK, StoreReply
<1>7. CASE SendReply \/ SendReplyFails
  BY <1>1, <1>6, <1>7 DEF SendReply, SendReplyFails, bus
<1> QED
  BY <1>1, <1>2, <1>3, <1>4, <1>5, <1>7
     DEF Next, Works, Fails, Poll, Handle, ModelAnswers, ModelFails, Finalize, Done,
         StartRetries, RetryThread, RetriesDone, Ripen, Crash

\* Every step keeps the types of the files.
LEMMA FilesStep == TypeOK /\ TasksInv /\ Next => FilesOK'
<1> SUFFICES ASSUME TypeOK, TasksInv, Next PROVE FilesOK'
  OBVIOUS
<1>0. FilesOK /\ MaxId \in Nat
  BY AdapterAssumption DEF TypeOK
<1>1. CASE UNCHANGED files
  BY <1>0, <1>1 DEF FilesOK, files
<1>2. CASE Handle
  <2>1. cur \in Ids /\ Key \in WorkThreads
    BY <1>2, KeyOK DEF Handle, TasksInv, Processing
  <2>2. [ids |-> tasks[Key].ids \cup {cur}, status |-> "active", latest |-> cur,
         retries |-> 0] \in Task
    BY <1>0, <2>1 DEF FilesOK, Task, Ids
  <2> QED
    BY <1>0, <1>2, <2>1, <2>2 DEF FilesOK, Handle
<1>3. ASSUME NEW o \in Outcomes, ModelAnswers(o) PROVE FilesOK'
  <2>1. cur \in Ids /\ Key \in WorkThreads
    BY <1>3, KeyOK DEF ModelAnswers, TasksInv, Processing
  <2> QED
    BY <1>0, <1>3, <2>1 DEF FilesOK, ModelAnswers, Task
<1>4. CASE Finalize
  <2>1. NoTask \in Task
    BY <1>0 DEF NoTask, Task
  <2> QED
    BY <1>0, <1>4, <2>1 DEF FilesOK, Finalize
<1>5. CASE Done
  BY <1>0, <1>5 DEF FilesOK, Done, TypeOK, ProcessOK
<1>6. ASSUME NEW k \in WorkThreads, Ripen(k) PROVE FilesOK'
  BY <1>0, <1>6 DEF FilesOK, Ripen
<1> QED
  BY <1>1, <1>2, <1>3, <1>4, <1>5, <1>6
     DEF Next, Works, Fails, Publish, Poll, AckReceived, AckReceivedFails, TakeNext,
         ModelFails, SendReply, SendReplyFails, AckApplied, AckAppliedFails, ReportError,
         StartRetries, RetryThread, RetriesDone, Crash

\* Every step keeps the types of the process's own state.
LEMMA ProcessStep == TypeOK /\ TasksInv /\ Next => ProcessOK'
<1> SUFFICES ASSUME TypeOK, TasksInv, Next PROVE ProcessOK'
  OBVIOUS
<1>0. ProcessOK /\ MaxId \in Nat
  BY AdapterAssumption DEF TypeOK
<1>1. CASE UNCHANGED process
  BY <1>0, <1>1 DEF ProcessOK, process
<1>2. CASE Poll
  <2>1. Pending \subseteq Ids
    BY <1>0 DEF Pending, Ids, TypeOK, BusOK, FilesOK
  <2> QED
    BY <1>0, <1>2, <2>1 DEF ProcessOK, Poll
<1>3. ASSUME NEW e \in Ids, AckReceived(e) \/ AckReceivedFails(e) PROVE ProcessOK'
  <2>1. e \in 0..MaxId
    BY <1>0 DEF Ids
  <2> QED
    BY <1>0, <1>3, <2>1 DEF ProcessOK, AckReceived, AckReceivedFails, TakeNext
<1>4. CASE Handle
  BY <1>0, <1>4 DEF ProcessOK, Handle
<1>5. ASSUME NEW o \in Outcomes, ModelAnswers(o) PROVE ProcessOK'
  <2>1. cur \in Ids /\ Key \in WorkThreads
    BY <1>5, KeyOK DEF ModelAnswers, TasksInv, Processing
  <2>2. tasks[Key].retries \in Nat
    BY <2>1 DEF TypeOK, FilesOK, Task
  <2> QED
    BY <1>0, <1>5, <2>2 DEF ProcessOK, ModelAnswers
<1>6. CASE SendReply
  <2>1. cur \in Ids /\ Key \in WorkThreads
    BY <1>6, KeyOK DEF SendReply, TasksInv, Processing
  <2>2. ThreadIds \subseteq Ids
    BY <2>1 DEF ThreadIds, TypeOK, FilesOK, Task
  <2> QED
    BY <1>0, <1>6, <2>2 DEF ProcessOK, SendReply
<1>7. CASE SendReplyFails \/ ModelFails \/ Finalize \/ ReportError \/ Crash
  BY <1>0, <1>7 DEF ProcessOK, SendReplyFails, ModelFails, Raised, Finalize, ReportError, Crash
<1>8. ASSUME NEW e \in Ids, AckApplied(e) \/ AckAppliedFails(e) PROVE ProcessOK'
  BY <1>0, <1>8 DEF ProcessOK, AckApplied, AckAppliedFails
<1>9. CASE Done \/ StartRetries \/ RetriesDone
  BY <1>0, <1>9 DEF ProcessOK, Done, StartRetries, RetriesDone, TypeOK, FilesOK
<1>10. ASSUME NEW k \in WorkThreads, RetryThread(k) PROVE ProcessOK'
  <2>1. tasks[k].latest \in 0..MaxId
    BY DEF TypeOK, FilesOK, Task
  <2> QED
    BY <1>0, <1>10, <2>1 DEF ProcessOK, RetryThread
<1> QED
  BY <1>1, <1>2, <1>3, <1>4, <1>5, <1>6, <1>7, <1>8, <1>9, <1>10
     DEF Next, Works, Fails, Publish, Ripen

\* Every step keeps the task ledger in order.
LEMMA TasksStep == TypeOK /\ TasksInv /\ Next => TasksInv'
<1> SUFFICES ASSUME TypeOK, TasksInv, Next PROVE TasksInv'
  OBVIOUS
<1>0. FilesOK /\ ProcessOK
  BY DEF TypeOK
<1>1. CASE UNCHANGED tasks /\ UNCHANGED process
  BY <1>1 DEF TasksInv, process, Key
<1>2. CASE Poll \/ ReportError \/ RetriesDone \/ Crash
  BY <1>2 DEF TasksInv, Processing, Poll, ReportError, RetriesDone, Crash, files
<1>3. ASSUME NEW e \in Ids, AckReceived(e) \/ AckReceivedFails(e) PROVE TasksInv'
  BY <1>3 DEF TasksInv, Processing, AckReceived, AckReceivedFails, TakeNext, files, Key
<1>4. CASE Handle
  <2>1. cur \in Ids /\ Key \in WorkThreads /\ Key' = Key
    BY <1>4, KeyOK DEF Handle, TasksInv, Processing, Key
  <2>2. CASE UNCHANGED tasks /\ (pc' = "model" => Mode = "chat")
    BY <1>4, <2>1, <2>2 DEF TasksInv, Processing, Handle
  <2>3. CASE Kind[cur] = "work" /\ Mode = "openclaw"
    <3>1. tasks' = [tasks EXCEPT ![Key] = [ids |-> @.ids \cup {cur}, status |-> "active",
                                           latest |-> cur, retries |-> 0]]
      BY <1>4, <2>3, AdapterAssumption, <2>1 DEF Handle
    <3>2. /\ tasks'[Key].status = "active" /\ tasks'[Key].latest = cur
          /\ \A k \in WorkThreads \ {Key} : tasks'[k] = tasks[k]
      BY <1>0, <2>1, <3>1 DEF FilesOK
    <3> QED
      BY <1>0, <1>4, <2>1, <3>2 DEF TasksInv, Processing, Handle, Key, ProcessOK
  <2> QED
    BY <1>4, <2>2, <2>3, AdapterAssumption DEF Handle
<1>5. ASSUME NEW o \in Outcomes, ModelAnswers(o) PROVE TasksInv'
  <2>1. cur \in Ids /\ Key \in WorkThreads /\ Key' = Key /\ o # "none" /\ outcome' = o
    BY <1>5, KeyOK DEF ModelAnswers, TasksInv, Processing, Key, Outcomes
  <2>2. CASE UNCHANGED tasks
    BY <1>5, <2>1, <2>2 DEF TasksInv, Processing, ModelAnswers
  <2>3. CASE Mode = "openclaw"
    <3>1. \A k \in WorkThreads : /\ tasks'[k].latest = tasks[k].latest
                                 /\ k # Key => tasks'[k].status = tasks[k].status
                                 /\ k = Key => tasks'[k].status = o
      BY <1>0, <1>5, <2>1, <2>3 DEF ModelAnswers, FilesOK, Task
    <3> QED
      BY <1>0, <1>5, <2>1, <2>3, <3>1 DEF TasksInv, Processing, ModelAnswers, ProcessOK
  <2> QED
    BY <1>5, <2>2, <2>3 DEF ModelAnswers
<1>6. CASE ModelFails \/ SendReplyFails
  BY <1>6 DEF TasksInv, Processing, ModelFails, SendReplyFails, Raised, files, Key
<1>7. CASE SendReply
  BY <1>7 DEF TasksInv, Processing, SendReply, files, Key
<1>8. CASE Finalize
  <2>1. cur \in Ids /\ Key \in WorkThreads /\ Key' = Key
    BY <1>8, KeyOK DEF Finalize, TasksInv, Processing, Key
  <2>2. \A k \in WorkThreads : k # Key => tasks'[k] = tasks[k]
    BY <1>0, <1>8 DEF Finalize, FilesOK
  <2>3. tasks'[Key].status = "none" \/ UNCHANGED tasks
    BY <1>0, <1>8, <2>1 DEF Finalize, FilesOK, NoTask
  <2> QED
    BY <1>0, <1>8, <2>1, <2>2, <2>3 DEF TasksInv, Processing, Finalize, ProcessOK
<1>9. ASSUME NEW e \in Ids, AckApplied(e) \/ AckAppliedFails(e) PROVE TasksInv'
  BY <1>9 DEF TasksInv, Processing, AckApplied, AckAppliedFails, files, Key
<1>10. CASE Done
  BY <1>10 DEF TasksInv, Processing, Done, Key
<1>11. CASE StartRetries
  BY <1>11, AdapterAssumption DEF TasksInv, Processing, StartRetries, files, Key
<1>12. ASSUME NEW k \in WorkThreads, RetryThread(k) PROVE TasksInv'
  <2>1. tasks[k].status # "none" /\ cur' \in Ids /\ Key' = k /\ UNCHANGED tasks
    BY <1>12 DEF TasksInv, RetryThread, files, Key
  <2> QED
    BY <1>12, <2>1 DEF TasksInv, Processing, RetryThread
<1> QED
  BY <1>1, <1>2, <1>3, <1>4, <1>5, <1>6, <1>7, <1>8, <1>9, <1>10, <1>11, <1>12
     DEF Next, Works, Fails, Publish, Ripen, files

\* Types and task ledger hold in every behaviour.
LEMMA TypesAlways == Spec => [](TypeOK /\ TasksInv)
<1>1. Init => TypeOK /\ TasksInv
  BY AdapterAssumption DEF Init, TypeOK, BusOK, FilesOK, ProcessOK, TasksInv, Processing,
       NoTask, Task, Ids
<1>2. TypeOK /\ TasksInv /\ UNCHANGED vars => TypeOK' /\ TasksInv'
  BY DEF TypeOK, BusOK, FilesOK, ProcessOK, TasksInv, Key, vars
<1>3. TypeOK /\ TasksInv /\ Next => TypeOK' /\ TasksInv'
  BY BusStep, FilesStep, ProcessStep, TasksStep DEF TypeOK
<1> QED
  BY <1>1, <1>2, <1>3, PTL DEF Spec

\* Type correctness.
THEOREM TypeCorrect == Spec => []TypeOK
BY TypesAlways, PTL

-----------------------------------------------------------------------------
(* Acknowledgements are evidence *)

\* Only received events enter the ledger or a handler, and only received events
\* with a completion reply are waiting to be acknowledged as applied.
EvidenceInv ==
    /\ \A k \in WorkThreads : tasks[k].ids \subseteq received
    /\ pc \in Processing /\ retry = "no" => cur \in received
    /\ to_ack \subseteq received \cap answered
    /\ applied \subseteq received \cap answered

\* The events a reply is for were received.
LEMMA ThreadIdsReceived ==
  ASSUME TypeOK, TasksInv, EvidenceInv, pc \in {"reply", "finalize"}
  PROVE  ThreadIds \subseteq received
<1>1. cur \in Ids /\ Key \in WorkThreads
  BY KeyOK DEF TasksInv, Processing
<1>2. CASE Mode = "openclaw"
  BY <1>1, <1>2 DEF ThreadIds, EvidenceInv
<1>3. CASE Mode = "chat"
  BY <1>3 DEF ThreadIds, EvidenceInv, TasksInv, Processing
<1> QED
  BY <1>2, <1>3, AdapterAssumption

\* Every step keeps the evidence.
LEMMA EvidenceStep == TypeOK /\ TasksInv /\ EvidenceInv /\ Next => EvidenceInv'
<1> SUFFICES ASSUME TypeOK, TasksInv, EvidenceInv, Next PROVE EvidenceInv'
  OBVIOUS
<1>0. FilesOK
  BY DEF TypeOK
<1>1. CASE UNCHANGED <<received, applied, answered, tasks, pc, cur, retry, to_ack>>
  BY <1>1 DEF EvidenceInv
<1>2. CASE Poll \/ ReportError \/ RetriesDone \/ Crash
  BY <1>2 DEF EvidenceInv, Processing, Poll, ReportError, RetriesDone, Crash, bus, files
<1>3. ASSUME NEW e \in Ids, AckReceived(e) \/ AckReceivedFails(e) PROVE EvidenceInv'
  BY <1>3 DEF EvidenceInv, Processing, AckReceived, AckReceivedFails, TakeNext, files
<1>4. CASE Handle
  <2>1. cur \in Ids /\ Key \in WorkThreads
    BY <1>4, KeyOK DEF Handle, TasksInv, Processing
  <2>2. CASE UNCHANGED tasks
    BY <1>4, <2>2 DEF EvidenceInv, Processing, Handle, bus
  <2>3. CASE tasks' = [tasks EXCEPT ![Key] = [ids |-> @.ids \cup {cur}, status |-> "active",
                                              latest |-> cur, retries |-> 0]]
    <3>1. retry = "no" => cur \in received
      BY <1>4 DEF Handle, EvidenceInv, Processing
    <3>2. cur \in received
      BY <1>4, <3>1 DEF Handle, TasksInv, TypeOK, ProcessOK
    <3>3. \A k \in WorkThreads : tasks'[k].ids \subseteq received
      BY <1>0, <2>1, <2>3, <3>2 DEF EvidenceInv, FilesOK
    <3> QED
      BY <1>4, <3>3 DEF EvidenceInv, Processing, Handle, bus
  <2> QED
    BY <1>4, <2>2, <2>3 DEF Handle
<1>5. ASSUME NEW o \in Outcomes, ModelAnswers(o) PROVE EvidenceInv'
  <2>1. \A k \in WorkThreads : tasks'[k].ids = tasks[k].ids
    BY <1>0, <1>5 DEF ModelAnswers, FilesOK, Task
  <2> QED
    BY <1>5, <2>1 DEF EvidenceInv, Processing, ModelAnswers, bus
<1>6. CASE ModelFails
  BY <1>6 DEF EvidenceInv, Processing, ModelFails, Raised, bus, files
<1>7. CASE SendReply
  BY <1>7, ThreadIdsReceived DEF EvidenceInv, Processing, SendReply, StoreReply, files
<1>8. CASE SendReplyFails
  BY <1>8 DEF EvidenceInv, Processing, SendReplyFails, StoreReply, Raised, files
<1>9. CASE Finalize
  <2>1. \A k \in WorkThreads : tasks'[k].ids \subseteq tasks[k].ids
    BY <1>0, <1>9 DEF Finalize, FilesOK, NoTask
  <2> QED
    BY <1>9, <2>1 DEF EvidenceInv, Processing, Finalize, bus
<1>10. ASSUME NEW e \in Ids, AckApplied(e) \/ AckAppliedFails(e) PROVE EvidenceInv'
  BY <1>10 DEF EvidenceInv, Processing, AckApplied, AckAppliedFails, files
<1>11. CASE Done
  BY <1>11 DEF EvidenceInv, Processing, Done, bus
<1>12. CASE StartRetries
  BY <1>12 DEF EvidenceInv, Processing, StartRetries, bus, files
<1>13. ASSUME NEW k \in WorkThreads, RetryThread(k) PROVE EvidenceInv'
  BY <1>13 DEF EvidenceInv, Processing, RetryThread, bus, files
<1> QED
  BY <1>1, <1>2, <1>3, <1>4, <1>5, <1>6, <1>7, <1>8, <1>9, <1>10, <1>11, <1>12, <1>13
     DEF Next, Works, Fails, Publish, Ripen, files, process, bus

\* The evidence holds in every behaviour.
LEMMA EvidenceAlways == Spec => []EvidenceInv
<1>1. Init => EvidenceInv
  BY DEF Init, EvidenceInv, NoTask, Processing
<1>2. EvidenceInv /\ UNCHANGED vars => EvidenceInv'
  BY DEF EvidenceInv, vars
<1> QED
  BY <1>1, <1>2, EvidenceStep, TypesAlways, PTL DEF Spec

\* An "applied" acknowledgement on the bus always has behind it a "received" one and
\* a completion reply that was stored, whatever failed on the way.
LEMMA AppliedCorrect == Spec => []AppliedMeansAnswered
<1>1. EvidenceInv => AppliedMeansAnswered
  BY DEF EvidenceInv, AppliedMeansAnswered
<1> QED
  BY <1>1, EvidenceAlways, PTL

-----------------------------------------------------------------------------
(* The cursor *)

\* What the page still holds, the event at hand, the cursor and the applied events
\* leave no gap.
OrderInv ==
    /\ pc = "next" =>
          \A b \in batch, e \in Ids : e < b => e <= cursor \/ e \in applied \/ e \in batch
    /\ pc \in Processing /\ retry = "no" =>
          /\ \A e \in Ids : e < cur => e <= cursor \/ e \in applied
          /\ \A b \in batch, e \in Ids : e < b =>
                e <= cursor \/ e \in applied \/ e \in batch \/ e = cur
    /\ CursorBehindReceived

\* A page leaves out no event that is still open.
LEMMA PageClosed ==
  ASSUME TypeOK, Poll
  PROVE  \A b \in batch', e \in Ids : e < b => e <= cursor \/ e \in applied \/ e \in batch'
<1> SUFFICES ASSUME NEW b \in batch', NEW e \in Ids, e < b, ~(e <= cursor), e \notin applied
             PROVE  e \in batch'
  OBVIOUS
<1>1. /\ cursor \in Nat /\ published \in Nat /\ e \in Nat /\ b \in Nat
      /\ b \in Pending /\ e \in Pending
  BY AdapterAssumption DEF TypeOK, BusOK, FilesOK, Poll, Pending, Ids
<1> DEFINE Before(x) == {f \in Pending : f < x}
<1>2. IsFiniteSet(Before(b)) /\ Before(e) \subseteq Before(b)
  <2>1. IsFiniteSet((cursor + 1)..published)
    BY <1>1, FS_Interval
  <2>2. Before(b) \subseteq (cursor + 1)..published
    BY DEF Pending
  <2>3. Before(e) \subseteq Before(b)
    BY <1>1 DEF Pending
  <2> QED
    BY <2>1, <2>2, <2>3, FS_Subset
<1>3. /\ Cardinality(Before(e)) <= Cardinality(Before(b))
      /\ Cardinality(Before(e)) \in Nat /\ Cardinality(Before(b)) \in Nat
  BY <1>2, FS_Subset, FS_CardinalityType
<1>4. Cardinality(Before(b)) < PageSize
  BY DEF Poll
<1>5. Cardinality(Before(e)) < PageSize
  BY <1>3, <1>4, AdapterAssumption
<1> QED
  BY <1>1, <1>5 DEF Poll

\* Every step keeps the order.
LEMMA OrderStep == TypeOK /\ TasksInv /\ EvidenceInv /\ OrderInv /\ Next => OrderInv'
<1> SUFFICES ASSUME TypeOK, TasksInv, EvidenceInv, OrderInv, Next PROVE OrderInv'
  OBVIOUS
<1>0. /\ cursor \in Nat /\ cur \in Nat /\ batch \subseteq Ids /\ Ids \subseteq Nat
      /\ CursorBehindReceived
  BY AdapterAssumption DEF TypeOK, FilesOK, ProcessOK, Ids, OrderInv
<1>1. CASE UNCHANGED <<pc, batch, cur, retry, cursor, applied, received>>
  BY <1>1 DEF OrderInv, CursorBehindReceived
<1>2. CASE Poll
  BY <1>0, <1>2, PageClosed DEF OrderInv, Processing, Poll, CursorBehindReceived, bus, files
<1>3. CASE ReportError \/ RetriesDone \/ Crash
  BY <1>0, <1>3 DEF OrderInv, Processing, ReportError, RetriesDone, Crash,
       CursorBehindReceived, bus, files
<1>4. ASSUME NEW e \in Ids, AckReceived(e) \/ AckReceivedFails(e) PROVE OrderInv'
  <2>1. /\ pc = "next" /\ e \in batch /\ \A f \in batch : e <= f
        /\ cur' = e /\ batch' = batch \ {e} /\ UNCHANGED <<cursor, applied>>
        /\ received \subseteq received'
    BY <1>4 DEF AckReceived, AckReceivedFails, TakeNext, files
  <2>2. \A d \in Ids : d < e => d <= cursor \/ d \in applied
    BY <1>0, <2>1 DEF OrderInv
  <2>3. \A b \in batch', d \in Ids : d < b =>
           d <= cursor \/ d \in applied \/ d \in batch' \/ d = e
    BY <2>1 DEF OrderInv
  <2>4. CursorBehindReceived'
    BY <1>0, <2>1 DEF CursorBehindReceived
  <2>5. pc' # "next"
    BY <1>4 DEF AckReceived, AckReceivedFails
  <2> QED
    BY <2>1, <2>2, <2>3, <2>4, <2>5 DEF OrderInv
<1>5. CASE Handle
  BY <1>0, <1>5 DEF OrderInv, Processing, Handle, CursorBehindReceived, bus
<1>6. ASSUME NEW o \in Outcomes, ModelAnswers(o) PROVE OrderInv'
  BY <1>0, <1>6 DEF OrderInv, Processing, ModelAnswers, CursorBehindReceived, bus
<1>7. CASE ModelFails \/ SendReplyFails
  BY <1>0, <1>7 DEF OrderInv, Processing, ModelFails, SendReplyFails, Raised,
       CursorBehindReceived, bus, files
<1>8. CASE SendReply
  BY <1>0, <1>8 DEF OrderInv, Processing, SendReply, CursorBehindReceived, files
<1>9. CASE Finalize
  BY <1>0, <1>9 DEF OrderInv, Processing, Finalize, CursorBehindReceived, bus
<1>10. ASSUME NEW e \in Ids, AckApplied(e) \/ AckAppliedFails(e) PROVE OrderInv'
  BY <1>0, <1>10 DEF OrderInv, Processing, AckApplied, AckAppliedFails,
       CursorBehindReceived, files
<1>11. CASE Done
  <2>1. CASE retry = "yes"
    BY <1>0, <1>11, <2>1 DEF OrderInv, Processing, Done, CursorBehindReceived, bus
  <2>2. CASE retry # "yes"
    <3>1. /\ pc' = "next" /\ UNCHANGED <<batch, applied, received>>
          /\ cursor' \in Nat /\ cursor <= cursor' /\ cur <= cursor'
          /\ cursor' = cursor \/ cursor' = cur
      BY <1>0, <1>11, <2>2 DEF Done, bus
    <3>2. /\ cur \in received
          /\ \A e \in Ids : e < cur => e <= cursor \/ e \in applied
          /\ \A b \in batch, e \in Ids : e < b =>
                e <= cursor \/ e \in applied \/ e \in batch \/ e = cur
          /\ applied \subseteq received
      BY <1>11, <2>2 DEF OrderInv, EvidenceInv, Processing, Done, TypeOK, ProcessOK
    <3>3. \A b \in batch', e \in Ids : e < b =>
             e <= cursor' \/ e \in applied' \/ e \in batch'
      BY <1>0, <3>1, <3>2
    <3>4. CursorBehindReceived'
      BY <1>0, <3>1, <3>2 DEF CursorBehindReceived
    <3> QED
      BY <3>1, <3>3, <3>4 DEF OrderInv, Processing
  <2> QED
    BY <2>1, <2>2
<1>12. CASE StartRetries
  BY <1>0, <1>12 DEF OrderInv, Processing, StartRetries, CursorBehindReceived, bus, files
<1>13. ASSUME NEW k \in WorkThreads, RetryThread(k) PROVE OrderInv'
  BY <1>0, <1>13 DEF OrderInv, Processing, RetryThread, CursorBehindReceived, bus, files
<1> QED
  BY <1>1, <1>2, <1>3, <1>4, <1>5, <1>6, <1>7, <1>8, <1>9, <1>10, <1>11, <1>12, <1>13
     DEF Next, Works, Fails, Publish, Ripen, files, process, bus

\* The order holds in every behaviour.
LEMMA OrderAlways == Spec => []OrderInv
<1>1. Init => OrderInv
  BY AdapterAssumption DEF Init, OrderInv, Processing, CursorBehindReceived, Ids
<1>2. OrderInv /\ UNCHANGED vars => OrderInv'
  BY DEF OrderInv, CursorBehindReceived, vars
<1> QED
  BY <1>1, <1>2, OrderStep, TypesAlways, EvidenceAlways, PTL DEF Spec

\* The cursor never runs ahead of the received acknowledgements: an event the agent
\* was not told about is fetched again.
LEMMA CursorCorrect == Spec => []CursorBehindReceived
<1>1. OrderInv => CursorBehindReceived
  BY DEF OrderInv
<1> QED
  BY <1>1, OrderAlways, PTL

\* Acknowledgements and cursor can be trusted: what the cursor has passed was
\* received, and what is acknowledged as applied was received and answered, in every
\* mode and whatever fails.
THEOREM EvidenceCorrect == Spec => []AcksAreEvidence
<1>1. CursorBehindReceived /\ AppliedMeansAnswered => AcksAreEvidence
  BY DEF AcksAreEvidence
<1> QED
  BY <1>1, CursorCorrect, AppliedCorrect, PTL

-----------------------------------------------------------------------------
(* Nothing is forgotten before it is answered *)

\* The event is answered or on record.
Owed(e) == e \in answered \/ InLedger(e)

\* The event at hand is in its thread until the completion reply is stored, and what
\* finalize_complete is about to forget has been answered.
ForgetInv ==
    /\ AnsweredBeforeForgotten
    /\ pc \in {"model", "reply", "finalize"} /\ retry = "no" /\ Mode = "openclaw" =>
          cur \in tasks[Key].ids
    /\ pc = "finalize" => ThreadIds \subseteq answered
    /\ pc = "ack" /\ retry = "no" /\ Kind[cur] = "work" => Owed(cur)

\* As long as no thread loses an event that was not answered, no event is.
LEMMA OwedKept ==
  ASSUME NEW e, Owed(e), answered \subseteq answered',
         \A k \in WorkThreads : tasks[k].ids \subseteq tasks'[k].ids \cup answered'
  PROVE  Owed(e)'
BY DEF Owed, InLedger

\* With the cursor in place, nothing on record is lost.
LEMMA ForgottenKept ==
  ASSUME AnsweredBeforeForgotten, answered \subseteq answered', cursor' = cursor,
         \A k \in WorkThreads : tasks[k].ids \subseteq tasks'[k].ids \cup answered'
  PROVE  AnsweredBeforeForgotten'
<1> SUFFICES ASSUME NEW e \in Ids, e <= cursor', Kind[e] = "work" PROVE Owed(e)'
  BY DEF AnsweredBeforeForgotten, Owed, InLedger
<1>1. Owed(e)
  BY DEF AnsweredBeforeForgotten, Owed
<1> QED
  BY <1>1, OwedKept

\* Every step keeps the record of the open events.
LEMMA ForgetStep ==
  TypeOK /\ TasksInv /\ EvidenceInv /\ OrderInv /\ ForgetInv /\ Next => ForgetInv'
<1> SUFFICES ASSUME TypeOK, TasksInv, EvidenceInv, OrderInv, ForgetInv, Next PROVE ForgetInv'
  OBVIOUS
<1>0. FilesOK /\ ProcessOK /\ AnsweredBeforeForgotten
  BY DEF TypeOK, ForgetInv
<1>1. CASE UNCHANGED <<answered, cursor, tasks, pc, cur, retry>>
  BY <1>0, <1>1, ForgottenKept DEF ForgetInv, Owed, InLedger, ThreadIds, Key
<1>2. ASSUME UNCHANGED <<answered, cursor, tasks>>,
             pc' \in {"poll", "next", "handle", "error", "due"}
      PROVE  ForgetInv'
  BY <1>0, <1>2, ForgottenKept DEF ForgetInv
<1>3. CASE Poll \/ ReportError \/ RetriesDone \/ Crash \/ ModelFails \/ StartRetries
  BY <1>2, <1>3 DEF Poll, ReportError, RetriesDone, Crash, ModelFails, Raised, StartRetries,
       bus, files
<1>4. ASSUME NEW e \in Ids, AckReceived(e) \/ AckReceivedFails(e) PROVE ForgetInv'
  BY <1>2, <1>4 DEF AckReceived, AckReceivedFails, TakeNext, files
<1>5. CASE Handle
  <2>1. cur \in Ids /\ Key \in WorkThreads /\ Key' = Key
    BY <1>5, KeyOK DEF Handle, TasksInv, Processing, Key
  <2>2. CASE Kind[cur] # "work"
    <3>1. UNCHANGED <<answered, cursor, tasks, cur>> /\ pc' \in {"ack", "error"}
      BY <1>5, <2>2 DEF Handle, bus
    <3> QED
      BY <1>0, <2>2, <3>1, ForgottenKept DEF ForgetInv
  <2>3. CASE Kind[cur] = "work"
    <3>1. UNCHANGED <<answered, cursor, cur, retry>> /\ pc' = "model"
      BY <1>5, <2>3 DEF Handle, bus
    <3>2. /\ \A k \in WorkThreads : tasks[k].ids \subseteq tasks'[k].ids
          /\ Mode = "openclaw" => cur \in tasks'[Key].ids
      BY <1>0, <1>5, <2>1, <2>3 DEF Handle, FilesOK
    <3> QED
      BY <1>0, <2>1, <3>1, <3>2, ForgottenKept DEF ForgetInv
  <2> QED
    BY <2>2, <2>3
<1>6. ASSUME NEW o \in Outcomes, ModelAnswers(o) PROVE ForgetInv'
  <2>1. \A k \in WorkThreads : tasks'[k].ids = tasks[k].ids
    BY <1>0, <1>6 DEF ModelAnswers, FilesOK, Task
  <2>2. cur \in Ids /\ Key \in WorkThreads /\ Key' = Key
    BY <1>6, KeyOK DEF ModelAnswers, TasksInv, Processing, Key
  <2>3. UNCHANGED <<answered, cursor, cur, retry>> /\ pc' \in {"due", "reply"} /\ pc = "model"
    BY <1>6 DEF ModelAnswers, bus
  <2> QED
    BY <1>0, <2>1, <2>2, <2>3, ForgottenKept DEF ForgetInv
<1>7. CASE SendReplyFails
  <2>1. answered \subseteq answered' /\ UNCHANGED <<cursor, tasks>> /\ pc' \in {"poll", "error"}
    BY <1>7 DEF SendReplyFails, StoreReply, Raised, files
  <2> QED
    BY <1>0, <2>1, ForgottenKept DEF ForgetInv
<1>8. CASE SendReply
  <2>1. /\ answered \subseteq answered' /\ UNCHANGED <<cursor, tasks, cur, retry>>
        /\ pc = "reply"
    BY <1>8 DEF SendReply, StoreReply, files
  <2>2. Key' = Key /\ ThreadIds' = ThreadIds
    BY <2>1 DEF Key, ThreadIds
  <2>3. CASE outcome = "complete"
    <3>1. pc' = "finalize" /\ ThreadIds \subseteq answered'
      BY <1>8, <2>3 DEF SendReply, StoreReply
    <3> QED
      BY <1>0, <2>1, <2>2, <3>1, ForgottenKept DEF ForgetInv
  <2>4. CASE outcome # "complete"
    <3>1. pc' \in {"due", "ack"} /\ Mode = "openclaw"
      BY <1>8, <2>1, <2>4, AdapterAssumption DEF SendReply, TasksInv
    <3>2. ASSUME retry = "no" PROVE InLedger(cur)
      <4>1. Key \in WorkThreads
        BY <2>1, KeyOK DEF TasksInv, Processing
      <4> QED
        BY <2>1, <3>1, <3>2, <4>1 DEF ForgetInv, InLedger
    <3>3. retry = "no" => Owed(cur)'
      BY <2>1, <3>2 DEF InLedger, Owed
    <3> QED
      BY <1>0, <2>1, <3>1, <3>3, ForgottenKept DEF ForgetInv
  <2> QED
    BY <2>3, <2>4
<1>9. CASE Finalize
  <2>1. cur \in Ids /\ Key \in WorkThreads
    BY <1>9, KeyOK DEF Finalize, TasksInv, Processing
  <2>2. UNCHANGED <<answered, cursor, cur, retry>> /\ pc' = "ack" /\ ThreadIds \subseteq answered
    BY <1>9 DEF Finalize, bus, ForgetInv
  <2>3. \A k \in WorkThreads : tasks[k].ids \subseteq tasks'[k].ids \cup answered'
    <3>1. CASE Mode = "openclaw"
      <4>1. tasks[Key].ids \subseteq answered'
        BY <2>2, <3>1 DEF ThreadIds
      <4>2. \A k \in WorkThreads \ {Key} : tasks'[k] = tasks[k]
        BY <1>0, <1>9 DEF Finalize, FilesOK
      <4> QED
        BY <4>1, <4>2
    <3>2. CASE Mode # "openclaw"
      BY <1>9, <3>2 DEF Finalize
    <3> QED
      BY <3>1, <3>2
  <2>4. retry = "no" => cur \in answered
    BY <1>9, <2>2, AdapterAssumption DEF Finalize, ForgetInv, ThreadIds
  <2> QED
    BY <1>0, <2>2, <2>3, <2>4, ForgottenKept DEF ForgetInv, Owed
<1>10. ASSUME NEW e \in Ids, AckApplied(e) PROVE ForgetInv'
  BY <1>1, <1>10 DEF AckApplied, files
<1>11. ASSUME NEW e \in Ids, AckAppliedFails(e) PROVE ForgetInv'
  BY <1>2, <1>11 DEF AckAppliedFails, files
<1>12. CASE Done
  <2>1. UNCHANGED <<answered, tasks, cur>> /\ pc' \in {"due", "next"} /\ pc = "ack"
    BY <1>12 DEF Done, bus
  <2>2. CASE cursor' = cursor
    BY <1>2, <2>1, <2>2
  <2>3. CASE cursor' # cursor
    <3>1. retry = "no" /\ cursor' = cur
      BY <1>0, <1>12, <2>3 DEF Done, ProcessOK
    <3>2. \A e \in Ids : e < cur => e <= cursor \/ e \in applied
      BY <2>1, <3>1 DEF OrderInv, Processing
    <3>3. ASSUME NEW e \in Ids, e <= cursor', Kind[e] = "work" PROVE Owed(e)
      <4>1. e < cur \/ e = cur
        BY <1>0, <3>1, <3>3, AdapterAssumption DEF ProcessOK, Ids
      <4>2. CASE e = cur
        BY <2>1, <3>1, <3>3, <4>2 DEF ForgetInv
      <4>3. CASE e \in applied
        BY <4>3 DEF EvidenceInv, Owed
      <4>4. CASE e <= cursor
        BY <1>0, <3>3, <4>4 DEF AnsweredBeforeForgotten, Owed
      <4> QED
        BY <3>2, <4>1, <4>2, <4>3, <4>4
    <3>4. AnsweredBeforeForgotten'
      BY <2>1, <3>3 DEF AnsweredBeforeForgotten, Owed, InLedger
    <3> QED
      BY <2>1, <3>4 DEF ForgetInv
  <2> QED
    BY <2>2, <2>3
<1>13. ASSUME NEW k \in WorkThreads, RetryThread(k) PROVE ForgetInv'
  <2>1. UNCHANGED <<answered, cursor, tasks>> /\ pc' = "model" /\ retry' = "yes"
    BY <1>13 DEF RetryThread, bus, files
  <2> QED
    BY <1>0, <2>1, ForgottenKept DEF ForgetInv
<1> QED
  BY <1>1, <1>3, <1>4, <1>5, <1>6, <1>7, <1>8, <1>9, <1>10, <1>11, <1>12, <1>13
     DEF Next, Works, Fails, Publish, Ripen, files, process, bus

\* An event behind the cursor is in the task ledger until a completion reply that
\* speaks for it is stored: neither a crash between any two steps nor a reply that is
\* lost makes the adapter forget work it has not answered (finalize_complete).
THEOREM ForgetCorrect == Spec => []AnsweredBeforeForgotten
<1>1. Init => ForgetInv
  BY AdapterAssumption DEF Init, ForgetInv, AnsweredBeforeForgotten, Ids
<1>2. ForgetInv /\ UNCHANGED vars => ForgetInv'
  BY DEF ForgetInv, AnsweredBeforeForgotten, Owed, InLedger, ThreadIds, Key, vars
<1>3. ForgetInv => AnsweredBeforeForgotten
  BY DEF ForgetInv
<1> QED
  BY <1>1, <1>2, <1>3, ForgetStep, TypesAlways, EvidenceAlways, OrderAlways, PTL DEF Spec

-----------------------------------------------------------------------------
(* A handler without a task ledger *)

\* The event at hand is applied, or about to be, before the cursor may pass it; and
\* there is one reply id to an event.
ChatInv ==
    /\ \A e \in Ids : e <= cursor /\ Kind[e] = "work" => e \in applied
    /\ pc = "finalize" => to_ack = {cur}
    /\ pc = "ack" /\ Kind[cur] = "work" => cur \in applied \cup to_ack
    /\ \A r \in replies : r = [event |-> r.event, status |-> "reply", attempt |-> 0]

\* Every step of a chat handler keeps its invariant.
LEMMA ChatStep ==
  ASSUME Mode = "chat", TypeOK, TasksInv, OrderInv, ChatInv, Next
  PROVE  ChatInv'
<1> DEFINE Behind == \A e \in Ids : e <= cursor /\ Kind[e] = "work" => e \in applied
           OneId == \A r \in replies : r = [event |-> r.event, status |-> "reply", attempt |-> 0]
<1>0. Behind /\ OneId /\ retry = "no"
  BY DEF ChatInv, TasksInv, TypeOK, ProcessOK
<1>1. CASE UNCHANGED <<applied, replies, cursor, pc, cur, to_ack>>
  BY <1>1 DEF ChatInv
<1>2. ASSUME UNCHANGED <<replies, cursor>>, applied \subseteq applied',
             pc' \notin {"finalize", "ack"}
      PROVE  ChatInv'
  BY <1>0, <1>2 DEF ChatInv
<1>3. CASE Poll \/ ReportError \/ RetriesDone \/ Crash \/ ModelFails \/ StartRetries
  BY <1>2, <1>3 DEF Poll, ReportError, RetriesDone, Crash, ModelFails, Raised, StartRetries, bus, files
<1>4. ASSUME NEW e \in Ids, AckReceived(e) \/ AckReceivedFails(e) PROVE ChatInv'
  BY <1>2, <1>4 DEF AckReceived, AckReceivedFails, TakeNext, files
<1>5. CASE Handle
  BY <1>0, <1>5 DEF Handle, ChatInv, bus
<1>6. ASSUME NEW o \in Outcomes, ModelAnswers(o) PROVE ChatInv'
  BY <1>2, <1>6 DEF ModelAnswers, bus
<1>7. ASSUME StoreReply PROVE OneId'
  <2>1. replies' = replies \cup {[event |-> cur, status |-> "reply", attempt |-> 0]}
    BY <1>7 DEF StoreReply, ReplyId
  <2> QED
    BY <1>0, <2>1
<1>8. CASE SendReply
  <2>1. pc' = "finalize" /\ to_ack' = {cur} /\ UNCHANGED <<cursor, applied, cur>>
    BY <1>8 DEF SendReply, TasksInv, ThreadIds, files
  <2> QED
    BY <1>0, <1>7, <1>8, <2>1 DEF SendReply, ChatInv
<1>9. CASE SendReplyFails
  <2>1. OneId'
    BY <1>0, <1>7, <1>9 DEF SendReplyFails
  <2> QED
    BY <1>0, <1>9, <2>1 DEF SendReplyFails, Raised, ChatInv, files
<1>10. CASE Finalize
  BY <1>0, <1>10 DEF Finalize, ChatInv, bus
<1>11. ASSUME NEW e \in Ids, AckApplied(e) \/ AckAppliedFails(e) PROVE ChatInv'
  BY <1>0, <1>11 DEF AckApplied, AckAppliedFails, ChatInv, files
<1>12. CASE Done
  <2>1. /\ pc = "ack" /\ pc' = "next" /\ to_ack = {} /\ UNCHANGED <<applied, replies>>
        /\ cursor' = cursor \/ cursor' = cur
    BY <1>0, <1>12 DEF Done, bus
  <2>2. /\ \A e \in Ids : e < cur => e <= cursor \/ e \in applied
        /\ Kind[cur] = "work" => cur \in applied
    BY <1>0, <2>1 DEF OrderInv, Processing, ChatInv
  <2>3. cur \in Nat /\ \A e \in Ids : e \in Nat
    BY AdapterAssumption DEF TypeOK, ProcessOK, Ids
  <2>4. Behind'
    BY <1>0, <2>1, <2>2, <2>3
  <2> QED
    BY <1>0, <2>1, <2>4 DEF ChatInv
<1>13. ASSUME NEW k \in WorkThreads, RetryThread(k) PROVE ChatInv'
  BY <1>2, <1>13 DEF RetryThread, bus, files
<1> QED
  BY <1>1, <1>3, <1>4, <1>5, <1>6, <1>8, <1>9, <1>10, <1>11, <1>12, <1>13
     DEF Next, Works, Fails, Publish, Ripen, files, process, bus

\* The invariant of a chat handler holds in every behaviour.
LEMMA ChatAlways == ASSUME Mode = "chat" PROVE Spec => []ChatInv
<1>1. Init => ChatInv
  BY AdapterAssumption DEF Init, ChatInv, Ids
<1>2. ChatInv /\ UNCHANGED vars => ChatInv'
  BY DEF ChatInv, vars
<1>3. TypeOK /\ TasksInv /\ OrderInv /\ ChatInv /\ Next => ChatInv'
  BY ChatStep
<1> QED
  BY <1>1, <1>2, <1>3, TypesAlways, OrderAlways, PTL DEF Spec

\* A handler that keeps no task ledger loses nothing either: the cursor passes an event
\* only after it was acknowledged as applied.  (With the ledger of openclaw it is not so:
\* finalize_complete forgets the thread first.)
THEOREM ChatForgetsNothing == ASSUME Mode = "chat" PROVE Spec => []NothingForgotten
<1>1. ChatInv => NothingForgotten
  BY DEF ChatInv, NothingForgotten
<1> QED
  BY <1>1, ChatAlways, PTL

\* Redelivery cannot add a second reply to an event, whatever was lost and however often
\* the process died: the reply's id derives from the event's.
THEOREM ChatRepliesOnce == ASSUME Mode = "chat" PROVE Spec => FinalReplyOnce
<1> DEFINE Once == \A e \in Ids :
          (\E r \in replies : r.event = e /\ r.status \in {"complete", "reply"}) =>
              {r \in replies' : r.event = e} = {r \in replies : r.event = e}
<1>1. ASSUME ChatInv, Next PROVE Once
  <2>1. CASE UNCHANGED replies
    BY <2>1
  <2>2. CASE StoreReply
    <3>1. replies' = replies \cup {[event |-> cur, status |-> "reply", attempt |-> 0]}
      BY <2>2 DEF StoreReply, ReplyId
    <3>2. ASSUME NEW r \in replies, r.event = cur PROVE replies' = replies
      BY <1>1, <3>1, <3>2 DEF ChatInv
    <3>3. ASSUME NEW e \in Ids, e # cur
          PROVE  {r \in replies' : r.event = e} = {r \in replies : r.event = e}
      BY <3>1, <3>3
    <3> QED
      BY <3>2, <3>3
  <2> QED
    BY <1>1, <2>1, <2>2
       DEF Next, Works, Fails, Publish, Ripen, Poll, Handle, SendReply, SendReplyFails, Finalize, Done,
           StartRetries, RetriesDone, ReportError, AckReceived, AckReceivedFails, TakeNext, AckApplied,
           AckAppliedFails, ModelAnswers, ModelFails, RetryThread, Crash, bus
<1>2. ChatInv /\ [Next]_vars => [Once]_vars
  BY <1>1
<1> QED
  BY <1>2, ChatAlways, PTL DEF Spec, FinalReplyOnce
=============================================================================
