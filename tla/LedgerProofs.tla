----------------------------- MODULE LedgerProofs -----------------------------
(***************************************************************************)
(* Proofs about Ledger, for any set of peers, event ids, request bodies,   *)
(* grants, ACL plans and threads.                                          *)
(***************************************************************************)
EXTENDS Ledger, FiniteSetTheorems, TLAPS

\* What a request body carries.
LEMMA BodyFields ==
  ASSUME NEW b \in Bodies
  PROVE  /\ b.event_id \in EventIds /\ b.source \in Peers /\ b.target \in Targets
         /\ b.type \in EventTypes /\ b.seq \in Nat /\ b.requires_ack \in BOOLEAN
BY LedgerAssumption DEF Body

\* The event a body is stored as, and the counter it leaves.
LEMMA NewEventOK ==
  ASSUME TablesOK, NEW b \in Bodies
  PROVE  /\ NextSeq(b) \in Nat
         /\ NewEvent(b) \in Event
         /\ HighWater(b.source, NextSeq(b)) \in Nat
         /\ HighWater(b.source, NextSeq(b)) >= NextSeq(b)
         /\ HighWater(b.source, NextSeq(b)) >= source_counters[b.source]
<1>1. NextSeq(b) \in Nat
  BY BodyFields DEF NextSeq, TablesOK
<1>2. NewEvent(b) \in Event
  BY <1>1, BodyFields DEF NewEvent, Event
<1> QED
  BY <1>1, <1>2, BodyFields DEF HighWater, TablesOK

\* A thread step keeps the thread variables typed.
LEMMA ThreadStep == ThreadsOK /\ Server => ThreadsOK'
<1> SUFFICES ASSUME ThreadsOK, Server PROVE ThreadsOK'
  OBVIOUS
<1> USE DEF ThreadsOK
<1>1. ASSUME NEW t \in Threads, NEW b \in Bodies, PostEvents(t, b) PROVE ThreadsOK'
  BY <1>1 DEF PostEvents, Answer
<1>2. ASSUME NEW t \in Threads, NEW a \in AckBodies, PostAck(t, a) PROVE ThreadsOK'
  BY <1>2 DEF PostAck, Answer
<1>3. ASSUME NEW t \in Threads, ProbeRetry(t) PROVE ThreadsOK'
  BY <1>3 DEF ProbeRetry
<1>4. ASSUME NEW t \in Threads, BacklogGate(t) PROVE ThreadsOK'
  BY <1>4 DEF BacklogGate, Answer
<1>5. ASSUME NEW t \in Threads, InsertEvent(t) PROVE ThreadsOK'
  <2>1. /\ UNCHANGED <<req, is_retry, resent>>
        /\ pc[t] = "insert"
    BY <1>5 DEF InsertEvent
  <2>2. \/ \E code \in {403, 409, 500} : Answer(t, code)
        \/ pc' = [pc EXCEPT ![t] = "respond"] /\ UNCHANGED status
    BY <1>5 DEF InsertEvent, RefuseCommand, CommitEvent
  <2> QED
    BY <2>1, <2>2 DEF Answer
<1>6. ASSUME NEW t \in Threads, Respond(t) PROVE ThreadsOK'
  BY <1>6 DEF Respond, Answer
<1>7. ASSUME NEW t \in Threads, WriteAck(t) PROVE ThreadsOK'
  BY <1>7 DEF WriteAck, Answer
<1>8. CASE Crash
  BY <1>8 DEF Crash
<1> QED
  BY <1>1, <1>2, <1>3, <1>4, <1>5, <1>6, <1>7, <1>8 DEF Server

-----------------------------------------------------------------------------
(* What a step does to the tables: nothing, one committed event, or one    *)
(* acknowledgement of a stored event.                                      *)

\* Thread t commits an event.
Commits(t) ==
    /\ pc[t] = "insert"
    /\ req[t] \in Bodies
    /\ ~Stored(req[t].event_id)
    /\ ~SeqTaken(req[t])
    /\ CommitEvent(t, req[t])

\* A step leaves the log and what is counted from it alone.
LogUntouched == UNCHANGED <<events, source_counters, accept_audit>>

\* An insert commits an event, or answers and writes nothing.
LEMMA InsertCases ==
  ASSUME ThreadsOK, NEW t \in Threads, InsertEvent(t)
  PROVE  \/ Commits(t)
         \/ /\ LogUntouched /\ UNCHANGED acks
            /\ \/ \E code \in {403, 409, 500} : Answer(t, code)
               \/ /\ pc' = [pc EXCEPT ![t] = "respond"]
                  /\ UNCHANGED status
                  /\ StoredAs(req[t])
BY DEF InsertEvent, Commits, RefuseCommand, LogUntouched, ThreadsOK, tables

\* The operator's process writes no event and no acknowledgement.
LEMMA OperatorLeavesServer == Operator => UNCHANGED <<tables, threads>>
BY DEF Operator, RevokeToken, AddGrant, RevokeGrant, SetAclRow, SetAclDelete,
       SetAclInsert, ClearAclTargets, ClearAclRow, OperatorCrash

\* The log grows by a commit and the acks by the ack of a stored event.
LEMMA LogCases ==
  ASSUME ThreadsOK, Next
  PROVE  \/ \E t \in Threads : Commits(t)
         \/ /\ LogUntouched
            /\ \/ UNCHANGED acks
               \/ \E t \in Threads :
                     /\ req[t] \in AckBodies
                     /\ Stored(req[t].event_id)
                     /\ acks' = acks \cup {req[t]}
<1>1. CASE Operator
  BY <1>1, OperatorLeavesServer DEF tables, LogUntouched
<1>2. ASSUME NEW t \in Threads, InsertEvent(t)
      PROVE  Commits(t) \/ (LogUntouched /\ UNCHANGED acks)
  BY <1>2, InsertCases
<1>3. ASSUME NEW t \in Threads, WriteAck(t)
      PROVE  /\ LogUntouched
             /\ \/ UNCHANGED acks
                \/ /\ req[t] \in AckBodies
                   /\ Stored(req[t].event_id)
                   /\ acks' = acks \cup {req[t]}
  BY <1>3 DEF WriteAck, LogUntouched, ThreadsOK
<1>4. CASE Server
  BY <1>2, <1>3, <1>4 DEF Server, PostEvents, PostAck, ProbeRetry, BacklogGate, Respond,
              Crash, LogUntouched, tables
<1> QED
  BY <1>1, <1>4 DEF Next

-----------------------------------------------------------------------------
(* The log *)

\* Every acknowledgement names a stored event (the foreign key of acks).
AcksNameEvents == \A a \in acks : Stored(a.event_id)

\* The inductive part about the log.
LogInv == UniqueKeys /\ CounterCoversLog /\ AuditMatchesLog /\ AcksNameEvents

\* The rows after a commit.
LEMMA CommitLog ==
  ASSUME TablesOK, NEW t \in Threads, Commits(t)
  PROVE  /\ NewEvent(req[t]) \in Event
         /\ Len(events') = Len(events) + 1
         /\ \A i \in 1..Len(events) : events'[i] = events[i]
         /\ events'[Len(events) + 1] = NewEvent(req[t])
         /\ events' = Append(events, NewEvent(req[t]))
BY NewEventOK DEF Commits, CommitEvent, TablesOK

\* Rows are never changed or removed.
LEMMA LogGrows ==
  ASSUME TypeOK, Next
  PROVE  /\ Len(events) <= Len(events')
         /\ \A i \in 1..Len(events) : events'[i] = events[i]
<1>1. Len(events) \in Nat
  BY DEF TypeOK, TablesOK
<1>2. ASSUME NEW t \in Threads, Commits(t)
      PROVE  /\ Len(events) <= Len(events')
             /\ \A i \in 1..Len(events) : events'[i] = events[i]
  BY <1>1, <1>2, CommitLog DEF TypeOK
<1> QED
  BY <1>1, <1>2, LogCases DEF LogUntouched, TypeOK

\* What is stored stays stored.
LEMMA StoredForever ==
  ASSUME TypeOK, Next
  PROVE  /\ \A eid : Stored(eid) => Stored(eid)'
         /\ \A b : StoredAs(b) => (\E i \in 1..Len(events') : SameIdentity(events'[i], b))
<1>1. Len(events) \in Nat /\ Len(events') \in Nat /\ Len(events) <= Len(events')
  BY LogGrows, CommitLog, LogCases DEF TypeOK, TablesOK, LogUntouched
<1> QED
  BY <1>1, LogGrows DEF Stored, StoredAs

\* A commit keeps the log sound.
LEMMA CommitKeepsLogInv ==
  ASSUME TypeOK, LogInv, NEW t \in Threads, Commits(t)
  PROVE  LogInv'
<1> DEFINE b == req[t]
           n == Len(events)
<1>1. /\ n \in Nat /\ Len(events') = n + 1
      /\ \A i \in 1..n : events'[i] = events[i]
      /\ events'[n + 1] = NewEvent(b)
      /\ b \in Bodies
  BY CommitLog DEF Commits, TypeOK, TablesOK
<1>2. /\ NewEvent(b).event_id = b.event_id /\ NewEvent(b).source = b.source
      /\ NewEvent(b).seq = NextSeq(b) /\ NewEvent(b).type = b.type
  BY DEF NewEvent
<1>3. \A i \in 1..n : events[i].event_id # b.event_id
  BY DEF Commits, Stored
<1>4. \A i \in 1..n : events[i].source = b.source => events[i].seq # NextSeq(b)
  BY DEF Commits, SeqTaken
<1>5. UniqueKeys'
  BY <1>1, <1>2, <1>3, <1>4 DEF UniqueKeys, LogInv
<1>6. CounterCoversLog'
  <2>1. \A i \in 1..n : events[i].seq \in Nat /\ events[i].source \in Peers
    <3>1. \A i \in 1..n : events[i] \in Event
      BY DEF TypeOK, TablesOK
    <3> QED
      BY <3>1 DEF Event
  <2>0. /\ source_counters' =
             [source_counters EXCEPT ![b.source] = HighWater(b.source, NextSeq(b))]
        /\ source_counters \in [Peers -> Nat]
        /\ b.source \in Peers
        /\ HighWater(b.source, NextSeq(b)) \in Nat
        /\ HighWater(b.source, NextSeq(b)) >= NextSeq(b)
        /\ HighWater(b.source, NextSeq(b)) >= source_counters[b.source]
    BY <1>1, NewEventOK, BodyFields DEF Commits, CommitEvent, TypeOK, TablesOK
  <2>2. /\ \A p \in Peers : source_counters'[p] >= source_counters[p]
        /\ source_counters'[b.source] >= NextSeq(b)
        /\ \A p \in Peers : source_counters[p] \in Nat /\ source_counters'[p] \in Nat
    BY <2>0
  <2>3. NextSeq(b) \in Nat /\ b.source \in Peers
    BY <1>1, NewEventOK, BodyFields DEF TypeOK
  <2>4. \A i \in 1..n : events'[i].seq <= source_counters'[events'[i].source]
    BY <1>1, <2>1, <2>2 DEF CounterCoversLog, LogInv
  <2> QED
    BY <1>1, <1>2, <2>2, <2>3, <2>4 DEF CounterCoversLog
<1>7. AuditMatchesLog'
  <2> SUFFICES ASSUME NEW e \in EventIds
               PROVE  accept_audit'[e] =
                        IF \E i \in 1..(n + 1) :
                              events'[i].event_id = e /\ events'[i].type = "command"
                          THEN 1 ELSE 0
    BY <1>1 DEF AuditMatchesLog
  <2>1. b.event_id \in EventIds /\ accept_audit \in [EventIds -> Nat]
    BY <1>1, BodyFields DEF TypeOK, TablesOK
  <2>2. accept_audit[e] = IF \E i \in 1..n : events[i].event_id = e /\ events[i].type = "command"
                            THEN 1 ELSE 0
    BY DEF LogInv, AuditMatchesLog
  <2>3. CASE e # b.event_id
    <3>1. accept_audit'[e] = accept_audit[e]
      BY <2>1, <2>3 DEF Commits, CommitEvent
    <3>2. (\E i \in 1..(n + 1) : events'[i].event_id = e /\ events'[i].type = "command")
            <=> (\E i \in 1..n : events[i].event_id = e /\ events[i].type = "command")
      BY <1>1, <1>2, <2>3
    <3> QED
      BY <2>2, <3>1, <3>2
  <2>4. CASE e = b.event_id
    <3>1. accept_audit[e] = 0
      BY <1>3, <2>2, <2>4
    <3>2. accept_audit'[e] = IF b.type = "command" THEN 1 ELSE 0
      BY <2>1, <2>4, <3>1 DEF Commits, CommitEvent
    <3>3. (\E i \in 1..(n + 1) : events'[i].event_id = e /\ events'[i].type = "command")
            <=> b.type = "command"
      BY <1>1, <1>2, <1>3, <2>4
    <3> QED
      BY <3>2, <3>3
  <2> QED
    BY <2>3, <2>4
<1>8. AcksNameEvents'
  <2>1. acks' = acks
    BY DEF Commits, CommitEvent
  <2>2. \A eid : Stored(eid) => Stored(eid)'
    BY <1>1 DEF Stored
  <2> QED
    BY <2>1, <2>2 DEF AcksNameEvents, LogInv
<1> QED
  BY <1>5, <1>6, <1>7, <1>8 DEF LogInv

\* Every step keeps the log sound.
LEMMA LogStep == TypeOK /\ LogInv /\ [Next]_vars => LogInv'
<1> SUFFICES ASSUME TypeOK, LogInv, [Next]_vars PROVE LogInv'
  OBVIOUS
<1>1. ASSUME NEW t \in Threads, Commits(t) PROVE LogInv'
  BY <1>1, CommitKeepsLogInv
<1>2. CASE LogUntouched /\ UNCHANGED acks
  BY <1>2 DEF LogUntouched, LogInv, UniqueKeys, CounterCoversLog, AuditMatchesLog,
              AcksNameEvents, Stored
<1>3. ASSUME LogUntouched, NEW t \in Threads, Stored(req[t].event_id),
             acks' = acks \cup {req[t]}
      PROVE  LogInv'
  BY <1>3 DEF LogUntouched, LogInv, UniqueKeys, CounterCoversLog, AuditMatchesLog,
              AcksNameEvents, Stored
<1>4. CASE UNCHANGED vars
  BY <1>2, <1>4 DEF vars, LogUntouched
<1>5. CASE Next
  BY <1>1, <1>2, <1>3, <1>5, LogCases DEF TypeOK
<1> QED
  BY <1>4, <1>5

\* Every step keeps the types of the tables.
LEMMA TablesStep == TypeOK /\ Next => TablesOK'
<1> SUFFICES ASSUME TypeOK, Next PROVE TablesOK'
  OBVIOUS
<1>1. reject_audit' \subseteq
          EventIds \X {"missing_source_ref", "invalid_token", "grant_denied"}
  <2>1. ASSUME NEW t \in Threads, InsertEvent(t)
        PROVE  \/ UNCHANGED reject_audit
               \/ \E r \in {"missing_source_ref", "invalid_token", "grant_denied"} :
                     RefuseCommand(t, r)
    BY <2>1 DEF InsertEvent, CommitEvent, tables
  <2>2. ASSUME NEW t \in Threads, InsertEvent(t) PROVE req[t].event_id \in EventIds
    BY <2>2, BodyFields DEF InsertEvent, TypeOK, ThreadsOK
  <2>3. \/ UNCHANGED reject_audit
        \/ \E t \in Threads : InsertEvent(t)
    BY DEF Next, Server, Operator, PostEvents, PostAck, ProbeRetry, BacklogGate, Respond,
           WriteAck, Crash, RevokeToken, AddGrant, RevokeGrant, SetAclRow, SetAclDelete,
           SetAclInsert, ClearAclTargets, ClearAclRow, OperatorCrash, tables
  <2> QED
    BY <2>1, <2>2, <2>3 DEF RefuseCommand, TypeOK, TablesOK
<1>2. ASSUME NEW t \in Threads, Commits(t) PROVE TablesOK'
  BY <1>1, <1>2, NewEventOK, BodyFields DEF Commits, CommitEvent, TypeOK, TablesOK
<1>3. CASE LogUntouched /\ UNCHANGED acks
  BY <1>1, <1>3 DEF LogUntouched, TypeOK, TablesOK
<1>4. ASSUME LogUntouched, NEW t \in Threads, req[t] \in AckBodies, acks' = acks \cup {req[t]}
      PROVE  TablesOK'
  BY <1>1, <1>4, LedgerAssumption DEF LogUntouched, TypeOK, TablesOK
<1> QED
  BY <1>2, <1>3, <1>4, LogCases DEF TypeOK

\* Every step keeps the types of the operator's state.
LEMMA OperatorStep == OperatorOK /\ Next => OperatorOK'
<1> SUFFICES ASSUME OperatorOK, Next PROVE OperatorOK'
  OBVIOUS
<1> USE DEF OperatorOK
<1>1. CASE Server
  BY <1>1 DEF Server, PostEvents, PostAck, ProbeRetry, BacklogGate, InsertEvent, Respond,
              WriteAck, Crash, operator
<1>2. ASSUME NEW p \in Peers, RevokeToken(p) PROVE OperatorOK'
  BY <1>2 DEF RevokeToken
<1>3. ASSUME NEW g \in Grants, AddGrant(g) \/ RevokeGrant(g) PROVE OperatorOK'
  BY <1>3 DEF AddGrant, RevokeGrant
<1>4. ASSUME NEW plan \in AclPlans, SetAclRow(plan[1], plan[2]) PROVE OperatorOK'
  BY <1>4, LedgerAssumption DEF SetAclRow, Targets
<1>5. ASSUME NEW plan \in AclPlans, ClearAclTargets(plan[1]) PROVE OperatorOK'
  BY <1>5, LedgerAssumption DEF ClearAclTargets, Targets, NoOp
<1>6. CASE SetAclDelete
  BY <1>6 DEF SetAclDelete
<1>7. CASE ClearAclRow \/ OperatorCrash
  BY <1>7 DEF ClearAclRow, OperatorCrash, NoOp, Targets
<1>8. CASE SetAclInsert
  <2>1. CASE acl_op.todo = {} /\ acl_op' = NoOp
    BY <1>8, <2>1 DEF SetAclInsert, NoOp, Targets
  <2>2. ASSUME NEW g \in acl_op.todo,
               acl_targets' = acl_targets \cup {<<acl_op.peer, g>>},
               acl_op' = [acl_op EXCEPT !.todo = @ \ {g}],
               UNCHANGED acl_intent
        PROVE  OperatorOK'
    BY <1>8, <2>2 DEF SetAclInsert
  <2> QED
    BY <1>8, <2>1, <2>2 DEF SetAclInsert
<1> QED
  BY <1>1, <1>2, <1>3, <1>4, <1>5, <1>6, <1>7, <1>8 DEF Next, Operator

-----------------------------------------------------------------------------
(* Type correctness *)

\* Every step keeps the types.
LEMMA TypeStep == TypeOK /\ [Next]_vars => TypeOK'
<1> SUFFICES ASSUME TypeOK, [Next]_vars PROVE TypeOK'
  OBVIOUS
<1>1. CASE UNCHANGED vars
  BY <1>1 DEF vars, TypeOK, TablesOK, OperatorOK, ThreadsOK
<1>2. CASE Next
  <2>1. ThreadsOK'
    <3>1. CASE Server
      BY <3>1, ThreadStep DEF TypeOK
    <3>2. CASE Operator
      BY <3>2, OperatorLeavesServer DEF threads, TypeOK, ThreadsOK
    <3> QED
      BY <1>2, <3>1, <3>2 DEF Next
  <2> QED
    BY <1>2, <2>1, TablesStep, OperatorStep DEF TypeOK
<1> QED
  BY <1>1, <1>2

\* Every variable always has its type, for all values of the constants.
THEOREM TypeCorrect == Spec => []TypeOK
<1>1. Init => TypeOK
  BY DEF Init, TypeOK, TablesOK, OperatorOK, ThreadsOK, NoOp, Targets
<1> QED
  BY <1>1, TypeStep, PTL DEF Spec

\* No interleaving of requests, retries and crashes stores an event_id or a
\* (source, seq) pair twice; source counters cover every stored seq; accepted
\* commands are audited exactly once; acknowledgements name stored events.
THEOREM LogCorrect == Spec => []LogSound
<1>1. Init => LogInv
  BY DEF Init, LogInv, UniqueKeys, CounterCoversLog, AuditMatchesLog, AcksNameEvents
<1>2. LogInv => LogSound
  BY DEF LogInv, LogSound
<1> QED
  BY <1>1, <1>2, LogStep, TypeCorrect, PTL DEF Spec

-----------------------------------------------------------------------------
(* What callers are told *)

\* What a thread knows while it runs: a request about to be answered 201 is
\* stored; a retry of a stored event finds it in the probe and passes the gate.
Serving(t) ==
    /\ pc[t] = "respond" => StoredAs(req[t])
    /\ pc[t] # "idle" => status[t] = 0
    /\ t \in resent =>
          /\ pc[t] # "ack"
          /\ pc[t] # "idle" => StoredAs(req[t])
          /\ pc[t] \in {"gate", "insert"} => t \in is_retry

\* The answer of thread t is true of the log, at the moment and ever after.
AnswerOK(t) ==
    /\ Serving(t)
    /\ status[t] = 201 => StoredAs(req[t])
    /\ t \in resent => status[t] \notin {409, 429, 500}
    /\ pc[t] = "idle" /\ req[t] \in Bodies /\ req[t].seq = 0 => status[t] # 500

\* It holds of every thread.
AnswersInv == \A t \in Threads : AnswerOK(t)

\* An acknowledgement body is not an event body.
LEMMA BodiesDisjoint == \A b \in Bodies : b \notin AckBodies
<1> SUFFICES ASSUME NEW b \in Bodies, b \in AckBodies PROVE FALSE
  OBVIOUS
<1>1. "source" \in DOMAIN b
  BY LedgerAssumption DEF Body
<1>2. b \in Ack
  BY LedgerAssumption
<1>3. DOMAIN b = {"event_id", "agent_id", "ack_type"}
  BY <1>2 DEF Ack
<1> QED
  BY <1>1, <1>3

\* An existing row decides the identity check: with unique ids, a stored event
\* is never reported as a conflict.
LEMMA InsertOutcome ==
  ASSUME TypeOK, LogInv, NEW t \in Threads, InsertEvent(t)
  PROVE  /\ StoredAs(req[t]) =>
              \/ Answer(t, 403)
              \/ pc' = [pc EXCEPT ![t] = "respond"] /\ UNCHANGED status
         /\ req[t].seq = 0 => ~Answer(t, 500)
<1>1. req[t] \in Bodies /\ t \in Threads /\ status \in [Threads -> {0, 200, 201, 403, 409, 429, 500}]
  BY DEF InsertEvent, TypeOK, ThreadsOK
<1>2. StoredAs(req[t]) => Stored(req[t].event_id)
  BY DEF StoredAs, Stored, SameIdentity
<1>3. req[t].seq = 0 => ~SeqTaken(req[t])
  <2> SUFFICES ASSUME req[t].seq = 0, NEW i \in 1..Len(events),
                      events[i].source = req[t].source,
                      events[i].seq = NextSeq(req[t])
               PROVE  FALSE
    BY DEF SeqTaken
  <2>1. events[i].seq <= source_counters[req[t].source]
    BY DEF LogInv, CounterCoversLog
  <2>2. NextSeq(req[t]) = source_counters[req[t].source] + 1
    BY DEF NextSeq
  <2>3. source_counters[req[t].source] \in Nat
    BY <1>1, BodyFields DEF TypeOK, TablesOK
  <2> QED
    BY <2>1, <2>2, <2>3
<1>4. StoredAs(req[t]) =>
              \/ Answer(t, 403)
              \/ pc' = [pc EXCEPT ![t] = "respond"] /\ UNCHANGED status
  BY <1>2 DEF InsertEvent, RefuseCommand
<1>5. \A c \in {403, 409} : Answer(t, c) => ~Answer(t, 500)
  BY <1>1 DEF Answer
<1>6. \A x : pc' = [pc EXCEPT ![t] = "respond"] => ~Answer(t, 500)
  BY <1>1 DEF Answer, TypeOK, ThreadsOK
<1>7. req[t].seq = 0 => ~Answer(t, 500)
  BY <1>3, <1>5, <1>6 DEF InsertEvent, RefuseCommand, CommitEvent
<1> QED
  BY <1>4, <1>7

\* A thread that does not move keeps what it knows: the log only grows.
LEMMA OtherThread ==
  ASSUME TypeOK, Next, NEW s \in Threads, AnswerOK(s),
         pc'[s] = pc[s], req'[s] = req[s], status'[s] = status[s],
         s \in resent' <=> s \in resent, s \in is_retry' <=> s \in is_retry
  PROVE  AnswerOK(s)'
<1>1. StoredAs(req[s]) => StoredAs(req[s])'
  BY StoredForever DEF StoredAs
<1> QED
  BY <1>1 DEF AnswerOK, Serving

\* Every step keeps the answers true.
LEMMA AnswersStep == TypeOK /\ LogInv /\ AnswersInv /\ [Next]_vars => AnswersInv'
<1> SUFFICES ASSUME TypeOK, LogInv, AnswersInv, [Next]_vars, NEW s \in Threads
             PROVE  AnswerOK(s)'
  BY DEF AnswersInv
<1>0. AnswerOK(s)
  BY DEF AnswersInv
<1> USE DEF ThreadsOK
<1>1. CASE UNCHANGED vars
  BY <1>0, <1>1 DEF vars, AnswerOK, Serving, StoredAs
<1>2. CASE Operator
  BY <1>0, <1>2, OtherThread, OperatorLeavesServer DEF threads, Next
<1>3. CASE Crash
  <2>1. /\ pc'[s] = "idle" /\ status'[s] = 0 /\ resent' = {}
    BY <1>3 DEF Crash
  <2> QED
    BY <2>1 DEF AnswerOK, Serving
<1>4. ASSUME NEW t \in Threads, NEW b \in Bodies, PostEvents(t, b) PROVE AnswerOK(s)'
  <2>1. Next /\ events' = events
    BY <1>4 DEF Next, Server, PostEvents, tables
  <2>2. CASE s # t
    BY <1>0, <1>4, <2>1, <2>2, OtherThread DEF PostEvents, Answer, TypeOK
  <2>3. CASE s = t
    <3>1. /\ req'[t] = b /\ pc'[t] \in {"idle", "probe"} /\ status'[t] \in {0, 403}
          /\ pc'[t] # "idle" => status'[t] = 0
          /\ t \in resent' => StoredAs(b)
      BY <1>4 DEF PostEvents, Answer, TypeOK
    <3>2. StoredAs(b) => StoredAs(req[t])'
      BY <2>1, <3>1 DEF StoredAs
    <3> QED
      BY <2>3, <3>1, <3>2 DEF AnswerOK, Serving
  <2> QED
    BY <2>2, <2>3
<1>5. ASSUME NEW t \in Threads, NEW a \in AckBodies, PostAck(t, a) PROVE AnswerOK(s)'
  <2>1. Next
    BY <1>5 DEF Next, Server
  <2>2. CASE s # t
    BY <1>0, <1>5, <2>1, <2>2, OtherThread DEF PostAck, Answer, TypeOK
  <2>3. CASE s = t
    <3>1. /\ pc'[t] \in {"idle", "ack"} /\ status'[t] \in {0, 403}
          /\ pc'[t] # "idle" => status'[t] = 0
          /\ t \notin resent'
      BY <1>5 DEF PostAck, Answer, TypeOK
    <3> QED
      BY <2>3, <3>1 DEF AnswerOK, Serving
  <2> QED
    BY <2>2, <2>3
<1>6. ASSUME NEW t \in Threads, ProbeRetry(t) PROVE AnswerOK(s)'
  <2>1. Next /\ events' = events /\ req' = req /\ status' = status /\ resent' = resent
    BY <1>6 DEF Next, Server, ProbeRetry, tables
  <2>2. CASE s # t
    BY <1>0, <1>6, <2>1, <2>2, OtherThread DEF ProbeRetry, TypeOK
  <2>3. CASE s = t
    <3>1. pc[t] = "probe" /\ pc'[t] = "gate"
      BY <1>6 DEF ProbeRetry, TypeOK
    <3>2. StoredAs(req[t]) => t \in is_retry'
      BY <1>6 DEF ProbeRetry, Stored, StoredAs, SameIdentity
    <3>3. StoredAs(req[t]) => StoredAs(req[t])'
      BY <2>1 DEF StoredAs
    <3> QED
      BY <1>0, <2>1, <2>3, <3>1, <3>2, <3>3 DEF AnswerOK, Serving
  <2> QED
    BY <2>2, <2>3
<1>7. ASSUME NEW t \in Threads, BacklogGate(t) PROVE AnswerOK(s)'
  <2>1. /\ Next /\ events' = events /\ req' = req /\ resent' = resent
        /\ is_retry' = is_retry
    BY <1>7 DEF Next, Server, BacklogGate, tables
  <2>2. CASE s # t
    BY <1>0, <1>7, <2>1, <2>2, OtherThread DEF BacklogGate, Answer, TypeOK
  <2>3. CASE s = t
    <3>1. /\ pc[t] = "gate"
          /\ \/ /\ t \notin is_retry /\ pc'[t] = "idle" /\ status'[t] = 429
             \/ /\ pc'[t] = "insert" /\ status'[t] = status[t]
      BY <1>7 DEF BacklogGate, Answer, TypeOK
    <3>2. StoredAs(req[t]) => StoredAs(req[t])'
      BY <2>1 DEF StoredAs
    <3> QED
      BY <1>0, <2>1, <2>3, <3>1, <3>2 DEF AnswerOK, Serving
  <2> QED
    BY <2>2, <2>3
<1>8. ASSUME NEW t \in Threads, InsertEvent(t) PROVE AnswerOK(s)'
  <2>1. /\ Next /\ req' = req /\ resent' = resent /\ is_retry' = is_retry
        /\ pc[t] = "insert" /\ req[t] \in Bodies
    BY <1>8 DEF Next, Server, InsertEvent, TypeOK
  <2>2. \/ \E code \in {403, 409, 500} : Answer(t, code)
        \/ pc' = [pc EXCEPT ![t] = "respond"] /\ UNCHANGED status
    BY <1>8, InsertCases DEF Commits, CommitEvent, TypeOK
  <2>3. CASE s # t
    BY <1>0, <2>1, <2>2, <2>3, OtherThread DEF Answer, TypeOK
  <2>4. CASE s = t
    <3>1. CASE pc' = [pc EXCEPT ![t] = "respond"] /\ UNCHANGED status
      <4>1. (\E i \in 1..Len(events') : SameIdentity(events'[i], req[t]))
        <5>1. CASE Commits(t)
          <6>1. /\ Len(events) \in Nat /\ Len(events') = Len(events) + 1
                /\ events'[Len(events) + 1] = NewEvent(req[t])
            BY <5>1, CommitLog DEF TypeOK, TablesOK
          <6>2. SameIdentity(NewEvent(req[t]), req[t])
            BY DEF SameIdentity, NewEvent
          <6> QED
            BY <6>1, <6>2
        <5>2. CASE ~Commits(t)
          <6>1. \A code \in {403, 409, 500} : ~Answer(t, code)
            BY <3>1 DEF Answer, TypeOK
          <6>2. StoredAs(req[t])
            BY <1>8, <5>2, <6>1, InsertCases DEF TypeOK
          <6> QED
            BY <2>1, <6>2, StoredForever
        <5> QED
          BY <5>1, <5>2
      <4>2. StoredAs(req[t])'
        BY <2>1, <4>1 DEF StoredAs
      <4>3. pc'[t] = "respond" /\ status'[t] = status[t]
        BY <3>1 DEF TypeOK
      <4> QED
        BY <1>0, <2>1, <2>4, <4>2, <4>3 DEF AnswerOK, Serving
    <3>2. ASSUME NEW code \in {403, 409, 500}, Answer(t, code) PROVE AnswerOK(s)'
      <4>1. pc'[t] = "idle" /\ status'[t] = code
        BY <3>2 DEF Answer, TypeOK
      <4>2. req[t].seq = 0 => code # 500
        BY <1>8, <3>2, InsertOutcome
      <4>3. t \in resent => code = 403
        <5>1. t \in resent => StoredAs(req[t])
          BY <1>0, <2>1, <2>4 DEF AnswerOK, Serving
        <5>2. StoredAs(req[t]) => status'[t] = 403 \/ pc'[t] = "respond"
          BY <1>8, InsertOutcome DEF Answer, TypeOK
        <5> QED
          BY <4>1, <5>1, <5>2
      <4> QED
        BY <2>1, <2>4, <4>1, <4>2, <4>3 DEF AnswerOK, Serving
    <3> QED
      BY <2>2, <3>1, <3>2
  <2> QED
    BY <2>3, <2>4
<1>9. ASSUME NEW t \in Threads, Respond(t) PROVE AnswerOK(s)'
  <2>1. Next /\ events' = events /\ req' = req /\ resent' = resent /\ is_retry' = is_retry
    BY <1>9 DEF Next, Server, Respond, tables
  <2>2. CASE s # t
    BY <1>0, <1>9, <2>1, <2>2, OtherThread DEF Respond, Answer, TypeOK
  <2>3. CASE s = t
    <3>1. pc[t] = "respond" /\ pc'[t] = "idle" /\ status'[t] = 201
      BY <1>9 DEF Respond, Answer, TypeOK
    <3>2. StoredAs(req[t])'
      BY <1>0, <2>1, <2>3, <3>1 DEF AnswerOK, Serving, StoredAs
    <3> QED
      BY <2>3, <3>1, <3>2 DEF AnswerOK, Serving
  <2> QED
    BY <2>2, <2>3
<1>10. ASSUME NEW t \in Threads, WriteAck(t) PROVE AnswerOK(s)'
  <2>1. Next /\ events' = events /\ req' = req /\ resent' = resent /\ is_retry' = is_retry
    BY <1>10 DEF Next, Server, WriteAck
  <2>2. CASE s # t
    BY <1>0, <1>10, <2>1, <2>2, OtherThread DEF WriteAck, Answer, TypeOK
  <2>3. CASE s = t
    <3>1. pc[t] = "ack" /\ pc'[t] = "idle" /\ status'[t] \in {200, 500} /\ req[t] \in AckBodies
      BY <1>10 DEF WriteAck, Answer, TypeOK
    <3>2. t \notin resent /\ req[t] \notin Bodies
      BY <1>0, <2>3, <3>1, BodiesDisjoint DEF AnswerOK, Serving
    <3> QED
      BY <2>1, <2>3, <3>1, <3>2 DEF AnswerOK, Serving
  <2> QED
    BY <2>2, <2>3
<1> QED
  BY <1>1, <1>2, <1>3, <1>4, <1>5, <1>6, <1>7, <1>8, <1>9, <1>10 DEF Next, Server

\* Callers can rely on their answers: a 201 means the message is in the log, a
\* retry of a stored message is never refused by the backlog gate, as a
\* conflict or for its seq, and a server-assigned seq never collides.
THEOREM AnswersCorrect == Spec => []AnswersSound
<1>1. Init => LogInv /\ AnswersInv
  BY DEF Init, LogInv, UniqueKeys, CounterCoversLog, AuditMatchesLog, AcksNameEvents,
         AnswersInv, AnswerOK, Serving
<1>2. TypeOK /\ AnswersInv => AnswersSound
  BY DEF AnswersSound, AnswersInv, AnswerOK, AcceptedMeansStored, RetryNotRefused, AssignedSeqNeverRefused,
         TypeOK, ThreadsOK
<1> QED
  BY <1>1, <1>2, LogStep, AnswersStep, TypeCorrect, PTL DEF Spec

-----------------------------------------------------------------------------
(* Authorization *)

\* A revocation that commits before a command's insert transaction is honoured,
\* however long the request has been in flight.
THEOREM AuthorizationCorrect == Spec => AuthorizedAtCommit
<1> DEFINE Authorized ==
      \A t \in Threads :
          /\ Len(events') > Len(events)
          /\ events'[Len(events')].event_id = req[t].event_id
          /\ events'[Len(events')].type = "command"
          /\ pc[t] = "insert" /\ pc'[t] = "respond"
          => /\ token_scope[req[t].source] # "none"
             /\ CommandAllowed(req[t])
<1>1. TypeOK /\ [Next]_vars => [Authorized]_vars
  <2> SUFFICES ASSUME TypeOK, Next, NEW t \in Threads,
                      Len(events') > Len(events),
                      events'[Len(events')].type = "command",
                      pc[t] = "insert", pc'[t] = "respond"
               PROVE  token_scope[req[t].source] # "none" /\ CommandAllowed(req[t])
    OBVIOUS
  <2>1. Len(events) \in Nat /\ ~UNCHANGED events
    BY DEF TypeOK, TablesOK
  <2>2. PICK s \in Threads : Commits(s)
    BY <2>1, LogCases DEF TypeOK, LogUntouched
  <2>3. s = t
    BY <2>2 DEF Commits, CommitEvent, TypeOK, ThreadsOK
  <2>4. events'[Len(events')] = NewEvent(req[t])
    BY <2>2, <2>3, CommitLog DEF TypeOK
  <2>5. req[t].type = "command"
    BY <2>4 DEF NewEvent
  <2>6. InsertEvent(t)
    <3> USE DEF TypeOK, ThreadsOK
    <3>1. ~Operator /\ ~Crash
      BY OperatorLeavesServer DEF threads, Crash
    <3>2. ASSUME NEW u \in Threads, NEW b \in Bodies, PostEvents(u, b) PROVE FALSE
      BY <3>2 DEF PostEvents, Answer
    <3>3. ASSUME NEW u \in Threads, NEW a \in AckBodies, PostAck(u, a) PROVE FALSE
      BY <3>3 DEF PostAck, Answer
    <3>4. ASSUME NEW u \in Threads, ProbeRetry(u) \/ BacklogGate(u) PROVE FALSE
      BY <3>4 DEF ProbeRetry, BacklogGate, Answer
    <3>5. ASSUME NEW u \in Threads, Respond(u) \/ WriteAck(u) PROVE FALSE
      BY <3>5 DEF Respond, WriteAck, Answer
    <3>6. ASSUME NEW u \in Threads, InsertEvent(u) PROVE u = t
      BY <3>6, InsertCases DEF Commits, CommitEvent, Answer
    <3> QED
      BY <3>1, <3>2, <3>3, <3>4, <3>5, <3>6 DEF Next, Server
  <2> QED
    BY <2>1, <2>5, <2>6 DEF InsertEvent, RefuseCommand, tables
<1> QED
  BY <1>1, TypeCorrect, PTL DEF Spec, AuthorizedAtCommit

-----------------------------------------------------------------------------
(* ACL changes *)

\* Listed targets are intended, a peer without an ACL row is meant to be
\* unrestricted, and the command in progress installs what it intends.
AclInv ==
    /\ \A x \in acl_targets : x[2] \in acl_intent[x[1]]
    /\ \A p \in Peers \ acl_rows : acl_intent[p] = Targets
    /\ acl_op.step \in {"delete", "insert"} =>
          /\ acl_op.peer \in acl_rows
          /\ acl_op.new \subseteq acl_intent[acl_op.peer]
          /\ acl_op.todo \subseteq acl_op.new
    /\ acl_op.step = "insert" =>
          \A x \in acl_targets : x[1] = acl_op.peer => x[2] \in acl_op.new
    /\ acl_op.step = "unrow" => acl_intent[acl_op.peer] = Targets

\* Every step keeps the invariant about ACLs.
LEMMA AclStep == TypeOK /\ AclInv /\ [Next]_vars => AclInv'
<1> SUFFICES ASSUME TypeOK, AclInv, [Next]_vars PROVE AclInv'
  OBVIOUS
<1>0. OperatorOK
  BY DEF TypeOK
<1>1. CASE UNCHANGED <<acl_rows, acl_targets, acl_op, acl_intent>>
  BY <1>1 DEF AclInv
<1>2. ASSUME NEW plan \in AclPlans, SetAclRow(plan[1], plan[2]) PROVE AclInv'
  <2>1. plan[1] \in Peers /\ plan[2] \subseteq Targets
    BY LedgerAssumption DEF Targets
  <2> QED
    BY <1>0, <1>2, <2>1 DEF SetAclRow, AclInv, OperatorOK, NoOp
<1>3. ASSUME NEW plan \in AclPlans, ClearAclTargets(plan[1]) PROVE AclInv'
  <2>1. plan[1] \in Peers
    BY LedgerAssumption
  <2> QED
    BY <1>0, <1>3, <2>1 DEF ClearAclTargets, AclInv, OperatorOK, NoOp, Targets
<1>4. CASE SetAclDelete
  BY <1>0, <1>4 DEF SetAclDelete, AclInv, OperatorOK
<1>5. CASE SetAclInsert
  <2>1. ASSUME NEW g \in acl_op.todo,
               acl_targets' = acl_targets \cup {<<acl_op.peer, g>>},
               acl_op' = [acl_op EXCEPT !.todo = @ \ {g}],
               UNCHANGED <<acl_intent, acl_rows>>
        PROVE  AclInv'
    BY <1>0, <1>5, <2>1 DEF SetAclInsert, AclInv, OperatorOK
  <2>2. CASE /\ acl_op.todo = {} /\ acl_op' = NoOp
             /\ acl_intent' = [acl_intent EXCEPT ![acl_op.peer] = acl_op.new]
             /\ UNCHANGED <<acl_targets, acl_rows>>
    BY <1>0, <1>5, <2>2 DEF SetAclInsert, AclInv, OperatorOK, NoOp
  <2> QED
    BY <1>5, <2>1, <2>2 DEF SetAclInsert
<1>6. CASE ClearAclRow
  BY <1>0, <1>6 DEF ClearAclRow, AclInv, OperatorOK, NoOp
<1>7. CASE OperatorCrash
  BY <1>0, <1>7 DEF OperatorCrash, AclInv, NoOp
<1>8. Server \/ UNCHANGED vars => UNCHANGED <<acl_rows, acl_targets, acl_op, acl_intent>>
  BY DEF Server, PostEvents, PostAck, ProbeRetry, BacklogGate, InsertEvent, Respond,
         WriteAck, Crash, operator, vars
<1>9. ASSUME NEW p \in Peers, RevokeToken(p) PROVE AclInv'
  BY <1>1, <1>9 DEF RevokeToken
<1>10. ASSUME NEW g \in Grants, AddGrant(g) \/ RevokeGrant(g) PROVE AclInv'
  BY <1>1, <1>10 DEF AddGrant, RevokeGrant
<1> QED
  BY <1>1, <1>2, <1>3, <1>4, <1>5, <1>6, <1>7, <1>8, <1>9, <1>10 DEF Next, Operator

\* Rewriting an ACL statement by statement, dying half-way included, never
\* opens a target that neither the old nor a new ACL allows.
THEOREM AclCorrect == Spec => []AclFailsClosed
<1>1. Init => AclInv
  BY DEF Init, AclInv, NoOp
<1>2. TypeOK /\ AclInv => AclFailsClosed
  BY DEF AclInv, AclFailsClosed, TargetAclAllows, TypeOK, OperatorOK
<1> QED
  BY <1>1, <1>2, AclStep, TypeCorrect, PTL DEF Spec

-----------------------------------------------------------------------------
(* The ledger implements the abstract one *)

\* The request threads, the operator and crashes are invisible in the abstract
\* ledger: every step accepts one new event, records one acknowledgement of a
\* stored event, or changes neither table.
THEOREM Refinement == Spec => ImplementsLedgerSpec
<1>1. Init => Abstract!SInit
  BY DEF Init, Abstract!SInit
<1>2. TypeOK /\ [Next]_vars => [Abstract!SNext]_(Abstract!svars)
  <2> SUFFICES ASSUME TypeOK, Next
               PROVE  Abstract!SNext \/ UNCHANGED <<events, acks>>
    BY DEF vars, Abstract!svars
  <2>1. ASSUME NEW t \in Threads, Commits(t) PROVE Abstract!Accept
    <3>1. /\ NewEvent(req[t]) \in Event
          /\ Len(events') = Len(events) + 1
          /\ events'[Len(events')] = NewEvent(req[t])
          /\ events' = Append(events, NewEvent(req[t]))
      BY <2>1, CommitLog DEF TypeOK
    <3>2. /\ NewEvent(req[t]).event_id = req[t].event_id
          /\ NewEvent(req[t]).source = req[t].source
          /\ NewEvent(req[t]).seq = NextSeq(req[t])
      BY DEF NewEvent
    <3>3. acks' = acks
      BY <2>1 DEF Commits, CommitEvent
    <3>4. Abstract!AcceptEvent(NewEvent(req[t]))
      BY <2>1, <3>1, <3>2 DEF Abstract!AcceptEvent, Commits, Stored, SeqTaken
    <3> QED
      BY <3>1, <3>3, <3>4 DEF Abstract!Accept
  <2>2. ASSUME NEW t \in Threads, LogUntouched, req[t] \in AckBodies,
               Stored(req[t].event_id), acks' = acks \cup {req[t]}
        PROVE  \E a \in acks' : Abstract!Acknowledge(a)
    BY <2>2, LedgerAssumption DEF LogUntouched, Abstract!Acknowledge, Abstract!Accepted, Stored
  <2> QED
    BY <2>1, <2>2, LogCases DEF Abstract!SNext, LogUntouched, TypeOK
<1> QED
  BY <1>1, <1>2, TypeCorrect, PTL DEF Spec, ImplementsLedgerSpec, Abstract!SSpec

-----------------------------------------------------------------------------
(* The backlog limit *)

\* Requests for p that have passed the gate and may still store their event.
Admitted(p) ==
    {t \in Threads : pc[t] = "insert" /\ req[t].target = p /\ ~Stored(req[t].event_id)}

\* Whom the gate lets pass as a retry has its event stored; and what is stored and
\* what may still be stored are within the bound together.
BacklogInv ==
    /\ \A t \in is_retry : pc[t] \in {"gate", "insert"} => Stored(req[t].event_id)
    /\ \A p \in Peers :
          Cardinality(DirectBacklog(p)) + Cardinality(Admitted(p)) <=
              MaxInboxDepth + Cardinality(Threads) - 1

\* The bounds are numbers.
LEMMA Limits ==
  /\ MaxInboxDepth \in Nat /\ MaxInboxDepth >= 1 /\ Everyone \notin Peers
  /\ IsFiniteSet(Threads) /\ Cardinality(Threads) \in Nat
<1>1. MaxInboxDepth \in Nat \ {0} /\ Everyone \notin Peers /\ IsFiniteSet(Threads)
  BY LedgerAssumption
<1> QED
  BY <1>1, FS_CardinalityType

\* What is counted is finite.
LEMMA BacklogFinite ==
  ASSUME TypeOK, NEW p
  PROVE  /\ IsFiniteSet(DirectBacklog(p)) /\ Cardinality(DirectBacklog(p)) \in Nat
         /\ IsFiniteSet(Backlog(p)) /\ Cardinality(Backlog(p)) \in Nat
         /\ Cardinality(DirectBacklog(p)) <= Cardinality(Backlog(p))
         /\ IsFiniteSet(Admitted(p)) /\ Cardinality(Admitted(p)) \in Nat
         /\ Cardinality(Threads) \in Nat
<1>1. IsFiniteSet(1..Len(events))
  BY FS_Interval DEF TypeOK, TablesOK
<1>2. Backlog(p) \subseteq 1..Len(events) /\ DirectBacklog(p) \subseteq Backlog(p)
  BY DEF Backlog, DirectBacklog
<1>3. IsFiniteSet(Backlog(p))
  BY <1>1, <1>2, FS_Subset
<1>4. IsFiniteSet(DirectBacklog(p)) /\ Cardinality(DirectBacklog(p)) <= Cardinality(Backlog(p))
  BY <1>2, <1>3, FS_Subset
<1>5. Admitted(p) \subseteq Threads /\ IsFiniteSet(Threads)
  BY Limits DEF Admitted
<1>6. IsFiniteSet(Admitted(p))
  BY <1>5, FS_Subset
<1> QED
  BY <1>3, <1>4, <1>5, <1>6, FS_CardinalityType

\* A step after which no more is stored and no more may be keeps the bound.
LEMMA BacklogShrinks ==
  ASSUME TypeOK, BacklogInv, NEW p \in Peers,
         DirectBacklog(p)' \subseteq DirectBacklog(p), Admitted(p)' \subseteq Admitted(p)
  PROVE  Cardinality(DirectBacklog(p)') + Cardinality(Admitted(p)') <=
             MaxInboxDepth + Cardinality(Threads) - 1
<1>1. /\ Cardinality(DirectBacklog(p)') <= Cardinality(DirectBacklog(p))
      /\ Cardinality(DirectBacklog(p)') \in Nat
  BY BacklogFinite, FS_Subset, FS_CardinalityType
<1>2. /\ Cardinality(Admitted(p)') <= Cardinality(Admitted(p))
      /\ Cardinality(Admitted(p)') \in Nat
  BY BacklogFinite, FS_Subset, FS_CardinalityType
<1>3. Cardinality(DirectBacklog(p)) + Cardinality(Admitted(p)) <= MaxInboxDepth + Cardinality(Threads) - 1
  BY DEF BacklogInv
<1> QED
  BY <1>1, <1>2, <1>3, BacklogFinite, Limits

\* The direct backlog grows only by the row of a commit.
LEMMA BacklogRows ==
  ASSUME TypeOK, Next, NEW p \in Peers
  PROVE  \/ DirectBacklog(p)' \subseteq DirectBacklog(p)
         \/ \E t \in Threads :
               /\ Commits(t) /\ req[t].target = p
               /\ DirectBacklog(p)' \subseteq DirectBacklog(p) \cup {Len(events) + 1}
<1>0. Len(events) \in Nat
  BY DEF TypeOK, TablesOK
<1>1. CASE UNCHANGED events /\ acks \subseteq acks'
  BY <1>1 DEF DirectBacklog, Backlog
<1>2. ASSUME NEW t \in Threads, Commits(t)
      PROVE  \/ DirectBacklog(p)' \subseteq DirectBacklog(p)
             \/ /\ req[t].target = p
                /\ DirectBacklog(p)' \subseteq DirectBacklog(p) \cup {Len(events) + 1}
  <2>1. /\ Len(events') = Len(events) + 1
        /\ \A i \in 1..Len(events) : events'[i] = events[i]
        /\ events'[Len(events) + 1] = NewEvent(req[t])
    BY <1>2, CommitLog DEF TypeOK
  <2>2. events'[Len(events) + 1].target = req[t].target /\ acks' = acks
    BY <1>2, <2>1 DEF NewEvent, Commits, CommitEvent
  <2>3. \A i \in 1..Len(events') : i \in 1..Len(events) \/ i = Len(events) + 1
    BY <1>0, <2>1
  <2>4. ASSUME NEW i \in 1..Len(events), i \in DirectBacklog(p)' PROVE i \in DirectBacklog(p)
    BY <2>1, <2>2, <2>4 DEF DirectBacklog, Backlog
  <2>5. Len(events) + 1 \in DirectBacklog(p)' => req[t].target = p
    BY <2>2 DEF DirectBacklog, Backlog
  <2>6. \A i \in DirectBacklog(p)' : i \in 1..Len(events')
    BY DEF DirectBacklog, Backlog
  <2> QED
    BY <2>3, <2>4, <2>5, <2>6
<1> QED
  BY <1>1, <1>2, LogCases DEF LogUntouched, TypeOK

\* Every step keeps the bound on the backlog.
LEMMA BacklogStep == TypeOK /\ BacklogInv /\ [Next]_vars => BacklogInv'
<1>4. ASSUME BacklogInv, UNCHANGED vars PROVE BacklogInv'
  <2>1. UNCHANGED <<events, acks, pc, req, is_retry>>
    BY <1>4 DEF vars
  <2>2. /\ \A eid : Stored(eid)' = Stored(eid)
        /\ \A p : DirectBacklog(p)' = DirectBacklog(p)
        /\ \A p : Admitted(p)' = Admitted(p)
    BY <2>1 DEF DirectBacklog, Backlog, Admitted, Stored
  <2>3. \A p \in Peers : Cardinality(DirectBacklog(p)') + Cardinality(Admitted(p)') <=
                            MaxInboxDepth + Cardinality(Threads) - 1
    BY <1>4, <2>2 DEF BacklogInv
  <2>4. (\A t \in is_retry : pc[t] \in {"gate", "insert"} => Stored(req[t].event_id))'
    BY <1>4, <2>1 DEF BacklogInv, Stored
  <2> QED
    BY <2>3, <2>4 DEF BacklogInv
<1> SUFFICES ASSUME TypeOK, BacklogInv, Next PROVE BacklogInv'
  BY <1>4
<1> DEFINE StoredNow(eid) == \E i \in 1..Len(events') : events'[i].event_id = eid
<1>0. ThreadsOK /\ \A eid : Stored(eid) => StoredNow(eid)
  BY StoredForever DEF TypeOK, Stored
<1> DEFINE Bound(p) == Cardinality(DirectBacklog(p)) + Cardinality(Admitted(p)) <=
                           MaxInboxDepth + Cardinality(Threads) - 1
           From(s) == req'[s] = req[s] /\ (pc[s] = "insert" \/ BacklogGate(s))
           Retries == \A t \in is_retry : pc[t] \in {"gate", "insert"} => Stored(req[t].event_id)
\* Only the gate admits.
<1>1. ASSUME NEW s \in Threads, pc'[s] = "insert"
      PROVE  From(s)
  <2>1. CASE Operator
    BY <1>1, <2>1, OperatorLeavesServer DEF threads
  <2>2. CASE Crash
    BY <1>1, <2>2 DEF Crash
  <2>3. ASSUME NEW t \in Threads, NEW b \in Bodies, PostEvents(t, b) PROVE From(s)
    BY <1>0, <1>1, <2>3 DEF PostEvents, Answer, ThreadsOK
  <2>4. ASSUME NEW t \in Threads, NEW a \in AckBodies, PostAck(t, a) PROVE From(s)
    BY <1>0, <1>1, <2>4 DEF PostAck, Answer, ThreadsOK
  <2>5. ASSUME NEW t \in Threads, ProbeRetry(t) \/ Respond(t) \/ WriteAck(t) PROVE From(s)
    BY <1>0, <1>1, <2>5 DEF ProbeRetry, Respond, WriteAck, Answer, ThreadsOK
  <2>6. ASSUME NEW t \in Threads, BacklogGate(t) PROVE From(s)
    BY <1>0, <1>1, <2>6 DEF BacklogGate, Answer, ThreadsOK
  <2>7. ASSUME NEW t \in Threads, InsertEvent(t) PROVE From(s)
    <3>1. \A u \in Threads \ {t} : pc'[u] = pc[u]
      BY <1>0, <2>7, InsertCases DEF Commits, CommitEvent, Answer, ThreadsOK
    <3> QED
      BY <1>1, <2>7, <3>1 DEF InsertEvent
  <2> QED
    BY <2>1, <2>2, <2>3, <2>4, <2>5, <2>6, <2>7 DEF Next, Server
<1>2. Retries'
  <2> SUFFICES ASSUME NEW s \in is_retry', pc'[s] \in {"gate", "insert"}
               PROVE  StoredNow(req'[s].event_id)
    BY DEF Stored
  <2>0. Retries /\ s \in Threads
    BY TypeStep DEF BacklogInv, TypeOK, ThreadsOK
  <2>1. ASSUME s \in is_retry, pc[s] \in {"gate", "insert"}, req'[s] = req[s]
        PROVE  StoredNow(req'[s].event_id)
    BY <1>0, <2>0, <2>1
  <2>2. CASE Operator
    BY <2>1, <2>2, OperatorLeavesServer DEF threads
  <2>3. CASE Crash
    BY <2>3 DEF Crash
  <2>4. ASSUME NEW t \in Threads, NEW b \in Bodies, PostEvents(t, b)
        PROVE  StoredNow(req'[s].event_id)
    BY <1>0, <2>0, <2>1, <2>4 DEF PostEvents, Answer, ThreadsOK
  <2>5. ASSUME NEW t \in Threads, NEW a \in AckBodies, PostAck(t, a)
        PROVE  StoredNow(req'[s].event_id)
    BY <1>0, <2>0, <2>1, <2>5 DEF PostAck, Answer, ThreadsOK
  <2>6. ASSUME NEW t \in Threads, ProbeRetry(t) PROVE StoredNow(req'[s].event_id)
    <3>1. CASE s = t
      <4>1. Stored(req[s].event_id) /\ req' = req
        BY <2>6, <3>1 DEF ProbeRetry
      <4> QED
        BY <1>0, <4>1
    <3>2. CASE s # t
      BY <1>0, <2>0, <2>1, <2>6, <3>2 DEF ProbeRetry, ThreadsOK
    <3> QED
      BY <3>1, <3>2
  <2>7. ASSUME NEW t \in Threads, Respond(t) \/ WriteAck(t) \/ BacklogGate(t)
        PROVE  StoredNow(req'[s].event_id)
    BY <1>0, <2>0, <2>1, <2>7 DEF Respond, WriteAck, BacklogGate, Answer, ThreadsOK
  <2>8. ASSUME NEW t \in Threads, InsertEvent(t) PROVE StoredNow(req'[s].event_id)
    <3>1. pc'[s] = pc[s] \/ s = t
      BY <1>0, <2>0, <2>8, InsertCases DEF Commits, CommitEvent, Answer, ThreadsOK
    <3> QED
      BY <2>1, <2>8, <3>1 DEF InsertEvent
  <2> QED
    BY <2>2, <2>3, <2>4, <2>5, <2>6, <2>7, <2>8 DEF Next, Server
<1>3. ASSUME NEW p \in Peers PROVE Bound(p)'
  <2>0. /\ Cardinality(Threads) \in Nat /\ MaxInboxDepth \in Nat /\ IsFiniteSet(Threads)
        /\ Cardinality(DirectBacklog(p)) \in Nat /\ Cardinality(Backlog(p)) \in Nat
        /\ Cardinality(DirectBacklog(p)) <= Cardinality(Backlog(p))
        /\ Cardinality(Admitted(p)) \in Nat /\ Bound(p) /\ p # Everyone
    BY BacklogFinite, Limits DEF BacklogInv
  <2>1. ASSUME NEW s \in Threads, s \in Admitted(p)', ~BacklogGate(s) PROVE s \in Admitted(p)
    <3>1. pc'[s] = "insert" /\ req'[s].target = p /\ ~StoredNow(req'[s].event_id)
      BY <2>1 DEF Admitted, Stored
    <3> QED
      BY <1>0, <1>1, <2>1, <3>1 DEF Admitted
  <2>2. CASE \E s \in Threads : BacklogGate(s) /\ s \in Admitted(p)'
    <3>1. PICK s \in Threads : BacklogGate(s) /\ s \in Admitted(p)'
      BY <2>2
    <3>2. /\ pc[s] = "gate" /\ pc'[s] = "insert" /\ req' = req
          /\ req[s].target = p /\ ~Stored(req[s].event_id)
          /\ UNCHANGED <<events, acks>>
      BY <1>0, <3>1 DEF BacklogGate, Admitted, Stored, tables
    <3>3. s \notin is_retry
      BY <3>2 DEF BacklogInv
    <3>4. ~(Cardinality(Backlog(p)) >= MaxInboxDepth)
      BY <1>0, <2>0, <3>1, <3>2, <3>3 DEF BacklogGate, Answer, ThreadsOK
    <3>5. DirectBacklog(p)' = DirectBacklog(p)
      BY <3>2 DEF DirectBacklog, Backlog
    <3>6. Admitted(p)' \subseteq Threads
      BY DEF Admitted
    <3>7. Cardinality(Admitted(p)') <= Cardinality(Threads) /\ Cardinality(Admitted(p)') \in Nat
      BY <2>0, <3>6, FS_Subset, FS_CardinalityType
    <3>8. Cardinality(DirectBacklog(p)') = Cardinality(DirectBacklog(p))
      BY <3>5
    <3> QED
      BY <2>0, <3>4, <3>7, <3>8
  <2>3. CASE ~\E s \in Threads : BacklogGate(s) /\ s \in Admitted(p)'
    <3>1. Admitted(p)' \subseteq Admitted(p)
      BY <2>1, <2>3 DEF Admitted
    <3>2. CASE DirectBacklog(p)' \subseteq DirectBacklog(p)
      BY <3>1, <3>2, BacklogShrinks
    <3>3. ASSUME NEW t \in Threads, Commits(t), req[t].target = p,
                 DirectBacklog(p)' \subseteq DirectBacklog(p) \cup {Len(events) + 1}
          PROVE  Bound(p)'
      <4>1. t \in Admitted(p) /\ t \notin Admitted(p)'
        BY <1>0, <3>3 DEF Admitted, Commits, CommitEvent, ThreadsOK
      <4>2. IsFiniteSet(Admitted(p)) /\ IsFiniteSet(DirectBacklog(p))
        BY BacklogFinite
      <4>3. IsFiniteSet(Admitted(p) \ {t}) /\ Cardinality(Admitted(p) \ {t}) = Cardinality(Admitted(p)) - 1
        BY <4>1, <4>2, FS_RemoveElement
      <4>4. /\ Cardinality(Admitted(p)') <= Cardinality(Admitted(p) \ {t})
            /\ Cardinality(Admitted(p)') \in Nat
        BY <3>1, <4>1, <4>3, FS_Subset, FS_CardinalityType
      <4>5. /\ IsFiniteSet(DirectBacklog(p) \cup {Len(events) + 1})
            /\ Cardinality(DirectBacklog(p) \cup {Len(events) + 1}) <= Cardinality(DirectBacklog(p)) + 1
            /\ Cardinality(DirectBacklog(p) \cup {Len(events) + 1}) \in Nat
        <5>1. PICK n : n = Len(events) + 1
          OBVIOUS
        <5>2. /\ IsFiniteSet(DirectBacklog(p) \cup {n})
              /\ Cardinality(DirectBacklog(p) \cup {n}) =
                    IF n \in DirectBacklog(p) THEN Cardinality(DirectBacklog(p))
                                              ELSE Cardinality(DirectBacklog(p)) + 1
          BY <4>2, FS_AddElement
        <5>3. Cardinality(DirectBacklog(p) \cup {n}) <= Cardinality(DirectBacklog(p)) + 1
          BY <2>0, <5>2
        <5> QED
          BY <5>1, <5>2, <5>3, FS_CardinalityType
      <4>6. /\ Cardinality(DirectBacklog(p)') <= Cardinality(DirectBacklog(p) \cup {Len(events) + 1})
            /\ Cardinality(DirectBacklog(p)') \in Nat
        BY <3>3, <4>5, FS_Subset, FS_CardinalityType
      <4> QED
        BY <2>0, <4>3, <4>4, <4>5, <4>6
    <3> QED
      BY <3>2, <3>3, BacklogRows
  <2> QED
    BY <2>2, <2>3
<1> QED
  BY <1>2, <1>3 DEF BacklogInv

\* The gate is checked before the insert and not again in its transaction; the direct
\* backlog of a peer may overshoot the limit, but never by more than the other threads
\* the server runs, for any limit and any number of threads (do_POST, --max-inbox-depth).
THEOREM BacklogCorrect == Spec => []BacklogOvershoot
<1>1. Init => BacklogInv
  <2> SUFFICES ASSUME Init, NEW p \in Peers
               PROVE  Cardinality(DirectBacklog(p)) + Cardinality(Admitted(p)) <=
                          MaxInboxDepth + Cardinality(Threads) - 1
    BY DEF Init, BacklogInv
  <2>1. DirectBacklog(p) = {} /\ Admitted(p) = {}
    BY DEF Init, DirectBacklog, Backlog, Admitted
  <2>2. Cardinality({}) = 0 /\ Cardinality(Threads) \in Nat
    BY Limits, FS_EmptySet, FS_CardinalityType
  <2> QED
    BY <2>1, <2>2, Limits
<1>2. TypeOK /\ BacklogInv => BacklogOvershoot
  BY BacklogFinite, Limits DEF BacklogInv, BacklogOvershoot
<1> QED
  BY <1>1, <1>2, BacklogStep, TypeCorrect, PTL DEF Spec
=============================================================================
