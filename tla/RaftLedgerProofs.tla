--------------------------- MODULE RaftLedgerProofs ---------------------------
(***************************************************************************)
(* Proofs about RaftLedger, for any number of callers, endpoints, attempts *)
(* that run late, peers, bodies, grants and ACL plans.                     *)
(***************************************************************************)
EXTENDS RaftLedger, TLAPS

\* What a request body carries.
LEMMA BodyFields ==
  ASSUME NEW b \in Bodies
  PROVE  /\ b.event_id \in EventIds /\ b.source \in Peers /\ b.target \in Targets
         /\ b.type \in {"message", "command"} /\ b.seq \in Nat /\ b.token \in Tokens
BY RaftAssumption DEF Body

\* The event a body is stored as.
LEMMA NewEventOK ==
  ASSUME TablesOK, NEW b \in Bodies
  PROVE  /\ NextSeq(b) \in Nat
         /\ NewEvent(b) \in Event
         /\ NewEvent(b).event_id = b.event_id /\ NewEvent(b).source = b.source
         /\ NewEvent(b).target = b.target
         /\ NewEvent(b).seq = NextSeq(b) /\ NewEvent(b).type = b.type
         /\ source_counters[b.source] \in Nat
<1>1. NextSeq(b) \in Nat /\ source_counters[b.source] \in Nat
  BY BodyFields DEF NextSeq, TablesOK
<1> QED
  BY <1>1, BodyFields DEF NewEvent, Event

\* The counter an insert leaves is no lower than before, nor than its sequence number.
LEMMA CounterOK ==
  ASSUME TablesOK, NEW x \in InsertTx
  PROVE  /\ x.body \in Bodies
         /\ Counter(x) \in Nat
         /\ Counter(x) >= source_counters[x.body.source]
         /\ Inserts(x) => Counter(x) >= NextSeq(x.body)
<1>1. x.body \in Bodies
  BY DEF InsertTx
<1>2. x.body.seq \in Nat /\ source_counters[x.body.source] \in Nat
  BY <1>1, BodyFields, NewEventOK
<1> QED
  BY <1>1, <1>2 DEF Counter, RaisedBy, NextSeq, CountsUp, Inserts

-----------------------------------------------------------------------------
(* What a step does to the tables: it executes one batch, or nothing. *)

\* The tables change by a transaction that is on its way, or not at all.
LEMMA ExecutesOrNot ==
  ASSUME ClientOK, Next
  PROVE  (\E x \in Tx : x \in InFlight /\ Execute(x)) \/ UNCHANGED db
<1>1. ASSUME NEW t \in Callers, Answered(t) PROVE \E x \in Tx : x \in InFlight /\ Execute(x)
  BY <1>1 DEF Answered, ClientOK, InFlight
<1>2. ASSUME NEW a \in late, ExecuteLate(a) PROVE \E x \in Tx : x \in InFlight /\ Execute(x)
  BY <1>2 DEF ExecuteLate, ClientOK, InFlight
<1>3. ASSUME NEW t \in Threads, NEW b \in Bodies, InsertEvent(t, b) PROVE UNCHANGED db
  BY <1>3 DEF InsertEvent, Begin
<1>4. ASSUME NEW t \in Threads, NEW a \in AckBodies, WriteAck(t, a) PROVE UNCHANGED db
  BY <1>4 DEF WriteAck, Begin
<1>5. ASSUME NEW t \in Threads,
             ReadExisting(t) \/ FindGrant(t) \/ ReadBack(t) \/ Reject(t) \/ QueryFails(t)
      PROVE  UNCHANGED db
  BY <1>5 DEF ReadExisting, FindGrant, ReadBack, Reject, QueryFails
<1>6. ASSUME NEW x \in Commands, Administer(x) PROVE UNCHANGED db
  BY <1>6 DEF Administer, Begin
<1>7. ASSUME NEW t \in Callers, AttemptFails(t) PROVE UNCHANGED db
  BY <1>7 DEF AttemptFails
<1>8. ASSUME NEW ts \in {Threads, {Cli}}, Crash(ts) PROVE UNCHANGED db
  BY <1>8 DEF Crash
<1>9. ASSUME Tick PROVE UNCHANGED db
  BY <1>9 DEF Tick
<1> QED
  BY <1>1, <1>2, <1>3, <1>4, <1>5, <1>6, <1>7, <1>8, <1>9 DEF Next, Step

\* The log and the acknowledgements as an execution leaves them.
LEMMA ExecutionCases ==
  ASSUME NEW x \in Tx, Execute(x)
  PROVE  \/ x \in InsertTx /\ Inserts(x) /\ ExecuteInsert(x)
         \/ x \in InsertTx /\ ~Inserts(x) /\ ExecuteInsert(x)
         \/ x \in AckTx /\ AckStands(x.body) /\ acks' = acks \cup {x.body} /\ UNCHANGED log
         \/ UNCHANGED <<log, acks>>
BY DEF Execute, ExecuteReject, ExecuteAck, ExecuteAdmin

-----------------------------------------------------------------------------
(* Types *)

\* A transaction keeps the types of the tables.
LEMMA TablesStep ==
  ASSUME TablesOK, NEW x \in Tx, Execute(x)
  PROVE  TablesOK'
<1>1. CASE x \in InsertTx /\ ExecuteInsert(x)
  <2>1. x.body \in Bodies /\ NewEvent(x.body) \in Event /\ Counter(x) \in Nat
    BY <1>1, CounterOK, NewEventOK
  <2>2. x.body.source \in Peers /\ x.body.event_id \in EventIds
    BY <2>1, BodyFields
  <2>3. events' \in Seq(Event)
    BY <1>1, <2>1 DEF ExecuteInsert, TablesOK
  <2>4. source_counters' \in [Peers -> Nat]
    BY <1>1, <2>1, <2>2 DEF ExecuteInsert, TablesOK
  <2>5. accept_audit' \in [EventIds -> Nat]
    BY <1>1, <2>2 DEF ExecuteInsert, TablesOK
  <2> QED
    BY <1>1, <2>3, <2>4, <2>5 DEF ExecuteInsert, TablesOK, authority
<1>2. CASE x \in RejectTx /\ ExecuteReject(x)
  <2>1. x.body \in Bodies /\ x.result \in Results
    BY <1>2 DEF RejectTx
  <2>2. reject_audit' \subseteq EventIds \X Results
    BY <1>2, <2>1, BodyFields DEF ExecuteReject, TablesOK
  <2> QED
    BY <1>2, <2>2 DEF ExecuteReject, TablesOK, authority, log
<1>3. CASE x \in AckTx /\ ExecuteAck(x)
  <2>1. x.body \in Ack
    BY <1>3, RaftAssumption DEF AckTx
  <2> QED
    BY <1>3, <2>1 DEF ExecuteAck, TablesOK, authority, log
<1>4. CASE x \in AdminTx /\ ExecuteAdmin(x)
  <2> USE DEF TablesOK
  <2>0. UNCHANGED <<events, source_counters, accept_audit, acks, reject_audit>>
    BY <1>4 DEF ExecuteAdmin, log
  <2>1. ASSUME x.kind = "add_grant", grants' = Append(grants, x.row),
               UNCHANGED <<tokens, revoked, acl_rows, acl_targets>>
        PROVE  TablesOK'
    <3>1. x.row \in Grants
      BY <1>4, <2>1 DEF AdminTx
    <3> QED
      BY <2>0, <2>1, <3>1
  <2>2. ASSUME x.kind = "revoke_grant", revoked' = revoked \cup {x.id},
               UNCHANGED <<tokens, grants, acl_rows, acl_targets>>
        PROVE  TablesOK'
    <3>1. x.id \in Nat
      BY <1>4, <2>2 DEF AdminTx
    <3> QED
      BY <2>0, <2>2, <3>1
  <2>3. ASSUME x.kind = "revoke_token", tokens' = [tokens EXCEPT ![x.token].revoked = "yes"],
               UNCHANGED <<grants, revoked, acl_rows, acl_targets>>
        PROVE  TablesOK'
    <3>1. tokens' \in [Tokens -> Token]
      BY <2>3 DEF Token
    <3> QED
      BY <2>0, <2>3, <3>1
  <2>6. ASSUME x.kind = "rotate", UNCHANGED <<grants, revoked, acl_rows, acl_targets>>,
               tokens' = IF RotationFails(x) THEN tokens
                         ELSE [k \in Tokens |->
                                 IF k = x.token THEN NewToken(x.peer)
                                 ELSE IF InGrace(x, k) THEN [tokens[k] EXCEPT !.grace = x.until]
                                 ELSE tokens[k]]
        PROVE  TablesOK'
    <3>1. x.peer \in Peers /\ x.until \in Nat
      BY <1>4, <2>6 DEF AdminTx
    <3>2. NewToken(x.peer) \in Token
      BY <3>1 DEF NewToken, Token
    <3>3. \A k \in Tokens : [tokens[k] EXCEPT !.grace = x.until] \in Token
      BY <3>1 DEF Token
    <3>4. tokens' \in [Tokens -> Token]
      BY <2>6, <3>2, <3>3
    <3> QED
      BY <2>0, <2>6, <3>4
  <2>4. ASSUME x.kind = "set_acl", acl_rows' = acl_rows \cup {x.plan[1]},
               acl_targets' = {p \in acl_targets : p[1] # x.plan[1]}
                              \cup {<<x.plan[1], g>> : g \in x.plan[2]},
               UNCHANGED <<tokens, grants, revoked>>
        PROVE  TablesOK'
    <3>1. x.plan[1] \in Peers /\ x.plan[2] \subseteq Peers
      BY <1>4, <2>4, RaftAssumption DEF AdminTx
    <3>2. acl_rows' \subseteq Peers /\ acl_targets' \subseteq Peers \X Peers
      BY <2>4, <3>1
    <3> QED
      BY <2>0, <2>4, <3>2
  <2>5. ASSUME x.kind = "clear_acl", acl_rows' = acl_rows \ {x.peer},
               acl_targets' = {p \in acl_targets : p[1] # x.peer},
               UNCHANGED <<tokens, grants, revoked>>
        PROVE  TablesOK'
    BY <2>0, <2>5
  <2> QED
    BY <1>4, <2>1, <2>2, <2>3, <2>4, <2>5, <2>6 DEF ExecuteAdmin
<1> QED
  BY <1>1, <1>2, <1>3, <1>4 DEF Execute

\* Sending a batch keeps the types of the callers.
LEMMA SendOK ==
  ASSUME ClientOK, NEW t \in Callers, NEW x \in Tx, Send(t, x),
         req' \in [Callers -> Bodies \cup AckBodies \cup {NoRequest}],
         \A u \in Callers : u # t => req'[u] = req[u],
         result' \in [Callers -> {"none", "event", "done", "conflict", "denied", "error",
                                   "unavailable"}],
         why' \in [Callers -> {"none", "unauthorized", "seq"}],
         UNCHANGED late
  PROVE  ClientOK'
<1>1. tx' \in [Callers -> Tx \cup {NoTx}] /\ tx'[t] \in Tx
  BY DEF ClientOK, Send
<1>2. tries' \in [Callers -> 0..Endpoints] /\ tries'[t] > 0
  BY RaftAssumption DEF ClientOK, Send
<1>3. /\ pc' \in [Callers -> {"idle", "read", "grant", "reject", "sending", "readback"}]
      /\ pc'[t] = "sending"
  BY DEF ClientOK, Send
<1>4. \A u \in Callers : u # t => pc'[u] = pc[u] /\ tx'[u] = tx[u] /\ tries'[u] = tries[u]
  BY DEF ClientOK, Send
<1> QED
  BY <1>1, <1>2, <1>3, <1>4 DEF ClientOK

\* Returning to the caller keeps the types of the callers.
LEMMA ReturnOK ==
  ASSUME ClientOK, NEW t \in Callers,
         NEW r \in {"none", "event", "done", "conflict", "denied", "error", "unavailable"},
         Return(t, r), UNCHANGED <<req, why>>, late' \subseteq Tx \X (1..Endpoints)
  PROVE  ClientOK'
BY RaftAssumption DEF ClientOK, Return

\* A batch that inserts or rejects is about its caller's request, and only commands
\* look for a grant or are rejected.
BatchServes ==
    \A t \in Callers :
        /\ pc[t] = "sending" /\ tx[t].kind \in {"insert", "reject"} =>
              req[t] \in Bodies /\ tx[t].body = req[t]
        /\ \/ pc[t] = "sending" /\ tx[t].kind = "reject"
           \/ pc[t] \in {"grant", "reject"}
           => req[t].type = "command"

\* A batch stays that of the request it serves.
LEMMA ServesStep ==
  ASSUME TypeOK, BatchServes, Next
  PROVE  BatchServes'
<1> SUFFICES ASSUME NEW u \in Callers
             PROVE  /\ pc'[u] = "sending" /\ tx'[u].kind \in {"insert", "reject"} =>
                          req'[u] \in Bodies /\ tx'[u].body = req'[u]
                    /\ \/ pc'[u] = "sending" /\ tx'[u].kind = "reject"
                       \/ pc'[u] \in {"grant", "reject"}
                       => req'[u].type = "command"
  BY DEF BatchServes
<1> USE DEF BatchServes, TypeOK, ClientOK
<1>0. Threads \subseteq Callers /\ Cli \in Callers
  BY DEF Callers
<1>1. CASE \E t \in Threads, b \in Bodies : InsertEvent(t, b)
  BY <1>0, <1>1 DEF InsertEvent, Begin, Send
<1>2. CASE \E t \in Threads, a \in AckBodies : WriteAck(t, a)
  BY <1>0, <1>2 DEF WriteAck, Begin, Send
<1>3. CASE \E t \in Threads : ReadExisting(t)
  <2>1. \A t \in Threads : ReadExisting(t) => req[t].type \in {"message", "command"}
    BY <1>0, BodyFields DEF ReadExisting
  <2> QED
    BY <1>0, <1>3, <2>1 DEF ReadExisting, Send, Return
<1>4. CASE \E t \in Threads : FindGrant(t)
  BY <1>0, <1>4 DEF FindGrant, Send
<1>5. CASE \E t \in Threads : ReadBack(t)
  <2>1. \A t \in Threads : ReadBack(t) => req[t].type \in {"message", "command"}
    BY <1>0, BodyFields DEF ReadBack
  <2> QED
    BY <1>0, <1>5, <2>1 DEF ReadBack, Return
<1>6. CASE \E t \in Threads : Reject(t)
  BY <1>0, <1>6 DEF Reject, Send
<1>7. CASE \E t \in Threads : QueryFails(t)
  BY <1>0, <1>7 DEF QueryFails, Return
<1>8. CASE \E x \in Commands : Administer(x)
  <2>1. \A x \in Commands : x.kind \notin {"insert", "reject"}
    BY DEF Commands
  <2> QED
    BY <1>0, <1>8, <2>1 DEF Administer, Begin, Send
<1>9. CASE \E t \in Callers : Answered(t)
  BY <1>9 DEF Answered, Return
<1>10. CASE \E t \in Callers : AttemptFails(t)
  BY <1>10 DEF AttemptFails, Return
<1>11. CASE \E a \in late : ExecuteLate(a)
  BY <1>11 DEF ExecuteLate, client
<1>12. CASE \E ts \in {Threads, {Cli}} : Crash(ts)
  BY <1>12 DEF Crash
<1>13. CASE Tick
  BY <1>13 DEF Tick, client
<1> QED
  BY <1>1, <1>2, <1>3, <1>4, <1>5, <1>6, <1>7, <1>8, <1>9, <1>10, <1>11, <1>12, <1>13
  DEF Next, Step

\* Every step keeps the types of the callers.
LEMMA ClientStep ==
  ASSUME TypeOK, BatchServes, Next
  PROVE  ClientOK'
<1> USE RaftAssumption DEF TypeOK
<1>0. Threads \subseteq Callers /\ Cli \in Callers
  BY DEF Callers
<1>1. ASSUME NEW t \in Threads, NEW b \in Bodies, InsertEvent(t, b) PROVE ClientOK'
  <2>1. /\ req' = [req EXCEPT ![t] = b] /\ UNCHANGED late
        /\ why' = [why EXCEPT ![t] = "none"] /\ result' = [result EXCEPT ![t] = "none"]
    BY <1>1 DEF InsertEvent, Begin
  <2>2. CASE Send(t, [kind |-> "reject", body |-> b, result |-> "missing_source_ref"])
    <3>1. [kind |-> "reject", body |-> b, result |-> "missing_source_ref"] \in Tx
      BY DEF Tx, RejectTx, Results
    <3> QED
      BY <1>0, <2>1, <2>2, <3>1, SendOK DEF ClientOK
  <2>3. CASE pc' = [pc EXCEPT ![t] = "read"] /\ UNCHANGED <<tx, tries>>
    BY <1>0, <2>1, <2>3 DEF ClientOK
  <2> QED
    BY <1>1, <2>2, <2>3 DEF InsertEvent
<1>2. ASSUME NEW t \in Threads, NEW a \in AckBodies, WriteAck(t, a) PROVE ClientOK'
  <2>1. [kind |-> "ack", body |-> a] \in Tx
    BY DEF Tx, AckTx
  <2> QED
    BY <1>0, <1>2, <2>1, SendOK DEF WriteAck, Begin, ClientOK
<1>3. ASSUME NEW t \in Threads, ReadExisting(t) PROVE ClientOK'
  <2>1. req[t] \in Bodies /\ UNCHANGED <<req, why, late>>
    BY <1>0, <1>3 DEF ReadExisting, ClientOK
  <2>2. CASE \E r \in {"event", "conflict"} : Return(t, r)
    BY <1>0, <2>1, <2>2, ReturnOK DEF ClientOK
  <2>3. CASE /\ Send(t, [kind |-> "insert", body |-> req[t], grant |-> 0, now |-> clock])
             /\ UNCHANGED result
    <3>1. [kind |-> "insert", body |-> req[t], grant |-> 0, now |-> clock] \in Tx
      BY <2>1 DEF Tx, InsertTx
    <3> QED
      BY <1>0, <2>1, <2>3, <3>1, SendOK DEF ClientOK
  <2>4. CASE pc' = [pc EXCEPT ![t] = "grant"] /\ UNCHANGED <<tx, tries, result>>
    BY <1>0, <2>1, <2>4 DEF ClientOK
  <2> QED
    BY <1>3, <2>2, <2>3, <2>4 DEF ReadExisting
<1>4. ASSUME NEW t \in Threads, FindGrant(t) PROVE ClientOK'
  <2>1. req[t] \in Bodies /\ UNCHANGED <<req, why, late>>
    BY <1>0, <1>4 DEF FindGrant, ClientOK
  <2>2. CASE pc' = [pc EXCEPT ![t] = "reject"] /\ UNCHANGED <<tx, tries, result>>
    BY <1>0, <2>1, <2>2 DEF ClientOK
  <2>3. ASSUME NEW g \in MatchingGrants(req[t], clock), UNCHANGED result,
               Send(t, [kind |-> "insert", body |-> req[t], grant |-> g, now |-> clock])
        PROVE  ClientOK'
    <3>1. Len(grants) \in Nat
      BY DEF TablesOK
    <3>2. g \in Nat
      BY <2>3, <3>1 DEF MatchingGrants
    <3>3. [kind |-> "insert", body |-> req[t], grant |-> g, now |-> clock] \in Tx
      BY <2>1, <3>2 DEF Tx, InsertTx
    <3> QED
      BY <1>0, <2>1, <2>3, <3>3, SendOK DEF ClientOK
  <2> QED
    BY <1>4, <2>2, <2>3 DEF FindGrant
<1>5. ASSUME NEW t \in Threads, ReadBack(t) PROVE ClientOK'
  <2>1. req[t] \in Bodies /\ UNCHANGED <<req, why, late>>
    BY <1>0, <1>5 DEF ReadBack, ClientOK
  <2>2. CASE \E r \in {"event", "conflict", "denied"} : Return(t, r)
    BY <1>0, <2>1, <2>2, ReturnOK DEF ClientOK
  <2>3. CASE pc' = [pc EXCEPT ![t] = "reject"] /\ UNCHANGED <<tx, tries, result>>
    BY <1>0, <2>1, <2>3 DEF ClientOK
  <2> QED
    BY <1>5, <2>2, <2>3 DEF ReadBack
<1>6. ASSUME NEW t \in Threads, Reject(t) PROVE ClientOK'
  <2>1. req[t] \in Bodies /\ UNCHANGED <<req, why, late, result>>
    BY <1>0, <1>6 DEF Reject, ClientOK
  <2>2. PICK r \in Results : Send(t, [kind |-> "reject", body |-> req[t], result |-> r])
    BY <1>6 DEF Reject, Results
  <2>3. [kind |-> "reject", body |-> req[t], result |-> r] \in Tx
    BY <2>1 DEF Tx, RejectTx
  <2> QED
    BY <1>0, <2>1, <2>2, <2>3, SendOK DEF ClientOK
<1>7. ASSUME NEW t \in Threads, QueryFails(t) PROVE ClientOK'
  BY <1>0, <1>7, ReturnOK DEF QueryFails, ClientOK
<1>8. ASSUME NEW x \in Commands, Administer(x) PROVE ClientOK'
  <2>1. x \in Tx
    <3>1. Len(grants) \in Nat
      BY DEF TablesOK
    <3>2. \A s \in AclPlans : s[1] \in Peers
      OBVIOUS
    <3>3. clock \in Nat /\ clock + Grace \in Nat
      OBVIOUS
    <3> QED
      BY <3>1, <3>2, <3>3 DEF Commands, Tx, AdminTx
  <2> QED
    BY <1>0, <1>8, <2>1, SendOK DEF Administer, Begin, ClientOK
<1>9. ASSUME NEW t \in Callers, Answered(t) PROVE ClientOK'
  <2>1. UNCHANGED <<req, late>>
    BY <1>9 DEF Answered
  <2>2. CASE \E r \in {"denied", "error", "done"} : Return(t, r) /\ UNCHANGED why
    BY <2>1, <2>2, ReturnOK DEF ClientOK
  <2>3. CASE tx[t].kind = "insert"
    <3>1. /\ pc' = [pc EXCEPT ![t] = "readback"] /\ UNCHANGED result
          /\ why' = [why EXCEPT ![t] = Reason(tx[t])]
          /\ tx' = [tx EXCEPT ![t] = NoTx] /\ tries' = [tries EXCEPT ![t] = 0]
      BY <1>9, <2>3 DEF Answered
    <3>2. Reason(tx[t]) \in {"none", "unauthorized", "seq"}
      BY DEF Reason
    <3> QED
      BY <1>9, <2>1, <2>3, <3>1, <3>2 DEF ClientOK, Answered, BatchServes
  <2> QED
    BY <1>9, <2>2, <2>3 DEF Answered
<1>10. ASSUME NEW t \in Callers, AttemptFails(t) PROVE ClientOK'
  <2>1. /\ late' \subseteq Tx \X (1..Endpoints)
        /\ UNCHANGED <<req, why>>
        /\ pc[t] = "sending" /\ tries[t] \in 1..Endpoints
    <3>1. pc[t] = "sending" /\ tx[t] \in Tx /\ tries[t] \in 1..Endpoints
      BY <1>10 DEF AttemptFails, ClientOK
    <3> QED
      BY <1>10, <3>1 DEF AttemptFails, ClientOK
  <2>2. CASE Return(t, "unavailable")
    BY <2>1, <2>2, ReturnOK
  <2>3. CASE /\ tries[t] # 1 /\ tries' = [tries EXCEPT ![t] = @ - 1]
             /\ UNCHANGED <<pc, result, tx>>
    BY <2>1, <2>3 DEF ClientOK
  <2> QED
    BY <1>10, <2>2, <2>3 DEF AttemptFails
<1>11. ASSUME NEW a \in late, ExecuteLate(a) PROVE ClientOK'
  BY <1>11 DEF ExecuteLate, client, ClientOK
<1>12. ASSUME NEW ts \in {Threads, {Cli}}, Crash(ts) PROVE ClientOK'
  <2>1. late' \subseteq Tx \X (1..Endpoints)
    BY <1>0, <1>12 DEF Crash, ClientOK
  <2> QED
    BY <1>12, <2>1 DEF Crash, ClientOK
<1>13. ASSUME Tick PROVE ClientOK'
  BY <1>13 DEF Tick, client, ClientOK
<1> QED
  BY <1>1, <1>2, <1>3, <1>4, <1>5, <1>6, <1>7, <1>8, <1>9, <1>10, <1>11, <1>12, <1>13
  DEF Next, Step

\* Types, and whose batch is on its way.
TypeInv == TypeOK /\ BatchServes

\* Every step keeps them.
LEMMA TypeStep == TypeInv /\ [Next]_vars => TypeInv'
<1> SUFFICES ASSUME TypeInv, [Next]_vars PROVE TypeInv'
  OBVIOUS
<1> USE DEF TypeInv
<1>1. CASE UNCHANGED vars
  BY <1>1 DEF vars, TypeOK, TablesOK, ClientOK, BatchServes
<1>2. CASE Next
  <2>1. TablesOK'
    BY <1>2, ExecutesOrNot, TablesStep DEF TypeOK, db, log, authority, TablesOK
  <2>2. clock' \in Nat
    BY <1>2 DEF Next, Tick, TypeOK
  <2> QED
    BY <1>2, <2>1, <2>2, ClientStep, ServesStep DEF TypeOK
<1> QED
  BY <1>1, <1>2

\* Every variable always has its type, for all values of the constants; a caller that
\* reads serves an insert, and what it sends is its own request.
LEMMA TypeInvariant == Spec => []TypeInv
<1>1. ASSUME Init PROVE TypeInv
  <2>1. tokens \in [Tokens -> Token]
    <3>1. \A p \in Peers \cup {Nobody} : NewToken(p) \in Token
      BY DEF NewToken, Token
    <3> QED
      BY <1>1, <3>1, RaftAssumption DEF Init
  <2> QED
    BY <1>1, <2>1, RaftAssumption DEF Init, TypeInv, TypeOK, TablesOK, ClientOK, BatchServes
<1> QED
  BY <1>1, TypeStep, PTL DEF Spec

-----------------------------------------------------------------------------
(* The log *)

\* An event id, and a source's sequence number, is given once.
UniqueKeys ==
    \A i, j \in 1..Len(events) :
        i # j => /\ events[i].event_id # events[j].event_id
                 /\ events[i].source = events[j].source => events[i].seq # events[j].seq

\* A source's counter is no lower than its numbers.
CounterCovers ==
    \A i \in 1..Len(events) : events[i].seq <= source_counters[events[i].source]

\* A command has one audit row, anything else none.
AuditMatches ==
    \A e \in EventIds :
        accept_audit[e] = IF \E i \in 1..Len(events) :
                                events[i].event_id = e /\ events[i].type = "command"
                            THEN 1 ELSE 0

\* The inductive part about the log.
LogInv == UniqueKeys /\ CounterCovers /\ AuditMatches

\* Rows as their types say.
LEMMA RowFields ==
  ASSUME TablesOK
  PROVE  /\ Len(events) \in Nat
         /\ \A i \in 1..Len(events) :
               /\ events[i] \in Event
               /\ events[i].event_id \in EventIds /\ events[i].source \in Peers
               /\ events[i].seq \in Nat
<1>1. Len(events) \in Nat /\ \A i \in 1..Len(events) : events[i] \in Event
  BY DEF TablesOK
<1> QED
  BY <1>1 DEF Event

\* The rows after a batch that inserts.
LEMMA InsertedRows ==
  ASSUME TablesOK, NEW x \in InsertTx, Inserts(x), ExecuteInsert(x)
  PROVE  /\ Len(events') = Len(events) + 1
         /\ \A i \in 1..Len(events) : events'[i] = events[i]
         /\ events'[Len(events) + 1] = NewEvent(x.body)
         /\ events' = Append(events, NewEvent(x.body))
BY CounterOK, NewEventOK DEF ExecuteInsert, TablesOK

\* Counters never fall.
LEMMA CountersGrow ==
  ASSUME TablesOK, NEW x \in InsertTx, ExecuteInsert(x)
  PROVE  /\ \A p \in Peers : /\ source_counters[p] \in Nat /\ source_counters'[p] \in Nat
                             /\ source_counters'[p] >= source_counters[p]
         /\ Inserts(x) => source_counters'[x.body.source] >= NextSeq(x.body)
<1>1. /\ x.body.source \in Peers /\ Counter(x) \in Nat
      /\ Counter(x) >= source_counters[x.body.source]
      /\ Inserts(x) => Counter(x) >= NextSeq(x.body)
  BY CounterOK, BodyFields
<1>2. source_counters' = [source_counters EXCEPT ![x.body.source] = Counter(x)]
  BY DEF ExecuteInsert
<1> QED
  BY <1>1, <1>2 DEF TablesOK

\* A batch that is executed again finds its own row and changes nothing but, at most,
\* a counter.
LEMMA AuditOnlyWithRow ==
  ASSUME TablesOK, LogInv, NEW x \in InsertTx, AuditsAccept(x)
  PROVE  Inserts(x)
<1>1. x.body.event_id \in EventIds
  BY CounterOK, BodyFields
<1>2. StoredAs(x.body) /\ x.body.type = "command" => accept_audit[x.body.event_id] = 1
  BY <1>1 DEF StoredAs, SameIdentity, LogInv, AuditMatches
<1> QED
  BY <1>2 DEF AuditsAccept

\* An insert keeps the log sound.
LEMMA InsertKeepsLog ==
  ASSUME TablesOK, LogInv, NEW x \in InsertTx, Inserts(x), ExecuteInsert(x)
  PROVE  LogInv'
<1> DEFINE b == x.body
           n == Len(events)
<1>1. /\ n \in Nat /\ Len(events') = n + 1
      /\ \A i \in 1..n : events'[i] = events[i]
      /\ events'[n + 1] = NewEvent(b)
      /\ b \in Bodies
  BY InsertedRows, RowFields, CounterOK
<1>2. /\ NewEvent(b).event_id = b.event_id /\ NewEvent(b).source = b.source
      /\ NewEvent(b).seq = NextSeq(b) /\ NewEvent(b).type = b.type
      /\ NextSeq(b) \in Nat /\ b.source \in Peers /\ b.event_id \in EventIds
  BY <1>1, NewEventOK, BodyFields
<1>3. \A i \in 1..n : /\ events[i].event_id # b.event_id
                      /\ events[i].source = b.source => events[i].seq # NextSeq(b)
  BY DEF Inserts, Stored, SeqTaken
<1>4. UniqueKeys'
  BY <1>1, <1>2, <1>3 DEF UniqueKeys, LogInv
<1>5. CounterCovers'
  <2>1. \A i \in 1..n : events'[i].seq <= source_counters'[events'[i].source]
    <3> SUFFICES ASSUME NEW i \in 1..n
                 PROVE  events[i].seq <= source_counters'[events[i].source]
      BY <1>1
    <3>1. events[i].seq \in Nat /\ events[i].source \in Peers
      BY RowFields
    <3>2. events[i].seq <= source_counters[events[i].source]
      BY DEF LogInv, CounterCovers
    <3> QED
      BY <3>1, <3>2, CountersGrow
  <2>2. NextSeq(b) <= source_counters'[b.source]
    BY <1>2, CountersGrow
  <2> QED
    BY <1>1, <1>2, <2>1, <2>2 DEF CounterCovers
<1>6. AuditMatches'
  <2> SUFFICES ASSUME NEW e \in EventIds
               PROVE  accept_audit'[e] =
                        IF \E i \in 1..(n + 1) :
                              events'[i].event_id = e /\ events'[i].type = "command"
                          THEN 1 ELSE 0
    BY <1>1 DEF AuditMatches
  <2>1. accept_audit \in [EventIds -> Nat]
    BY DEF TablesOK
  <2>2. accept_audit[e] = IF \E i \in 1..n : events[i].event_id = e /\ events[i].type = "command"
                            THEN 1 ELSE 0
    BY DEF LogInv, AuditMatches
  <2>3. CASE e # b.event_id
    <3>1. accept_audit'[e] = accept_audit[e]
      BY <2>1, <2>3 DEF ExecuteInsert
    <3>2. (\E i \in 1..(n + 1) : events'[i].event_id = e /\ events'[i].type = "command")
            <=> (\E i \in 1..n : events[i].event_id = e /\ events[i].type = "command")
      BY <1>1, <1>2, <2>3
    <3> QED
      BY <2>2, <3>1, <3>2
  <2>4. CASE e = b.event_id
    <3>1. accept_audit[e] = 0
      BY <1>3, <2>2, <2>4
    <3>2. AuditsAccept(x) <=> b.type = "command"
      BY <2>4, <3>1 DEF AuditsAccept
    <3>3. accept_audit'[e] = IF b.type = "command" THEN 1 ELSE 0
      BY <2>1, <2>4, <3>1, <3>2 DEF ExecuteInsert
    <3>4. (\E i \in 1..(n + 1) : events'[i].event_id = e /\ events'[i].type = "command")
            <=> b.type = "command"
      BY <1>1, <1>2, <1>3, <2>4
    <3> QED
      BY <3>3, <3>4
  <2> QED
    BY <2>3, <2>4
<1> QED
  BY <1>4, <1>5, <1>6 DEF LogInv

\* Every step, and every attempt that runs late, keeps the log sound.
LEMMA LogStep == TypeOK /\ LogInv /\ [Next]_vars => LogInv'
<1> SUFFICES ASSUME TypeOK, LogInv, [Next]_vars PROVE LogInv'
  OBVIOUS
<1>1. ASSUME NEW x \in InsertTx, Inserts(x), ExecuteInsert(x) PROVE LogInv'
  BY <1>1, InsertKeepsLog DEF TypeOK
<1>2. ASSUME NEW x \in InsertTx, ~Inserts(x), ExecuteInsert(x) PROVE LogInv'
  <2>1. UNCHANGED <<events, accept_audit>>
    BY <1>2, AuditOnlyWithRow DEF ExecuteInsert, TypeOK
  <2>2. CounterCovers'
    <3> SUFFICES ASSUME NEW i \in 1..Len(events)
                 PROVE  events[i].seq <= source_counters'[events[i].source]
      BY <2>1 DEF CounterCovers
    <3>1. events[i].seq \in Nat /\ events[i].source \in Peers
      BY RowFields DEF TypeOK
    <3>2. events[i].seq <= source_counters[events[i].source]
      BY DEF LogInv, CounterCovers
    <3> QED
      BY <1>2, <3>1, <3>2, CountersGrow DEF TypeOK
  <2> QED
    BY <2>1, <2>2 DEF LogInv, UniqueKeys, AuditMatches
<1>3. CASE UNCHANGED log
  BY <1>3 DEF log, LogInv, UniqueKeys, CounterCovers, AuditMatches
<1>4. UNCHANGED vars \/ UNCHANGED db => UNCHANGED log
  BY DEF vars, db, log
<1> QED
  BY <1>1, <1>2, <1>3, <1>4, ExecutesOrNot, ExecutionCases DEF TypeOK

\* However often and however late batches are executed, no event_id and no (source,
\* seq) pair is stored twice, the counter of a source covers its rows, and a command is
\* audited as accepted exactly once and only with its row.
THEOREM LogCorrect == Spec => []RaftLogSound
<1>1. Init => LogInv
  BY DEF Init, LogInv, UniqueKeys, CounterCovers, AuditMatches
<1>2. TypeInv => TypeOK
  BY DEF TypeInv
<1>3. TypeOK /\ LogInv => RaftLogSound
  BY DEF RaftLogSound, LogInv, UniqueKeys, CounterCovers, AuditMatches
<1> QED
  BY <1>1, <1>2, <1>3, LogStep, TypeInvariant, PTL DEF Spec

-----------------------------------------------------------------------------
(* Authorization *)

\* A step that adds a row executes a batch that inserts and is on its way.
LEMMA GrowthInserts ==
  ASSUME TypeOK, Next, events' # events
  PROVE  \E x \in InsertTx : x \in InFlight /\ Inserts(x) /\ ExecuteInsert(x)
<1>1. UNCHANGED db => events' = events
  BY DEF db, log
<1>2. \A x \in Tx : ~Inserts(x) /\ ExecuteInsert(x) => events' = events
  BY DEF ExecuteInsert
<1>3. PICK x \in Tx : x \in InFlight /\ Execute(x)
  BY <1>1, ExecutesOrNot DEF TypeOK
<1> QED
  BY <1>2, <1>3, ExecutionCases DEF log

\* A batch that inserts was not put together before its time.
Composed(x) == x.kind = "insert" => x.now <= clock

\* None on its way was.
NowInv == (\A t \in Callers : Composed(tx[t])) /\ (\A a \in late : Composed(a[1]))

\* Sending a batch of now, or none, keeps it so.
LEMMA NowKept ==
  ASSUME TypeOK, NowInv, UNCHANGED clock, tx' \in [Callers -> Tx \cup {NoTx}],
         \A t \in Callers : \/ tx'[t] = tx[t]
                            \/ tx'[t].kind = "insert" => tx'[t].now = clock,
         \A a \in late' : a \in late \/ \E t \in Callers : a[1] = tx[t]
  PROVE  NowInv'
BY DEF NowInv, Composed, TypeOK

\* Every step keeps it so.
LEMMA NowStep == TypeInv /\ NowInv /\ [Next]_vars => NowInv'
<1> SUFFICES ASSUME TypeInv, TypeOK, NowInv, [Next]_vars PROVE NowInv'
  BY DEF TypeInv
<1>0. /\ Threads \subseteq Callers /\ Cli \in Callers
      /\ tx \in [Callers -> Tx \cup {NoTx}] /\ late \subseteq Tx \X (1..Endpoints)
  BY DEF Callers, TypeOK, ClientOK
<1>1. CASE UNCHANGED vars
  BY <1>1 DEF vars, NowInv, Composed
<1>2. CASE Tick
  <2>1. UNCHANGED <<tx, late>> /\ clock' = clock + 1 /\ clock \in Nat
    BY <1>2 DEF Tick, client, TypeOK
  <2>2. \A x \in Tx \cup {NoTx} : Composed(x) => Composed(x)'
    <3> SUFFICES ASSUME NEW x \in Tx \cup {NoTx}, x.kind = "insert", x.now <= clock
                 PROVE  x.now <= clock'
      BY DEF Composed
    <3>1. x.now \in Nat
      BY DEF Tx, InsertTx, RejectTx, AckTx, AdminTx, NoTx
    <3> QED
      BY <2>1, <3>1
  <2> QED
    BY <1>0, <2>1, <2>2 DEF NowInv, Composed
<1>3. CASE Step /\ UNCHANGED clock
  <2>0. tx' \in [Callers -> Tx \cup {NoTx}]
    BY <1>3, ClientStep DEF Next, TypeInv, ClientOK
  <2> USE <1>0, <1>3, <2>0, NowKept
  <2>1. ASSUME NEW t \in Threads, NEW b \in Bodies, InsertEvent(t, b) PROVE NowInv'
    BY <2>1 DEF InsertEvent, Begin, Send
  <2>2. ASSUME NEW t \in Threads, NEW a \in AckBodies, WriteAck(t, a) PROVE NowInv'
    BY <2>2 DEF WriteAck, Begin, Send
  <2>3. ASSUME NEW t \in Threads, ReadExisting(t) PROVE NowInv'
    BY <2>3 DEF ReadExisting, Return, Send, NoTx
  <2>4. ASSUME NEW t \in Threads, FindGrant(t) PROVE NowInv'
    BY <2>4 DEF FindGrant, Send
  <2>5. ASSUME NEW t \in Threads, ReadBack(t) \/ QueryFails(t) PROVE NowInv'
    BY <2>5 DEF ReadBack, QueryFails, Return, NoTx
  <2>6. ASSUME NEW t \in Threads, Reject(t) PROVE NowInv'
    BY <2>6 DEF Reject, Send
  <2>7. ASSUME NEW x \in Commands, Administer(x) PROVE NowInv'
    <3>1. x.kind # "insert"
      BY DEF Commands
    <3> QED
      BY <2>7, <3>1 DEF Administer, Begin, Send
  <2>8. ASSUME NEW t \in Callers, Answered(t) PROVE NowInv'
    BY <2>8 DEF Answered, Return, NoTx
  <2>9. ASSUME NEW t \in Callers, AttemptFails(t) PROVE NowInv'
    BY <2>9 DEF AttemptFails, Return, NoTx
  <2>10. ASSUME NEW a \in late, ExecuteLate(a) PROVE NowInv'
    BY <2>10 DEF ExecuteLate, client
  <2>11. ASSUME NEW ts \in {Threads, {Cli}}, Crash(ts) PROVE NowInv'
    BY <2>11 DEF Crash, NoTx
  <2> QED
    BY <1>3, <2>1, <2>2, <2>3, <2>4, <2>5, <2>6, <2>7, <2>8, <2>9, <2>10, <2>11 DEF Step
<1> QED
  BY <1>1, <1>2, <1>3 DEF Next

\* An event enters the log only while the ACL allows it, or while its token and a grant
\* stand unrevoked in the tables, however old the reads are that its batch was put together
\* from and however late it runs.  The end of a grace or of a grant's validity counts only
\* when it came before the batch was put together.
THEOREM AuthorizationCorrect == Spec => RaftAuthorizedAtCommit
<1> DEFINE Authorizing ==
      Len(events') > Len(events) =>
          \E b \in Bodies : SameIdentity(events'[Len(events')], b) /\ Permitted(b)
<1>1. TypeInv /\ NowInv /\ [Next]_vars => [Authorizing]_vars
  <2> SUFFICES ASSUME TypeOK, NowInv, Next, Len(events') > Len(events)
               PROVE  \E b \in Bodies : SameIdentity(events'[Len(events')], b) /\ Permitted(b)
    BY DEF TypeInv
  <2>1. events' # events
    BY RowFields DEF TypeOK
  <2>2. PICK x \in InsertTx : x \in InFlight /\ Inserts(x) /\ ExecuteInsert(x)
    BY <2>1, GrowthInserts
  <2>3. events'[Len(events')] = NewEvent(x.body) /\ x.body \in Bodies
    BY <2>2, InsertedRows, RowFields, CounterOK DEF TypeOK
  <2>4. SameIdentity(events'[Len(events')], x.body)
    BY <2>3, NewEventOK DEF SameIdentity, TypeOK
  <2>5. x.kind = "insert" /\ x.now <= clock
    BY <2>2 DEF InsertTx, InFlight, NowInv, Composed
  <2>6. Permitted(x.body)
    BY <2>2, <2>5 DEF Inserts, Authorized, Permitted
  <2> QED
    BY <2>3, <2>4, <2>6
<1>2. Init => NowInv
  BY DEF Init, NowInv, Composed, NoTx
<1> QED
  BY <1>1, <1>2, NowStep, TypeInvariant, PTL DEF Spec, RaftAuthorizedAtCommit

-----------------------------------------------------------------------------
(* What callers are told *)

\* Rows are never changed or removed.
LEMMA LogGrows ==
  ASSUME TypeOK, Next
  PROVE  /\ Len(events) \in Nat /\ Len(events') \in Nat /\ Len(events) <= Len(events')
         /\ \A i \in 1..Len(events) : events'[i] = events[i]
<1>1. CASE events' = events
  BY <1>1, RowFields DEF TypeOK
<1>2. CASE events' # events
  BY <1>2, GrowthInserts, InsertedRows, RowFields DEF TypeOK
<1> QED
  BY <1>1, <1>2

\* What is stored stays stored.
LEMMA StoredForever ==
  ASSUME TypeOK, Next
  PROVE  /\ \A e : Stored(e) => Stored(e)'
         /\ \A b : StoredAs(b) => (\E i \in 1..Len(events') : SameIdentity(events'[i], b))
BY LogGrows DEF Stored, StoredAs

\* A seq that the ledger assigns is above the counter, which covers the log.
LEMMA AssignedSeqFree ==
  ASSUME TypeOK, LogInv, NEW b \in Bodies, b.seq = 0
  PROVE  ~SeqTaken(b)
<1>1. NextSeq(b) = source_counters[b.source] + 1 /\ source_counters[b.source] \in Nat
  BY NewEventOK DEF NextSeq, TypeOK
<1>2. \A i \in 1..Len(events) : events[i].seq \in Nat
  BY RowFields DEF TypeOK
<1> QED
  BY <1>1, <1>2 DEF SeqTaken, LogInv, CounterCovers

\* What the answer to an insert leaves behind: the row, or why there is none.
ReasonOK(t) ==
    /\ why[t] = "none" => Stored(req[t].event_id)
    /\ why[t] = "seq" => req[t].seq # 0

\* What caller t reads back, and answers, is true of the log.
AnswerOK(t) ==
    /\ pc[t] = "readback" => ReasonOK(t)
    /\ pc[t] = "idle" /\ req[t] \in Bodies =>
          /\ result[t] = "event" => StoredAs(req[t])
          /\ result[t] = "denied" /\ req[t].type = "message" =>
                /\ why[t] # "none"
                /\ req[t].seq = 0 => why[t] = "unauthorized"

\* It holds of every caller.
AnswersInv == \A t \in Threads : AnswerOK(t)

\* An insert that stores nothing has a reason.
LEMMA InsertAnswered ==
  ASSUME TypeOK, LogInv, NEW x \in InsertTx, ExecuteInsert(x)
  PROVE  /\ Reason(x) = "none" => Stored(x.body.event_id)'
         /\ Reason(x) = "seq" => x.body.seq # 0
<1>1. x.body \in Bodies
  BY CounterOK DEF TypeOK
<1>2. ASSUME Reason(x) = "none" PROVE Stored(x.body.event_id)'
  <2>1. Authorized(x) /\ ~SeqTaken(x.body)
    BY <1>2 DEF Reason
  <2>2. CASE Stored(x.body.event_id)
    <3>1. ~Inserts(x)
      BY <2>2 DEF Inserts
    <3> QED
      BY <2>2, <3>1 DEF ExecuteInsert, Stored
  <2>3. CASE ~Stored(x.body.event_id)
    <3>1. Inserts(x)
      BY <2>1, <2>3 DEF Inserts
    <3>2. Len(events') = Len(events) + 1 /\ events'[Len(events) + 1] = NewEvent(x.body)
      BY <3>1, InsertedRows DEF TypeOK
    <3>3. NewEvent(x.body).event_id = x.body.event_id
      BY <1>1, NewEventOK DEF TypeOK
    <3> QED
      BY <3>2, <3>3, RowFields DEF Stored, TypeOK
  <2> QED
    BY <2>2, <2>3
<1> QED
  BY <1>1, <1>2, AssignedSeqFree DEF Reason

\* The step of another caller, or of none, leaves a thread's answer right.
LEMMA OtherCaller ==
  ASSUME TypeOK, Next, NEW s \in Threads, AnswerOK(s),
         pc'[s] = pc[s], req'[s] = req[s], result'[s] = result[s], why'[s] = why[s]
  PROVE  AnswerOK(s)'
<1>1. Stored(req[s].event_id) => Stored(req[s].event_id)'
  <2>1. Stored(req[s].event_id) => \E i \in 1..Len(events') : events'[i].event_id = req[s].event_id
    BY LogGrows DEF Stored
  <2> QED
    BY <2>1 DEF Stored
<1>2. StoredAs(req[s]) => StoredAs(req[s])'
  <2>1. StoredAs(req[s]) => \E i \in 1..Len(events') : SameIdentity(events'[i], req[s])
    BY StoredForever
  <2> QED
    BY <2>1 DEF StoredAs
<1> QED
  BY <1>1, <1>2 DEF AnswerOK, ReasonOK

\* Every step keeps the answers true.
LEMMA AnswersStep == TypeInv /\ LogInv /\ AnswersInv /\ [Next]_vars => AnswersInv'
<1> SUFFICES ASSUME TypeOK, BatchServes, LogInv, AnswersInv, [Next]_vars, NEW s \in Threads
             PROVE  AnswerOK(s)'
  BY DEF TypeInv, AnswersInv
<1>0. s \in Callers /\ Threads \subseteq Callers /\ AnswerOK(s) /\ Cli # s
  BY RaftAssumption DEF AnswersInv, Callers
<1>1. CASE UNCHANGED vars
  BY <1>0, <1>1 DEF vars, AnswerOK, ReasonOK, Stored, StoredAs
<1> SUFFICES ASSUME Next PROVE AnswerOK(s)'
  BY <1>1
<1> USE DEF TypeOK, ClientOK
<1>2. ASSUME NEW t \in Threads, NEW b \in Bodies, InsertEvent(t, b) PROVE AnswerOK(s)'
  <2>1. CASE s # t
    BY <1>0, <1>2, <2>1, OtherCaller DEF InsertEvent, Begin, Send
  <2>2. CASE s = t
    BY <1>0, <1>2, <2>2 DEF InsertEvent, Begin, Send, AnswerOK
  <2> QED
    BY <2>1, <2>2
<1>3. ASSUME NEW t \in Threads, NEW a \in AckBodies, WriteAck(t, a) PROVE AnswerOK(s)'
  <2>1. CASE s # t
    BY <1>0, <1>3, <2>1, OtherCaller DEF WriteAck, Begin, Send
  <2>2. CASE s = t
    BY <1>0, <1>3, <2>2 DEF WriteAck, Begin, Send, AnswerOK
  <2> QED
    BY <2>1, <2>2
<1>4. ASSUME NEW t \in Threads, ReadExisting(t) PROVE AnswerOK(s)'
  <2>1. CASE s # t
    BY <1>0, <1>4, <2>1, OtherCaller DEF ReadExisting, Return, Send
  <2>2. CASE s = t
    <3>1. /\ req'[s] = req[s] /\ events' = events
          /\ \/ pc'[s] \in {"sending", "grant"}
             \/ /\ pc'[s] = "idle" /\ result'[s] \in {"event", "conflict"}
                /\ result'[s] = "event" => StoredAs(req[s])
      BY <1>0, <1>4, <2>2 DEF ReadExisting, Return, Send, db, log
    <3> QED
      BY <3>1 DEF AnswerOK, StoredAs
  <2> QED
    BY <2>1, <2>2
<1>5. ASSUME NEW t \in Threads, FindGrant(t) PROVE AnswerOK(s)'
  <2>1. CASE s # t
    BY <1>0, <1>5, <2>1, OtherCaller DEF FindGrant, Send
  <2>2. CASE s = t
    BY <1>0, <1>5, <2>2 DEF FindGrant, Send, AnswerOK
  <2> QED
    BY <2>1, <2>2
<1>6. ASSUME NEW t \in Threads, ReadBack(t) PROVE AnswerOK(s)'
  <2>1. CASE s # t
    BY <1>0, <1>6, <2>1, OtherCaller DEF ReadBack, Return
  <2>2. CASE s = t
    <3>1. /\ req'[s] = req[s] /\ events' = events /\ why'[s] = why[s] /\ pc[s] = "readback"
          /\ \/ pc'[s] = "reject"
             \/ /\ pc'[s] = "idle" /\ result'[s] \in {"event", "conflict", "denied"}
                /\ result'[s] = "event" => StoredAs(req[s])
                /\ result'[s] = "denied" => ~Stored(req[s].event_id)
      BY <1>0, <1>6, <2>2 DEF ReadBack, Return, db, log
    <3>2. /\ why[s] \in {"none", "unauthorized", "seq"}
          /\ ReasonOK(s)
      BY <1>0, <3>1 DEF AnswerOK
    <3> QED
      BY <3>1, <3>2 DEF AnswerOK, ReasonOK, StoredAs
  <2> QED
    BY <2>1, <2>2
<1>7. ASSUME NEW t \in Threads, Reject(t) PROVE AnswerOK(s)'
  <2>1. CASE s # t
    BY <1>0, <1>7, <2>1, OtherCaller DEF Reject, Send
  <2>2. CASE s = t
    BY <1>0, <1>7, <2>2 DEF Reject, Send, AnswerOK
  <2> QED
    BY <2>1, <2>2
<1>8. ASSUME NEW t \in Threads, QueryFails(t) PROVE AnswerOK(s)'
  <2>1. CASE s # t
    BY <1>0, <1>8, <2>1, OtherCaller DEF QueryFails, Return
  <2>2. CASE s = t
    BY <1>0, <1>8, <2>2 DEF QueryFails, Return, AnswerOK
  <2> QED
    BY <2>1, <2>2
<1>9. ASSUME NEW x \in Commands, Administer(x) PROVE AnswerOK(s)'
  BY <1>0, <1>9, OtherCaller DEF Administer, Begin, Send
<1>10. ASSUME NEW t \in Callers, Answered(t) PROVE AnswerOK(s)'
  <2>1. CASE s # t
    BY <1>0, <1>10, <2>1, OtherCaller DEF Answered, Return
  <2>2. CASE s = t /\ tx[t].kind = "insert"
    <3>1. /\ pc'[s] = "readback" /\ why'[s] = Reason(tx[s]) /\ req'[s] = req[s]
          /\ tx[s] \in Tx /\ Execute(tx[s]) /\ tx[s].body = req[s]
      BY <1>0, <1>10, <2>2 DEF Answered, BatchServes
    <3>2. tx[s] \in InsertTx /\ ExecuteInsert(tx[s])
      BY <2>2, <3>1 DEF Execute, Tx, InsertTx, RejectTx, AckTx, AdminTx
    <3>3. /\ Reason(tx[s]) = "none" => \E i \in 1..Len(events') : events'[i].event_id = req[s].event_id
          /\ Reason(tx[s]) = "seq" => req[s].seq # 0
      BY <3>1, <3>2, InsertAnswered DEF Stored
    <3> QED
      BY <3>1, <3>3 DEF AnswerOK, ReasonOK, Stored
  <2>3. CASE s = t /\ tx[t].kind # "insert"
    <3>1. /\ pc'[s] = "idle" /\ req'[s] = req[s]
          /\ result'[s] \in {"denied", "error", "done"}
          /\ result'[s] = "denied" => tx[s].kind = "reject"
          /\ pc[s] = "sending"
      BY <1>0, <1>10, <2>3 DEF Answered, Return
    <3>2. result'[s] = "denied" => req[s].type = "command"
      BY <1>0, <3>1 DEF BatchServes
    <3> QED
      BY <3>1, <3>2 DEF AnswerOK
  <2> QED
    BY <2>1, <2>2, <2>3
<1>11. ASSUME NEW t \in Callers, AttemptFails(t) PROVE AnswerOK(s)'
  <2>1. CASE s # t \/ tries[t] # 1
    BY <1>0, <1>11, <2>1, OtherCaller DEF AttemptFails, Return
  <2>2. CASE s = t /\ tries[t] = 1
    BY <1>0, <1>11, <2>2 DEF AttemptFails, Return, AnswerOK
  <2> QED
    BY <2>1, <2>2
<1>12. ASSUME NEW a \in late, ExecuteLate(a) PROVE AnswerOK(s)'
  BY <1>0, <1>12, OtherCaller DEF ExecuteLate, client
<1>13. ASSUME NEW ts \in {Threads, {Cli}}, Crash(ts) PROVE AnswerOK(s)'
  <2>1. CASE s \notin ts
    BY <1>0, <1>13, <2>1, OtherCaller DEF Crash
  <2>2. CASE s \in ts
    BY <1>0, <1>13, <2>2 DEF Crash, AnswerOK
  <2> QED
    BY <2>1, <2>2
<1>14. ASSUME Tick PROVE AnswerOK(s)'
  BY <1>0, <1>14, OtherCaller DEF Tick, client
<1> QED
  BY <1>2, <1>3, <1>4, <1>5, <1>6, <1>7, <1>8, <1>9, <1>10, <1>11, <1>12, <1>13, <1>14
  DEF Next, Step

\* A caller that gets an event back finds it in the log, and a message is refused only
\* for the ACL, or for an explicit seq that is taken, whatever attempts run late.
THEOREM AnswersCorrect == Spec => []RaftAnswersSound
<1>1. Init => LogInv /\ AnswersInv
  BY DEF Init, LogInv, UniqueKeys, CounterCovers, AuditMatches, AnswersInv, AnswerOK, Callers
<1>2. AnswersInv => RaftAnswersSound
  BY DEF AnswersInv, AnswerOK, RaftAnswersSound
<1>3. TypeInv => TypeOK
  BY DEF TypeInv
<1> QED
  BY <1>1, <1>2, <1>3, LogStep, AnswersStep, TypeInvariant, PTL DEF Spec

-----------------------------------------------------------------------------
(* The rqlite ledger implements the abstract one *)

\* Failover, repeated and late batches are invisible in the abstract ledger, whether the
\* nodes enforce foreign keys or not.
THEOREM Refinement == Spec => RaftImplementsLedgerSpec
<1>1. Init => Abstract!SInit
  BY DEF Init, Abstract!SInit
<1>2. TypeInv /\ [Next]_vars => [Abstract!SNext]_(Abstract!svars)
  <2> SUFFICES ASSUME TypeOK, Next
               PROVE  Abstract!SNext \/ UNCHANGED <<events, acks>>
    BY DEF vars, Abstract!svars, TypeInv
  <2>1. ASSUME NEW x \in InsertTx, Inserts(x), ExecuteInsert(x) PROVE Abstract!Accept
    <3>1. /\ x.body \in Bodies
          /\ Len(events') = Len(events) + 1
          /\ events'[Len(events')] = NewEvent(x.body)
          /\ events' = Append(events, NewEvent(x.body))
      BY <2>1, InsertedRows, CounterOK, RowFields DEF TypeOK
    <3>2. /\ NewEvent(x.body).event_id = x.body.event_id
          /\ NewEvent(x.body).source = x.body.source
          /\ NewEvent(x.body).seq = NextSeq(x.body)
          /\ NewEvent(x.body) \in Event
      BY <3>1, NewEventOK DEF TypeOK
    <3>3. acks' = acks
      BY <2>1 DEF ExecuteInsert
    <3>4. Abstract!AcceptEvent(NewEvent(x.body))
      BY <2>1, <3>1, <3>2 DEF Abstract!AcceptEvent, Inserts, Stored, SeqTaken
    <3> QED
      BY <3>1, <3>3, <3>4 DEF Abstract!Accept
  <2>2. ASSUME NEW x \in InsertTx, ~Inserts(x), ExecuteInsert(x)
        PROVE  UNCHANGED <<events, acks>>
    BY <2>2 DEF ExecuteInsert
  <2>3. ASSUME NEW x \in AckTx, AckStands(x.body), acks' = acks \cup {x.body}, UNCHANGED log
        PROVE  \E a \in acks' : Abstract!Acknowledge(a)
    <3>1. x.body \in Ack
      BY RaftAssumption DEF AckTx
    <3> QED
      BY <2>3, <3>1 DEF AckStands, Stored, log, Abstract!Acknowledge, Abstract!Accepted
  <2>4. UNCHANGED db => UNCHANGED <<events, acks>>
    BY DEF db, log
  <2>5. UNCHANGED log => UNCHANGED events
    BY DEF log
  <2> QED
    BY <2>1, <2>2, <2>3, <2>4, <2>5, ExecutesOrNot, ExecutionCases DEF Abstract!SNext, TypeOK
<1> QED
  BY <1>1, <1>2, TypeInvariant, PTL DEF Spec, RaftImplementsLedgerSpec, Abstract!SSpec
=============================================================================
