-------------------------------- MODULE Ledger --------------------------------
(***************************************************************************)
(* The SQLite ledger (atalk/core.py, AtalkStore) behind the threaded HTTP  *)
(* server (atalk/server.py, do_POST): the write paths POST /events and     *)
(* POST /ack, and the operator commands that change who may write.         *)
(*                                                                         *)
(* Every request runs in a thread of its own with its own connection.  A   *)
(* handler reads the database several times (token, retry probe, backlog)  *)
(* before the one immediate transaction that writes, so each read is a     *)
(* step of its own and other threads and the operator's command-line       *)
(* process run in between.  The server may crash between any two steps.    *)
(***************************************************************************)
EXTENDS Naturals, Sequences, FiniteSets

CONSTANTS
    Peers,          \* peer ids
    Everyone,       \* the broadcast target "*"
    EventIds,       \* event ids that callers choose from
    Threads,        \* request threads the server runs at once
    Bodies,         \* bodies of POST /events requests
    AckBodies,      \* bodies of POST /ack requests
    Grants,         \* rows an operator may add to peer_grants
    AclPlans,       \* the ACLs an operator may install, as <<peer, targets>>
    AnyCommand,     \* the wildcard command_type "*" of a grant
    FileDenied,     \* pairs <<source, target>> the message ACL file denies
    MaxInboxDepth   \* --max-inbox-depth

Targets == Peers \cup {Everyone}
EventTypes == {"message", "command"}
AckTypes == {"received", "applied"}

\* A request body.  seq = 0 stands for a body without "seq"; source_ref says
\* whether one is given; op is payload["op"] ("" when missing) and fields the
\* other payload entries.
Body == [event_id : EventIds, source : Peers, target : Targets,
         type : EventTypes, seq : Nat, requires_ack : BOOLEAN,
         source_ref : BOOLEAN, op : STRING, fields : SUBSET STRING]

\* A row of peer_grants: grantor lets grantee issue command_type, provided
\* the payload has every entry of scope.
Grant == [id : Nat, grantor : Peers, grantee : Peers, command_type : STRING,
          scope : SUBSET STRING]

\* The columns of an events row the properties tell apart; the row's id is its
\* position in the table.
Event == [event_id : EventIds, source : Peers, target : Targets,
          type : EventTypes, seq : Nat, requires_ack : BOOLEAN]
Ack == [event_id : EventIds, agent_id : Peers, ack_type : AckTypes]

ASSUME LedgerAssumption ==
    /\ Everyone \notin Peers
    /\ AnyCommand \in STRING /\ AnyCommand # ""
    /\ Bodies \subseteq Body
    /\ AckBodies \subseteq Ack
    /\ Grants \subseteq Grant
    /\ AclPlans \subseteq Peers \X SUBSET Peers
    /\ FileDenied \subseteq Peers \X Targets
    /\ MaxInboxDepth \in Nat \ {0}
    /\ IsFiniteSet(Threads)

VARIABLES
    events,           \* table events, indexed by id
    source_counters,  \* last_seq per source, 0 when there is no row
    acks,             \* table acks
    accept_audit,     \* number of command_accept rows of audit_log per event id
    reject_audit,     \* the command_reject rows of audit_log, as <<event_id, result>>
    token_scope,      \* scope of the token each peer presents, "none" when revoked
    grants,           \* rows of peer_grants neither revoked nor past valid_until
    acl_rows,         \* peers with a row in peer_target_acl
    acl_targets,      \* table peer_target_acl_targets, as <<peer, target>>
    acl_op,           \* the peer-acl command in progress, or NoOp
    acl_intent,       \* history: targets some ACL in force or being installed allows
    pc,               \* where each request thread is
    req,              \* the request it serves
    is_retry,         \* the threads whose local is_retry is true
    status,           \* the thread's last answer
    resent            \* history: threads whose event was stored when the request arrived

tables == <<events, source_counters, acks, accept_audit, reject_audit>>
operator == <<token_scope, grants, acl_rows, acl_targets, acl_op, acl_intent>>
threads == <<pc, req, is_retry, status, resent>>
vars == <<events, source_counters, acks, accept_audit, reject_audit,
          token_scope, grants, acl_rows, acl_targets, acl_op, acl_intent,
          pc, req, is_retry, status, resent>>

-----------------------------------------------------------------------------
(* Queries of the store *)

\* get_event: a row with this event_id exists.
Stored(eid) == \E i \in 1..Len(events) : events[i].event_id = eid

\* verify_event_identity: the stored row is the same logical message.
SameIdentity(e, b) ==
    /\ e.event_id = b.event_id
    /\ e.source = b.source
    /\ e.target = b.target
    /\ e.type = b.type

StoredAs(b) == \E i \in 1..Len(events) : SameIdentity(events[i], b)

\* backlog_depth: the unapplied events a peer still has to handle.
Backlog(p) ==
    {i \in 1..Len(events) :
        /\ events[i].requires_ack
        /\ events[i].target \in {p, Everyone}
        /\ [event_id |-> events[i].event_id, agent_id |-> p,
            ack_type |-> "applied"] \notin acks}

\* _target_acl_allows: no ACL row means unrestricted; a restricted peer may
\* never broadcast.
TargetAclAllows(source, target) ==
    \/ source \notin acl_rows
    \/ /\ target # Everyone
       /\ <<source, target>> \in acl_targets

\* command_allowed: the target granted the source this operation.
CommandAllowed(b) ==
    /\ b.op # ""
    /\ \E g \in grants :
          /\ g.grantor = b.target
          /\ g.grantee = b.source
          /\ g.command_type \in {b.op, AnyCommand}
          /\ g.scope \subseteq b.fields

\* The seq the row gets: the caller's, or the source's counter plus one.
NextSeq(b) == IF b.seq # 0 THEN b.seq ELSE source_counters[b.source] + 1

NewEvent(b) ==
    [event_id |-> b.event_id, source |-> b.source, target |-> b.target,
     type |-> b.type, seq |-> NextSeq(b), requires_ack |-> b.requires_ack]

\* Mutant of SeqTaken: the table has no UNIQUE(source, seq).
SeqNeverTaken(b) == FALSE

\* UNIQUE(source, seq) of table events refuses the row.
SeqTaken(b) ==
    \E i \in 1..Len(events) :
        events[i].source = b.source /\ events[i].seq = NextSeq(b)

\* Mutant of HighWater: the last seq wins instead of the largest.
HighWaterLast(source, seq) == seq

\* The high-water mark of a source after a row with this seq.
HighWater(source, seq) ==
    IF seq > source_counters[source] THEN seq ELSE source_counters[source]

-----------------------------------------------------------------------------
(* Request threads *)

\* A thread that has served no request yet.
NoRequest == [event_id |-> "none"]

\* Thread t answers and is free for the next request.
Answer(t, code) ==
    /\ pc' = [pc EXCEPT ![t] = "idle"]
    /\ status' = [status EXCEPT ![t] = code]

\* POST /events arrives: the source's token must have scope "full" and the
\* message ACL file must not deny the pair.
PostEvents(t, b) ==
    /\ pc[t] = "idle"
    /\ req' = [req EXCEPT ![t] = b]
    /\ resent' = IF StoredAs(b) THEN resent \cup {t} ELSE resent \ {t}
    /\ is_retry' = is_retry \ {t}
    /\ IF token_scope[b.source] # "full" \/ <<b.source, b.target>> \in FileDenied
         THEN Answer(t, 403)
         ELSE /\ pc' = [pc EXCEPT ![t] = "probe"]
              /\ status' = [status EXCEPT ![t] = 0]
    /\ UNCHANGED <<tables, operator>>

\* Mutant of ProbeRetry: a retry is answered at once, without comparing it with
\* the stored row.
ProbeAnswersRetry(t) ==
    /\ pc[t] = "probe"
    /\ pc' = [pc EXCEPT ![t] = IF Stored(req[t].event_id) THEN "respond" ELSE "gate"]
    /\ UNCHANGED <<tables, operator, req, is_retry, status, resent>>

\* The retry probe: is the event stored already?
ProbeRetry(t) ==
    /\ pc[t] = "probe"
    /\ is_retry' = IF Stored(req[t].event_id) THEN is_retry \cup {t} ELSE is_retry \ {t}
    /\ pc' = [pc EXCEPT ![t] = "gate"]
    /\ UNCHANGED <<tables, operator, req, status, resent>>

\* Mutant of BacklogGate: one event too many.
GateOffByOne(t) ==
    /\ pc[t] = "gate"
    /\ IF /\ req[t].target # Everyone
          /\ t \notin is_retry
          /\ Cardinality(Backlog(req[t].target)) > MaxInboxDepth
         THEN Answer(t, 429)
         ELSE pc' = [pc EXCEPT ![t] = "insert"] /\ UNCHANGED status
    /\ UNCHANGED <<tables, operator, req, is_retry, resent>>

\* Mutant of BacklogGate: retries are refused too.
GateStopsRetries(t) ==
    /\ pc[t] = "gate"
    /\ IF /\ req[t].target # Everyone
          /\ Cardinality(Backlog(req[t].target)) >= MaxInboxDepth
         THEN Answer(t, 429)
         ELSE pc' = [pc EXCEPT ![t] = "insert"] /\ UNCHANGED status
    /\ UNCHANGED <<tables, operator, req, is_retry, resent>>

\* The backlog gate: a new direct event is refused when the inbox is full.
BacklogGate(t) ==
    /\ pc[t] = "gate"
    /\ IF /\ req[t].target # Everyone
          /\ t \notin is_retry
          /\ Cardinality(Backlog(req[t].target)) >= MaxInboxDepth
         THEN Answer(t, 429)
         ELSE /\ pc' = [pc EXCEPT ![t] = "insert"]
              /\ UNCHANGED status
    /\ UNCHANGED <<tables, operator, req, is_retry, resent>>

\* insert_event refuses the request before or inside its transaction, which is
\* rolled back; a refused command leaves a command_reject audit row.
RefuseCommand(t, result) ==
    /\ reject_audit' = reject_audit \cup {<<req[t].event_id, result>>}
    /\ Answer(t, 403)
    /\ UNCHANGED <<events, source_counters, acks, accept_audit>>

\* Mutant of CommitEvent: the audit row is not part of the transaction.
CommitWithoutAudit(t, b) ==
    /\ events' = Append(events, NewEvent(b))
    /\ source_counters' =
          [source_counters EXCEPT ![b.source] = HighWater(b.source, NextSeq(b))]
    /\ pc' = [pc EXCEPT ![t] = "respond"]
    /\ UNCHANGED <<acks, accept_audit, reject_audit, status>>

\* The transaction commits: the event row, the source's high-water mark and
\* the command_accept audit row together.
CommitEvent(t, b) ==
    /\ events' = Append(events, NewEvent(b))
    /\ source_counters' =
          [source_counters EXCEPT ![b.source] = HighWater(b.source, NextSeq(b))]
    /\ accept_audit' =
          IF b.type = "command"
            THEN [accept_audit EXCEPT ![b.event_id] = @ + 1]
            ELSE accept_audit
    /\ pc' = [pc EXCEPT ![t] = "respond"]
    /\ UNCHANGED <<acks, reject_audit, status>>

\* Mutant of InsertEvent: the check made when the request arrived is trusted.
InsertTrustingArrival(t) ==
    /\ pc[t] = "insert"
    /\ IF Stored(req[t].event_id) \/ SeqTaken(req[t])
         THEN Answer(t, 409) /\ UNCHANGED tables
         ELSE CommitEvent(t, req[t])
    /\ UNCHANGED <<operator, req, is_retry, resent>>

\* insert_event, one BEGIN IMMEDIATE transaction: idempotency probe,
\* authorization, event row, high-water mark and audit.
InsertEvent(t) ==
    /\ pc[t] = "insert"
    /\ LET b == req[t] IN
       \/ /\ b.type = "command" /\ ~b.source_ref
          /\ RefuseCommand(t, "missing_source_ref")
       \/ /\ b.type = "command" => b.source_ref
          /\ \/ /\ Stored(b.event_id)
                /\ IF StoredAs(b)
                     THEN pc' = [pc EXCEPT ![t] = "respond"] /\ UNCHANGED status
                     ELSE Answer(t, 409)
                /\ UNCHANGED tables
             \/ /\ ~Stored(b.event_id)
                /\ \/ /\ b.type = "command" /\ token_scope[b.source] = "none"
                      /\ RefuseCommand(t, "invalid_token")
                   \/ /\ b.type = "command" /\ token_scope[b.source] # "none"
                      /\ ~CommandAllowed(b)
                      /\ RefuseCommand(t, "grant_denied")
                   \/ /\ b.type = "message"
                      /\ ~TargetAclAllows(b.source, b.target)
                      /\ Answer(t, 403)
                      /\ UNCHANGED tables
                   \/ /\ IF b.type = "command"
                           THEN token_scope[b.source] # "none" /\ CommandAllowed(b)
                           ELSE TargetAclAllows(b.source, b.target)
                      /\ IF SeqTaken(b)
                           THEN Answer(t, 500) /\ UNCHANGED tables
                           ELSE CommitEvent(t, b)
    /\ UNCHANGED <<operator, req, is_retry, resent>>

\* The handler wakes the target's stream and answers 201 with the stored row.
Respond(t) ==
    /\ pc[t] = "respond"
    /\ Answer(t, 201)
    /\ UNCHANGED <<tables, operator, req, is_retry, resent>>

\* POST /ack arrives: the agent's token must have scope "full".
PostAck(t, a) ==
    /\ pc[t] = "idle"
    /\ req' = [req EXCEPT ![t] = a]
    /\ resent' = resent \ {t}
    /\ is_retry' = is_retry \ {t}
    /\ IF token_scope[a.agent_id] # "full"
         THEN Answer(t, 403)
         ELSE /\ pc' = [pc EXCEPT ![t] = "ack"]
              /\ status' = [status EXCEPT ![t] = 0]
    /\ UNCHANGED <<tables, operator>>

\* Mutant of WriteAck: foreign keys are not enforced.
WriteAckUnchecked(t) ==
    /\ pc[t] = "ack"
    /\ acks' = acks \cup {req[t]}
    /\ Answer(t, 200)
    /\ UNCHANGED <<events, source_counters, accept_audit, reject_audit,
                   operator, req, is_retry, resent>>

\* ack: one upsert; the foreign key refuses an unknown event.
WriteAck(t) ==
    /\ pc[t] = "ack"
    /\ IF Stored(req[t].event_id)
         THEN acks' = acks \cup {req[t]} /\ Answer(t, 200)
         ELSE UNCHANGED acks /\ Answer(t, 500)
    /\ UNCHANGED <<events, source_counters, accept_audit, reject_audit,
                   operator, req, is_retry, resent>>

\* The server process dies: requests in flight get no answer, committed
\* transactions stay.
Crash ==
    /\ \E t \in Threads : pc[t] # "idle"
    /\ pc' = [t \in Threads |-> "idle"]
    /\ req' = [t \in Threads |-> NoRequest]
    /\ is_retry' = {}
    /\ status' = [t \in Threads |-> 0]
    /\ resent' = {}
    /\ UNCHANGED <<tables, operator>>

-----------------------------------------------------------------------------
(* The operator's command-line process *)

\* revoke_device_token, or a grace interval that runs out.
RevokeToken(p) ==
    /\ token_scope[p] # "none"
    /\ token_scope' = [token_scope EXCEPT ![p] = "none"]
    /\ UNCHANGED <<tables, threads, grants, acl_rows, acl_targets, acl_op, acl_intent>>

\* add_grant
AddGrant(g) ==
    /\ g \notin grants
    /\ grants' = grants \cup {g}
    /\ UNCHANGED <<tables, threads, token_scope, acl_rows, acl_targets, acl_op, acl_intent>>

\* revoke_grant, or valid_until running out.
RevokeGrant(g) ==
    /\ g \in grants
    /\ grants' = grants \ {g}
    /\ UNCHANGED <<tables, threads, token_scope, acl_rows, acl_targets, acl_op, acl_intent>>

NoOp == [step |-> "none", peer |-> Everyone, todo |-> {}, new |-> {}]

\* set_target_acl and clear_target_acl commit statement by statement: the
\* connection is in autocommit mode, and the store's lock does not reach the
\* server, which is another process.  set: the ACL row, then the old targets go,
\* then the new ones come one at a time.  The model has one such command at a time;
\* two that overlap for one peer may leave the targets of both.
SetAclRow(p, S) ==
    /\ acl_op = NoOp
    /\ acl_rows' = acl_rows \cup {p}
    /\ acl_op' = [step |-> "delete", peer |-> p, todo |-> S, new |-> S]
    /\ acl_intent' = [acl_intent EXCEPT ![p] = @ \cup S]
    /\ UNCHANGED <<tables, threads, token_scope, grants, acl_targets>>

\* Mutant of SetAclDelete: the old targets stay.
SetAclKeepsOld ==
    /\ acl_op.step = "delete"
    /\ acl_op' = [acl_op EXCEPT !.step = "insert"]
    /\ UNCHANGED <<tables, threads, token_scope, grants, acl_rows, acl_targets, acl_intent>>

SetAclDelete ==
    /\ acl_op.step = "delete"
    /\ acl_targets' = {x \in acl_targets : x[1] # acl_op.peer}
    /\ acl_op' = [acl_op EXCEPT !.step = "insert"]
    /\ UNCHANGED <<tables, threads, token_scope, grants, acl_rows, acl_intent>>

SetAclInsert ==
    /\ acl_op.step = "insert"
    /\ \/ \E g \in acl_op.todo :
            /\ acl_targets' = acl_targets \cup {<<acl_op.peer, g>>}
            /\ acl_op' = [acl_op EXCEPT !.todo = @ \ {g}]
            /\ UNCHANGED acl_intent
       \/ /\ acl_op.todo = {}
          /\ acl_op' = NoOp
          /\ acl_intent' = [acl_intent EXCEPT ![acl_op.peer] = acl_op.new]
          /\ UNCHANGED acl_targets
    /\ UNCHANGED <<tables, threads, token_scope, grants, acl_rows>>

\* clear: the targets go, then the row.
ClearAclTargets(p) ==
    /\ acl_op = NoOp
    /\ acl_targets' = {x \in acl_targets : x[1] # p}
    /\ acl_op' = [NoOp EXCEPT !.step = "unrow", !.peer = p]
    /\ acl_intent' = [acl_intent EXCEPT ![p] = Targets]
    /\ UNCHANGED <<tables, threads, token_scope, grants, acl_rows>>

ClearAclRow ==
    /\ acl_op.step = "unrow"
    /\ acl_rows' = acl_rows \ {acl_op.peer}
    /\ acl_op' = NoOp
    /\ UNCHANGED <<tables, threads, token_scope, grants, acl_targets, acl_intent>>

\* The command-line process dies half-way; what it committed stays.
OperatorCrash ==
    /\ acl_op # NoOp
    /\ acl_op' = NoOp
    /\ UNCHANGED <<tables, threads, token_scope, grants, acl_rows, acl_targets, acl_intent>>

-----------------------------------------------------------------------------
Init ==
    /\ events = <<>>
    /\ source_counters = [p \in Peers |-> 0]
    /\ acks = {}
    /\ accept_audit = [e \in EventIds |-> 0]
    /\ reject_audit = {}
    /\ token_scope \in [Peers -> {"full", "notify"}]
    /\ grants \in SUBSET Grants
    /\ acl_rows = {}
    /\ acl_targets = {}
    /\ acl_op = NoOp
    /\ acl_intent = [p \in Peers |-> Targets]
    /\ pc = [t \in Threads |-> "idle"]
    /\ req = [t \in Threads |-> NoRequest]
    /\ is_retry = {}
    /\ status = [t \in Threads |-> 0]
    /\ resent = {}

Server ==
    \/ \E t \in Threads :
          \/ \E b \in Bodies : PostEvents(t, b)
          \/ \E a \in AckBodies : PostAck(t, a)
          \/ ProbeRetry(t) \/ BacklogGate(t) \/ InsertEvent(t) \/ Respond(t)
          \/ WriteAck(t)
    \/ Crash

Operator ==
    \/ \E p \in Peers : RevokeToken(p)
    \/ \E plan \in AclPlans : SetAclRow(plan[1], plan[2]) \/ ClearAclTargets(plan[1])
    \/ \E g \in Grants : AddGrant(g) \/ RevokeGrant(g)
    \/ SetAclDelete \/ SetAclInsert \/ ClearAclRow \/ OperatorCrash

Next == Server \/ Operator

Spec == Init /\ [][Next]_vars

-----------------------------------------------------------------------------
(* Properties *)

TablesOK ==
    /\ events \in Seq(Event)
    /\ source_counters \in [Peers -> Nat]
    /\ acks \subseteq Ack
    /\ accept_audit \in [EventIds -> Nat]
    /\ reject_audit \subseteq
          EventIds \X {"missing_source_ref", "invalid_token", "grant_denied"}

OperatorOK ==
    /\ token_scope \in [Peers -> {"full", "notify", "none"}]
    /\ grants \subseteq Grants
    /\ acl_rows \subseteq Peers
    /\ acl_targets \subseteq Peers \X Peers
    /\ acl_op \in [step : {"none", "delete", "insert", "unrow"}, peer : Targets,
                   todo : SUBSET Peers, new : SUBSET Peers]
    /\ acl_op.step # "none" => acl_op.peer \in Peers
    /\ acl_intent \in [Peers -> SUBSET Targets]

\* A thread past its arrival check serves a request of the kind its position
\* says.
ThreadsOK ==
    /\ pc \in [Threads -> {"idle", "probe", "gate", "insert", "respond", "ack"}]
    /\ req \in [Threads -> Bodies \cup AckBodies \cup {NoRequest}]
    /\ \A t \in Threads :
          /\ pc[t] \in {"probe", "gate", "insert", "respond"} => req[t] \in Bodies
          /\ pc[t] = "ack" => req[t] \in AckBodies
    /\ is_retry \subseteq Threads
    /\ status \in [Threads -> {0, 200, 201, 403, 409, 429, 500}]
    /\ resent \subseteq Threads

\* Every variable has its type.
TypeOK == TablesOK /\ OperatorOK /\ ThreadsOK

\* No two rows of the log share an event_id or a (source, seq) pair, however
\* requests and their retries interleave (insert_event's probe and the UNIQUE
\* constraints are checked inside one transaction).
UniqueKeys ==
    \A i, j \in 1..Len(events) :
        i # j => /\ events[i].event_id # events[j].event_id
                 /\ events[i].source = events[j].source =>
                       events[i].seq # events[j].seq

\* The counter of a source is at least every seq its rows carry, caller-chosen
\* ones included (insert_event's max(last_seq, excluded.last_seq)).
CounterCoversLog ==
    \A i \in 1..Len(events) :
        events[i].seq <= source_counters[events[i].source]

\* A request that lets the server choose the seq is never refused for a seq
\* collision (HTTP 500), whatever seq values other requests brought.
AssignedSeqNeverRefused ==
    \A t \in Threads :
        /\ pc[t] = "idle"
        /\ req[t] \in Bodies
        /\ req[t].seq = 0
        => status[t] # 500

\* A command is audited as accepted exactly once, and exactly when its row is
\* in the log: a retry adds no second audit row and no audit row outlives a
\* rolled-back insert.
AuditMatchesLog ==
    \A e \in EventIds :
        accept_audit[e] =
            IF \E i \in 1..Len(events) :
                  events[i].event_id = e /\ events[i].type = "command"
              THEN 1 ELSE 0

\* The log is what its requests may rely on: unique keys, counters that cover it
\* and an audit trail that matches it, all at once.
LogSound == UniqueKeys /\ CounterCoversLog /\ AuditMatchesLog

\* A 201 means the log holds this very message (same source, target, type),
\* even after a crash and retries by other threads.
AcceptedMeansStored ==
    \A t \in Threads : status[t] = 201 => StoredAs(req[t])

\* A retry that arrives after its event was stored is never refused by the
\* backlog gate (429), as a conflict (409) or for its seq (500).
RetryNotRefused ==
    \A t \in resent : status[t] \notin {409, 429, 500}

\* The answers of the request threads are truthful: 201 means stored, a retry of
\* a stored event is not refused, and an assigned seq never collides.
AnswersSound == AcceptedMeansStored /\ RetryNotRefused /\ AssignedSeqNeverRefused

\* A command enters the log only in a state in which its source's token is
\* still valid and a grant still covers it: a revocation between the arrival
\* check and the insert is honoured.
AuthorizedAtCommit ==
    [][\A t \in Threads :
          /\ Len(events') > Len(events)
          /\ events'[Len(events')].event_id = req[t].event_id
          /\ events'[Len(events')].type = "command"
          /\ pc[t] = "insert" /\ pc'[t] = "respond"
          => /\ token_scope[req[t].source] # "none"
             /\ CommandAllowed(req[t])]_vars

\* While peer-acl rewrites a peer's ACL statement by statement, and after it
\* dies half-way, the peer reaches no target that neither the ACL before nor an
\* ACL being installed allows.
AclFailsClosed ==
    \A p \in Peers, g \in Targets :
        TargetAclAllows(p, g) => g \in acl_intent[p]

\* Unapplied events sent to p directly.
DirectBacklog(p) == {i \in Backlog(p) : events[i].target = p}

\* The backlog gate is checked before the insert, so concurrent requests can
\* overshoot the limit, but only by the other requests in flight.
BacklogOvershoot ==
    \A p \in Peers :
        Cardinality(DirectBacklog(p)) <= MaxInboxDepth + Cardinality(Threads) - 1

\* What spec/atalk-protocol-0.9-draft.md says (ATP-ERR-01): a request answered
\* with 429 has not committed its event.
RefusedMeansNotStored ==
    [][\A t \in Threads :
          status[t] # 429 /\ status'[t] = 429 => ~StoredAs(req[t])]_vars

\* The ledger with its request threads implements the abstract ledger.
Abstract == INSTANCE LedgerSpec WITH log <- events, acked <- acks, ChecksAcks <- TRUE
ImplementsLedgerSpec == Abstract!SSpec
=============================================================================
