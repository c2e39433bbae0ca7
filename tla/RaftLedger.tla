------------------------------ MODULE RaftLedger ------------------------------
(***************************************************************************)
(* The rqlite ledger (atalk/raftsql.py): RaftSQLStore over RqliteClient.   *)
(*                                                                         *)
(* Every statement batch is one transaction of the Raft cluster.  The      *)
(* client sends it to one endpoint after the other until one answers: an   *)
(* attempt that failed may have been executed, may never be, or may be     *)
(* executed later, behind everything that happened since.  So a batch runs *)
(* any number of times up to the number of endpoints, and the last time    *)
(* perhaps long after its caller got an answer.  A store operation is a    *)
(* chain of strong reads and such batches, and other callers run between   *)
(* any two of them.  The handler around the store is the one of Ledger.    *)
(***************************************************************************)
EXTENDS Naturals, Sequences, FiniteSets

CONSTANTS
    Peers,       \* peer ids
    Everyone,    \* the broadcast target "*"
    EventIds,    \* event ids that callers choose from
    Tokens,      \* tokens; a row is found by its hash, which is UNIQUE
    FirstTokens, \* whose the tokens are that are in the table at first
    Grace,       \* --grace-seconds of peer-rotate
    Threads,     \* request threads of the server
    Cli,         \* the operator's command-line process
    Endpoints,   \* number of rqlite endpoints the client knows
    Bodies,      \* arguments of insert_event
    AckBodies,   \* arguments of ack
    Grants,      \* rows an operator may add to peer_grants
    AclPlans,    \* the ACLs an operator may install, as <<peer, targets>>
    AnyCommand,  \* the wildcard command_type "*" of a grant
    ForeignKeys, \* TRUE when the nodes enforce the foreign keys of the schema
    MaxClock,    \* bound: seconds the clock counts
    MaxGrants,   \* bound: rows of peer_grants
    MaxLate      \* bound: failed attempts that may still be executed at once

Targets == Peers \cup {Everyone}
Callers == Threads \cup {Cli}

\* seq = 0 stands for seq=None; op is payload["op"] and fields the other entries.
Body == [event_id : EventIds, source : Peers, target : Targets,
         type : {"message", "command"}, seq : Nat, source_ref : {"given", "missing"},
         op : STRING, fields : SUBSET STRING, token : Tokens]
Event == [event_id : EventIds, source : Peers, target : Targets,
          type : {"message", "command"}, seq : Nat]
Ack == [event_id : EventIds, agent_id : Peers, ack_type : {"received", "applied"}]
\* valid_until = 0, grace = 0: NULL.  A token that is in no row is nobody's.
Grant == [grantor : Peers, grantee : Peers, command_type : STRING, scope : SUBSET STRING,
          valid_until : Nat]
Nobody == "none"
Token == [peer : Peers \cup {Nobody}, grace : Nat, revoked : {"no", "yes"}]
NewToken(p) == [peer |-> p, grace |-> 0, revoked |-> "no"]
Results == {"missing_source_ref", "invalid_token", "grant_denied"}

\* The statement batches, by the operation that sends them; grant is the row
\* _matching_grant found, now the time the batch was put together (it matters for a command).
InsertTx == [kind : {"insert"}, body : Bodies, grant : Nat, now : Nat]
RejectTx == [kind : {"reject"}, body : Bodies, result : Results]
AckTx == [kind : {"ack"}, body : AckBodies]
AdminTx == [kind : {"add_grant"}, row : Grants] \cup [kind : {"revoke_grant"}, id : Nat]
           \cup [kind : {"revoke_token"}, token : Tokens]
           \cup [kind : {"rotate"}, peer : Peers, token : Tokens, now : Nat, until : Nat]
           \cup [kind : {"set_acl"}, plan : AclPlans] \cup [kind : {"clear_acl"}, peer : Peers]
NoTx == [kind |-> "none"]
Tx == InsertTx \cup RejectTx \cup AckTx \cup AdminTx

ASSUME RaftAssumption ==
    /\ Everyone \notin Peers /\ Nobody \notin Peers /\ Cli \notin Threads
    /\ Endpoints \in Nat \ {0} /\ MaxGrants \in Nat /\ MaxLate \in Nat
    /\ MaxClock \in Nat /\ Grace \in Nat
    /\ \A k \in DOMAIN FirstTokens : FirstTokens[k] \in Peers
    /\ Bodies \subseteq Body /\ AckBodies \subseteq Ack /\ Grants \subseteq Grant
    /\ AclPlans \subseteq Peers \X SUBSET Peers
    /\ AnyCommand \in STRING
    /\ ForeignKeys \in BOOLEAN

VARIABLES
    events,           \* table events, indexed by id
    source_counters,  \* last_seq per source, 0 when there is no row
    acks,             \* table acks
    accept_audit,     \* number of command_accept rows of audit_log per event id
    reject_audit,     \* the command_reject rows, as <<event_id, result>>
    tokens,           \* table peer_tokens
    grants,           \* table peer_grants, indexed by id
    revoked,          \* the ids of its revoked rows
    acl_rows,         \* table peer_target_acl
    acl_targets,      \* table peer_target_acl_targets, as <<peer, target>>
    pc,               \* where each caller is
    req,              \* the arguments of its operation
    tx,               \* the batch it sends
    tries,            \* endpoints it has not tried yet
    result,           \* how its last operation ended
    why,              \* history: why the batch it was answered stored nothing
    late,             \* failed attempts that may still be executed, as <<batch, try>>
    clock             \* the time, in seconds from 1

log == <<events, source_counters, accept_audit>>
authority == <<tokens, grants, revoked, acl_rows, acl_targets>>
db == <<log, acks, reject_audit, authority>>
client == <<pc, req, tx, tries, result, why>>
vars == <<events, source_counters, acks, accept_audit, reject_audit, tokens, grants,
          revoked, acl_rows, acl_targets, pc, req, tx, tries, result, why, late,
          clock>>

-----------------------------------------------------------------------------
(* The statements *)

Stored(eid) == \E i \in 1..Len(events) : events[i].event_id = eid

\* verify_event_identity
SameIdentity(e, b) ==
    /\ e.event_id = b.event_id
    /\ e.source = b.source
    /\ e.target = b.target
    /\ e.type = b.type

StoredAs(b) == \E i \in 1..Len(events) : SameIdentity(events[i], b)

\* acl_condition of insert_event.
AclAllows(b) ==
    \/ b.source \notin acl_rows
    \/ b.target # Everyone /\ <<b.source, b.target>> \in acl_targets

\* The peer_grants columns and the scope cover this command.
Covers(g, b) ==
    /\ b.op # ""
    /\ g.grantor = b.target
    /\ g.grantee = b.source
    /\ g.command_type \in {b.op, AnyCommand}
    /\ g.scope \subseteq b.fields

\* The rows of peer_grants that cover it, unrevoked and not over at the time now.
MatchingGrants(b, now) ==
    {i \in 1..Len(grants) \ revoked :
        Covers(grants[i], b) /\ (grants[i].valid_until = 0 \/ grants[i].valid_until >= now)}

\* The caller's token is its source's and not revoked.
TokenStands(b) ==
    /\ tokens[b.token].peer = b.source
    /\ tokens[b.token].revoked = "no"

\* Nor is its grace over at the time now.
TokenValid(b, now) ==
    TokenStands(b) /\ (tokens[b.token].grace = 0 \/ tokens[b.token].grace >= now)

\* Mutant of Authorized: the batch trusts the grant and the token that were read
\* before it.
AuthorizedWhenRead(x) == x.body.type = "message" => AclAllows(x.body)

\* The WHERE condition every statement of the batch carries: the ACL for a message; the
\* token and the very grant that was found for a command, as they are at the execution,
\* but with their times compared to the one the batch was put together at.
Authorized(x) ==
    IF x.body.type = "message"
      THEN AclAllows(x.body)
      ELSE /\ TokenValid(x.body, x.now)
           /\ x.grant \in MatchingGrants(x.body, x.now)

NextSeq(b) == IF b.seq # 0 THEN b.seq ELSE source_counters[b.source] + 1

SeqTaken(b) ==
    \E i \in 1..Len(events) : events[i].source = b.source /\ events[i].seq = NextSeq(b)

NewEvent(b) ==
    [event_id |-> b.event_id, source |-> b.source, target |-> b.target,
     type |-> b.type, seq |-> NextSeq(b)]

\* INSERT OR IGNORE INTO events ... SELECT ... WHERE condition.
Inserts(x) == Authorized(x) /\ ~Stored(x.body.event_id) /\ ~SeqTaken(x.body)

\* With seq=None the counter is raised first, unless the event is there.
CountsUp(x) == Authorized(x) /\ ~Stored(x.body.event_id)

\* With an explicit seq it follows, when the batch's row is there.
RaisedBy(x) ==
    LET b == x.body IN
    \/ Inserts(x)
    \/ \E i \in 1..Len(events) :
          /\ events[i].event_id = b.event_id
          /\ events[i].source = b.source
          /\ events[i].seq = b.seq

\* Mutant of Counter: explicit seqs do not raise it.
CounterWithoutExplicit(x) ==
    LET c == source_counters[x.body.source] IN
    IF x.body.seq = 0 /\ CountsUp(x) THEN c + 1 ELSE c

\* The source's counter after the batch.
Counter(x) ==
    LET b == x.body  c == source_counters[b.source] IN
    IF b.seq = 0
      THEN IF CountsUp(x) THEN c + 1 ELSE c
      ELSE IF RaisedBy(x) /\ b.seq > c THEN b.seq ELSE c

\* Mutant of AuditsAccept: every execution adds its command_accept row.
AuditsAcceptAgain(x) == x.body.type = "command" /\ (Inserts(x) \/ StoredAs(x.body))

\* The command_accept row is written with the event, unless it is there.
AuditsAccept(x) ==
    /\ x.body.type = "command"
    /\ Inserts(x) \/ StoredAs(x.body)
    /\ accept_audit[x.body.event_id] = 0

\* Mutant of ExecuteInsert: INSERT OR REPLACE.
ExecuteInsertReplaces(x) ==
    LET b == x.body IN
    /\ events' = IF Inserts(x) THEN Append(events, NewEvent(b))
                 ELSE [i \in 1..Len(events) |->
                         IF Authorized(x) /\ events[i].event_id = b.event_id
                           THEN [NewEvent(b) EXCEPT !.seq = events[i].seq] ELSE events[i]]
    /\ source_counters' = [source_counters EXCEPT ![b.source] = Counter(x)]
    /\ accept_audit' = IF AuditsAccept(x)
                         THEN [accept_audit EXCEPT ![b.event_id] = @ + 1]
                         ELSE accept_audit
    /\ UNCHANGED <<acks, reject_audit, authority>>

ExecuteInsert(x) ==
    LET b == x.body IN
    /\ events' = IF Inserts(x) THEN Append(events, NewEvent(b)) ELSE events
    /\ source_counters' = [source_counters EXCEPT ![b.source] = Counter(x)]
    /\ accept_audit' = IF AuditsAccept(x)
                         THEN [accept_audit EXCEPT ![b.event_id] = @ + 1]
                         ELSE accept_audit
    /\ UNCHANGED <<acks, reject_audit, authority>>

ExecuteReject(x) ==
    /\ reject_audit' = reject_audit \cup {<<x.body.event_id, x.result>>}
    /\ UNCHANGED <<log, acks, authority>>

\* Only where the nodes were told to enforce foreign keys, which is not their default,
\* does one refuse an acknowledgement of an unknown event.
AckStands(a) == ForeignKeys => Stored(a.event_id)

ExecuteAck(x) ==
    /\ acks' = IF AckStands(x.body) THEN acks \cup {x.body} ELSE acks
    /\ UNCHANGED <<log, reject_audit, authority>>

\* The rows the first statement of rotate_peer_token puts into grace (it passes over device
\* tokens, which are the matter of module Tokens).
InGrace(x, k) ==
    /\ tokens[k].peer = x.peer /\ tokens[k].revoked = "no"
    /\ tokens[k].grace = 0 \/ tokens[k].grace >= x.now

\* A token that is in the table already fails the whole batch, its own second execution too.
RotationFails(x) == x.kind = "rotate" /\ tokens[x.token].peer # Nobody

\* What the operator's commands write.  add_grant adds a row each time it is
\* executed; the others may be repeated.
ExecuteAdmin(x) ==
    /\ \/ /\ x.kind = "add_grant"
          /\ Len(grants) < MaxGrants
          /\ grants' = Append(grants, x.row)
          /\ UNCHANGED <<tokens, revoked, acl_rows, acl_targets>>
       \/ /\ x.kind = "revoke_grant"
          /\ revoked' = revoked \cup {x.id}
          /\ UNCHANGED <<tokens, grants, acl_rows, acl_targets>>
       \/ /\ x.kind = "revoke_token"
          /\ tokens' = [tokens EXCEPT ![x.token].revoked = "yes"]
          /\ UNCHANGED <<grants, revoked, acl_rows, acl_targets>>
       \/ /\ x.kind = "rotate"
          /\ tokens' = IF RotationFails(x) THEN tokens
                       ELSE [k \in Tokens |->
                               IF k = x.token THEN NewToken(x.peer)
                               ELSE IF InGrace(x, k) THEN [tokens[k] EXCEPT !.grace = x.until]
                               ELSE tokens[k]]
          /\ UNCHANGED <<grants, revoked, acl_rows, acl_targets>>
       \/ /\ x.kind = "set_acl"
          /\ acl_rows' = acl_rows \cup {x.plan[1]}
          /\ acl_targets' = {p \in acl_targets : p[1] # x.plan[1]}
                            \cup {<<x.plan[1], g>> : g \in x.plan[2]}
          /\ UNCHANGED <<tokens, grants, revoked>>
       \/ /\ x.kind = "clear_acl"
          /\ acl_rows' = acl_rows \ {x.peer}
          /\ acl_targets' = {p \in acl_targets : p[1] # x.peer}
          /\ UNCHANGED <<tokens, grants, revoked>>
    /\ UNCHANGED <<log, acks, reject_audit>>

\* The cluster executes a batch: all of it, in one transaction.
Execute(x) ==
    \/ x \in InsertTx /\ ExecuteInsert(x)
    \/ x \in RejectTx /\ ExecuteReject(x)
    \/ x \in AckTx /\ ExecuteAck(x)
    \/ x \in AdminTx /\ ExecuteAdmin(x)

-----------------------------------------------------------------------------
(* RqliteClient *)

NoRequest == [event_id |-> "none"]

\* transaction(x): the attempt loop starts at the preferred endpoint.
Send(t, x) ==
    /\ pc' = [pc EXCEPT ![t] = "sending"]
    /\ tx' = [tx EXCEPT ![t] = x]
    /\ tries' = [tries EXCEPT ![t] = Endpoints]

Return(t, r) ==
    /\ pc' = [pc EXCEPT ![t] = "idle"]
    /\ result' = [result EXCEPT ![t] = r]
    /\ tx' = [tx EXCEPT ![t] = NoTx]
    /\ tries' = [tries EXCEPT ![t] = 0]

\* Why a batch that inserts has stored nothing.
Reason(x) ==
    IF ~Authorized(x) THEN "unauthorized" ELSE IF SeqTaken(x.body) THEN "seq" ELSE "none"

\* An endpoint executes the batch and its answer arrives: the operation goes on.
Answered(t) ==
    /\ pc[t] = "sending"
    /\ Execute(tx[t])
    /\ \/ /\ tx[t].kind = "insert"
          /\ pc' = [pc EXCEPT ![t] = "readback"]
          /\ why' = [why EXCEPT ![t] = Reason(tx[t])]
          /\ tx' = [tx EXCEPT ![t] = NoTx]
          /\ tries' = [tries EXCEPT ![t] = 0]
          /\ UNCHANGED result
       \/ /\ tx[t].kind # "insert"
          /\ Return(t, CASE tx[t].kind = "reject" -> "denied"
                         [] tx[t].kind = "ack" /\ ~AckStands(tx[t].body) -> "error"
                         [] RotationFails(tx[t]) -> "error"
                         [] OTHER -> "done")
          /\ UNCHANGED why
    /\ UNCHANGED <<req, late>>

\* The attempt fails for the client (refused, reset, timeout, HTTP error): the
\* next endpoint is tried, or RaftUnavailable raised.  The endpoint may yet
\* execute what it got.
AttemptFails(t) ==
    /\ pc[t] = "sending"
    /\ \/ UNCHANGED late
       \/ Cardinality(late) < MaxLate /\ late' = late \cup {<<tx[t], tries[t]>>}
    /\ IF tries[t] = 1
         THEN Return(t, "unavailable")
         ELSE /\ tries' = [tries EXCEPT ![t] = @ - 1]
              /\ UNCHANGED <<pc, result, tx>>
    /\ UNCHANGED <<db, req, why>>

\* A node executes an attempt its client gave up, or whose answer was lost.
ExecuteLate(a) ==
    /\ a \in late
    /\ Execute(a[1])
    /\ late' = late \ {a}
    /\ UNCHANGED client

\* A query fails at every endpoint.
QueryFails(t) ==
    /\ pc[t] \in {"read", "grant", "reject", "readback"}
    /\ Return(t, "unavailable")
    /\ UNCHANGED <<db, req, why, late>>

\* A process dies, the server with all its threads or the operator's; what it
\* was sending may still be executed.
Crash(ts) ==
    /\ \E t \in ts : pc[t] # "idle"
    /\ \/ UNCHANGED late
       \/ \E t \in ts : /\ pc[t] = "sending" /\ Cardinality(late) < MaxLate
                        /\ late' = late \cup {<<tx[t], tries[t]>>}
    /\ pc' = [t \in Callers |-> IF t \in ts THEN "idle" ELSE pc[t]]
    /\ req' = [t \in Callers |-> IF t \in ts THEN NoRequest ELSE req[t]]
    /\ tx' = [t \in Callers |-> IF t \in ts THEN NoTx ELSE tx[t]]
    /\ tries' = [t \in Callers |-> IF t \in ts THEN 0 ELSE tries[t]]
    /\ result' = [t \in Callers |-> IF t \in ts THEN "none" ELSE result[t]]
    /\ why' = [t \in Callers |-> IF t \in ts THEN "none" ELSE why[t]]
    /\ UNCHANGED db

-----------------------------------------------------------------------------
(* RaftSQLStore *)

Begin(t) ==
    /\ pc[t] = "idle"
    /\ why' = [why EXCEPT ![t] = "none"]
    /\ result' = [result EXCEPT ![t] = "none"]
    /\ UNCHANGED <<db, late>>

\* insert_event and _insert_command up to their first read.
InsertEvent(t, b) ==
    /\ Begin(t)
    /\ req' = [req EXCEPT ![t] = b]
    /\ IF b.type = "command" /\ b.source_ref = "missing"
         THEN Send(t, [kind |-> "reject", body |-> b, result |-> "missing_source_ref"])
         ELSE /\ pc' = [pc EXCEPT ![t] = "read"]
              /\ UNCHANGED <<tx, tries>>

\* existing = self._event_or_none(event_id)
ReadExisting(t) ==
    /\ pc[t] = "read"
    /\ LET b == req[t] IN
       IF Stored(b.event_id)
         THEN Return(t, IF StoredAs(b) THEN "event" ELSE "conflict")
         ELSE IF b.type = "message"
           THEN /\ Send(t, [kind |-> "insert", body |-> b, grant |-> 0, now |-> clock])
                /\ UNCHANGED result
           ELSE /\ pc' = [pc EXCEPT ![t] = "grant"]
                /\ UNCHANGED <<tx, tries, result>>
    /\ UNCHANGED <<db, req, why, late>>

\* _matching_grant: the first row that matches.  The batch gets the time of the read; that
\* it is taken a moment after it could only refuse the command.
FindGrant(t) ==
    /\ pc[t] = "grant"
    /\ \/ /\ MatchingGrants(req[t], clock) = {}
          /\ pc' = [pc EXCEPT ![t] = "reject"]
          /\ UNCHANGED <<tx, tries, result>>
       \/ \E g \in MatchingGrants(req[t], clock) :
            /\ \A h \in MatchingGrants(req[t], clock) : g <= h
            /\ Send(t, [kind |-> "insert", body |-> req[t], grant |-> g, now |-> clock])
            /\ UNCHANGED result
    /\ UNCHANGED <<db, req, why, late>>

\* The row is read back: INSERT OR IGNORE does not say whether it inserted.
ReadBack(t) ==
    /\ pc[t] = "readback"
    /\ LET b == req[t] IN
       IF Stored(b.event_id)
         THEN Return(t, IF StoredAs(b) THEN "event" ELSE "conflict")
         ELSE IF b.type = "message"
           THEN Return(t, "denied")
           ELSE /\ pc' = [pc EXCEPT ![t] = "reject"]
                /\ UNCHANGED <<tx, tries, result>>
    /\ UNCHANGED <<db, req, why, late>>

\* validate_token tells the two refusals of a command apart.
Reject(t) ==
    /\ pc[t] = "reject"
    /\ Send(t, [kind |-> "reject", body |-> req[t],
                result |-> IF TokenValid(req[t], clock) THEN "grant_denied"
                           ELSE "invalid_token"])
    /\ UNCHANGED <<db, req, result, why, late>>

WriteAck(t, a) ==
    /\ Begin(t)
    /\ req' = [req EXCEPT ![t] = a]
    /\ Send(t, [kind |-> "ack", body |-> a])

\* add_grant, revoke_grant, revoke_device_token, rotate_peer_token, set_target_acl,
\* clear_target_acl
Administer(x) ==
    /\ Begin(Cli)
    /\ x.kind = "revoke_grant" => x.id \in 1..Len(grants) \ revoked
    /\ x.kind = "revoke_token" =>
          tokens[x.token].peer # Nobody /\ tokens[x.token].revoked = "no"
    /\ Send(Cli, x)
    /\ UNCHANGED req

Commands ==
    {[kind |-> "add_grant", row |-> g] : g \in Grants}
    \cup {[kind |-> "revoke_grant", id |-> i] : i \in 1..Len(grants)}
    \cup {[kind |-> "revoke_token", token |-> k] : k \in Tokens}
    \cup {[kind |-> "rotate", peer |-> p, token |-> k, now |-> clock, until |-> clock + Grace] :
              p \in Peers, k \in Tokens}
    \cup {[kind |-> "set_acl", plan |-> s] : s \in AclPlans}
    \cup {[kind |-> "clear_acl", peer |-> p] : p \in {s[1] : s \in AclPlans}}

-----------------------------------------------------------------------------
Init ==
    /\ events = <<>>
    /\ source_counters = [p \in Peers |-> 0]
    /\ acks = {}
    /\ accept_audit = [e \in EventIds |-> 0]
    /\ reject_audit = {}
    /\ tokens = [k \in Tokens |->
                   NewToken(IF k \in DOMAIN FirstTokens THEN FirstTokens[k] ELSE Nobody)]
    /\ grants = <<>> /\ revoked = {}
    /\ acl_rows = {} /\ acl_targets = {}
    /\ pc = [t \in Callers |-> "idle"]
    /\ req = [t \in Callers |-> NoRequest]
    /\ tx = [t \in Callers |-> NoTx]
    /\ tries = [t \in Callers |-> 0]
    /\ result = [t \in Callers |-> "none"]
    /\ why = [t \in Callers |-> "none"]
    /\ late = {}
    /\ clock = 1

Tick ==
    /\ clock < MaxClock
    /\ clock' = clock + 1
    /\ UNCHANGED <<db, client, late>>

Step ==
    \/ \E t \in Threads :
          \/ \E b \in Bodies : InsertEvent(t, b)
          \/ \E a \in AckBodies : WriteAck(t, a)
          \/ ReadExisting(t) \/ FindGrant(t) \/ ReadBack(t) \/ Reject(t) \/ QueryFails(t)
    \/ \E x \in Commands : Administer(x)
    \/ \E t \in Callers : Answered(t) \/ AttemptFails(t)
    \/ \E a \in late : ExecuteLate(a)
    \/ \E ts \in {Threads, {Cli}} : Crash(ts)

Next == (Step /\ UNCHANGED clock) \/ Tick

Spec == Init /\ [][Next]_vars

-----------------------------------------------------------------------------
(* Properties *)

TablesOK ==
    /\ events \in Seq(Event)
    /\ source_counters \in [Peers -> Nat]
    /\ acks \subseteq Ack
    /\ accept_audit \in [EventIds -> Nat]
    /\ reject_audit \subseteq EventIds \X Results
    /\ tokens \in [Tokens -> Token]
    /\ grants \in Seq(Grants) /\ revoked \subseteq Nat
    /\ acl_rows \subseteq Peers /\ acl_targets \subseteq Peers \X Peers

ClientOK ==
    /\ pc \in [Callers -> {"idle", "read", "grant", "reject", "sending", "readback"}]
    /\ req \in [Callers -> Bodies \cup AckBodies \cup {NoRequest}]
    /\ tx \in [Callers -> Tx \cup {NoTx}]
    /\ tries \in [Callers -> 0..Endpoints]
    /\ result \in [Callers -> {"none", "event", "done", "conflict", "denied", "error",
                                "unavailable"}]
    /\ why \in [Callers -> {"none", "unauthorized", "seq"}]
    /\ late \subseteq Tx \X (1..Endpoints)
    /\ \A t \in Callers :
          /\ pc[t] \in {"read", "grant", "reject", "readback"} => req[t] \in Bodies
          /\ pc[t] = "sending" => tx[t] \in Tx /\ tries[t] > 0

\* Every variable has its type, and a caller that reads serves an insert.
TypeOK == TablesOK /\ ClientOK /\ clock \in Nat

\* However often a batch is executed, and however late: no event_id and no
\* (source, seq) pair is stored twice, the counter of a source covers its rows,
\* and a command is audited as accepted exactly once and only with its row.
RaftLogSound ==
    /\ TypeOK
    /\ \A i, j \in 1..Len(events) :
          i # j => /\ events[i].event_id # events[j].event_id
                   /\ events[i].source = events[j].source => events[i].seq # events[j].seq
    /\ \A i \in 1..Len(events) : events[i].seq <= source_counters[events[i].source]
    /\ \A e \in EventIds :
          accept_audit[e] = IF \E i \in 1..Len(events) :
                                  events[i].event_id = e /\ events[i].type = "command"
                              THEN 1 ELSE 0

\* The batches on their way.
InFlight == {tx[t] : t \in Callers} \cup {a[1] : a \in late}

\* The ACL allows the message; the command's token and a grant that covers it stand
\* unrevoked, and lasted until a batch with it that is on its way was put together.
Permitted(b) ==
    IF b.type = "message"
      THEN AclAllows(b)
      ELSE \E x \in InFlight :
              /\ x.kind = "insert" /\ x.body = b /\ x.now <= clock
              /\ TokenValid(b, x.now) /\ MatchingGrants(b, x.now) # {}

\* An event enters the log only while it is authorized: a message while the target ACL
\* allows it, a command while its token and a grant that covers it stand unrevoked, though
\* both were read before and the batch may run late.  Of the time this cannot be said: the
\* token's grace and the grant's validity may be over when the batch is executed, and need
\* only have lasted until it was put together.
RaftAuthorizedAtCommit ==
    [][Len(events') > Len(events) =>
          \E b \in Bodies : SameIdentity(events'[Len(events')], b) /\ Permitted(b)]_vars

\* A caller that gets an event back finds it in the log, and a message is refused
\* ("target not allowed") only for the ACL, or for an explicit seq that is taken:
\* one that leaves the seq to the ledger is never refused for it.
RaftAnswersSound ==
    \A t \in Threads :
        pc[t] = "idle" /\ req[t] \in Bodies =>
            /\ result[t] = "event" => StoredAs(req[t])
            /\ result[t] = "denied" /\ req[t].type = "message" =>
                  /\ why[t] # "none"
                  /\ req[t].seq = 0 => why[t] = "unauthorized"

\* The rqlite ledger implements the abstract one, which looks at the event of an
\* acknowledgement only where the nodes enforce foreign keys.
Abstract == INSTANCE LedgerSpec WITH log <- events, acked <- acks, ChecksAcks <- ForeignKeys
RaftImplementsLedgerSpec == Abstract!SSpec
=============================================================================
