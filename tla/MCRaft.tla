-------------------------------- MODULE MCRaft --------------------------------
(***************************************************************************)
(* Instance of RaftLedger for TLC: two endpoints, so that every batch may  *)
(* be executed twice.                                                      *)
(***************************************************************************)
EXTENDS RaftLedger, TLC

Msg(eid, g, q) ==
    [event_id |-> eid, source |-> "p", target |-> g, type |-> "message", seq |-> q,
     source_ref |-> "missing", op |-> "", fields |-> {}, token |-> "kp"]

Cmd(eid, ref, o, f) ==
    [event_id |-> eid, source |-> "p", target |-> "q", type |-> "command", seq |-> 0,
     source_ref |-> ref, op |-> o, fields |-> f, token |-> "kp"]

\* A reused event id, and an explicit seq that an assigned one may meet.
MessageBodies == {Msg("m1", "q", 0), Msg("m1", "*", 0), Msg("m2", "q", 1)}
\* In and out of the grant's scope, and without a source_ref.
CommandBodies == {Cmd("c1", "given", "restart", {"svc"}), Cmd("c1", "given", "restart", {}),
                  Cmd("c2", "missing", "restart", {"svc"})}
AllBodies == MessageBodies \cup CommandBodies
OneAck == {[event_id |-> "m1", agent_id |-> "q", ack_type |-> "applied"]}
\* The grant lasts for two seconds.
OneGrant == {[grantor |-> "q", grantee |-> "p", command_type |-> "restart", scope |-> {"svc"},
              valid_until |-> 2]}
PeersTokens == [kp |-> "p", kq |-> "q"]
OnePlan == {<<"p", {"p"}>>}

Insertions == {"insert", "reject", "ack"}

\* Every request, stored or refused event and batch on its way is about one of these
\* events, or is one of these commands of the operator.
Only(ids, commands) ==
    /\ \A t \in Threads : req[t].event_id \in ids \cup {"none"}
    /\ \A i \in 1..Len(events) : events[i].event_id \in ids
    /\ \A x \in reject_audit : x[1] \in ids
    /\ \A x \in InFlight : IF x.kind \in Insertions THEN x.body.event_id \in ids
                           ELSE x.kind \in commands \cup {"none"}
OneThread == \E t \in Threads : \A u \in Threads \ {t} : req[u] = NoRequest

\* Two callers with messages, one with messages under a changing ACL, one whose command
\* says no source_ref, one with commands under grants and a token that are revoked, and
\* one with a command while time passes and the token is rotated are five stories, each
\* told by its own behaviours; late attempts are concurrent with the caller in all of them.
NoTime == clock = 1 /\ \A k \in Tokens : tokens[k].grace = 0 /\ tokens["new"].peer = Nobody
NoRevocation == revoked = {} /\ \A k \in Tokens : tokens[k].revoked = "no"
NoCommands == grants = <<>> /\ NoTime /\ NoRevocation
InOneStory ==
    \/ Only({"m1", "m2"}, {}) /\ NoCommands /\ acl_rows = {}
    \/ Only({"m1", "m2"}, {"set_acl", "clear_acl"}) /\ NoCommands /\ OneThread
    \/ Only({"c2"}, {}) /\ NoCommands /\ acl_rows = {} /\ OneThread
    \/ /\ Only({"c1"}, {"add_grant", "revoke_grant", "revoke_token"})
       /\ NoTime /\ acl_rows = {} /\ OneThread
       /\ tx[Cli].kind = "revoke_token" => tx[Cli].token = "kp"
    \/ /\ Only({"c1"}, {"add_grant", "rotate"})
       /\ NoRevocation /\ Len(grants) <= 1 /\ acl_rows = {} /\ OneThread
       /\ \A t \in Threads : req[t] \in CommandBodies => req[t].fields = {"svc"}
       /\ tx[Cli].kind = "rotate" => tx[Cli].peer = "p" /\ tx[Cli].token = "new"
Symmetry == Permutations(Threads)
OneStory == UNCHANGED <<req, tx, clock>> \/ InOneStory'
=============================================================================
