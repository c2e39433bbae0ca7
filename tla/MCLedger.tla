------------------------------- MODULE MCLedger -------------------------------
(***************************************************************************)
(* Instances of Ledger for TLC: two peers, and bodies that meet every      *)
(* branch of insert_event between them.                                    *)
(***************************************************************************)
EXTENDS Ledger, TLC

Msg(eid, s, g, q) ==
    [event_id |-> eid, source |-> s, target |-> g, type |-> "message", seq |-> q,
     requires_ack |-> TRUE, source_ref |-> FALSE, op |-> "", fields |-> {}]

Cmd(eid, s, g, ref, o, f) ==
    [event_id |-> eid, source |-> s, target |-> g, type |-> "command", seq |-> 0,
     requires_ack |-> TRUE, source_ref |-> ref, op |-> o, fields |-> f]

AckOf(eid, p) == [event_id |-> eid, agent_id |-> p, ack_type |-> "applied"]

\* A reused event id (m1, to another target), seqs the callers chose, which an
\* assigned one may meet, direct messages that compete for one inbox, and one
\* that the ACL file denies.
MessageBodies ==
    {Msg("m1", "p", "q", 0), Msg("m1", "p", "*", 0),
     Msg("m2", "p", "q", 2), Msg("m3", "p", "q", 1), Msg("m3", "q", "q", 0)}

\* Commands with and without a source_ref, in and out of the grant's scope.
CommandBodies ==
    {Cmd("c1", "p", "q", TRUE, "restart", {"svc"}),
     Cmd("c1", "p", "q", FALSE, "restart", {"svc"}),
     Cmd("c2", "p", "q", TRUE, "restart", {}),
     Cmd("c2", "p", "q", TRUE, "", {"svc"})}

\* Messages to each target.
AclBodies == {Msg("a1", "p", "q", 0), Msg("a2", "p", "p", 0), Msg("a3", "p", "*", 0)}

AllBodies == MessageBodies \cup CommandBodies \cup AclBodies
MessageAcks == {AckOf("m1", "q"), AckOf("m2", "q")}
ScopedGrants ==
    {[id |-> 1, grantor |-> "q", grantee |-> "p", command_type |-> "restart", scope |-> {"svc"}],
     [id |-> 2, grantor |-> "q", grantee |-> "p", command_type |-> "*", scope |-> {"svc"}]}
DeniedByFile == {<<"q", "q">>}
Plans == {<<"p", {"q"}>>, <<"p", {"p"}>>}
None == {}

MessageIds == {"m1", "m2", "m3"}
CommandIds == {"c1", "c2"}
AclIds == {"a1", "a2", "a3"}

\* Every event met so far, stored, refused or asked for, is one of these.
Only(ids) ==
    /\ \A t \in Threads : req[t].event_id \in ids \cup {"none"}
    /\ \A i \in 1..Len(events) : events[i].event_id \in ids
    /\ \A x \in reject_audit : x[1] \in ids

AclUntouched ==
    /\ acl_op = NoOp /\ acl_rows = {}
    /\ acl_intent = [p \in Peers |-> Targets]

\* Messages that compete for seqs and for an inbox, commands with changing
\* grants, and messages under a changing target ACL are three stories, each told
\* by its own behaviours; in the third requests come one by one.
InOneStory ==
    \/ Only(MessageIds) /\ AclUntouched /\ grants = {}
    \/ Only(CommandIds) /\ AclUntouched
    \/ /\ Only(AclIds) /\ grants = {}
       /\ \A t \in Threads : t # 1 => req[t] = NoRequest
OneStory == UNCHANGED <<req, grants, acl_op>> \/ InOneStory'
=============================================================================
