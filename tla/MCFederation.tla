----------------------------- MODULE MCFederation -----------------------------
(***************************************************************************)
(* Instances of Federation for TLC.                                        *)
(***************************************************************************)
EXTENDS Federation, TLC

Ask(e, t) == [event_id |-> e, agent |-> "bob", text |-> t]

\* One event id, asked for again with another text.
OneId == {Ask("e1", "hi"), Ask("e1", "ho")}
OneIntent == {Ask("e1", "hi")}
TwoIntents == {Ask("k1", "hi"), Ask("k2", "hi")}
SeveralIntents == OneId \cup TwoIntents

\* An origin that always has the same identity and knows the receiver's key.
Settled == {[key |-> "k1", peer |-> "k1"]}
\* An origin whose operator follows the receiver's change of key, or drops it.
FollowsReceiver == {[key |-> "k1", peer |-> k] : k \in {"k1", "k2", NoKey}}
\* An origin that changes its own key.
ChangesKey == {[key |-> k, peer |-> "k1"] : k \in {"k1", "k2"}}

Trusts(k) == [o \in Origins |-> k]
SettledReceiver == {[key |-> "k1", peers |-> Trusts("k1")]}
\* A receiver that changes its key.
RotatingReceiver == {[key |-> k, peers |-> Trusts("k1")] : k \in {"k1", "k2"}}
\* A receiver whose operator follows, or drops, the origins.
FollowsOrigin == {[key |-> "k1", peers |-> Trusts(k)] : k \in {"k1", "k2", NoKey}}
OriginChanges == ChangesKey \cup FollowsReceiver
ReceiverChanges == FollowsOrigin \cup RotatingReceiver

\* Every event sent or posted locally so far has one of these ids.
Only(ids) ==
    /\ \A x \in accepted : x[2].event_id \in ids
    /\ local_events \subseteq ids

EveryOriginIn(confs) == \A o \in Origins : origin_conf[o] \in confs
OnlyOneFamily ==
    /\ \A env \in outbound : env.origin = "a" /\ env.created_at = 1
    /\ origin_conf["b"] \in Settled

\* Collisions of event ids between families, changes of the key of one family that
\* sends two events, and acknowledgements with changes of the receiver's key are
\* three stories, each told by its own behaviours.
InOneStory ==
    \/ /\ Only({"e1"}) /\ acks = {}
       /\ \A env \in outbound : env.origin = "b" => env.created_at = 1
       /\ EveryOriginIn(Settled) /\ receiver_conf \in SettledReceiver
    \/ /\ Only({"k1", "k2"}) /\ acks = {} /\ local_events = {} /\ OnlyOneFamily
       /\ EveryOriginIn(ChangesKey) /\ receiver_conf \in FollowsOrigin
    \/ /\ Only({"k1"}) /\ local_events = {} /\ OnlyOneFamily
       /\ EveryOriginIn(FollowsReceiver) /\ receiver_conf \in RotatingReceiver
OneStory == UNCHANGED <<accepted, local_events, acks, config>> \/ InOneStory'
=============================================================================
