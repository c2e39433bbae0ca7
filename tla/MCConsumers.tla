----------------------------- MODULE MCConsumers -----------------------------
(***************************************************************************)
(* Instances of Adapter (a chat handler), Inbox and Rescue for TLC, one    *)
(* consumer to a story:                                                    *)
(*   chat    the chat adapter;                                             *)
(*   disk    the inbox while the server's disk fills up, breaks and comes  *)
(*           back, with nothing else going wrong and nobody reading;       *)
(*   queue   the inbox with two messages and a reader who applies them,    *)
(*           the disk good, and one crash, power failure or lost call;     *)
(*   faults  one message, a reader who may also reply, and two faults;     *)
(*   rescue  the rescue executor, with two mishaps, and with commands that *)
(*           all work, or one that fails every time at each of the places. *)
(***************************************************************************)
EXTENDS Adapter, Inbox, Rescue, TLC

VARIABLE story

allVars == <<vars, inboxVars, rescueVars, story>>

\* Work on both sides of a skipped event, and an event without text, which no
\* handler accepts.
ChatThreads == <<"k1", "k1", "k2", "k2">>
WithEmpty == <<"work", "skip", "work", "empty">>

\* The last order is behind as many other events as a page holds.
RescueOrders == <<"switch", "other", "switch", "takeover", "other", "plain">>
AllWork == [e \in Orders |-> "never"]
RescueFates ==
    {AllWork, [AllWork EXCEPT ![3] = "run"], [AllWork EXCEPT ![4] = "emit"],
     [AllWork EXCEPT ![3] = "reply"], [AllWork EXCEPT ![4] = "reply"]}

ConsumersInit ==
    /\ Init /\ RescueInit
    /\ story \in {"chat", "disk", "queue", "faults", "rescue"}
    /\ story # "rescue" => fails = AllWork
    /\ InboxStarts(CASE story = "queue" -> {1, 2} [] story = "faults" -> {1} [] OTHER -> {})

ConsumersNext ==
    /\ UNCHANGED story
    /\ \/ story = "chat" /\ Next /\ UNCHANGED <<inboxVars, rescueVars>>
       \/ story = "rescue" /\ RescueNext /\ UNCHANGED <<vars, inboxVars>>
       \/ /\ story = "disk" /\ InboxNext /\ UNCHANGED <<vars, rescueVars>>
          /\ faults' = 0 /\ rpc' = "idle" /\ pid' = 1
          /\ \A c \in Conns : conn'[c] = Idle \/ conn'[c].call.event = 1
       \/ /\ story \in {"queue", "faults"} /\ InboxNext /\ UNCHANGED <<vars, rescueVars>>
          /\ disk' = "ok"
          /\ story = "queue" => faults' <= 1 /\ rpc' # "reply"
          /\ \A c \in Conns : conn'[c] = Idle \/ conn'[c].call.op # "send"

\* The fairness of each consumer, in its own stories.
Inboxes == story \in {"disk", "queue", "faults"} /\ UNCHANGED <<vars, rescueVars, story>>
ConsumersFairness ==
    /\ \A c \in Conns : WF_allVars(Inboxes /\ ServerStep(c))
    /\ WF_allVars(Inboxes /\ Health)
    /\ WF_allVars(Inboxes /\ AdapterStep)
    /\ SF_allVars(Inboxes /\ \E c \in Conns : AckReceipt(c))
    /\ WF_allVars(story = "rescue" /\ ExecutorStep /\ UNCHANGED <<vars, inboxVars, story>>)

ConsumersSpec == ConsumersInit /\ [][ConsumersNext]_allVars /\ ConsumersFairness
=============================================================================
