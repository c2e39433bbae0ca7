-------------------------------- MODULE Rescue --------------------------------
(***************************************************************************)
(* The rescue executor (tools/rescue_executor.py): a process that runs the *)
(* rescue commands of an agent that is down, from a page of the agent's    *)
(* pending events, and answers them on the bus.                            *)
(*                                                                         *)
(* It keeps no cursor: a command is pending until its applied              *)
(* acknowledgement.  Each call of drain gives up at its first error, after *)
(* whatever it has done, and the next begins anew with the oldest pending  *)
(* event.  An error may pass or come back every time.  Events that are no  *)
(* rescue commands are left to the agent.                                  *)
(***************************************************************************)
EXTENDS Naturals, FiniteSets

CONSTANTS
    MaxOrders,   \* bound: events for the agent
    OrderKind,   \* what each is, see OrderKinds
    Fates,       \* how the events may fare, see Breaks
    PageLimit,   \* limit of GET /events, 200 in the code
    MaxMishaps   \* bound: crashes, and failures that pass

Orders == 1..MaxOrders

\* switch_endpoint; takeover and report, which post an event; the commands that leave
\* nothing behind (health, logs, restart_service, and all that the whitelist refuses);
\* and events that are no rescue commands.
OrderKinds == {"switch", "takeover", "plain", "other"}

\* Where the handling of an order fails every time.  "run": handle() raises (lines that
\* are no number, a whitelist without endpoint_state, a service that takes longer than
\* 20 s to restart); "emit", "reply": the bus refuses the post.
Breaks == {"never", "run", "emit", "reply"}

ASSUME RescueAssumption ==
    /\ MaxOrders \in Nat \ {0} /\ PageLimit \in Nat \ {0} /\ MaxMishaps \in Nat
    /\ OrderKind \in [Orders -> OrderKinds]
    /\ Fates \subseteq [Orders -> Breaks]

\* An endpoint is named after the order that switched to it, 0 before the first; the
\* state file of a process that died while writing it is empty.
Endpoints == Orders \cup {0}
Lost == MaxOrders + 1

VARIABLES
    fails,      \* where the handling of each event always fails; never changes
    orders,     \* number of events sent to the agent
    handled,    \* events with an "applied" acknowledgement of the agent
    responses,  \* the replies on the bus, by order: the endpoint to roll back to
    emitted,    \* tasks and reports posted, by order, Many for more than one
    endpoint,   \* the endpoint state file
    xpc,        \* where the executor is
    xpage,      \* the rest of its page
    xcur,       \* the order it handles
    rollback,   \* the endpoint its result tells to switch back to
    runs,       \* history: how often handle() has run each order, also in part,
                \* Many for more than once
    first,      \* history: the endpoint before the first run of each order
    mishaps     \* crashes and passing failures so far

orderBus == <<fails, orders, handled, responses, emitted>>
executor == <<xpc, xpage, xcur, rollback>>
rescueVars == <<fails, orders, handled, responses, emitted, endpoint, xpc, xpage, xcur, rollback,
                runs, first, mishaps>>

NoReply == Lost + 1
Many == 2
Another(n) == IF n = Many THEN Many ELSE n + 1
Mishap == mishaps < MaxMishaps /\ mishaps' = mishaps + 1

-----------------------------------------------------------------------------
\* Another peer sends the next event.
SendOrder ==
    /\ orders < MaxOrders
    /\ orders' = orders + 1
    /\ UNCHANGED <<fails, handled, responses, emitted, endpoint, executor, runs, first, mishaps>>

PendingOrders == (1..orders) \ handled

\* The oldest pending events, up to the limit.
Page == {e \in PendingOrders : Cardinality({f \in PendingOrders : f < e}) < PageLimit}

Drain ==
    /\ xpc = "idle"
    /\ xpage' = Page
    /\ xpc' = "next"
    /\ UNCHANGED <<orderBus, endpoint, xcur, rollback, runs, first, mishaps>>

\* Mutant of TakeOrder: the page ends at an event that is no rescue command.
TakeOrderOrStop(e) ==
    /\ xpc = "next"
    /\ e \in xpage /\ \A f \in xpage : e <= f
    /\ xcur' = e
    /\ xpage' = IF OrderKind[e] = "other" THEN {} ELSE xpage \ {e}
    /\ xpc' = IF OrderKind[e] = "other" THEN "next" ELSE "run"
    /\ UNCHANGED <<orderBus, endpoint, rollback, runs, first, mishaps>>

\* Other events are passed over.
TakeOrder(e) ==
    /\ xpc = "next"
    /\ e \in xpage /\ \A f \in xpage : e <= f
    /\ xcur' = e /\ xpage' = xpage \ {e}
    /\ xpc' = IF OrderKind[e] = "other" THEN "next" ELSE "run"
    /\ UNCHANGED <<orderBus, endpoint, rollback, runs, first, mishaps>>

DrainEnds ==
    /\ xpc = "next"
    /\ xpage = {}
    /\ xpc' = "idle"
    /\ UNCHANGED <<orderBus, endpoint, xpage, xcur, rollback, runs, first, mishaps>>

\* handle() starts on an order.
Ran ==
    /\ runs' = [runs EXCEPT ![xcur] = Another(@)]
    /\ first' = IF runs[xcur] = 0 THEN [first EXCEPT ![xcur] = endpoint] ELSE first

\* handle(): a switch reads the state file and writes it.
Run ==
    /\ xpc = "run" /\ fails[xcur] # "run"
    /\ Ran
    /\ rollback' = endpoint
    /\ endpoint' = IF OrderKind[xcur] = "switch" THEN xcur ELSE endpoint
    /\ xpc' = IF OrderKind[xcur] = "takeover" THEN "emit" ELSE "reply"
    /\ UNCHANGED <<orderBus, xpage, xcur, mishaps>>

\* It raises this time (a state file that cannot be written), or the process dies in it;
\* the state file is then as it was, empty or complete.
RunFails ==
    /\ xpc = "run"
    /\ Mishap
    /\ Ran
    /\ endpoint' \in IF OrderKind[xcur] = "switch" THEN {endpoint, Lost, xcur} ELSE {endpoint}
    /\ xpc' = "idle" /\ xpage' = {}
    /\ UNCHANGED <<orderBus, xcur, rollback>>

\* The task of a takeover and the message of a report carry no event_id: each call adds one.
Emit ==
    /\ xpc = "emit" /\ fails[xcur] # "emit"
    /\ emitted' = [emitted EXCEPT ![xcur] = Another(@)]
    /\ xpc' = "reply"
    /\ UNCHANGED <<fails, orders, handled, responses, endpoint, xpage, xcur, rollback, runs, first, mishaps>>

\* The reply's id is derived from the order's, so the first one stands.
Answered == [responses EXCEPT ![xcur] = IF @ = NoReply THEN rollback ELSE @]

Reply ==
    /\ xpc = "reply" /\ fails[xcur] # "reply"
    /\ responses' = Answered
    /\ xpc' = "ack"
    /\ UNCHANGED <<fails, orders, handled, emitted, endpoint, xpage, xcur, rollback, runs, first, mishaps>>

AckOrder ==
    /\ xpc = "ack"
    /\ handled' = handled \cup {xcur}
    /\ xpc' = "next"
    /\ UNCHANGED <<fails, orders, responses, emitted, endpoint, xpage, xcur, rollback, runs, first, mishaps>>

\* Mutant of CallFails: a failed reply is skipped over.
CallFailsSilently ==
    /\ xpc = "reply"
    /\ Mishap
    /\ xpc' = "ack"
    /\ UNCHANGED <<orderBus, endpoint, xpage, xcur, rollback, runs, first>>

\* The order at hand fails where it always does: drain gives up, after what it has done
\* for this order and with the rest of the page undone.
AlwaysFails ==
    /\ xpc \in {"run", "emit", "reply"} /\ fails[xcur] = xpc
    /\ IF xpc = "run" THEN Ran ELSE UNCHANGED <<runs, first>>
    /\ xpc' = "idle" /\ xpage' = {}
    /\ UNCHANGED <<orderBus, endpoint, xcur, rollback, mishaps>>

\* A call fails, or the process dies, before or after the bus has carried it out.
CallFails ==
    /\ xpc \in {"next", "emit", "reply", "ack"}
    /\ Mishap
    /\ \/ UNCHANGED orderBus
       \/ /\ xpc = "emit" /\ fails[xcur] # "emit"
          /\ emitted' = [emitted EXCEPT ![xcur] = Another(@)]
          /\ UNCHANGED <<fails, orders, handled, responses>>
       \/ /\ xpc = "reply" /\ fails[xcur] # "reply"
          /\ responses' = Answered
          /\ UNCHANGED <<fails, orders, handled, emitted>>
       \/ /\ xpc = "ack"
          /\ handled' = handled \cup {xcur}
          /\ UNCHANGED <<fails, orders, responses, emitted>>
    /\ xpc' = "idle" /\ xpage' = {}
    /\ UNCHANGED <<endpoint, xcur, rollback, runs, first>>

RescueInit ==
    /\ fails \in Fates
    /\ orders = 0 /\ handled = {}
    /\ responses = [e \in Orders |-> NoReply]
    /\ emitted = [e \in Orders |-> 0]
    /\ endpoint = 0
    /\ xpc = "idle" /\ xpage = {} /\ xcur = 1 /\ rollback = 0
    /\ runs = [e \in Orders |-> 0]
    /\ first = [e \in Orders |-> 0]
    /\ mishaps = 0

ExecutorStep ==
    \/ Drain \/ DrainEnds \/ Run \/ Emit \/ Reply \/ AckOrder \/ AlwaysFails
    \/ \E e \in Orders : TakeOrder(e)

RescueNext == SendOrder \/ ExecutorStep \/ RunFails \/ CallFails

RescueSpec == RescueInit /\ [][RescueNext]_rescueVars

-----------------------------------------------------------------------------
(* Properties *)

\* Every variable has its type.
RescueTypeOK ==
    /\ fails \in Fates
    /\ orders \in 0..MaxOrders /\ handled \subseteq Orders
    /\ responses \in [Orders -> Endpoints \cup {Lost, NoReply}]
    /\ emitted \in [Orders -> 0..Many] /\ runs \in [Orders -> 0..Many]
    /\ first \in [Orders -> Endpoints \cup {Lost}]
    /\ endpoint \in Endpoints \cup {Lost} /\ rollback \in Endpoints \cup {Lost}
    /\ xpc \in {"idle", "next", "run", "emit", "reply", "ack"}
    /\ xpage \subseteq Orders /\ xcur \in Orders
    /\ mishaps \in 0..MaxMishaps

\* "runs them subject to a whitelist, replies with the result plus rollback info, and sends
\* an applied ACK": an order that is off the list has been run and answered, an event that
\* is no rescue command never leaves it, a takeover leaves a task, and the endpoint a reply
\* tells to switch back to is the one from before the order, if it was run only once: a
\* second run takes what the first one wrote for the old endpoint.
OrdersAnswered ==
    \A e \in Orders :
        /\ e \in handled => runs[e] > 0 /\ responses[e] # NoReply /\ OrderKind[e] # "other"
        /\ e \in handled /\ OrderKind[e] = "takeover" => emitted[e] > 0
        /\ responses[e] # NoReply /\ runs[e] = 1 => responses[e] = first[e]

\* The executor's promises to those who send it orders.
RescueSound == RescueTypeOK /\ OrdersAnswered

\* Events that fill the page before e, which nobody acknowledges while the agent is down.
Crowded(e) ==
    Cardinality({f \in PendingOrders : f < e /\ OrderKind[f] = "other"}) >= PageLimit

\* e, or a command before it, fails every time: each drain gives up there.
Blocked(e) ==
    \E f \in PendingOrders : f <= e /\ OrderKind[f] # "other" /\ fails[f] # "never"

\* When no more events come and the failures that pass are over, every rescue command is
\* carried out and acknowledged in the end.  There are two exceptions, for ever both: a
\* page of other events is pending before the command, or it stands behind a command
\* whose handling fails every time, or is one.
EveryOrderEnds ==
    <>[](\A e \in PendingOrders : OrderKind[e] = "other" \/ Crowded(e) \/ Blocked(e))
=============================================================================
