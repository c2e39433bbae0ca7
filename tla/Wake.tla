--------------------------------- MODULE Wake ---------------------------------
(***************************************************************************)
(* Wake signals of one agent: the hub of bounded queues and the stream     *)
(* handlers of atalk/server.py (WakeHub, stream), and the two kinds of     *)
(* clients that listen: the adapter's loop (atalk/adapter.py, main), which *)
(* polls the ledger after every line of the stream, and the MCP tool       *)
(* atalk_wait (clients/mcp/atalk_mcp.py), which polls only after "ready"   *)
(* and "event" lines.                                                      *)
(*                                                                         *)
(* A sender commits first and wakes afterwards; it reads the agent's lane  *)
(* under the hub's lock and puts its item after it let go of the lock.     *)
(* A new connection replaces the lane, the handler of the old one lingers  *)
(* until its socket breaks.  The server may die at any moment.             *)
(***************************************************************************)
EXTENDS Naturals, Sequences

CONSTANTS
    Clients,     \* processes that listen for the agent
    Patient,     \* those that are atalk_wait calls
    Streams,     \* bound: stream handlers (with their queues) alive at once
    NoStream,    \* no stream
    Senders,     \* threads that post events or push notification hints
    Notes,       \* notifications to push
    NoNote,      \* no notification: the sender wakes for an event
    MaxEvents,   \* bound: events committed
    QueueSize,   \* maxsize of a queue, 1024 in the code
    WireSize     \* bound: lines in a socket's buffer

ASSUME WakeAssumption ==
    /\ Patient \subseteq Clients
    /\ NoStream \notin Streams /\ NoNote \notin Notes
    /\ MaxEvents \in Nat /\ QueueSize \in Nat \ {0} /\ WireSize \in Nat \ {0}

Items == {"event", "note"}
Lines == Items \cup {"ready", "keepalive", "revoked"}

VARIABLES
    committed,  \* events of the agent in the ledger
    token,      \* "valid" or "revoked": the agent's token
    marked,     \* notifications with hint_sent
    lane,       \* the stream whose queue is the agent's entry of _queues
    running,    \* streams whose handler runs
    queue,      \* the queue of each stream
    wire,       \* lines a handler wrote that the client has not read
    dropped,    \* history: streams whose full queue lost the wake of an event
    pc,         \* where each client is
    link,       \* the stream each client reads
    seen,       \* events the client's last pull found in the ledger
    step,       \* where each sender is
    note,       \* the notification it pushes, or NoNote
    target      \* the stream whose queue it found

ledger == <<committed, token, marked>>
hub == <<lane, running, queue, wire, dropped>>
clients == <<pc, link, seen>>
senders == <<step, note, target>>
vars == <<committed, token, marked, lane, running, queue, wire, dropped,
          pc, link, seen, step, note, target>>

-----------------------------------------------------------------------------
(* Senders *)

\* A request thread has committed an event for the agent and is about to wake it.
Post(n) ==
    /\ step[n] = "idle"
    /\ committed < MaxEvents
    /\ committed' = committed + 1
    /\ step' = [step EXCEPT ![n] = "notify"]
    /\ note' = [note EXCEPT ![n] = NoNote]
    /\ UNCHANGED <<token, marked, hub, clients, target>>

\* _hint_one: push a notification that no queue has accepted yet.
Hint(n, i) ==
    /\ step[n] = "idle"
    /\ i \in Notes \ marked
    /\ step' = [step EXCEPT ![n] = "notify"]
    /\ note' = [note EXCEPT ![n] = i]
    /\ UNCHANGED <<ledger, hub, clients, target>>

\* notify, under the lock: the agent's queue, if any.
FindQueue(n) ==
    /\ step[n] = "notify"
    /\ target' = [target EXCEPT ![n] = lane]
    /\ step' = [step EXCEPT ![n] = IF lane = NoStream THEN "idle" ELSE "put"]
    /\ UNCHANGED <<ledger, hub, clients, note>>

\* put_nowait, after the lock: accepted, or dropped when the queue is full; an
\* accepted hint is marked (mark_notification_hint_sent).
Put(n) ==
    /\ step[n] = "put"
    /\ LET s == target[n]
           room == Len(queue[s]) < QueueSize
       IN /\ queue' = IF room
                        THEN [queue EXCEPT ![s] =
                                Append(@, IF note[n] = NoNote THEN "event" ELSE "note")]
                        ELSE queue
          /\ dropped' = IF ~room /\ note[n] = NoNote THEN dropped \cup {s} ELSE dropped
          /\ marked' = IF room /\ note[n] # NoNote THEN marked \cup {note[n]} ELSE marked
    /\ step' = [step EXCEPT ![n] = "idle"]
    /\ target' = [target EXCEPT ![n] = NoStream]
    /\ UNCHANGED <<committed, token, lane, running, wire, clients, note>>

-----------------------------------------------------------------------------
(* Stream handlers *)

Write(s, line) == wire' = [wire EXCEPT ![s] = Append(@, line)]

\* Mutant of Unsubscribe: the agent's entry is removed whatever it holds.
UnsubscribeAgent(s) ==
    /\ running' = running \ {s}
    /\ lane' = NoStream

\* unsubscribe: the lane goes with its stream, another one's stays.
Unsubscribe(s) ==
    /\ running' = running \ {s}
    /\ lane' = IF lane = s THEN NoStream ELSE lane

\* The handler takes an item, or waits 25 seconds in vain; it checks the token
\* before it writes.
Tick(s, line) ==
    /\ s \in running
    /\ Len(wire[s]) < WireSize
    /\ IF token = "valid"
         THEN Write(s, line) /\ UNCHANGED <<running, lane>>
         ELSE Write(s, "revoked") /\ Unsubscribe(s)
    /\ UNCHANGED <<ledger, dropped, clients, senders>>

Forward(s) ==
    /\ queue[s] # <<>>
    /\ queue' = [queue EXCEPT ![s] = Tail(@)]
    /\ Tick(s, Head(queue[s]))

Keepalive(s) ==
    /\ queue[s] = <<>>
    /\ Tick(s, "keepalive")
    /\ UNCHANGED queue

\* The handler notices that its client is gone.
BrokenPipe(s) ==
    /\ s \in running
    /\ \A c \in Clients : link[c] # s
    /\ Unsubscribe(s)
    /\ UNCHANGED <<ledger, queue, wire, dropped, clients, senders>>

\* The server dies: handlers, queues and senders are gone.
ServerCrash ==
    /\ running # {} \/ \E n \in Senders : step[n] # "idle"
    /\ lane' = NoStream
    /\ running' = {}
    /\ step' = [n \in Senders |-> "idle"]
    /\ target' = [n \in Senders |-> NoStream]
    /\ UNCHANGED <<ledger, queue, wire, dropped, clients, note>>

\* The operator revokes the agent's token.
RevokeToken ==
    /\ token = "valid"
    /\ token' = "revoked"
    /\ UNCHANGED <<committed, marked, hub, clients, senders>>

-----------------------------------------------------------------------------
(* Clients *)

Goto(c, where) == pc' = [pc EXCEPT ![c] = where]
Close(c) == link' = [link EXCEPT ![c] = NoStream]

\* GET /events.  An atalk_wait that finds something returns and closes its
\* stream; otherwise the client goes on reading, or connects.
Pull(c) ==
    /\ pc[c] = "pull"
    /\ token = "valid"
    /\ seen' = [seen EXCEPT ![c] = committed]
    /\ IF c \in Patient /\ seen[c] < committed
         THEN Goto(c, "returned") /\ Close(c)
         ELSE /\ Goto(c, IF link[c] = NoStream THEN "connect" ELSE "read")
              /\ UNCHANGED link
    /\ UNCHANGED <<ledger, hub, senders>>

\* subscribe replaces the lane by the empty queue of an unused stream.
Subscribe(s) ==
    /\ s \notin running
    /\ \A d \in Clients : link[d] # s
    /\ \A n \in Senders : target[n] # s
    /\ lane' = s
    /\ queue' = [queue EXCEPT ![s] = <<>>]
    /\ dropped' = dropped \ {s}

\* GET /stream: after subscribe the handler writes its headers and "ready".
Connect(c, s) ==
    /\ pc[c] = "connect"
    /\ token = "valid"
    /\ Subscribe(s)
    /\ running' = running \cup {s}
    /\ wire' = [wire EXCEPT ![s] = <<"ready">>]
    /\ link' = [link EXCEPT ![c] = s]
    /\ Goto(c, "read")
    /\ UNCHANGED <<ledger, seen, senders>>

\* The client is gone when the handler flushes the headers, before the try:
\* nobody unsubscribes and the lane keeps a queue that nobody empties.
HeadersFail(c, s) ==
    /\ pc[c] = "connect"
    /\ token = "valid"
    /\ Subscribe(s)
    /\ Goto(c, "pull")
    /\ UNCHANGED <<ledger, running, wire, link, seen, senders>>

\* A request is answered 403: atalk_wait raises, the adapter tries for ever.
Forbidden(c) ==
    /\ pc[c] \in {"pull", "connect"}
    /\ token = "revoked"
    /\ c \in Patient
    /\ Goto(c, "returned")
    /\ Close(c)
    /\ UNCHANGED <<ledger, hub, seen, senders>>

\* Mutant of Wakes: "ready" is not followed by a pull.
WakesWithoutReady(c, line) == c \notin Patient \/ line = "event"

\* Mutant of Wakes: the adapter ignores keepalives.
WakesOnSignals(c, line) == line \in {"ready", "event"}

\* The lines after which a client pulls.
Wakes(c, line) == c \notin Patient \/ line \in {"ready", "event"}

\* The client reads a line; an atalk_wait leaves the stream on "event".
Read(c) ==
    /\ pc[c] = "read"
    /\ wire[link[c]] # <<>>
    /\ LET line == Head(wire[link[c]]) IN
       /\ Goto(c, IF Wakes(c, line) THEN "pull" ELSE "read")
       /\ IF c \in Patient /\ line = "event" THEN Close(c) ELSE UNCHANGED link
    /\ wire' = [wire EXCEPT ![link[c]] = Tail(@)]
    /\ UNCHANGED <<ledger, lane, running, queue, dropped, seen, senders>>

\* The stream ends, after the last line, or the connection fails.
StreamEnds(c) ==
    /\ pc[c] = "read"
    /\ link[c] \notin running
    /\ wire[link[c]] = <<>>
    /\ Goto(c, "pull")
    /\ Close(c)
    /\ UNCHANGED <<ledger, hub, seen, senders>>

Disconnect(c) ==
    /\ pc[c] = "read"
    /\ Goto(c, "pull")
    /\ Close(c)
    /\ UNCHANGED <<ledger, hub, seen, senders>>

\* The deadline of an atalk_wait, and the agent's next call.
Deadline(c) ==
    /\ c \in Patient
    /\ pc[c] # "returned"
    /\ Goto(c, "returned")
    /\ Close(c)
    /\ UNCHANGED <<ledger, hub, seen, senders>>

CallAgain(c) ==
    /\ pc[c] = "returned"
    /\ Goto(c, "pull")
    /\ UNCHANGED <<ledger, hub, link, seen, senders>>

-----------------------------------------------------------------------------
Init ==
    /\ committed = 0 /\ token = "valid" /\ marked = {}
    /\ lane = NoStream /\ running = {} /\ dropped = {}
    /\ queue = [s \in Streams |-> <<>>]
    /\ wire = [s \in Streams |-> <<>>]
    /\ pc = [c \in Clients |-> "pull"]
    /\ link = [c \in Clients |-> NoStream]
    /\ seen = [c \in Clients |-> 0]
    /\ step = [n \in Senders |-> "idle"]
    /\ note = [n \in Senders |-> NoNote]
    /\ target = [n \in Senders |-> NoStream]

Next ==
    \/ \E n \in Senders :
          \/ Post(n) \/ FindQueue(n) \/ Put(n)
          \/ \E i \in Notes : Hint(n, i)
    \/ \E s \in Streams : Forward(s) \/ Keepalive(s) \/ BrokenPipe(s)
    \/ \E c \in Clients :
          \/ Pull(c) \/ Forbidden(c) \/ Read(c) \/ StreamEnds(c) \/ Disconnect(c)
          \/ Deadline(c) \/ CallAgain(c)
          \/ \E s \in Streams : Connect(c, s) \/ HeadersFail(c, s)
    \/ ServerCrash
    \/ RevokeToken

Spec == Init /\ [][Next]_vars

(***************************************************************************)
(* Handlers and clients are threads that run: their steps are weakly fair, *)
(* the 25-second timer included.  Connecting is strongly fair because a    *)
(* stream of the bounded set may be taken for a while.                     *)
(***************************************************************************)
Fairness ==
    /\ \A n \in Senders : WF_vars(FindQueue(n)) /\ WF_vars(Put(n))
    /\ \A s \in Streams :
          WF_vars(Forward(s)) /\ WF_vars(Keepalive(s)) /\ WF_vars(BrokenPipe(s))
    /\ \A c \in Clients :
          /\ WF_vars(Pull(c)) /\ WF_vars(Read(c)) /\ WF_vars(StreamEnds(c))
          /\ SF_vars(\E s \in Streams : Connect(c, s))

FairSpec == Spec /\ Fairness

-----------------------------------------------------------------------------
(* Properties *)

\* Every variable has its type; a client that reads has a stream.
TypeOK ==
    /\ committed \in 0..MaxEvents /\ token \in {"valid", "revoked"} /\ marked \subseteq Notes
    /\ lane \in Streams \cup {NoStream} /\ running \subseteq Streams /\ dropped \subseteq Streams
    /\ queue \in [Streams -> Seq(Items)] /\ wire \in [Streams -> Seq(Lines)]
    /\ pc \in [Clients -> {"pull", "connect", "read", "returned"}]
    /\ link \in [Clients -> Streams \cup {NoStream}]
    /\ \A c \in Clients : pc[c] = "read" => link[c] # NoStream
    /\ seen \in [Clients -> 0..MaxEvents]
    /\ step \in [Senders -> {"idle", "notify", "put"}]
    /\ note \in [Senders -> Notes \cup {NoNote}]
    /\ target \in [Senders -> Streams \cup {NoStream}]
    /\ \A n \in Senders : step[n] = "put" => target[n] # NoStream

\* A line that will make client c pull is in this sequence.
HasWake(c, lines) == \E i \in 1..Len(lines) : Wakes(c, lines[i])

\* No wake is missed: a client that reads the agent's lane while the ledger has
\* events it did not pull will pull again without waiting for a keepalive: a
\* wake is on its way, or a sender is still about to put it.  An atalk_wait may
\* miss one only when its full queue dropped it.
NoMissedWake ==
    \A c \in Clients :
        /\ pc[c] = "read" /\ link[c] = lane
        /\ seen[c] < committed
        => \/ HasWake(c, wire[lane]) \/ HasWake(c, queue[lane])
           \/ \E n \in Senders :
                 /\ note[n] = NoNote
                 /\ step[n] = "notify" \/ (step[n] = "put" /\ target[n] = lane)
           \/ c \in Patient /\ lane \in dropped

\* The streams are sound: typed, and no client that reads the lane misses a wake.
WakeSound == TypeOK /\ NoMissedWake

\* The handler of an old connection, which ends when its socket breaks at last,
\* never takes away the lane of the connection that replaced it: a live lane is
\* given up only with its own handler or to a newer one.
LiveLaneKept ==
    [][(lane \in running /\ lane' = NoStream) => (lane \notin running')]_vars

\* An adapter finds every committed event in the ledger sooner or later, though
\* wakes are dropped, its lane is taken by another client and the server dies.
AdapterFindsEvents ==
    \A c \in Clients \ Patient, k \in 1..MaxEvents :
        committed >= k ~> seen[c] >= k \/ token = "revoked"
=============================================================================
