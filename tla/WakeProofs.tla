------------------------------ MODULE WakeProofs ------------------------------
(***************************************************************************)
(* Proofs about Wake, for any number of clients, streams, senders, notes   *)
(* and events and any size of the queues and buffers.                      *)
(*                                                                         *)
(* A client that is behind the ledger is covered: a wake for it is in the  *)
(* queue or the buffer of its stream, or a sender that committed is still  *)
(* to read the lane.  Reading is where this could break, and it does not   *)
(* because a stream has one reader (OneReader).                            *)
(***************************************************************************)
EXTENDS Wake, TLAPS

\* A stream is read by one client.
OneReader ==
    \A c, d \in Clients : link[c] = link[d] /\ link[c] # NoStream => c = d

\* The inductive invariant.
WakeInv == TypeOK /\ OneReader /\ NoMissedWake

-----------------------------------------------------------------------------
(* Lines *)

\* A queue that wakes a client still does with one more item, and with a wake it does.
LEMMA AppendWakes ==
  ASSUME NEW S, NEW q \in Seq(S), NEW x \in S, NEW c, HasWake(c, q) \/ Wakes(c, x)
  PROVE  HasWake(c, Append(q, x))
<1>0. /\ Len(q) \in Nat /\ Len(Append(q, x)) = Len(q) + 1
      /\ \A i \in 1..Len(q) : Append(q, x)[i] = q[i]
      /\ Append(q, x)[Len(q) + 1] = x
  OBVIOUS
<1>1. CASE HasWake(c, q)
  <2>1. PICK i \in 1..Len(q) : Wakes(c, q[i])
    BY <1>1 DEF HasWake
  <2>2. i \in 1..Len(Append(q, x)) /\ Append(q, x)[i] = q[i]
    BY <1>0
  <2> QED
    BY <2>1, <2>2 DEF HasWake
<1>2. CASE Wakes(c, x)
  <2>1. Len(q) + 1 \in 1..Len(Append(q, x))
    BY <1>0
  <2> QED
    BY <1>0, <1>2, <2>1 DEF HasWake
<1> QED
  BY <1>1, <1>2

\* Taking an item that does not wake a client leaves the one that does.
LEMMA TailWakes ==
  ASSUME NEW S, NEW q \in Seq(S), q # <<>>, NEW c, HasWake(c, q), ~Wakes(c, Head(q))
  PROVE  HasWake(c, Tail(q))
<1>0. /\ Len(q) \in Nat /\ Len(q) > 0 /\ Len(Tail(q)) = Len(q) - 1 /\ Head(q) = q[1]
      /\ \A i \in 1..(Len(q) - 1) : Tail(q)[i] = q[i + 1]
  OBVIOUS
<1>1. PICK i \in 1..Len(q) : Wakes(c, q[i])
  BY DEF HasWake
<1>2. i # 1
  BY <1>0, <1>1
<1>3. i - 1 \in 1..(Len(q) - 1) /\ (i - 1) + 1 = i
  BY <1>0, <1>2
<1>4. Tail(q)[i - 1] = q[i]
  BY <1>0, <1>3
<1> QED
  BY <1>0, <1>1, <1>3, <1>4 DEF HasWake

\* A full queue holds a wake, whatever its items, for a client that is woken by every line.
LEMMA FullWakes ==
  ASSUME NEW q \in Seq(Items), NEW c, c \notin Patient, ~(Len(q) < QueueSize)
  PROVE  HasWake(c, q)
<1>1. Len(q) \in Nat /\ 1 \in 1..Len(q)
  BY WakeAssumption
<1> QED
  BY <1>1 DEF HasWake, Wakes

-----------------------------------------------------------------------------
(* Types *)

\* Every step keeps the types.
LEMMA WakeTypeStep == TypeOK /\ [Next]_vars => TypeOK'
<1> SUFFICES ASSUME TypeOK, [Next]_vars PROVE TypeOK'
  OBVIOUS
<1> USE WakeAssumption
<1>1. ASSUME NEW n \in Senders, Post(n) PROVE TypeOK'
  BY <1>1 DEF Post, TypeOK, hub, clients
<1>2. ASSUME NEW n \in Senders, NEW i \in Notes, Hint(n, i) PROVE TypeOK'
  BY <1>2 DEF Hint, TypeOK, ledger, hub, clients
<1>3. ASSUME NEW n \in Senders, FindQueue(n) PROVE TypeOK'
  BY <1>3 DEF FindQueue, TypeOK, ledger, hub, clients
<1>4. ASSUME NEW n \in Senders, Put(n) PROVE TypeOK'
  <2>1. target[n] \in Streams /\ note[n] \in Notes \cup {NoNote}
    BY <1>4 DEF Put, TypeOK
  <2>2. \A x \in Items : Append(queue[target[n]], x) \in Seq(Items)
    BY <2>1 DEF TypeOK
  <2>3. queue' \in [Streams -> Seq(Items)]
    BY <1>4, <2>2 DEF Put, TypeOK, Items
  <2>4. dropped' \subseteq Streams /\ marked' \subseteq Notes
    BY <1>4, <2>1 DEF Put, TypeOK
  <2> QED
    BY <1>4, <2>3, <2>4 DEF Put, TypeOK, clients
<1>5. ASSUME NEW s \in Streams, NEW line \in Lines, Tick(s, line),
             queue' \in [Streams -> Seq(Items)]
      PROVE  TypeOK'
  <2>1. Append(wire[s], line) \in Seq(Lines) /\ Append(wire[s], "revoked") \in Seq(Lines)
    BY DEF TypeOK, Lines
  <2>2. wire' \in [Streams -> Seq(Lines)]
    BY <1>5, <2>1 DEF Tick, Write, TypeOK
  <2>3. running' \subseteq Streams /\ lane' \in Streams \cup {NoStream}
    BY <1>5 DEF Tick, Unsubscribe, TypeOK
  <2> QED
    BY <1>5, <2>2, <2>3 DEF Tick, TypeOK, ledger, clients, senders
<1>6. ASSUME NEW s \in Streams, Forward(s) \/ Keepalive(s) PROVE TypeOK'
  <2>1. CASE Forward(s)
    <3>1. queue[s] \in Seq(Items) /\ queue[s] # <<>>
      BY <2>1 DEF Forward, TypeOK
    <3>2. Head(queue[s]) \in Lines /\ Tail(queue[s]) \in Seq(Items)
      BY <3>1 DEF Lines
    <3>3. queue' \in [Streams -> Seq(Items)]
      BY <2>1, <3>2 DEF Forward, TypeOK
    <3> QED
      BY <1>5, <2>1, <3>2, <3>3 DEF Forward
  <2>2. CASE Keepalive(s)
    <3>1. "keepalive" \in Lines /\ queue' \in [Streams -> Seq(Items)]
      BY <2>2 DEF Keepalive, Lines, TypeOK
    <3> QED
      BY <1>5, <2>2, <3>1 DEF Keepalive
  <2> QED
    BY <1>6, <2>1, <2>2
<1>7. ASSUME NEW s \in Streams, BrokenPipe(s) PROVE TypeOK'
  BY <1>7 DEF BrokenPipe, Unsubscribe, TypeOK, ledger, clients, senders
<1>8. CASE ServerCrash
  BY <1>8 DEF ServerCrash, TypeOK, ledger, clients
<1>9. CASE RevokeToken
  BY <1>9 DEF RevokeToken, TypeOK, hub, clients, senders
<1>10. ASSUME NEW c \in Clients, Pull(c) PROVE TypeOK'
  BY <1>10 DEF Pull, Goto, Close, TypeOK, ledger, hub, senders
<1>11. ASSUME NEW c \in Clients, NEW s \in Streams, Connect(c, s) \/ HeadersFail(c, s)
       PROVE TypeOK'
  <2>1. <<>> \in Seq(Items)
    OBVIOUS
  <2>2. <<"ready">> \in Seq(Lines)
    <3>1. "ready" \in Lines
      BY DEF Lines
    <3> QED
      BY <3>1
  <2>3. queue' \in [Streams -> Seq(Items)]
    BY <1>11, <2>1 DEF Connect, HeadersFail, Subscribe, TypeOK
  <2>4. wire' \in [Streams -> Seq(Lines)]
    <3>1. wire' = wire \/ wire' = [wire EXCEPT ![s] = <<"ready">>]
      BY <1>11 DEF Connect, HeadersFail
    <3>2. wire \in [Streams -> Seq(Lines)]
      BY DEF TypeOK
    <3> QED
      BY <2>2, <3>1, <3>2, Zenon
  <2>5. /\ lane' = s /\ dropped' \subseteq dropped /\ running' \subseteq running \cup {s}
        /\ \/ pc' = [pc EXCEPT ![c] = "read"] /\ link' = [link EXCEPT ![c] = s]
           \/ pc' = [pc EXCEPT ![c] = "pull"] /\ link' = link
        /\ UNCHANGED <<ledger, seen, senders>>
    BY <1>11, Zenon DEF Connect, HeadersFail, Subscribe, Goto
  <2>6. s # NoStream /\ running' \subseteq Streams /\ lane' \in Streams \cup {NoStream}
        /\ dropped' \subseteq Streams
    BY <2>5 DEF TypeOK
  <2>7. /\ pc' \in [Clients -> {"pull", "connect", "read", "returned"}]
        /\ link' \in [Clients -> Streams \cup {NoStream}]
        /\ \A d \in Clients : pc'[d] = "read" => link'[d] # NoStream
    <3>1. CASE pc' = [pc EXCEPT ![c] = "read"] /\ link' = [link EXCEPT ![c] = s]
      BY <2>6, <3>1 DEF TypeOK
    <3>2. CASE pc' = [pc EXCEPT ![c] = "pull"] /\ link' = link
      BY <3>2 DEF TypeOK
    <3> QED
      BY <2>5, <3>1, <3>2
  <2> QED
    BY <2>3, <2>4, <2>5, <2>6, <2>7 DEF TypeOK, ledger, senders
<1>12. ASSUME NEW c \in Clients, Read(c) PROVE TypeOK'
  <2>1. link[c] \in Streams
    BY <1>12 DEF Read, TypeOK
  <2>2. Tail(wire[link[c]]) \in Seq(Lines)
    BY <1>12, <2>1 DEF Read, TypeOK
  <2>3. wire' \in [Streams -> Seq(Lines)]
    BY <1>12, <2>2 DEF Read, TypeOK
  <2>4. /\ pc' \in [Clients -> {"pull", "connect", "read", "returned"}]
        /\ link' \in [Clients -> Streams \cup {NoStream}]
        /\ \A d \in Clients : pc'[d] = "read" => link'[d] # NoStream
    BY <1>12, <2>1 DEF Read, Goto, Close, Wakes, TypeOK
  <2> QED
    BY <1>12, <2>3, <2>4 DEF Read, TypeOK, ledger, senders
<1>13. ASSUME NEW c \in Clients, Forbidden(c) \/ StreamEnds(c) \/ Disconnect(c) \/ Deadline(c)
       PROVE TypeOK'
  BY <1>13 DEF Forbidden, StreamEnds, Disconnect, Deadline, Goto, Close, TypeOK, ledger, hub, senders
<1>14. ASSUME NEW c \in Clients, CallAgain(c) PROVE TypeOK'
  BY <1>14 DEF CallAgain, Goto, TypeOK, ledger, hub, senders
<1>15. CASE UNCHANGED vars
  BY <1>15 DEF vars, TypeOK
<1> QED
  BY <1>1, <1>2, <1>3, <1>4, <1>6, <1>7, <1>8, <1>9, <1>10, <1>11, <1>12, <1>13, <1>14, <1>15
  DEF Next

\* A stream is handed to one client only.
LEMMA OneReaderStep == WakeInv /\ [Next]_vars => OneReader'
<1> SUFFICES ASSUME WakeInv, [Next]_vars PROVE OneReader'
  OBVIOUS
<1>0. OneReader /\ link \in [Clients -> Streams \cup {NoStream}]
  BY DEF WakeInv, TypeOK
<1>1. CASE link' = link
  BY <1>0, <1>1 DEF OneReader
<1>2. ASSUME NEW c \in Clients, Close(c) PROVE OneReader'
  BY <1>0, <1>2 DEF OneReader, Close
<1>3. ASSUME NEW c \in Clients, NEW s \in Streams, Connect(c, s) PROVE OneReader'
  <2>1. link' = [link EXCEPT ![c] = s] /\ \A d \in Clients : link[d] # s
    BY <1>3 DEF Connect, Subscribe
  <2> QED
    BY <1>0, <2>1 DEF OneReader
<1>4. CASE Next
  BY <1>1, <1>2, <1>3, <1>4
  DEF Next, Post, Hint, FindQueue, Put, Forward, Keepalive, Tick, BrokenPipe, ServerCrash,
      RevokeToken, Pull, HeadersFail, Forbidden, Read, StreamEnds, Disconnect, Deadline,
      CallAgain, clients
<1>5. CASE UNCHANGED vars
  BY <1>1, <1>5 DEF vars
<1> QED
  BY <1>4, <1>5

-----------------------------------------------------------------------------
(* Wakes *)

\* A sender that is about to wake the readers of stream l.
Waking(n, l) ==
    note[n] = NoNote /\ (step[n] = "notify" \/ (step[n] = "put" /\ target[n] = l))

\* What NoMissedWake asks for a client that reads stream l.
Covered(c, l) ==
    \/ HasWake(c, wire[l]) \/ HasWake(c, queue[l])
    \/ \E n \in Senders : Waking(n, l)
    \/ c \in Patient /\ l \in dropped

\* Lines that come, and senders that go on, leave a client covered.
LEMMA CoveredKept ==
  ASSUME TypeOK, NEW c \in Clients, NEW l \in Streams, Covered(c, l),
         wire'[l] = wire[l] \/ \E x \in Lines : wire'[l] = Append(wire[l], x),
         queue'[l] = queue[l] \/ \E x \in Items : queue'[l] = Append(queue[l], x),
         dropped \subseteq dropped',
         \A n \in Senders : Waking(n, l) => Covered(c, l)'
  PROVE  Covered(c, l)'
<1>0. wire[l] \in Seq(Lines) /\ queue[l] \in Seq(Items)
  BY DEF TypeOK
<1>1. CASE HasWake(c, wire[l])
  <2>1. HasWake(c, wire'[l])
    BY <1>0, <1>1, AppendWakes
  <2> QED
    BY <2>1 DEF Covered, HasWake, Wakes
<1>2. CASE HasWake(c, queue[l])
  <2>1. HasWake(c, queue'[l])
    BY <1>0, <1>2, AppendWakes
  <2> QED
    BY <2>1 DEF Covered, HasWake, Wakes
<1>3. CASE \E n \in Senders : Waking(n, l)
  BY <1>3
<1>4. CASE c \in Patient /\ l \in dropped
  BY <1>4 DEF Covered
<1> QED
  BY <1>1, <1>2, <1>3, <1>4 DEF Covered

\* A sender that puts a wake leaves the client covered.
LEMMA PutCovers ==
  ASSUME TypeOK, NEW c \in Clients, NEW l \in Streams, Covered(c, l),
         NEW n \in Senders, Put(n)
  PROVE  Covered(c, l)'
<1>0. queue \in [Streams -> Seq(Items)] /\ target[n] \in Streams /\ queue[l] \in Seq(Items)
  BY DEF Put, TypeOK
<1>1. UNCHANGED wire /\ dropped \subseteq dropped'
  BY DEF Put
<1>2. queue'[l] = queue[l] \/ \E x \in Items : queue'[l] = Append(queue[l], x)
  BY <1>0 DEF Put, Items
<1>3. \A m \in Senders \ {n} : Waking(m, l) => Waking(m, l)'
  BY DEF Put, Waking, TypeOK
<1>4. ASSUME Waking(n, l) PROVE Covered(c, l)'
  <2>1. target[n] = l /\ note[n] = NoNote
    BY <1>4 DEF Waking, Put
  <2>2. CASE Len(queue[l]) < QueueSize
    <3>1. queue'[l] = Append(queue[l], "event") /\ "event" \in Items
      BY <1>0, <2>1, <2>2 DEF Put, Items
    <3>2. Wakes(c, "event")
      BY DEF Wakes
    <3>3. HasWake(c, queue'[l])
      BY <1>0, <3>1, <3>2, AppendWakes
    <3> QED
      BY <3>3 DEF Covered, HasWake, Wakes
  <2>3. CASE ~(Len(queue[l]) < QueueSize)
    <3>1. queue' = queue /\ l \in dropped'
      BY <2>1, <2>3 DEF Put
    <3>2. c \in Patient \/ HasWake(c, queue'[l])
      BY <1>0, <2>3, <3>1, FullWakes
    <3> QED
      BY <3>1, <3>2 DEF Covered, HasWake, Wakes
  <2> QED
    BY <2>2, <2>3
<1>5. \A m \in Senders : Waking(m, l) => Covered(c, l)'
  BY <1>3, <1>4 DEF Covered
<1> QED
  BY <1>1, <1>2, <1>5, CoveredKept

\* A handler that forwards an item leaves the client covered.
LEMMA ForwardCovers ==
  ASSUME TypeOK, TypeOK', NEW c \in Clients, NEW l \in Streams, Covered(c, l), l = lane', l # NoStream,
         NEW s \in Streams, Forward(s)
  PROVE  Covered(c, l)' /\ lane = l
<1>0. /\ UNCHANGED <<dropped, step, note, target>> /\ queue[s] # <<>>
      /\ queue \in [Streams -> Seq(Items)] /\ wire \in [Streams -> Seq(Lines)]
  BY DEF Forward, Tick, senders, TypeOK
<1>1. lane = l
  BY DEF Forward, Tick, Unsubscribe
<1>2. \A n \in Senders : Waking(n, l) => Waking(n, l)'
  BY <1>0 DEF Waking
<1>3. CASE s # l
  <2>1. queue'[l] = queue[l] /\ wire'[l] = wire[l]
    BY <1>0, <1>3 DEF Forward, Tick, Write
  <2> QED
    BY <1>0, <1>1, <1>2, <2>1 DEF Covered, HasWake, Wakes
<1>4. CASE s = l
  <2>1. token = "valid"
    BY <1>1, <1>4 DEF Forward, Tick, Unsubscribe
  <2>2. queue'[l] = Tail(queue[l]) /\ wire'[l] = Append(wire[l], Head(queue[l]))
    BY <1>0, <1>4, <2>1 DEF Forward, Tick, Write
  <2>3. Head(queue[l]) \in Lines /\ queue[l] \in Seq(Items) /\ queue[l] # <<>>
        /\ wire[l] \in Seq(Lines)
    BY <1>0, <1>4 DEF Lines
  <2>4. CASE HasWake(c, wire[l]) \/ HasWake(c, queue[l])
    <3>1. HasWake(c, wire'[l]) \/ HasWake(c, queue'[l])
      BY <2>2, <2>3, <2>4, AppendWakes, TailWakes
    <3> QED
      BY <1>1, <3>1 DEF Covered, HasWake, Wakes
  <2>5. CASE ~(HasWake(c, wire[l]) \/ HasWake(c, queue[l]))
    BY <1>0, <1>1, <1>2, <2>5 DEF Covered
  <2> QED
    BY <2>4, <2>5
<1> QED
  BY <1>3, <1>4

\* A client that reads leaves the others covered.
LEMMA ReadCovers ==
  ASSUME TypeOK, OneReader, NEW c \in Clients, NEW l \in Streams, Covered(c, l),
         NEW d \in Clients, Read(d), link[c] = l, pc'[c] = "read"
  PROVE  Covered(c, l)'
<1>0. /\ UNCHANGED <<dropped, queue, step, note, target>>
      /\ wire \in [Streams -> Seq(Lines)] /\ link[d] \in Streams /\ wire[link[d]] # <<>>
  BY DEF Read, senders, TypeOK
<1>1. \A n \in Senders : Waking(n, l) => Waking(n, l)'
  BY <1>0 DEF Waking
<1>2. CASE d # c
  <2>1. link[d] # l
    BY <1>0, <1>2, WakeAssumption DEF OneReader
  <2>2. wire'[l] = wire[l]
    BY <1>0, <2>1 DEF Read
  <2> QED
    BY <1>0, <1>1, <2>2 DEF Covered, HasWake, Wakes
<1>3. CASE d = c
  <2>1. wire'[l] = Tail(wire[l]) /\ wire[l] \in Seq(Lines) /\ wire[l] # <<>>
    BY <1>0, <1>3 DEF Read
  <2>2. ~Wakes(c, Head(wire[l]))
    BY <1>3 DEF Read, Goto, TypeOK
  <2>3. HasWake(c, wire[l]) => HasWake(c, wire'[l])
    BY <2>1, <2>2, TailWakes
  <2> QED
    BY <1>0, <1>1, <2>3 DEF Covered, HasWake, Wakes
<1> QED
  BY <1>2, <1>3

\* Every step leaves a client that is behind covered.
LEMMA WakeStep ==
  ASSUME WakeInv, TypeOK', [Next]_vars, NEW c \in Clients, NEW l \in Streams, l = lane',
         pc'[c] = "read", link'[c] = l, seen'[c] < committed'
  PROVE  Covered(c, l)'
<1>0. TypeOK /\ OneReader /\ l # NoStream
  BY WakeAssumption DEF WakeInv
<1>1. pc[c] = "read" /\ link[c] = l /\ lane = l /\ seen[c] < committed => Covered(c, l)
  BY DEF WakeInv, NoMissedWake, Covered, Waking
<1>2. ASSUME Covered(c, l), UNCHANGED <<wire, queue, dropped, step, note, target>>
      PROVE  Covered(c, l)'
  BY <1>2 DEF Covered, Waking, HasWake, Wakes
<1>3. ASSUME NEW n \in Senders, Post(n) PROVE Covered(c, l)'
  <2>1. Waking(n, l)'
    BY <1>0, <1>3 DEF Post, Waking, TypeOK
  <2> QED
    BY <2>1 DEF Covered
<1>4. ASSUME NEW n \in Senders, NEW i \in Notes, Hint(n, i) PROVE Covered(c, l)'
  <2>1. Covered(c, l) /\ UNCHANGED <<wire, queue, dropped>>
    BY <1>1, <1>4 DEF Hint, ledger, hub, clients
  <2>2. \A m \in Senders : Waking(m, l) => Waking(m, l)'
    BY <1>0, <1>4 DEF Hint, Waking, TypeOK
  <2> QED
    BY <2>1, <2>2 DEF Covered, HasWake, Wakes
<1>5. ASSUME NEW n \in Senders, FindQueue(n) PROVE Covered(c, l)'
  <2>1. Covered(c, l) /\ UNCHANGED <<wire, queue, dropped, lane>>
    BY <1>1, <1>5 DEF FindQueue, ledger, hub, clients
  <2>2. \A m \in Senders : Waking(m, l) => Waking(m, l)'
    BY <1>0, <1>5, <2>1 DEF FindQueue, Waking, TypeOK
  <2> QED
    BY <2>1, <2>2 DEF Covered, HasWake, Wakes
<1>6. ASSUME NEW n \in Senders, Put(n) PROVE Covered(c, l)'
  <2>1. Covered(c, l)
    BY <1>1, <1>6 DEF Put, clients
  <2> QED
    BY <1>0, <1>6, <2>1, PutCovers
<1>7. ASSUME NEW s \in Streams, Forward(s) PROVE Covered(c, l)'
  <2>1. lane = l /\ UNCHANGED <<pc, link, seen, committed>>
    BY <1>0, <1>7 DEF Forward, Tick, Unsubscribe, clients, ledger
  <2> QED
    BY <1>0, <1>1, <1>7, <2>1, ForwardCovers
<1>8. ASSUME NEW s \in Streams, Keepalive(s) PROVE Covered(c, l)'
  <2>1. /\ lane = l /\ UNCHANGED <<pc, link, seen, committed, queue, dropped, step, note, target>>
        /\ wire'[l] = wire[l] \/ \E x \in Lines : wire'[l] = Append(wire[l], x)
    BY <1>0, <1>8 DEF Keepalive, Tick, Unsubscribe, Write, clients, ledger, senders, TypeOK, Lines
  <2>2. \A n \in Senders : Waking(n, l) => Covered(c, l)'
    BY <2>1 DEF Covered, Waking
  <2> QED
    BY <1>0, <1>1, <2>1, <2>2, CoveredKept
<1>9. ASSUME NEW s \in Streams, BrokenPipe(s) PROVE Covered(c, l)'
  BY <1>0, <1>1, <1>2, <1>9 DEF BrokenPipe, Unsubscribe, ledger, clients, senders
<1>10. CASE ServerCrash
  BY <1>0, <1>10 DEF ServerCrash
<1>11. CASE RevokeToken
  BY <1>1, <1>2, <1>11 DEF RevokeToken, hub, clients, senders
<1>12. ASSUME NEW d \in Clients, Pull(d) PROVE Covered(c, l)'
  <2>1. d # c
    BY <1>0, <1>12 DEF Pull, TypeOK, ledger
  <2> QED
    BY <1>0, <1>1, <1>2, <1>12, <2>1 DEF Pull, Goto, Close, TypeOK, ledger, hub, senders
<1>13. ASSUME NEW d \in Clients, NEW s \in Streams, Connect(d, s) PROVE Covered(c, l)'
  <2>1. l = s /\ (d # c => link'[c] = link[c]) /\ link[c] # s
    BY <1>0, <1>13 DEF Connect, Subscribe, TypeOK
  <2>2. wire'[s] = <<"ready">>
    BY <1>0, <1>13 DEF Connect, TypeOK
  <2>3. HasWake(c, wire'[l])
    BY <2>1, <2>2 DEF HasWake, Wakes
  <2> QED
    BY <2>3 DEF Covered, HasWake, Wakes
<1>14. ASSUME NEW d \in Clients, NEW s \in Streams, HeadersFail(d, s) PROVE Covered(c, l)'
  BY <1>14 DEF HeadersFail, Subscribe
<1>15. ASSUME NEW d \in Clients, Read(d) PROVE Covered(c, l)'
  <2>1. pc[c] = "read" /\ link[c] = l /\ lane = l /\ seen[c] < committed
    BY <1>0, <1>15 DEF Read, Goto, Close, TypeOK, ledger
  <2> QED
    BY <1>0, <1>1, <1>15, <2>1, ReadCovers
<1>16. ASSUME NEW d \in Clients,
              Forbidden(d) \/ StreamEnds(d) \/ Disconnect(d) \/ Deadline(d) \/ CallAgain(d)
       PROVE  Covered(c, l)'
  <2>1. pc[c] = "read" /\ link[c] = l
    BY <1>0, <1>16 DEF Forbidden, StreamEnds, Disconnect, Deadline, CallAgain, Goto, Close, TypeOK
  <2> QED
    BY <1>1, <1>2, <1>16, <2>1
    DEF Forbidden, StreamEnds, Disconnect, Deadline, CallAgain, ledger, hub, senders
<1>17. CASE UNCHANGED vars
  BY <1>1, <1>2, <1>17 DEF vars
<1> QED
  BY <1>3, <1>4, <1>5, <1>6, <1>7, <1>8, <1>9, <1>10, <1>11, <1>12, <1>13, <1>14, <1>15,
     <1>16, <1>17 DEF Next

\* No client that reads the agent's lane misses the wake of an event, however commits,
\* hints, reconnections, revocations and crashes of the server interleave: a sender
\* reads the lane after it has committed, and a new stream begins with "ready".
THEOREM WakeCorrect == Spec => []WakeSound
<1>1. Init => WakeInv
  <2> SUFFICES ASSUME Init PROVE WakeInv
    OBVIOUS
  <2>1. TypeOK
    BY WakeAssumption DEF Init, TypeOK
  <2> QED
    BY <2>1 DEF Init, WakeInv, OneReader, NoMissedWake
<1>2. WakeInv /\ [Next]_vars => WakeInv'
  <2> SUFFICES ASSUME WakeInv, [Next]_vars PROVE WakeInv'
    OBVIOUS
  <2>1. TypeOK'
    BY WakeTypeStep DEF WakeInv
  <2>2. OneReader'
    BY OneReaderStep
  <2>3. NoMissedWake'
    <3> SUFFICES ASSUME NEW c \in Clients, pc'[c] = "read", link'[c] = lane',
                        seen'[c] < committed'
                 PROVE  \/ HasWake(c, wire[lane])' \/ HasWake(c, queue[lane])'
                        \/ \E n \in Senders :
                             /\ note'[n] = NoNote
                             /\ step'[n] = "notify" \/ (step'[n] = "put" /\ target'[n] = lane')
                        \/ c \in Patient /\ lane' \in dropped'
      BY DEF NoMissedWake
    <3>1. PICK l \in Streams : l = lane'
      BY <2>1 DEF TypeOK
    <3>2. Covered(c, l)'
      BY <2>1, <3>1, WakeStep
    <3> QED
      BY <3>1, <3>2 DEF Covered, Waking, HasWake, Wakes
  <2> QED
    BY <2>1, <2>2, <2>3 DEF WakeInv
<1>3. WakeInv => WakeSound
  BY DEF WakeInv, WakeSound
<1> QED
  BY <1>1, <1>2, <1>3, PTL DEF Spec

\* The lane of a running handler is given up only with that handler: an old connection
\* that ends late (unsubscribe) cannot silence the one that replaced it.
THEOREM LaneCorrect == Spec => LiveLaneKept
<1>1. TypeOK /\ [Next]_vars =>
        [(lane \in running /\ lane' = NoStream) => (lane \notin running')]_vars
  <2> SUFFICES ASSUME TypeOK, [Next]_vars, lane \in running, lane' = NoStream
               PROVE  lane \notin running'
    OBVIOUS
  <2>1. lane # NoStream
    BY WakeAssumption DEF TypeOK
  <2>2. CASE UNCHANGED lane
    BY <2>1, <2>2
  <2>3. ASSUME NEW s \in Streams, Unsubscribe(s) PROVE lane \notin running'
    BY <2>1, <2>3 DEF Unsubscribe
  <2>4. ASSUME NEW s \in Streams, lane' = s PROVE lane \notin running'
    BY <2>4, WakeAssumption
  <2>5. CASE ServerCrash
    BY <2>5 DEF ServerCrash
  <2>6. CASE UNCHANGED vars
    BY <2>2, <2>6 DEF vars
  <2> QED
    BY <2>2, <2>3, <2>4, <2>5, <2>6
    DEF Next, Post, Hint, FindQueue, Put, Forward, Keepalive, Tick, BrokenPipe, RevokeToken,
        Pull, Connect, HeadersFail, Subscribe, Forbidden, Read, StreamEnds, Disconnect,
        Deadline, CallAgain, hub
<1>2. WakeSound => TypeOK
  BY DEF WakeSound
<1> QED
  BY <1>1, <1>2, WakeCorrect, PTL DEF Spec, LiveLaneKept
=============================================================================
