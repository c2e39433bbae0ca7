---------------------------- MODULE ConsumersProofs ---------------------------
(***************************************************************************)
(* Proofs about Inbox and Rescue, the two programs that take events off    *)
(* the bus and act on them: for any number of messages, orders, request    *)
(* threads, faults and failures.                                           *)
(***************************************************************************)
EXTENDS Inbox, Rescue, FiniteSetTheorems, TLAPS

-----------------------------------------------------------------------------
(***************************************************************************)
(* Inbox.                                                                  *)
(*                                                                         *)
(* InboxSound says that what the ledger was told about a message is so on  *)
(* the disk. It is kept by the order in which deliver looks, writes, syncs *)
(* and tells, so the invariant adds what deliver has found at each of its  *)
(* steps and why the reader's moves leave it true (DeliverInv), what a     *)
(* power loss leaves (FilesInv), that a page leaves no earlier message out *)
(* (OrderInv), and that a request says only what is true, even one whose   *)
(* caller has died (CallsInv).                                             *)
(***************************************************************************)

\* A message that the agent cannot lose any more, or that deliver took for such.
Kept(e) == durable[e] # {} \/ e \in unsynced \/ e \in appliedAcks

\* What is durable is a state the directories have been in: a file that was once synced
\* is still somewhere.
FilesInv ==
    \A e \in Events :
        /\ durable[e] # {} => place[e] # {}
        /\ durable[e] # {"pending", "applied"}
        /\ "applied" \in durable[e] => e \in appliedAcks

\* deliver's looks stay true while the reader moves files, and the call goes out, and
\* the cursor passes, only for a message that is kept.
DeliverInv ==
    /\ apc = "look" => "pending" \notin place[acur]
    /\ apc \in {"create", "write"} => place[acur] = {}
    /\ apc = "sync" => place[acur] # {}
    /\ apc \in {"ack", "wait", "advance"} => Kept(acur)
    /\ rpc \in {"move", "sync"} => rcur \in appliedAcks

\* The messages have the first ids, so that a page leaves nothing out: what comes before
\* one of the page is kept, or on the page too, or at hand.
OrderInv ==
    /\ \E n \in 0..MaxEvents : sent = 1..n
    /\ apc = "next" => \A f \in page : \A e \in 1..(f - 1) : Kept(e) \/ e \in page
    /\ apc \notin {"poll", "next"} =>
          /\ \A e \in 1..(acur - 1) : Kept(e)
          /\ \A f \in page : \A e \in 1..(f - 1) : Kept(e) \/ e \in page \/ e = acur

\* What a request says of a message is true, also one whose caller has given up, and a
\* process waits while the request it made is on its way.
CallInv(c) ==
    conn[c] # Idle =>
        /\ conn[c].call.by = "adapter" => apc = "wait"
        /\ conn[c].call.by = "reader" =>
              rpc = "wait" /\ conn[c].call.event = rcur /\ conn[c].call.op \in {"reply", "applied"}
        /\ conn[c].call.op = "received" => Kept(conn[c].call.event)
        /\ conn[c].call.op = "send" => 1..(conn[c].call.event - 1) \subseteq sent
        /\ conn[c].call.op = "applied" /\ conn[c].pc = "stored" =>
              conn[c].call.event \in appliedAcks

\* A process waits for one request.
OneCall ==
    \A c, d \in Conns :
        (/\ conn[c] # Idle /\ conn[d] # Idle
         /\ conn[c].call.by \in {"adapter", "reader"} /\ conn[c].call.by = conn[d].call.by) => c = d

\* It holds of every request.
CallsInv == OneCall /\ \A c \in Conns : CallInv(c)

\* The inductive invariant.
InboxInv == InboxSound /\ FilesInv /\ DeliverInv /\ OrderInv /\ CallsInv

\* A thread is idle or has a request of the type.
LEMMA ConnCases ==
    ASSUME StorageTypeOK, NEW c \in Conns
    PROVE  /\ conn[c] = Idle \/ (conn[c] \in Request /\ conn[c] # Idle /\ conn[c].call \in InboxCalls)
           /\ Idle.pc = "idle" /\ (conn[c].pc = "idle" => conn[c] = Idle)
BY InboxAssumption DEF StorageTypeOK, Request, Idle

\* A request arrives: the thread was idle and has a request of the type now.
LEMMA Arrives ==
    ASSUME StorageTypeOK, NEW c \in Conns, NEW e \in Events,
           NEW op \in {"send", "reply", "received", "applied"},
           NEW by \in {"sender", "adapter", "reader", "nobody"},
           NEW pc \in {"arrived", "store"}, Arrive(c, Call(op, e, by), pc)
    PROVE  /\ conn' \in [Conns -> Request \cup {Idle}]
           /\ conn[c] = Idle /\ \A d \in Conns \ {c} : conn'[d] = conn[d]
           /\ conn'[c] # Idle /\ conn'[c].pc = pc
           /\ conn'[c].call.op = op /\ conn'[c].call.event = e /\ conn'[c].call.by = by
<1> DEFINE r == [pc |-> pc, call |-> Call(op, e, by), retry |-> "no", error |-> "none"]
<1>1. /\ r \in Request /\ r # Idle /\ r.pc = pc
      /\ r.call.op = op /\ r.call.event = e /\ r.call.by = by
  BY InboxAssumption DEF Request, Idle, Call, InboxCalls
<1>2. conn' = [conn EXCEPT ![c] = r] /\ conn[c] = Idle
  BY ConnCases DEF Arrive, At
<1> HIDE DEF r
<1> QED
  BY <1>1, <1>2 DEF StorageTypeOK

\* A step of a request inside the server leaves its call alone, and only Commit stores.
LEMMA Handles ==
    ASSUME StorageTypeOK, NEW c \in Conns,
           Probe(c) \/ Commit(c) \/ CommitFails(c) \/ ClassifyFailure(c)
    PROVE  /\ conn' \in [Conns -> Request \cup {Idle}]
           /\ \A d \in Conns \ {c} : conn'[d] = conn[d]
           /\ conn[c] # Idle /\ conn'[c] # Idle /\ conn'[c].call = conn[c].call
           /\ Commit(c) \/ conn'[c].pc # "stored"
<1> DEFINE Like(r) == r \in Request /\ r.call = conn[c].call
<1>0. conn[c] \in Request /\ conn[c] # Idle
  BY ConnCases DEF Probe, Commit, CommitFails, ClassifyFailure, Classify, At
<1>1. ASSUME NEW pc \in {"arrived", "store", "classify", "failed", "stored"}
      PROVE  Like([conn[c] EXCEPT !.pc = pc]) /\ [conn[c] EXCEPT !.pc = pc].pc = pc
  BY <1>0 DEF Request
<1>2. ASSUME NEW r, Like(r), NEW y \in {"yes", "no"}
      PROVE  Like([r EXCEPT !.retry = y]) /\ [r EXCEPT !.retry = y].pc = r.pc
  BY <1>2 DEF Request
<1>3. ASSUME NEW r, Like(r), NEW x \in Errors
      PROVE  Like([r EXCEPT !.error = x]) /\ [r EXCEPT !.error = x].pc = r.pc
  BY <1>3 DEF Request
<1>4. \A r \in Request : r # Idle
  BY DEF Request, Idle
<1> HIDE DEF Like
<1>10. ASSUME NEW x \in Errors
      PROVE  /\ Like([[conn[c] EXCEPT !.pc = "failed"] EXCEPT !.error = x])
             /\ [[conn[c] EXCEPT !.pc = "failed"] EXCEPT !.error = x].pc = "failed"
  <2>1. /\ Like([conn[c] EXCEPT !.pc = "failed"])
        /\ [conn[c] EXCEPT !.pc = "failed"].pc = "failed"
    BY <1>1
  <2> QED
    BY <1>3, <2>1
<1>5. ASSUME NEW r, Like(r), conn' = [conn EXCEPT ![c] = r]
      PROVE  /\ conn' \in [Conns -> Request \cup {Idle}]
             /\ \A d \in Conns \ {c} : conn'[d] = conn[d]
             /\ conn'[c] # Idle /\ conn'[c].call = conn[c].call /\ conn'[c] = r
  BY <1>4, <1>5 DEF StorageTypeOK, Like
<1>6. CASE Probe(c)
  <2>1. PICK y \in {"yes", "no"} :
           conn' = [conn EXCEPT ![c] = [[conn[c] EXCEPT !.pc = "store"] EXCEPT !.retry = y]]
    BY <1>6 DEF Probe, ProbeKnown, StorageTypeOK
  <2> QED
    BY <1>0, <1>1, <1>2, <1>5, <2>1
<1>7. CASE Commit(c)
  BY <1>0, <1>1, <1>5, <1>7 DEF Commit, StoreCommits, StorageTypeOK
<1>8. CASE CommitFails(c)
  <2>1. \/ conn' = [conn EXCEPT ![c] = [[conn[c] EXCEPT !.pc = "failed"] EXCEPT !.error = "storage_full"]]
        \/ conn' = [conn EXCEPT ![c] = [conn[c] EXCEPT !.pc = "classify"]]
    BY <1>8 DEF CommitFails, StoreFails, StorageTypeOK
  <2>2. "storage_full" \in Errors
    BY DEF Errors
  <2> QED
    BY <1>0, <1>1, <1>10, <1>5, <2>1, <2>2
<1>9. CASE ClassifyFailure(c)
  <2>1. PICK x \in Errors :
           conn' = [conn EXCEPT ![c] = [[conn[c] EXCEPT !.pc = "failed"] EXCEPT !.error = x]]
    BY <1>9 DEF ClassifyFailure, Classify, Classification, Errors, StorageTypeOK
  <2> QED
    BY <1>0, <1>10, <1>5, <2>1
<1> QED
  BY <1>6, <1>7, <1>8, <1>9

\* Giving up a request changes who waits for it and nothing else.
LEMMA AbandonCases ==
    ASSUME StorageTypeOK, NEW who, Abandon(who)
    PROVE  /\ conn' \in [Conns -> Request \cup {Idle}]
           /\ \A c \in Conns :
                \/ conn'[c] = conn[c] /\ (conn[c] # Idle => conn[c].call.by \notin who)
                \/ /\ conn[c] # Idle /\ conn'[c] # Idle
                   /\ conn'[c].pc = conn[c].pc /\ conn'[c].call.op = conn[c].call.op
                   /\ conn'[c].call.event = conn[c].call.event /\ conn'[c].call.by = "nobody"
<1> USE InboxAssumption, ConnCases
<1>1. ASSUME NEW c \in Conns, conn[c] # Idle
      PROVE  /\ [conn[c] EXCEPT !.call.by = "nobody"] \in Request
             /\ [conn[c] EXCEPT !.call.by = "nobody"].pc = conn[c].pc
             /\ [conn[c] EXCEPT !.call.by = "nobody"].call = [conn[c].call EXCEPT !.by = "nobody"]
  BY <1>1 DEF Request, InboxCalls
<1>2. ASSUME NEW c \in Conns, conn[c] # Idle
      PROVE  /\ [conn[c].call EXCEPT !.by = "nobody"].op = conn[c].call.op
             /\ [conn[c].call EXCEPT !.by = "nobody"].event = conn[c].call.event
             /\ [conn[c].call EXCEPT !.by = "nobody"].by = "nobody"
  BY <1>2 DEF InboxCalls
<1>3. \A r \in Request : r # Idle
  BY DEF Request, Idle
<1> QED
  BY <1>1, <1>2, <1>3 DEF Abandon, StorageTypeOK

\* Every step keeps the types of StorageHealth's state.
LEMMA StorageStep == InboxTypeOK /\ [InboxNext]_inboxVars => StorageTypeOK'
<1> SUFFICES ASSUME InboxTypeOK, [InboxNext]_inboxVars PROVE StorageTypeOK'
  OBVIOUS
<1>0. StorageTypeOK /\ acur \in Events /\ rcur \in Events
  BY DEF InboxTypeOK
<1>1. ASSUME conn' \in [Conns -> Request \cup {Idle}], UNCHANGED <<disk, latch, health>>
      PROVE  StorageTypeOK'
  BY <1>0, <1>1 DEF StorageTypeOK
<1>2. ASSUME NEW c \in Conns, NEW e \in Events, SendMessage(c, e) PROVE StorageTypeOK'
  BY <1>0, <1>1, <1>2, Arrives DEF SendMessage, Arrive
<1>3. ASSUME NEW c \in Conns, Probe(c) \/ Commit(c) \/ CommitFails(c) \/ ClassifyFailure(c)
      PROVE  StorageTypeOK'
  <2>1. UNCHANGED <<disk, latch, health>>
    BY <1>3 DEF Probe, ProbeKnown, Commit, StoreCommits, CommitFails, StoreFails, ClassifyFailure, Classify
  <2> QED
    BY <1>0, <1>1, <1>3, <2>1, Handles
<1>4. ASSUME NEW c \in Conns, AnswerFailure(c) PROVE StorageTypeOK'
  BY <1>0, <1>4, ConnCases DEF AnswerFailure, MarkFailure, At, StorageTypeOK, Request
<1>5. ASSUME NEW c \in Conns, AnswerSuccess(c) PROVE StorageTypeOK'
  BY <1>0, <1>5 DEF AnswerSuccess, MarkSuccess, StorageTypeOK
<1>6. ASSUME NEW c \in Conns, AckReceipt(c) PROVE StorageTypeOK'
  BY <1>0, <1>1, <1>6, Arrives DEF AckReceipt, Arrive
<1>7. ASSUME NEW c \in Conns, ReaderCalls(c) PROVE StorageTypeOK'
  <2>1. CASE Arrive(c, Call("reply", rcur, "reader"), "arrived")
    BY <1>0, <1>1, <2>1, Arrives DEF Arrive
  <2>2. CASE Arrive(c, Call("applied", rcur, "reader"), "store")
    BY <1>0, <1>1, <2>2, Arrives DEF Arrive
  <2> QED
    BY <1>7, <2>1, <2>2 DEF ReaderCalls
<1>8. CASE AckReceiptFails \/ AdapterDies \/ ReaderDies \/ PowerFails
  <2>1. /\ \E who \in {{"adapter"}, {"reader"}, {"adapter", "reader"}} : Abandon(who)
        /\ UNCHANGED <<disk, latch, health>>
    BY <1>8 DEF AckReceiptFails, AdapterDies, ReaderDies, PowerFails
  <2> QED
    BY <1>0, <1>1, <2>1, AbandonCases
<1>9. CASE Health
  BY <1>0, <1>9 DEF Health, HealthReads, HealthProbes, HealthClears, StorageTypeOK
<1>10. ASSUME NEW d \in Disks, DiskChanges(d) PROVE StorageTypeOK'
  BY <1>0, <1>10 DEF DiskChanges, DiskTurns, StorageTypeOK
<1>11. CASE UNCHANGED storageVars
  BY <1>0, <1>11 DEF StorageTypeOK, storageVars
<1>12. CASE AdapterStep \/ MoveFile \/ SyncMoved \/ DeliverFails
  BY <1>11, <1>12 DEF AdapterStep, PollEvents, PageDone, CheckApplied, CreateTemp, Rename, SyncPending,
                      AdvancePosition, CheckPending, MoveFile, SyncMoved, DeliverFails
<1>13. ASSUME NEW e \in Events, NEW cmd, FindFile(e, cmd) PROVE StorageTypeOK'
  BY <1>11, <1>13 DEF FindFile
<1>14. CASE UNCHANGED inboxVars
  BY <1>11, <1>14 DEF inboxVars
<1> QED
  BY <1>2, <1>3, <1>4, <1>5, <1>6, <1>7, <1>8, <1>9, <1>10, <1>12, <1>13, <1>14
  DEF InboxNext, ServerStep, ReaderStep

\* Every step keeps the types of the inbox's state.
LEMMA InboxTypeStep == InboxTypeOK /\ [InboxNext]_inboxVars => InboxTypeOK'
<1> SUFFICES ASSUME InboxTypeOK, [InboxNext]_inboxVars PROVE InboxTypeOK'
  OBVIOUS
<1>0. StorageTypeOK /\ StorageTypeOK' /\ Events \subseteq 0..MaxEvents
  BY StorageStep, InboxAssumption DEF InboxTypeOK, Events
<1>1. ASSUME Fault PROVE faults' \in 0..MaxFaults
  BY <1>1, InboxAssumption DEF Fault, InboxTypeOK
<1>2. ASSUME UNCHANGED <<server, disks, adapter, reader, faults, unsynced>> PROVE InboxTypeOK'
  BY <1>0, <1>2 DEF InboxTypeOK, server, disks, adapter, reader
<1>3. ASSUME NEW c \in Conns, Probe(c) \/ CommitFails(c) \/ ClassifyFailure(c) PROVE InboxTypeOK'
  BY <1>2, <1>3 DEF Probe, CommitFails, ClassifyFailure
<1>4. ASSUME NEW c \in Conns, Commit(c) PROVE InboxTypeOK'
  <2>1. conn[c].call \in InboxCalls
    BY <1>0, <1>4, ConnCases DEF Commit, At
  <2>2. conn[c].call.event \in Events
    BY <2>1 DEF InboxCalls
  <2> QED
    BY <1>0, <1>4, <2>2 DEF Commit, InboxTypeOK, disks, adapter, reader
<1>5. ASSUME NEW c \in Conns, AnswerFailure(c) \/ AnswerSuccess(c) PROVE InboxTypeOK'
  BY <1>0, <1>5 DEF AnswerFailure, AnswerSuccess, Returns, InboxTypeOK, server, disks
<1>6. ASSUME NEW c \in Conns, AckReceipt(c) \/ ReaderCalls(c) PROVE InboxTypeOK'
  BY <1>0, <1>6 DEF AckReceipt, ReaderCalls, InboxTypeOK, server, disks, adapter, reader
<1>7. ASSUME NEW c \in Conns, NEW e \in Events, SendMessage(c, e) PROVE InboxTypeOK'
  BY <1>2, <1>7 DEF SendMessage
<1>8. CASE Health \/ \E d \in Disks : DiskChanges(d)
  BY <1>2, <1>8 DEF Health, DiskChanges
<1>9. CASE PollEvents \/ PageDone \/ CheckApplied
  BY <1>0, <1>9 DEF PollEvents, PageDone, CheckApplied, InboxTypeOK, server, disks, reader
<1>10. ASSUME NEW e \in Events, CheckPending(e) PROVE InboxTypeOK'
  BY <1>0, <1>10 DEF CheckPending, InboxTypeOK, server, disks, reader
<1>11. CASE CreateTemp
  BY <1>0, <1>11 DEF CreateTemp, InboxTypeOK, server, reader
<1>12. CASE Rename
  BY <1>0, <1>12 DEF Rename, InboxTypeOK, server, reader
<1>13. CASE DeliverFails
  BY <1>0, <1>1, <1>13 DEF DeliverFails, InboxTypeOK, server, reader
<1>14. CASE SyncPending
  BY <1>0, <1>14 DEF SyncPending, InboxTypeOK, server, reader
<1>15. CASE AdvancePosition
  BY <1>0, <1>15 DEF AdvancePosition, InboxTypeOK, server, reader
<1>16. CASE AckReceiptFails \/ AdapterDies \/ ReaderDies
  BY <1>0, <1>1, <1>16 DEF AckReceiptFails, AdapterDies, ReaderDies, InboxTypeOK, server, disks, adapter, reader
<1>17. CASE PowerFails
  <2>1. place' \in [Events -> SUBSET {"pending", "applied"}] /\ durable' = place'
    <3>1. place' \in [Events -> {place[e] : e \in Events} \cup {durable[e] : e \in Events}]
      BY <1>17 DEF PowerFails
    <3>2. {place[e] : e \in Events} \cup {durable[e] : e \in Events} \subseteq SUBSET {"pending", "applied"}
      BY DEF InboxTypeOK
    <3> QED
      BY <1>17, <3>1, <3>2 DEF PowerFails
  <2>2. position' \in 0..MaxEvents
    BY <1>17, InboxAssumption DEF PowerFails, InboxTypeOK
  <2> QED
    BY <1>0, <1>1, <1>17, <2>1, <2>2 DEF PowerFails, InboxTypeOK, server
<1>18. ASSUME NEW e \in Events, NEW cmd, FindFile(e, cmd) PROVE InboxTypeOK'
  BY <1>0, <1>18 DEF FindFile, InboxTypeOK, server, disks, adapter
<1>19. CASE MoveFile
  BY <1>0, <1>19 DEF MoveFile, InboxTypeOK, server, adapter
<1>20. CASE SyncMoved
  BY <1>0, <1>20 DEF SyncMoved, InboxTypeOK, server, adapter
<1>21. CASE UNCHANGED inboxVars
  BY <1>2, <1>21 DEF inboxVars
<1> QED
  BY <1>3, <1>4, <1>5, <1>6, <1>7, <1>8, <1>9, <1>10, <1>11, <1>12, <1>13, <1>14, <1>15, <1>16, <1>17,
     <1>18, <1>19, <1>20, <1>21
  DEF InboxNext, ServerStep, AdapterStep, ReaderStep

\* What a step may do to the server's sets and to the directories: the sets grow, and a
\* file once synced stays.
LEMMA KeptStep ==
    ASSUME InboxTypeOK, FilesInv, [InboxNext]_inboxVars
    PROVE  /\ sent \subseteq sent' /\ appliedAcks \subseteq appliedAcks'
           /\ \A e \in Events : Kept(e) => Kept(e)'
<1>1. sent \subseteq sent' /\ appliedAcks \subseteq appliedAcks' /\ unsynced \subseteq unsynced'
  <2>1. CASE UNCHANGED server /\ UNCHANGED unsynced
    BY <2>1 DEF server
  <2>2. ASSUME NEW c \in Conns, Commit(c) PROVE <1>1
    BY <2>2 DEF Commit
  <2>3. ASSUME NEW e \in Events, CheckPending(e) PROVE <1>1
    BY <2>3 DEF CheckPending, server
  <2> QED
    BY <2>1, <2>2, <2>3
    DEF InboxNext, inboxVars, ServerStep, Probe, CommitFails, ClassifyFailure, AnswerFailure, AnswerSuccess,
        Returns, SendMessage, AckReceipt, Health, DiskChanges, AdapterStep, PollEvents, PageDone, CheckApplied,
        CreateTemp, Rename, SyncPending, AdvancePosition, ReaderStep, ReaderCalls, MoveFile, SyncMoved,
        FindFile, DeliverFails, AckReceiptFails, AdapterDies, ReaderDies, PowerFails
<1>2. ASSUME NEW e \in Events, durable[e] # {} PROVE durable'[e] # {}
  <2>1. CASE UNCHANGED durable
    BY <1>2, <2>1
  <2>2. CASE SyncPending \/ SyncMoved
    BY <1>2, <2>2 DEF SyncPending, SyncMoved, FilesInv
  <2>3. CASE PowerFails
    BY <1>2, <2>3 DEF PowerFails, FilesInv
  <2> QED
    BY <2>1, <2>2, <2>3
    DEF InboxNext, inboxVars, disks, ServerStep, Probe, Commit, CommitFails, ClassifyFailure, AnswerFailure,
        AnswerSuccess, Returns, SendMessage, AckReceipt, Health, DiskChanges, AdapterStep, PollEvents,
        PageDone, CheckApplied, CreateTemp, Rename, AdvancePosition, CheckPending, ReaderStep, ReaderCalls,
        MoveFile, FindFile, DeliverFails, AckReceiptFails, AdapterDies, ReaderDies
<1> QED
  BY <1>1, <1>2 DEF Kept

\* Where a message's file is, before and after a power failure, is one place.
LEMMA FilesStep ==
    ASSUME InboxInv, [InboxNext]_inboxVars
    PROVE  FilesInv' /\ HandledOnce'
<1>0. InboxTypeOK /\ FilesInv /\ HandledOnce /\ DeliverInv /\ appliedAcks \subseteq appliedAcks'
  BY KeptStep DEF InboxInv, InboxSound
<1>1. CASE UNCHANGED <<place, durable>>
  BY <1>0, <1>1 DEF FilesInv, HandledOnce
<1>2. CASE Rename
  <2>1. place[acur] = {} /\ acur \in Events
    BY <1>0, <1>2 DEF Rename, DeliverInv, InboxTypeOK
  <2>2. place'[acur] = {"pending"} /\ \A e \in Events \ {acur} : place'[e] = place[e]
    BY <1>0, <1>2, <2>1 DEF Rename, InboxTypeOK
  <2> QED
    BY <1>0, <1>2, <2>1, <2>2 DEF Rename, FilesInv, HandledOnce
<1>3. CASE SyncPending \/ SyncMoved
  BY <1>0, <1>3 DEF SyncPending, SyncMoved, FilesInv, HandledOnce
<1>4. CASE MoveFile
  <2>1. rcur \in Events /\ rcur \in appliedAcks
    BY <1>0, <1>4 DEF MoveFile, DeliverInv, InboxTypeOK
  <2>2. /\ place'[rcur] = place[rcur] \/ place'[rcur] = {"applied"}
        /\ \A e \in Events \ {rcur} : place'[e] = place[e]
    BY <1>0, <1>4, <2>1 DEF MoveFile, InboxTypeOK
  <2> QED
    BY <1>0, <1>4, <2>1, <2>2 DEF MoveFile, FilesInv, HandledOnce
<1>5. CASE PowerFails
  BY <1>0, <1>5 DEF PowerFails, FilesInv, HandledOnce
<1> QED
  BY <1>1, <1>2, <1>3, <1>4, <1>5
  DEF InboxNext, inboxVars, disks, ServerStep, Probe, Commit, CommitFails, ClassifyFailure, AnswerFailure,
      AnswerSuccess, Returns, SendMessage, AckReceipt, Health, DiskChanges, AdapterStep, PollEvents,
      PageDone, CheckApplied, CreateTemp, AdvancePosition, CheckPending, ReaderStep, ReaderCalls,
      FindFile, DeliverFails, AckReceiptFails, AdapterDies, ReaderDies

\* The server is told, and the cursor passes, only what is kept.
LEMMA ReceivedStep ==
    ASSUME InboxInv, [InboxNext]_inboxVars
    PROVE  ReceivedMeansKept'
<1>0. /\ InboxTypeOK /\ InboxTypeOK' /\ DeliverInv /\ OrderInv /\ CallsInv
      /\ \A e \in Events : Kept(e) => Kept(e)'
  BY KeptStep, InboxTypeStep DEF InboxInv, InboxSound
<1>1. \A e \in receivedAcks \cup 1..position : e \in Events /\ Kept(e)
  BY InboxAssumption DEF InboxInv, InboxSound, InboxTypeOK, ReceivedMeansKept, Kept, Events
<1> SUFFICES \A e \in receivedAcks' \cup 1..position' : e \in Events /\ Kept(e)'
  BY DEF ReceivedMeansKept, Kept
<1>2. CASE UNCHANGED <<receivedAcks, position>>
  BY <1>0, <1>1, <1>2
<1>3. ASSUME NEW c \in Conns, Commit(c) PROVE \A e \in receivedAcks' \cup 1..position' : e \in Events /\ Kept(e)'
  <2>1. conn[c] # Idle
    BY <1>0, <1>3, ConnCases DEF Commit, At, InboxTypeOK
  <2>2. conn[c].call.op = "received" => Kept(conn[c].call.event)
    BY <1>0, <2>1 DEF CallsInv, CallInv
  <2>3. conn[c].call.event \in Events
    BY <1>0, <2>1, ConnCases DEF InboxTypeOK, InboxCalls
  <2>4. PICK e0 : e0 = conn[c].call.event
    OBVIOUS
  <2>5. e0 \in Events /\ (conn[c].call.op = "received" => Kept(e0))
    BY <2>2, <2>3, <2>4
  <2>6. /\ receivedAcks' = IF conn[c].call.op = "received" THEN receivedAcks \cup {e0} ELSE receivedAcks
        /\ position' = position
    BY <1>3, <2>4 DEF Commit, disks
  <2> QED
    BY <1>0, <1>1, <2>5, <2>6
<1>4. CASE AdvancePosition
  <2>1. \A e \in 1..acur : e \in Events /\ Kept(e)
    BY <1>0, <1>4, InboxAssumption DEF AdvancePosition, InboxTypeOK, DeliverInv, OrderInv, Events
  <2>2. position' = (IF acur > position THEN acur ELSE position) /\ receivedAcks' = receivedAcks
    BY <1>4 DEF AdvancePosition, server
  <2> QED
    BY <1>0, <1>1, <2>1, <2>2
<1>5. CASE PowerFails
  <2>1. receivedAcks' = receivedAcks /\ 1..position' \subseteq 1..position
    BY <1>0, <1>5 DEF PowerFails, server, InboxTypeOK
  <2> QED
    BY <1>0, <1>1, <2>1
<1> QED
  BY <1>2, <1>3, <1>4, <1>5
  DEF InboxNext, inboxVars, server, disks, ServerStep, Probe, CommitFails, ClassifyFailure, AnswerFailure,
      AnswerSuccess, Returns, SendMessage, AckReceipt, Health, DiskChanges, AdapterStep, PollEvents,
      PageDone, CheckApplied, CreateTemp, Rename, SyncPending, CheckPending, ReaderStep, ReaderCalls,
      MoveFile, SyncMoved, FindFile, DeliverFails, AckReceiptFails, AdapterDies, ReaderDies

\* What deliver saw of the file at hand is still so, whatever the reader did meanwhile.
LEMMA DeliverStep ==
    ASSUME InboxInv, [InboxNext]_inboxVars
    PROVE  DeliverInv'
<1>0. /\ InboxTypeOK /\ InboxTypeOK' /\ FilesInv /\ HandledOnce /\ DeliverInv /\ CallsInv
      /\ \A e \in Events : Kept(e) => Kept(e)'
      /\ acur \in Events /\ rcur \in Events /\ appliedAcks \subseteq appliedAcks'
  BY KeptStep, InboxTypeStep DEF InboxInv, InboxSound, InboxTypeOK
<1>1. ASSUME UNCHANGED place, UNCHANGED adapter, UNCHANGED reader PROVE DeliverInv'
  BY <1>0, <1>1 DEF DeliverInv, adapter, reader
<1>2. ASSUME NEW c \in Conns, AnswerFailure(c) \/ AnswerSuccess(c) PROVE DeliverInv'
  <2>1. conn[c] # Idle /\ UNCHANGED <<place, acur, rcur, appliedAcks>>
    BY <1>0, <1>2, ConnCases
    DEF AnswerFailure, AnswerSuccess, At, Returns, disks, server, InboxTypeOK
  <2>2. apc' = apc \/ (apc = "wait" /\ apc' \in {"advance", "poll"})
    BY <1>0, <1>2, <2>1 DEF AnswerFailure, AnswerSuccess, Returns, CallsInv, CallInv
  <2>3. rpc' \in {"move", "sync"} => rcur \in appliedAcks
    <3>1. CASE rpc' = rpc
      BY <1>0, <3>1 DEF DeliverInv
    <3>2. CASE rpc' # rpc /\ rpc' \in {"move", "sync"}
      <4>1. conn[c].call.by = "reader" /\ conn[c].call.op # "reply" /\ conn[c].pc = "stored"
        BY <1>2, <3>2 DEF AnswerFailure, AnswerSuccess, Returns, At
      <4> QED
        BY <1>0, <2>1, <4>1 DEF CallsInv, CallInv
    <3> QED
      BY <3>1, <3>2
  <2> QED
    BY <1>0, <2>1, <2>2, <2>3 DEF DeliverInv
<1>3. ASSUME NEW c \in Conns, AckReceipt(c) \/ ReaderCalls(c) PROVE DeliverInv'
  BY <1>0, <1>3 DEF AckReceipt, ReaderCalls, DeliverInv, disks, server, adapter, reader
<1>4. CASE PollEvents \/ PageDone \/ DeliverFails \/ AckReceiptFails \/ AdapterDies
  BY <1>0, <1>4 DEF PollEvents, PageDone, DeliverFails, AckReceiptFails, AdapterDies, DeliverInv, reader
<1>5. ASSUME NEW e \in Events, CheckPending(e) PROVE DeliverInv'
  <2>1. apc' = (IF "pending" \in place[e] THEN "ack" ELSE "look")
    BY <1>5 DEF CheckPending, LookOrder
  <2>2. "pending" \in place[e] => Kept(e)'
    BY <1>0, <1>5 DEF CheckPending, Kept, disks
  <2> QED
    BY <1>0, <1>5, <2>1, <2>2 DEF CheckPending, DeliverInv, disks, reader
<1>6. CASE CheckApplied
  <2>1. apc' = (IF "applied" \in place[acur] THEN "ack" ELSE "create")
    BY <1>6 DEF CheckApplied, LookOrder
  <2>2. "applied" \in place[acur] => Kept(acur)
    BY <1>0 DEF HandledOnce, Kept
  <2>3. apc' = "create" => place[acur] = {}
    BY <1>0, <1>6, <2>1 DEF CheckApplied, DeliverInv, InboxTypeOK
  <2> QED
    BY <1>0, <1>6, <2>1, <2>2, <2>3 DEF CheckApplied, DeliverInv, disks, reader
<1>7. CASE CreateTemp
  BY <1>0, <1>7 DEF CreateTemp, DeliverInv, reader
<1>8. CASE Rename
  <2>1. place'[acur] # {}
    BY <1>0, <1>8 DEF Rename, InboxTypeOK
  <2> QED
    BY <1>0, <1>8, <2>1 DEF Rename, DeliverInv, reader
<1>9. CASE SyncPending
  <2>1. Kept(acur)'
    BY <1>0, <1>9 DEF SyncPending, DeliverInv, Kept
  <2> QED
    BY <1>0, <1>9, <2>1 DEF SyncPending, DeliverInv, reader
<1>10. CASE AdvancePosition
  BY <1>0, <1>10 DEF AdvancePosition, DeliverInv, reader
<1>11. ASSUME NEW e \in Events, NEW cmd, FindFile(e, cmd) PROVE DeliverInv'
  BY <1>0, <1>11 DEF FindFile, DeliverInv, disks, server, adapter
<1>12. CASE MoveFile
  <2>1. \A e \in Events : /\ place[e] = {} => place'[e] = {}
                          /\ place[e] # {} => place'[e] # {}
                          /\ "pending" \notin place[e] => "pending" \notin place'[e]
    BY <1>0, <1>12 DEF MoveFile, InboxTypeOK
  <2>2. rpc' \in {"move", "sync"} => rcur' \in appliedAcks'
    BY <1>0, <1>12 DEF MoveFile, DeliverInv
  <2> QED
    BY <1>0, <1>12, <2>1, <2>2 DEF MoveFile, DeliverInv, adapter
<1>13. CASE SyncMoved
  BY <1>0, <1>13 DEF SyncMoved, DeliverInv, adapter
<1>14. CASE ReaderDies \/ PowerFails
  BY <1>0, <1>14 DEF ReaderDies, PowerFails, DeliverInv, disks, adapter
<1> QED
  BY <1>1, <1>2, <1>3, <1>4, <1>5, <1>6, <1>7, <1>8, <1>9, <1>10, <1>11, <1>12, <1>13, <1>14
  DEF InboxNext, inboxVars, disks, ServerStep, Probe, Commit, CommitFails, ClassifyFailure,
      SendMessage, Health, DiskChanges, AdapterStep, ReaderStep

\* Nothing is left out between the cursor, the message at hand and the page.
LEMMA OrderStep ==
    ASSUME InboxInv, [InboxNext]_inboxVars
    PROVE  OrderInv'
<1>0. /\ InboxTypeOK /\ InboxTypeOK' /\ ReceivedMeansKept /\ DeliverInv /\ OrderInv /\ CallsInv
      /\ \A e \in Events : Kept(e) => Kept(e)'
  BY KeptStep, InboxTypeStep DEF InboxInv, InboxSound
<1> DEFINE Sent == \E n \in 0..MaxEvents : sent = 1..n
           Next1 == apc = "next" => \A f \in page : \A e \in 1..(f - 1) : Kept(e) \/ e \in page
           Hand == apc \notin {"poll", "next"} =>
                      /\ \A e \in 1..(acur - 1) : Kept(e)
                      /\ \A f \in page : \A e \in 1..(f - 1) : Kept(e) \/ e \in page \/ e = acur
<1>1. Sent'
  <2>1. CASE UNCHANGED sent
    BY <1>0, <2>1 DEF OrderInv
  <2>2. ASSUME NEW c \in Conns, Commit(c) PROVE Sent'
    <3>1. conn[c] # Idle
      BY <1>0, <2>2, ConnCases DEF Commit, At, InboxTypeOK
    <3>2. PICK e0 : e0 = conn[c].call.event
      OBVIOUS
    <3>3. /\ sent' = IF conn[c].call.op = "send" THEN sent \cup {e0} ELSE sent
          /\ conn[c].call.op = "send" => 1..(e0 - 1) \subseteq sent
          /\ e0 \in Events
      BY <1>0, <2>2, <3>1, <3>2, ConnCases DEF Commit, CallsInv, CallInv, InboxTypeOK, InboxCalls
    <3>4. PICK n \in 0..MaxEvents : sent = 1..n
      BY <1>0 DEF OrderInv
    <3>5. CASE conn[c].call.op # "send" \/ e0 \in sent
      BY <3>3, <3>4, <3>5
    <3>6. CASE conn[c].call.op = "send" /\ e0 \notin sent
      <4>1. e0 - 1 <= n
        <5>1. CASE e0 = 1
          BY <3>4, <5>1, InboxAssumption
        <5>2. CASE e0 # 1
          <6>1. e0 - 1 \in 1..(e0 - 1)
            BY <3>3, <5>2, InboxAssumption DEF Events
          <6> QED
            BY <3>3, <3>4, <3>6, <6>1
        <5> QED
          BY <5>1, <5>2
      <4>2. e0 = n + 1
        BY <3>3, <3>4, <3>6, <4>1, InboxAssumption DEF Events
      <4>3. sent' = 1..(n + 1) /\ n + 1 \in 0..MaxEvents
        BY <3>3, <3>4, <3>6, <4>2, InboxAssumption DEF Events
      <4> QED
        BY <4>3
    <3> QED
      BY <3>5, <3>6
  <2> HIDE DEF Sent
  <2> QED
    BY <2>1, <2>2
    DEF InboxNext, inboxVars, server, ServerStep, Probe, CommitFails, ClassifyFailure, AnswerFailure,
        AnswerSuccess, Returns, SendMessage, AckReceipt, Health, DiskChanges, AdapterStep, PollEvents,
        PageDone, CheckApplied, CreateTemp, Rename, SyncPending, AdvancePosition, CheckPending, ReaderStep,
        ReaderCalls, MoveFile, SyncMoved, FindFile, DeliverFails, AckReceiptFails, AdapterDies, ReaderDies,
        PowerFails
<1> SUFFICES Next1' /\ Hand'
  BY <1>1 DEF OrderInv
<1>2. \A f \in page \cup {acur} : \A e \in 1..(f - 1) : e \in Events
  BY <1>0, InboxAssumption DEF InboxTypeOK, Events
<1>3. ASSUME UNCHANGED <<acur, page>>,
             apc' = apc \/ apc' = "poll" \/ (apc \notin {"poll", "next"} /\ apc' # "next")
      PROVE  Next1' /\ Hand'
  BY <1>0, <1>2, <1>3 DEF OrderInv
<1>4. ASSUME apc' = "poll" PROVE Next1' /\ Hand'
  BY <1>4
<1>5. CASE PollEvents
  <2>1. page' = {e \in sent : e > position /\ e \notin appliedAcks} /\ apc' = "next"
    BY <1>5 DEF PollEvents
  <2>2. ASSUME NEW f \in page', NEW e \in 1..(f - 1) PROVE Kept(e)' \/ e \in page'
    <3>1. e \in sent /\ e \in Events
      BY <1>0, <2>1, InboxAssumption DEF OrderInv, Events
    <3>2. CASE e > position /\ e \notin appliedAcks
      BY <2>1, <3>1, <3>2
    <3>3. CASE e \in appliedAcks
      BY <1>0, <3>1, <3>3 DEF Kept
    <3>4. CASE e \notin appliedAcks /\ ~(e > position)
      BY <1>0, <3>1, <3>4 DEF Kept, ReceivedMeansKept, InboxTypeOK
    <3> QED
      BY <3>2, <3>3, <3>4
  <2> QED
    BY <2>1, <2>2
<1>6. ASSUME NEW m \in Events, CheckPending(m) PROVE Next1' /\ Hand'
  <2>1. /\ apc = "next" /\ m \in page /\ (\A f \in page : m <= f)
        /\ acur' = m /\ page' = page \ {m} /\ apc' \in {"ack", "look"}
    BY <1>6 DEF CheckPending
  <2>2. ASSUME NEW e \in 1..(m - 1) PROVE Kept(e)'
    <3>1. e \notin page
      BY <2>1, InboxAssumption DEF Events
    <3> QED
      BY <1>0, <1>2, <2>1, <3>1 DEF OrderInv
  <2>3. ASSUME NEW f \in page', NEW e \in 1..(f - 1) PROVE Kept(e)' \/ e \in page' \/ e = m
    BY <1>0, <1>2, <2>1 DEF OrderInv
  <2> QED
    BY <2>1, <2>2, <2>3
<1>7. CASE AdvancePosition
  <2>1. apc = "advance" /\ apc' = "next" /\ page' = page /\ acur \in Events /\ Kept(acur)
    BY <1>0, <1>7 DEF AdvancePosition, DeliverInv, InboxTypeOK
  <2>2. ASSUME NEW f \in page, NEW e \in 1..(f - 1) PROVE Kept(e)' \/ e \in page'
    BY <1>0, <1>2, <2>1 DEF OrderInv
  <2> QED
    BY <2>1, <2>2
<1>8. ASSUME NEW c \in Conns, AnswerFailure(c) \/ AnswerSuccess(c)
      PROVE  UNCHANGED <<acur, page>> /\ (apc' = apc \/ apc' = "poll" \/ (apc = "wait" /\ apc' # "next"))
  <2>1. conn[c] # Idle
    BY <1>0, <1>8, ConnCases DEF AnswerFailure, AnswerSuccess, At, InboxTypeOK
  <2> QED
    BY <1>0, <1>8, <2>1 DEF AnswerFailure, AnswerSuccess, Returns, CallsInv, CallInv
<1> HIDE DEF Next1, Hand
<1>9. CASE \/ \E c \in Conns : ServerStep(c) \/ AckReceipt(c) \/ \E e \in Events : SendMessage(c, e)
           \/ Health \/ \E d \in Disks : DiskChanges(d)
           \/ PageDone \/ CheckApplied \/ CreateTemp \/ Rename \/ SyncPending \/ DeliverFails
  BY <1>3, <1>4, <1>8, <1>9
  DEF ServerStep, Probe, Commit, CommitFails, ClassifyFailure, SendMessage, AckReceipt, Health, DiskChanges,
      adapter, PageDone, CheckApplied, CreateTemp, Rename, SyncPending, DeliverFails
<1>10. CASE \/ ReaderStep \/ \E e \in Events, cmd \in {"apply", "reply"} : FindFile(e, cmd)
            \/ AckReceiptFails \/ AdapterDies \/ ReaderDies \/ PowerFails \/ UNCHANGED inboxVars
  BY <1>3, <1>4, <1>10
  DEF ReaderStep, ReaderCalls, MoveFile, SyncMoved, FindFile, AckReceiptFails, AdapterDies, ReaderDies,
      PowerFails, inboxVars, adapter
<1> QED
  BY <1>5, <1>6, <1>7, <1>9, <1>10 DEF InboxNext, AdapterStep

\* Requests arrive, are carried out, answered and given up, and stay true.
LEMMA CallsStep ==
    ASSUME InboxInv, [InboxNext]_inboxVars
    PROVE  CallsInv'
<1>0. /\ InboxTypeOK /\ InboxTypeOK' /\ StorageTypeOK /\ DeliverInv /\ OrderInv
      /\ OneCall /\ \A c \in Conns : CallInv(c)
      /\ \A e \in Events : Kept(e) => Kept(e)'
      /\ acur \in Events /\ rcur \in Events
      /\ sent \subseteq sent' /\ appliedAcks \subseteq appliedAcks'
  BY KeptStep, InboxTypeStep DEF InboxInv, InboxSound, InboxTypeOK, CallsInv
<1>1. \A c \in Conns : conn[c] # Idle => conn[c].call.event \in Events
  BY <1>0, ConnCases DEF InboxCalls
<1> DEFINE Waits == /\ apc = "wait" => apc' = "wait"
                    /\ rpc = "wait" => rpc' = "wait" /\ rcur' = rcur
\* A request that stays as it was stays true while its caller waits.
<1>2. ASSUME NEW c \in Conns, Waits, conn'[c] = conn[c] PROVE CallInv(c)'
  BY <1>0, <1>1, <1>2 DEF CallInv, Kept
<1>3. ASSUME conn' = conn, Waits PROVE CallsInv'
  BY <1>0, <1>2, <1>3 DEF CallsInv, OneCall
<1>4. ASSUME NEW c \in Conns, Probe(c) \/ Commit(c) \/ CommitFails(c) \/ ClassifyFailure(c)
      PROVE  CallsInv'
  <2>1. /\ \A d \in Conns \ {c} : conn'[d] = conn[d]
        /\ conn[c] # Idle /\ conn'[c] # Idle /\ conn'[c].call = conn[c].call
        /\ Commit(c) \/ conn'[c].pc # "stored"
    BY <1>0, <1>4, Handles
  <2>2. Waits
    BY <1>4 DEF Probe, Commit, CommitFails, ClassifyFailure, adapter, reader
  <2>3. OneCall'
    BY <1>0, <2>1 DEF OneCall
  <2>4. conn[c].call.op = "applied" /\ conn'[c].pc = "stored" => conn[c].call.event \in appliedAcks'
    BY <2>1 DEF Commit
  <2>5. CallInv(c)'
    BY <1>0, <1>1, <2>1, <2>2, <2>4 DEF CallInv, Kept
  <2> QED
    BY <1>2, <2>1, <2>2, <2>3, <2>5 DEF CallsInv
<1>5. ASSUME NEW c \in Conns, AnswerFailure(c) \/ AnswerSuccess(c) PROVE CallsInv'
  <2>1. conn[c] # Idle /\ conn'[c] = Idle /\ \A d \in Conns \ {c} : conn'[d] = conn[d]
    BY <1>0, <1>5, ConnCases
    DEF AnswerFailure, AnswerSuccess, MarkFailure, MarkSuccess, At, StorageTypeOK
  <2>2. OneCall'
    BY <1>0, <2>1 DEF OneCall
  <2>3. /\ conn[c].call.by # "adapter" => apc' = apc
        /\ conn[c].call.by # "reader" => rpc' = rpc
        /\ rcur' = rcur
    BY <1>5 DEF AnswerFailure, AnswerSuccess, Returns
  <2>4. ASSUME NEW d \in Conns \ {c} PROVE CallInv(d)'
    <3>1. conn[d] # Idle /\ conn[d].call.by \in {"adapter", "reader"} => conn[d].call.by # conn[c].call.by
      BY <1>0, <2>1 DEF OneCall
    <3> QED
      BY <1>0, <1>1, <2>1, <2>3, <3>1 DEF CallInv, Kept
  <2>5. CallInv(c)'
    BY <2>1 DEF CallInv
  <2> QED
    BY <2>2, <2>4, <2>5 DEF CallsInv
<1>6. ASSUME NEW c \in Conns, NEW m \in Events, SendMessage(c, m) PROVE CallsInv'
  <2>1. /\ \A d \in Conns \ {c} : conn'[d] = conn[d]
        /\ conn'[c] # Idle /\ conn'[c].pc = "arrived"
        /\ conn'[c].call.op = "send" /\ conn'[c].call.event = m /\ conn'[c].call.by = "sender"
    BY <1>0, <1>6, Arrives DEF SendMessage
  <2>2. 1..(m - 1) \subseteq sent
    <3>1. PICK n \in 0..MaxEvents : sent = 1..n
      BY <1>0 DEF OrderInv
    <3>2. Cardinality(sent) = n
      BY <3>1, FS_Interval, InboxAssumption
    <3> QED
      BY <1>6, <3>1, <3>2, InboxAssumption DEF SendMessage, Events
  <2>3. Waits /\ sent' = sent
    BY <1>6 DEF SendMessage, adapter, reader, server
  <2>4. OneCall'
    BY <1>0, <2>1 DEF OneCall
  <2>5. CallInv(c)'
    BY <2>1, <2>2, <2>3 DEF CallInv
  <2> QED
    BY <1>2, <2>1, <2>3, <2>4, <2>5 DEF CallsInv
<1>7. ASSUME NEW c \in Conns, AckReceipt(c) PROVE CallsInv'
  <2>1. /\ \A d \in Conns \ {c} : conn'[d] = conn[d]
        /\ conn'[c] # Idle /\ conn'[c].pc = "store"
        /\ conn'[c].call.op = "received" /\ conn'[c].call.event = acur /\ conn'[c].call.by = "adapter"
    BY <1>0, <1>7, Arrives DEF AckReceipt
  <2>2. Waits /\ apc = "ack" /\ apc' = "wait"
    BY <1>7 DEF AckReceipt, reader
  <2>3. \A d \in Conns : conn[d] # Idle => conn[d].call.by # "adapter"
    BY <1>0, <2>2 DEF CallInv
  <2>4. OneCall'
    BY <1>0, <2>1, <2>3 DEF OneCall
  <2>5. CallInv(c)'
    BY <1>0, <2>1, <2>2 DEF CallInv, DeliverInv, Kept
  <2> QED
    BY <1>2, <2>1, <2>2, <2>4, <2>5 DEF CallsInv
<1>8. ASSUME NEW c \in Conns, ReaderCalls(c) PROVE CallsInv'
  <2>1. /\ \A d \in Conns \ {c} : conn'[d] = conn[d]
        /\ conn'[c] # Idle /\ conn'[c].pc # "stored"
        /\ conn'[c].call.op \in {"reply", "applied"} /\ conn'[c].call.event = rcur
        /\ conn'[c].call.by = "reader"
    <3>1. CASE Arrive(c, Call("reply", rcur, "reader"), "arrived")
      BY <1>0, <3>1, Arrives
    <3>2. CASE Arrive(c, Call("applied", rcur, "reader"), "store")
      BY <1>0, <3>2, Arrives
    <3> QED
      BY <1>8, <3>1, <3>2 DEF ReaderCalls
  <2>2. Waits /\ rpc # "wait" /\ rpc' = "wait" /\ rcur' = rcur
    BY <1>8 DEF ReaderCalls, adapter
  <2>3. \A d \in Conns : conn[d] # Idle => conn[d].call.by # "reader"
    BY <1>0, <2>2 DEF CallInv
  <2>4. OneCall'
    BY <1>0, <2>1, <2>3 DEF OneCall
  <2>5. CallInv(c)'
    BY <2>1, <2>2 DEF CallInv
  <2> QED
    BY <1>2, <2>1, <2>2, <2>4, <2>5 DEF CallsInv
<1>9. CASE AckReceiptFails \/ AdapterDies \/ ReaderDies \/ PowerFails
  <2>1. PICK who : /\ Abandon(who)
                   /\ "adapter" \in who \/ apc' = apc
                   /\ "reader" \in who \/ (rpc' = rpc /\ rcur' = rcur)
    BY <1>9 DEF AckReceiptFails, AdapterDies, ReaderDies, PowerFails, adapter, reader
  <2>2. \A c \in Conns :
          \/ conn'[c] = conn[c] /\ (conn[c] # Idle => conn[c].call.by \notin who)
          \/ /\ conn[c] # Idle /\ conn'[c] # Idle
             /\ conn'[c].pc = conn[c].pc /\ conn'[c].call.op = conn[c].call.op
             /\ conn'[c].call.event = conn[c].call.event /\ conn'[c].call.by = "nobody"
    BY <1>0, <2>1, AbandonCases
  <2>3. OneCall'
    BY <1>0, <2>2 DEF OneCall
  <2>4. ASSUME NEW c \in Conns PROVE CallInv(c)'
    <3>1. CASE conn'[c] = conn[c] /\ (conn[c] # Idle => conn[c].call.by \notin who)
      BY <1>0, <1>1, <2>1, <3>1 DEF CallInv, Kept
    <3>2. CASE /\ conn[c] # Idle /\ conn'[c] # Idle
               /\ conn'[c].pc = conn[c].pc /\ conn'[c].call.op = conn[c].call.op
               /\ conn'[c].call.event = conn[c].call.event /\ conn'[c].call.by = "nobody"
      BY <1>0, <1>1, <3>2 DEF CallInv, Kept
    <3> QED
      BY <2>2, <3>1, <3>2
  <2> QED
    BY <2>3, <2>4 DEF CallsInv
<1> HIDE DEF Waits
<1>10. ASSUME NEW e \in Events, NEW cmd, FindFile(e, cmd) PROVE CallsInv'
  BY <1>3, <1>10 DEF FindFile, storageVars, adapter, Waits
<1>11. CASE Health \/ \E d \in Disks : DiskChanges(d)
  BY <1>3, <1>11
  DEF Health, HealthReads, HealthProbes, HealthClears, DiskChanges, DiskTurns, adapter, reader, Waits
<1>12. CASE AdapterStep \/ DeliverFails
  BY <1>3, <1>12
  DEF AdapterStep, PollEvents, PageDone, CheckApplied, CreateTemp, Rename, SyncPending, AdvancePosition,
      CheckPending, DeliverFails, storageVars, reader, Waits
<1>13. CASE MoveFile \/ SyncMoved \/ UNCHANGED inboxVars
  BY <1>3, <1>13 DEF MoveFile, SyncMoved, inboxVars, storageVars, adapter, reader, Waits
<1> QED
  BY <1>4, <1>5, <1>6, <1>7, <1>8, <1>9, <1>10, <1>11, <1>12, <1>13
  DEF InboxNext, ServerStep, ReaderStep

\* The bus is told "received", and the cursor passes, only when the message's file is
\* there to stay, and a file is in one place and in applied only after the
\* acknowledgement: for any number of messages and request threads, whatever dies, fails
\* or loses power, and however the reader's moves fall between deliver's two looks
\* (atalk/adapter.py, InboxStore and InboxAdapter; atalk/inbox.py).
THEOREM InboxCorrect == InboxSpec => []InboxSound
<1>1. InboxInit => InboxInv
  <2> SUFFICES ASSUME InboxInit PROVE InboxInv
    OBVIOUS
  <2>1. InboxTypeOK
    BY InboxAssumption
    DEF InboxInit, InboxStarts, InboxTypeOK, StorageInit, StorageTypeOK, Events, Disks, Errors
  <2>2. ReceivedMeansKept /\ HandledOnce /\ FilesInv
    BY DEF InboxInit, InboxStarts, ReceivedMeansKept, HandledOnce, FilesInv
  <2>3. DeliverInv
    BY DEF InboxInit, InboxStarts, DeliverInv
  <2>4. sent = 1..0 /\ 0 \in 0..MaxEvents
    BY InboxAssumption DEF InboxInit, InboxStarts
  <2>5. OrderInv
    BY <2>4 DEF InboxInit, InboxStarts, OrderInv
  <2>6. CallsInv
    BY DEF InboxInit, InboxStarts, StorageInit, CallsInv, CallInv, OneCall
  <2> QED
    BY <2>1, <2>2, <2>3, <2>5, <2>6 DEF InboxInv, InboxSound
<1>2. InboxInv /\ [InboxNext]_inboxVars => InboxInv'
  BY InboxTypeStep, FilesStep, ReceivedStep, DeliverStep, OrderStep, CallsStep DEF InboxInv, InboxSound
<1>3. InboxInv => InboxSound
  BY DEF InboxInv
<1> QED
  BY <1>1, <1>2, <1>3, PTL DEF InboxSpec

-----------------------------------------------------------------------------
(***************************************************************************)
(* Rescue.                                                                 *)
(*                                                                         *)
(* RescueSound is about orders that left the list; the invariant adds what *)
(* the executor has done for the order it has at hand, at each of its      *)
(* steps.                                                                  *)
(***************************************************************************)

\* What the executor has done for the order at hand: it has run, a takeover has left its
\* task, the reply is on the bus.  After a first run the reply to come names the
\* endpoint from before it.
OrderAtHand ==
    /\ xpc \in {"run", "emit", "reply", "ack"} => OrderKind[xcur] # "other"
    /\ xpc \in {"emit", "reply", "ack"} => runs[xcur] > 0
    /\ xpc \in {"reply", "ack"} /\ OrderKind[xcur] = "takeover" => emitted[xcur] > 0
    /\ xpc = "ack" => responses[xcur] # NoReply
    /\ xpc \in {"emit", "reply"} /\ runs[xcur] = 1 => rollback = first[xcur]

\* Only an order that was run is answered.
AnsweredAfterRun == \A e \in Orders : responses[e] # NoReply => runs[e] > 0

\* The inductive invariant.
RescueInv == RescueSound /\ OrderAtHand /\ AnsweredAfterRun

\* A missing reply is not an endpoint, and every order is one.
LEMMA EndpointFacts ==
  /\ NoReply \notin Endpoints \cup {Lost}
  /\ Orders \subseteq Endpoints /\ 1 \in Orders /\ 0 \in Endpoints
BY RescueAssumption DEF Endpoints, Lost, NoReply, Orders

\* Every step keeps the types.
LEMMA RescueTypeStep == RescueTypeOK /\ [RescueNext]_rescueVars => RescueTypeOK'
<1> SUFFICES ASSUME RescueTypeOK, [RescueNext]_rescueVars PROVE RescueTypeOK'
  OBVIOUS
<1> USE RescueAssumption, EndpointFacts
<1>1. CASE SendOrder
  BY <1>1 DEF SendOrder, RescueTypeOK, executor
<1>2. CASE Drain
  <2>1. Page \subseteq Orders
    BY DEF Page, PendingOrders, Orders, RescueTypeOK
  <2> QED
    BY <1>2, <2>1 DEF Drain, RescueTypeOK, orderBus
<1>3. CASE DrainEnds
  BY <1>3 DEF DrainEnds, RescueTypeOK, orderBus
<1>4. ASSUME NEW e \in Orders, TakeOrder(e) PROVE RescueTypeOK'
  BY <1>4 DEF TakeOrder, RescueTypeOK, orderBus
<1>5. ASSUME Ran
      PROVE  runs' \in [Orders -> 0..Many] /\ first' \in [Orders -> Endpoints \cup {Lost}]
  BY <1>5 DEF Ran, RescueTypeOK, Another, Many
<1>6. CASE Run
  BY <1>5, <1>6 DEF Run, RescueTypeOK, orderBus
<1>7. CASE RunFails
  BY <1>5, <1>7 DEF RunFails, Mishap, RescueTypeOK, orderBus
<1>8. CASE Emit
  BY <1>8 DEF Emit, RescueTypeOK, Another, Many
<1>9. Answered \in [Orders -> Endpoints \cup {Lost, NoReply}]
  BY DEF Answered, RescueTypeOK
<1>10. CASE Reply
  BY <1>9, <1>10 DEF Reply, RescueTypeOK
<1>11. CASE AckOrder
  BY <1>11 DEF AckOrder, RescueTypeOK
<1>12. CASE CallFails
  BY <1>9, <1>12 DEF CallFails, Mishap, RescueTypeOK, orderBus, Another, Many
<1>13. CASE AlwaysFails
  BY <1>5, <1>13 DEF AlwaysFails, RescueTypeOK, orderBus
<1>14. CASE UNCHANGED rescueVars
  BY <1>14 DEF rescueVars, RescueTypeOK
<1> QED
  BY <1>1, <1>2, <1>3, <1>4, <1>6, <1>7, <1>8, <1>10, <1>11, <1>12, <1>13, <1>14
  DEF RescueNext, ExecutorStep

\* Every step keeps the invariant.
LEMMA RescueStep == RescueInv /\ [RescueNext]_rescueVars => RescueInv'
<1> SUFFICES ASSUME RescueInv, [RescueNext]_rescueVars PROVE RescueInv'
  OBVIOUS
<1>0. RescueTypeOK /\ RescueTypeOK' /\ OrdersAnswered /\ OrderAtHand /\ AnsweredAfterRun
  BY RescueTypeStep DEF RescueInv, RescueSound
<1>1. CASE SendOrder
  BY <1>0, <1>1 DEF SendOrder, executor, OrdersAnswered, OrderAtHand, AnsweredAfterRun, RescueInv, RescueSound
<1>2. CASE Drain \/ DrainEnds
  BY <1>0, <1>2 DEF Drain, DrainEnds, orderBus, OrdersAnswered, OrderAtHand, AnsweredAfterRun, RescueInv, RescueSound
<1>3. ASSUME NEW e \in Orders, TakeOrder(e) PROVE RescueInv'
  BY <1>0, <1>3 DEF TakeOrder, orderBus, OrdersAnswered, OrderAtHand, AnsweredAfterRun, RescueInv, RescueSound
<1>4. ASSUME Ran, UNCHANGED orderBus, UNCHANGED xcur
      PROVE  /\ OrdersAnswered' /\ AnsweredAfterRun' /\ runs'[xcur] > 0
             /\ runs'[xcur] = 1 => first'[xcur] = endpoint
  <2>1. /\ runs'[xcur] > 0 /\ (runs'[xcur] = 1 => runs[xcur] = 0)
        /\ \A e \in Orders \ {xcur} : runs'[e] = runs[e]
        /\ \A e \in Orders \ {xcur} : first'[e] = first[e]
        /\ runs[xcur] = 0 => first'[xcur] = endpoint
        /\ \A e \in Orders : runs[e] \in Nat
    BY <1>0, <1>4 DEF Ran, RescueTypeOK, Another, Many
  <2>2. AnsweredAfterRun'
    BY <1>0, <1>4, <2>1 DEF AnsweredAfterRun, orderBus
  <2>3. OrdersAnswered'
    BY <1>0, <1>4, <2>1 DEF OrdersAnswered, AnsweredAfterRun, orderBus
  <2> QED
    BY <1>0, <2>1, <2>2, <2>3 DEF RescueTypeOK
<1>5. CASE Run
  BY <1>0, <1>4, <1>5 DEF Run, OrderAtHand, RescueInv, RescueSound
<1>6. CASE RunFails
  BY <1>0, <1>4, <1>6 DEF RunFails, OrderAtHand, RescueInv, RescueSound
<1>7. ASSUME emitted' = [emitted EXCEPT ![xcur] = Another(@)],
             UNCHANGED <<handled, responses, runs, first>>
      PROVE  OrdersAnswered' /\ AnsweredAfterRun' /\ emitted'[xcur] > 0
  <2>1. /\ \A e \in Orders : emitted'[e] \in Nat /\ emitted[e] \in Nat /\ emitted'[e] >= emitted[e]
        /\ emitted'[xcur] > 0
    BY <1>0, <1>7 DEF RescueTypeOK, Another, Many
  <2> QED
    BY <1>0, <1>7, <2>1 DEF RescueTypeOK, OrdersAnswered, AnsweredAfterRun
<1>8. CASE Emit
  BY <1>0, <1>7, <1>8 DEF Emit, OrderAtHand, RescueInv, RescueSound
<1>9. ASSUME xpc = "reply", responses' = Answered, UNCHANGED <<handled, emitted, runs, first>>
      PROVE  OrdersAnswered' /\ AnsweredAfterRun' /\ responses'[xcur] # NoReply
  <2>1. /\ responses'[xcur] = (IF responses[xcur] = NoReply THEN rollback ELSE responses[xcur])
        /\ \A e \in Orders \ {xcur} : responses'[e] = responses[e]
        /\ rollback # NoReply /\ xcur \in Orders
    BY <1>0, <1>9, EndpointFacts DEF Answered, RescueTypeOK
  <2> QED
    BY <1>0, <1>9, <2>1 DEF OrdersAnswered, AnsweredAfterRun, OrderAtHand
<1>10. CASE Reply
  BY <1>0, <1>9, <1>10 DEF Reply, OrderAtHand, RescueInv, RescueSound
<1>11. ASSUME xpc = "ack", handled' = handled \cup {xcur}, UNCHANGED <<responses, emitted, runs, first>>
       PROVE  OrdersAnswered' /\ AnsweredAfterRun'
  BY <1>0, <1>11 DEF OrdersAnswered, AnsweredAfterRun, OrderAtHand
<1>12. CASE AckOrder
  BY <1>0, <1>11, <1>12 DEF AckOrder, OrderAtHand, RescueInv, RescueSound
<1>13. CASE CallFails
  <2>1. OrdersAnswered' /\ AnsweredAfterRun'
    <3>1. CASE UNCHANGED orderBus
      BY <1>0, <1>13, <3>1 DEF CallFails, orderBus, OrdersAnswered, AnsweredAfterRun
    <3> QED
      BY <1>7, <1>9, <1>11, <1>13, <3>1 DEF CallFails
  <2> QED
    BY <1>0, <1>13, <2>1 DEF CallFails, OrderAtHand, RescueInv, RescueSound
<1>15. CASE AlwaysFails
  <2>1. CASE xpc = "run"
    BY <1>0, <1>4, <1>15, <2>1 DEF AlwaysFails, OrderAtHand, RescueInv, RescueSound
  <2>2. CASE xpc # "run"
    BY <1>0, <1>15, <2>2 DEF AlwaysFails, orderBus, OrdersAnswered, OrderAtHand, AnsweredAfterRun,
                             RescueInv, RescueSound
  <2> QED
    BY <2>1, <2>2
<1>14. CASE UNCHANGED rescueVars
  BY <1>0, <1>14 DEF rescueVars, OrdersAnswered, OrderAtHand, AnsweredAfterRun, RescueInv, RescueSound
<1> QED
  BY <1>1, <1>2, <1>3, <1>5, <1>6, <1>8, <1>10, <1>12, <1>13, <1>14, <1>15 DEF RescueNext, ExecutorStep

\* An order that left the list has been run and answered, a takeover has left a task, no
\* other event is taken, and the reply to an order that was run once names the endpoint
\* from before it, whatever failed or died in between, once or every time, and however
\* many orders there are
\* (tools/rescue_executor.py, drain and handle).
THEOREM RescueCorrect == RescueSpec => []RescueSound
<1>1. RescueInit => RescueInv
  BY RescueAssumption, EndpointFacts
  DEF RescueInit, RescueInv, RescueSound, RescueTypeOK, OrdersAnswered, OrderAtHand, AnsweredAfterRun,
      Many
<1>2. RescueInv => RescueSound
  BY DEF RescueInv
<1> QED
  BY <1>1, <1>2, RescueStep, PTL DEF RescueSpec

===============================================================================
