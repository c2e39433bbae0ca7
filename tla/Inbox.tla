-------------------------------- MODULE Inbox --------------------------------
(***************************************************************************)
(* The file inbox of an agent without a model (atalk/adapter.py,           *)
(* InboxStore and InboxAdapter): the adapter process that writes each      *)
(* message to a file and acknowledges it as received, the person who       *)
(* handles the file with atalk-inbox (atalk/inbox.py), and the server both *)
(* talk to, whose disk may be full (StorageHealth).                        *)
(*                                                                         *)
(* A directory entry survives a power failure for certain only after an    *)
(* fsync of the directory.  Calls fail before or after the server has      *)
(* carried them out; a caller that gave up leaves its request running.     *)
(***************************************************************************)
EXTENDS StorageHealth, FiniteSets

CONSTANTS
    MaxEvents,   \* bound: messages sent to the agent
    Pids,        \* process ids of the adapter
    MaxFaults    \* bound: crashes, power failures, failed calls and file operations

Events == 1..MaxEvents
InboxCalls == [op : {"send", "reply", "received", "applied"}, event : Events,
               by : {"sender", "adapter", "reader", "nobody"}]

ASSUME InboxAssumption ==
    /\ MaxEvents \in Nat \ {0} /\ MaxFaults \in Nat
    /\ Calls = InboxCalls

VARIABLES
    sent,       \* server: messages to the agent, in the order of their ids
    receivedAcks,   \* server: messages with a "received" acknowledgement
    appliedAcks,    \* server: messages with an "applied" acknowledgement
    answers,    \* server: messages with a reply, whose id derives from theirs
    place,      \* the directories, of pending and applied, each message's file is in
    durable,    \* what of that a power failure leaves
    temps,      \* temporary files, by message and pid
    position,   \* the adapter's cursor file
    pid,        \* the adapter's process id
    apc,        \* where the adapter is
    page,       \* messages of its page
    acur,       \* the message it delivers
    rpc,        \* where the reader's command is
    rcur,       \* the message it handles
    faults,     \* faults so far
    unsynced    \* history: messages that deliver found in place before their fsync

server == <<sent, receivedAcks, appliedAcks, answers>>
disks == <<place, durable, temps, position>>
adapter == <<pid, apc, page, acur>>
reader == <<rpc, rcur>>
inboxVars == <<storageVars, server, disks, adapter, reader, faults, unsynced>>

\* One of the bounded faults happens.
Fault == faults < MaxFaults /\ faults' = faults + 1

-----------------------------------------------------------------------------
(* The server *)

Call(op, e, by) == [op |-> op, event |-> e, by |-> by]

\* Somebody sends the next message, or sends one again.
SendMessage(c, e) ==
    /\ e <= Cardinality(sent) + 1
    /\ Arrive(c, Call("send", e, "sender"), "arrived")
    /\ UNCHANGED <<server, disks, adapter, reader, faults, unsynced>>

Known(call) ==
    \/ call.op = "send" /\ call.event \in sent
    \/ call.op = "reply" /\ call.event \in answers

Probe(c) ==
    /\ At(c, "arrived")
    /\ ProbeKnown(c, Known(conn[c].call))
    /\ UNCHANGED <<server, disks, adapter, reader, faults, unsynced>>

\* insert_event and ack.  A repeated acknowledgement is written again.
Commit(c) ==
    /\ At(c, "store")
    /\ LET call == conn[c].call
           with(op, set) == IF call.op = op THEN set \cup {call.event} ELSE set
       IN  /\ StoreCommits(c, ~Known(call))
           /\ sent' = with("send", sent)
           /\ answers' = with("reply", answers)
           /\ receivedAcks' = with("received", receivedAcks)
           /\ appliedAcks' = with("applied", appliedAcks)
    /\ UNCHANGED <<disks, adapter, reader, faults, unsynced>>

CommitFails(c) ==
    /\ At(c, "store")
    /\ ~Known(conn[c].call)
    /\ StoreFails(c)
    /\ UNCHANGED <<server, disks, adapter, reader, faults, unsynced>>

ClassifyFailure(c) ==
    /\ Classify(c)
    /\ UNCHANGED <<server, disks, adapter, reader, faults, unsynced>>

\* The caller's next step once it has the answer.
Returns(c, ok) ==
    /\ apc' = IF conn[c].call.by = "adapter" THEN IF ok THEN "advance" ELSE "poll" ELSE apc
    /\ rpc' = IF conn[c].call.by # "reader" THEN rpc
              ELSE IF ~ok THEN "idle"
              ELSE IF conn[c].call.op = "reply" THEN "ack" ELSE "move"
    /\ UNCHANGED <<server, disks, pid, page, acur, rcur, faults, unsynced>>

AnswerFailure(c) == At(c, "failed") /\ MarkFailure(c) /\ Returns(c, FALSE)
AnswerSuccess(c) == At(c, "stored") /\ MarkSuccess(c) /\ Returns(c, TRUE)

Health ==
    /\ HealthReads \/ HealthProbes \/ HealthClears
    /\ UNCHANGED <<server, disks, adapter, reader, faults, unsynced>>

DiskChanges(d) ==
    /\ DiskTurns(d)
    /\ UNCHANGED <<server, disks, adapter, reader, faults, unsynced>>

\* The requests a process waits for, when it gives up or dies.
Abandon(who) ==
    conn' = [c \in Conns |->
        IF conn[c] # Idle /\ conn[c].call.by \in who
          THEN [conn[c] EXCEPT !.call.by = "nobody"] ELSE conn[c]]

-----------------------------------------------------------------------------
(* The adapter: InboxAdapter.run_once *)

\* GET /events after the cursor, without the applied ones.
PollEvents ==
    /\ apc = "poll"
    /\ page' = {e \in sent : e > position /\ e \notin appliedAcks}
    /\ apc' = "next"
    /\ UNCHANGED <<storageVars, server, disks, pid, acur, reader, faults, unsynced>>

\* Mutant of LookOrder: a file that is moved between the two looks is missed.
LookOrderSwapped == <<"applied", "pending">>

\* The order in which deliver looks for a file.
LookOrder == <<"pending", "applied">>

\* deliver: is the file in pending?
CheckPending(e) ==
    /\ apc = "next"
    /\ e \in page /\ \A f \in page : e <= f
    /\ acur' = e /\ page' = page \ {e}
    /\ apc' = IF LookOrder[1] \in place[e] THEN "ack" ELSE "look"
    /\ unsynced' = IF "pending" \in place[e] /\ durable[e] = {} THEN unsynced \cup {e} ELSE unsynced
    /\ UNCHANGED <<storageVars, server, disks, pid, reader, faults>>

PageDone ==
    /\ apc = "next"
    /\ page = {}
    /\ apc' = "poll"
    /\ UNCHANGED <<storageVars, server, disks, pid, page, acur, reader, faults, unsynced>>

\* ... or in applied?
CheckApplied ==
    /\ apc = "look"
    /\ apc' = IF LookOrder[2] \in place[acur] THEN "ack" ELSE "create"
    /\ UNCHANGED <<storageVars, server, disks, pid, page, acur, reader, faults, unsynced>>

\* The temporary file, with O_EXCL: one that a process of the same pid left makes
\* this raise.
CreateTemp ==
    /\ apc = "create"
    /\ IF <<acur, pid>> \in temps
         THEN apc' = "poll" /\ UNCHANGED temps
         ELSE apc' = "write" /\ temps' = temps \cup {<<acur, pid>>}
    /\ UNCHANGED <<storageVars, server, place, durable, position, pid, page, acur, reader,
                   faults, unsynced>>

\* Written, synced and renamed into pending.
Rename ==
    /\ apc = "write"
    /\ place' = [place EXCEPT ![acur] = @ \cup {"pending"}]
    /\ temps' = temps \ {<<acur, pid>>}
    /\ apc' = "sync"
    /\ UNCHANGED <<storageVars, server, durable, position, pid, page, acur, reader, faults,
                   unsynced>>

\* The write or an fsync raises; the temporary file is removed.
DeliverFails ==
    /\ apc \in {"write", "sync"}
    /\ Fault
    /\ temps' = temps \ {<<acur, pid>>}
    /\ apc' = "poll"
    /\ UNCHANGED <<storageVars, server, place, durable, position, pid, page, acur, reader,
                   unsynced>>

\* Mutant of SyncPending: the directory is not synced.
NoSync ==
    /\ apc = "sync"
    /\ apc' = "ack"
    /\ UNCHANGED <<storageVars, server, disks, pid, page, acur, reader, faults, unsynced>>

\* The directory of pending messages is synced.  A file system journals a rename as a
\* whole and in order, so that what was moved to applied before is durable with it.
SyncPending ==
    /\ apc = "sync"
    /\ durable' = place
    /\ apc' = "ack"
    /\ UNCHANGED <<storageVars, server, place, temps, position, pid, page, acur, reader,
                   faults, unsynced>>

AckReceipt(c) ==
    /\ apc = "ack"
    /\ Arrive(c, Call("received", acur, "adapter"), "store")
    /\ apc' = "wait"
    /\ UNCHANGED <<server, disks, pid, page, acur, reader, faults, unsynced>>

\* Mutant of AckReceiptFails: the failure is swallowed.
AckReceiptSwallowed ==
    /\ apc \in {"ack", "wait"}
    /\ Fault
    /\ Abandon({"adapter"})
    /\ apc' = "advance"
    /\ UNCHANGED <<disk, latch, health, server, disks, pid, page, acur, reader, unsynced>>

\* The call fails on its way, or its answer does not come in time.
AckReceiptFails ==
    /\ apc \in {"ack", "wait"}
    /\ Fault
    /\ Abandon({"adapter"})
    /\ apc' = "poll"
    /\ UNCHANGED <<disk, latch, health, server, disks, pid, page, acur, reader, unsynced>>

AdvancePosition ==
    /\ apc = "advance"
    /\ position' = IF acur > position THEN acur ELSE position
    /\ apc' = "next"
    /\ UNCHANGED <<storageVars, server, place, durable, temps, pid, page, acur, reader,
                   faults, unsynced>>

\* The adapter dies and is restarted by its supervisor.
AdapterDies ==
    /\ Fault
    /\ Abandon({"adapter"})
    /\ pid' \in Pids
    /\ apc' = "poll" /\ page' = {}
    /\ UNCHANGED <<disk, latch, health, server, disks, acur, reader, unsynced>>

-----------------------------------------------------------------------------
(* The reader: atalk-inbox apply and reply *)

\* find, and for reply the send of the reply.
FindFile(e, cmd) ==
    /\ rpc = "idle"
    /\ "pending" \in place[e]
    /\ rcur' = e
    /\ rpc' = IF cmd = "reply" THEN "reply" ELSE "ack"
    /\ UNCHANGED <<storageVars, server, disks, adapter, faults, unsynced>>

ReaderCalls(c) ==
    /\ rpc \in {"reply", "ack"}
    /\ \/ rpc = "reply" /\ Arrive(c, Call("reply", rcur, "reader"), "arrived")
       \/ rpc = "ack" /\ Arrive(c, Call("applied", rcur, "reader"), "store")
    /\ rpc' = "wait"
    /\ UNCHANGED <<server, disks, adapter, rcur, faults, unsynced>>

\* mark_applied: find again and rename into applied.
MoveFile ==
    /\ rpc = "move"
    /\ IF "pending" \in place[rcur]
         THEN /\ place' = [place EXCEPT ![rcur] = (@ \ {"pending"}) \cup {"applied"}]
              /\ rpc' = "sync"
         ELSE rpc' = "idle" /\ UNCHANGED place
    /\ UNCHANGED <<storageVars, server, durable, temps, position, adapter, rcur, faults,
                   unsynced>>

\* Both directories are synced; the first of the two makes the rename durable.
SyncMoved ==
    /\ rpc = "sync"
    /\ durable' = place
    /\ rpc' = "idle"
    /\ UNCHANGED <<storageVars, server, place, temps, position, adapter, rcur, faults, unsynced>>

\* The command fails or is killed.
ReaderDies ==
    /\ rpc # "idle"
    /\ Fault
    /\ Abandon({"reader"})
    /\ rpc' = "idle"
    /\ UNCHANGED <<disk, latch, health, server, disks, adapter, rcur, unsynced>>

\* The agent's machine loses power: entries that were not synced may be gone or
\* back where they were, and so may the cursor file, which nobody syncs.
PowerFails ==
    /\ Fault
    /\ place' \in {p \in [Events -> {place[e] : e \in Events} \cup {durable[e] : e \in Events}] :
                      \A e \in Events : p[e] \in {place[e], durable[e]}}
    /\ durable' = place'
    /\ position' \in 0..position
    /\ temps' \in {temps, {}}
    /\ pid' \in Pids
    /\ Abandon({"adapter", "reader"})
    /\ apc' = "poll" /\ page' = {} /\ rpc' = "idle"
    /\ UNCHANGED <<disk, latch, health, server, acur, rcur, unsynced>>

-----------------------------------------------------------------------------
\* The inbox is empty; the messages of stored are waiting at the server.
InboxStarts(stored) ==
    /\ StorageInit
    /\ sent = stored /\ receivedAcks = {} /\ appliedAcks = {} /\ answers = {}
    /\ place = [e \in Events |-> {}] /\ durable = [e \in Events |-> {}]
    /\ temps = {} /\ position = 0
    /\ pid \in Pids
    /\ apc = "poll" /\ page = {} /\ acur = 1
    /\ rpc = "idle" /\ rcur = 1
    /\ faults = 0 /\ unsynced = {}

InboxInit == InboxStarts({})

ServerStep(c) ==
    Probe(c) \/ Commit(c) \/ CommitFails(c) \/ ClassifyFailure(c) \/ AnswerFailure(c) \/ AnswerSuccess(c)

AdapterStep ==
    \/ PollEvents \/ PageDone \/ CheckApplied \/ CreateTemp \/ Rename \/ SyncPending
    \/ AdvancePosition
    \/ \E e \in Events : CheckPending(e)

ReaderStep ==
    \/ \E c \in Conns : ReaderCalls(c)
    \/ MoveFile \/ SyncMoved

InboxNext ==
    \/ \E c \in Conns : ServerStep(c) \/ AckReceipt(c) \/ \E e \in Events : SendMessage(c, e)
    \/ Health
    \/ \E d \in Disks : DiskChanges(d)
    \/ AdapterStep \/ ReaderStep
    \/ \E e \in Events, cmd \in {"apply", "reply"} : FindFile(e, cmd)
    \/ DeliverFails \/ AckReceiptFails \/ AdapterDies \/ ReaderDies \/ PowerFails

(***************************************************************************)
(* Every thread and process runs; somebody asks for the health now and     *)
(* then; and the adapter's call gets a thread sooner or later, whatever    *)
(* others ask of the server.                                               *)
(***************************************************************************)
InboxFairness ==
    /\ \A c \in Conns : WF_inboxVars(ServerStep(c))
    /\ WF_inboxVars(Health)
    /\ WF_inboxVars(AdapterStep)
    /\ SF_inboxVars(\E c \in Conns : AckReceipt(c))

InboxSpec == InboxInit /\ [][InboxNext]_inboxVars /\ InboxFairness

-----------------------------------------------------------------------------
(* Properties *)

\* Every variable has its type.
InboxTypeOK ==
    /\ StorageTypeOK
    /\ sent \subseteq Events /\ receivedAcks \subseteq Events /\ appliedAcks \subseteq Events
    /\ answers \subseteq Events /\ unsynced \subseteq Events
    /\ place \in [Events -> SUBSET {"pending", "applied"}]
    /\ durable \in [Events -> SUBSET {"pending", "applied"}]
    /\ temps \subseteq Events \X Pids /\ pid \in Pids
    /\ position \in 0..MaxEvents
    /\ apc \in {"poll", "next", "look", "create", "write", "sync", "ack", "wait", "advance"}
    /\ page \subseteq Events /\ acur \in Events /\ rcur \in Events
    /\ rpc \in {"idle", "reply", "ack", "wait", "move", "sync"}
    /\ faults \in 0..MaxFaults

\* The bus is told "received" only when the file is there to stay, and the cursor
\* passes only such messages, until they are handled: "After file and directory fsync succeed, write
\* received" (docs/PROTOCOL.md).  The exception is a file that an earlier process
\* renamed and did not live to sync.
ReceivedMeansKept ==
    \A e \in (receivedAcks \cup 1..position) \ appliedAcks : durable[e] # {} \/ e \in unsynced

\* A message that was handled never comes back: its file is in one place, and in
\* applied only after the acknowledgement.
HandledOnce ==
    \A e \in Events :
        /\ place[e] # {"pending", "applied"}
        /\ "applied" \in place[e] => e \in appliedAcks

\* The promises the inbox's files make, and the types of all its state.
InboxSound == InboxTypeOK /\ ReceivedMeansKept /\ HandledOnce

\* The adapter's pid is one under which an earlier adapter died while it wrote a file.
PidTaken == \E e \in Events : <<e, pid>> \in temps /\ apc \notin {"write"}

\* When the server can write, every message gets to the agent's disk and is
\* acknowledged, whatever died on the way, unless the adapter got the pid of one that
\* died writing.
EveryMessageDelivered ==
    <>[](disk = "ok") =>
        \A e \in Events :
            e \in sent ~> (e \in receivedAcks \cup appliedAcks) \/ PidTaken

\* A disk that stays bad while acknowledgements are waiting is reported for good
\* sooner or later: successes of the time before cannot hide it.
FailureShows ==
    <>[](disk # "ok" /\ ~PidTaken /\ \E e \in sent : e > position /\ e \notin appliedAcks) =>
        <>[](latch # "none")

\* The latch tells the state of the disk, sooner or later, in both directions.
LatchFollowsDisk == LatchClears /\ FailureShows
=============================================================================
