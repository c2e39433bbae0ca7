# ATalk in TLA+

A model of ATalk, a message ledger for agents: a server with a SQLite (or
rqlite) event log, adapters that run agents against it, and a federation layer
that exchanges signed events between families of agents. The modules are
translated from the Python source; paths below are relative to the repository.
`PROJECT.json` maps every definition to its lines.

## The system

| Part | Source | State | Operations |
|---|---|---|---|
| Ledger | `atalk/core.py`, `atalk/schema.sql` | events, acks, sequence counters, audit, tokens, grants, target ACLs | `insert_event`, `ack`, `add_grant`, `revoke_grant`, `set_target_acl`, `clear_target_acl`, token commands |
| HTTP server | `atalk/server.py` | one thread per request, wake hub, storage latch | `POST /events`, `POST /ack`, `GET /events`, `GET /stream`, the federation endpoints |
| Adapter | `atalk/adapter.py` | cursor file, OpenClaw task file | `run_once`, `retry_due`, handlers, `wake_events` |
| Federation | `atalk/federation/store.py`, `runtime.py` | outbox, inbox, receipt outbox, receipts, notifications, worker, hint cursor | `federation_send`, `process_due`, `receive_event`, `ack_with_receipt_intent`, `record_receipt_in`, `hint_notifications` |
| MCP client | `clients/mcp/atalk_mcp.py` | none between calls | `atalk_wait` and simple calls |
| rqlite ledger | `atalk/raftsql.py` | as the ledger | batches sent to one of several nodes |
| Storage health | `atalk/server.py`, `storage.py` | the latch `_storage_error` | failed and successful writes, `GET /health` and `/readiness` |
| Message ACL file | `atalk/server.py` (`MessageAcl`) | a cached map and the time of the file | `allows` |
| File inbox | `atalk/adapter.py` (`InboxStore`, `InboxAdapter`), `inbox.py` | directories `pending` and `applied`, cursor file | delivery, `apply`, `reply` |
| Migration | `atalk/migration.py` | the shadow ledger | `import`, `sync` (`snapshot` and `compare` only read) |
| Task board | `tools/tasklib.py` | none: a fold over task events | `fold` |
| Rescue executor | `tools/rescue_executor.py` | endpoint file | `drain` and the commands it runs |
| Others | canonical form and signatures, `cli.py`, `clients/web` | | see *Not modelled* |

How they interact. A peer posts an event; the request thread checks token, file
ACL, backlog and then runs `insert_event`'s transaction, and only after the
commit wakes the target's stream. An adapter or `atalk_wait` listens on the
stream and reads the ledger by cursor; wakes are hints. The adapter
acknowledges `received`, lets a model work, posts the reply and acknowledges
`applied`. An event for another family is signed, queued in the outbox and
posted by the family's single worker until it is answered; the receiving server
stores it in its own ledger, and acknowledgements there come back as receipts
through the same kind of queue, ending as notifications for the original sender.

What is hard here: checks made before the transaction that relies on them
(backlog, retry probe, tokens), statements that commit one by one (target ACLs),
answers lost after a commit, batches executed twice or late, retries under the
same id, files moved without a lasting directory entry, crashes between two
durable steps (task file, acknowledgements, cursor), keys and registrations that
change between signing and arrival, and queues, lanes and cursors shared by
threads without a lock held throughout. `PROJECT.json` lists each such place
under `hazards`.

## Modules

| Module | Models | Composes / implements |
|---|---|---|
| `LedgerSpec` | what the ledger promises: events and acks appear atomically, once, and stay | |
| `Ledger` | `POST /events` and `POST /ack` as threads, `insert_event`, operator commands | refines `LedgerSpec` |
| `Adapter` | one adapter process in OpenClaw or chat mode | uses the ledger through its promises |
| `FederationSpec` | what federation promises: an event is accepted, stored once as accepted, acknowledged, reported | |
| `Federation` | origins, network, receiver, receipts | refines `FederationSpec` |
| `Wake` | wake hub, stream handlers and the two kinds of listeners | |
| `Notifications` | push scan, pull and acknowledgement of notifications | continues what `Federation` records |
| `RaftLedger` | `RaftSQLStore` over a client that fails over | refines `LedgerSpec` |
| `Tokens` | peers and their tokens: `peer-add`, `peer-rotate`, `device-token` | |
| `StorageHealth` | the storage latch and its probe | |
| `Inbox` | the file inbox, its reader and the server they call | extends `StorageHealth` |
| `MessageAcl` | the cached ACL file | |
| `Migration` | `import` and `sync` into the shadow ledger | |
| `TaskBoard` | the fold of one task | |
| `Rescue` | the rescue executor | |
| `LedgerProofs`, `AdapterProofs`, `FederationProofs`, `RaftLedgerProofs`, `WakeProofs`, `NotificationsProofs` | theorems of the module each is named after | |
| `OperatorsProofs` | theorems of `Tokens`, `Migration`, `MessageAcl` and `TaskBoard` | |
| `ConsumersProofs` | theorems of `Inbox` and `Rescue` | |
| `MC*` | instances for TLC | |

### Ledger

`events`, `acks`, `source_counters` and `accept_audit` are the tables. Each
thread has a request, a place `pc` and locals. `PostEvents` is the arrival with
its token and file-ACL checks, `ProbeRetry` the look-up of the event id,
`BacklogGate` the read of the backlog, `InsertEvent` the whole `BEGIN IMMEDIATE`
transaction (token, target ACL and grant are read again inside it), `Respond`
the answer. These are separate steps because nothing is locked between them.
`SetAclRow/Delete/Insert` and `ClearAcl*` are separate steps because the
connection is in autocommit mode there; the model has one such command at a time
(two that overlap for one peer may leave the targets of both). `Crash` abandons the
threads anywhere. The
message ACL file is the constant `FileDenied`. Tokens are required (the
production setting); without them the checks of tokens are simply absent.

### Adapter

The bus is seen through what `LedgerSpec` promises. Steps of `run_once` follow
the code: `Poll`, `AckReceived`, `Handle`, `ModelAnswers`, `SendReply`,
`Finalize`, `AckApplied`, `Done` (the cursor). Every bus call has a failing
variant, before or after the bus committed. `Crash` may strike between any two
steps; cursor and task file survive, as they are replaced atomically.
`ThreadOf` and `Kind` are the data of an event that the code looks at.

### Federation

Several origins send to one receiver. A signature is a function of the signed fields
and the key, so an envelope is its fields and its key. `SendOutbound`, `Arrive`,
`ReceiveEvent`, `DeliverAndAnswer`, `ApplyOutcome` are the steps of one call
(`DeliverAndAnswer` answers 200 also when waking a recipient failed; `DeliverPending`
then delivers the row); `Abandon` is the worker's time-out, after which the request
may still arrive (`InboxArriveLate`). `RestartOrigin` and `RestartReceiver` reload
identity and registry, which the operator may have changed. Receipts have the
mirror-image steps. Revoking a member happens in the database only: no code sets
`peers.revoked_at`, although `is_local_member` reads it.

### Wake

One agent. A stream is a handler with its queue; `lane` is the agent's entry of
the hub. `FindQueue` and `Put` are two steps because `notify` releases the lock
before `put_nowait`. `HeadersFail` is the flush of the headers that fails after
`subscribe` and outside the `try`: the lane keeps a queue without a handler. The
adapter polls after every line, `atalk_wait` after `ready` and `event` only.

### Notifications

Rows are numbered in the order of the scan. Rows made within one second are
ordered by their intent ids, so `Insert` may put one before existing ones. Each
scanner has the locals of `hint_notifications`; `cursor` is shared.

### RaftLedger

A statement batch is one transaction of the cluster. `RqliteClient` sends it to
one endpoint after the other: `AttemptFails` loses the answer, and the attempt
may have been executed, may never be, or waits in `late` until `ExecuteLate`.
`Execute` is what a batch does whenever it runs, so authorization, the counter
and the audit are decided by the SQL of the batch and not by the reads before
it. A store operation is a chain of reads (`ReadExisting`, `FindGrant`,
`ReadBack`) and batches (`Send`, `Answered`). A batch with a command carries the
`now` it was put together at, and its SQL compares the grace of the token and the
validity of the grant with that, while revocations and the ACL are those of the
moment it is executed; `clock` passes in between. `peer-rotate` is one batch,
whose second execution fails as a whole (`RotationFails`). `ForeignKeys` says
whether the nodes enforce the schema's foreign keys, which is a setting of rqlite
and off by default: the store does not check itself that an acknowledged event
exists. `LedgerSpec` asks for it only when its constant `ChecksAcks` is TRUE, as
for the SQLite ledger, which turns them on.

### Tokens

`peer-add` is three statements (`AddPeerRow`, `AddPeerToken`,
`AddPeerRevokes`), `peer-rotate` likewise (`RotateGrace`, `RotateInsert`,
`RotatePeerRow`); `CliCrash` stops a command after any of them. `Open` is
`_migrate_peer_tokens`, which every process runs first. The clock counts seconds
so that a grace ends. `excused` remembers the peers that an operator cut off, by one of
the ways listed under the observations below.

### StorageHealth and Inbox

A request thread writes, fails and is classified, and marks the latch, in
separate steps; another may succeed in between. The health request reads the
latch, probes and clears. `Inbox` supplies the calls: messages sent, and the
acknowledgements and replies of the adapter and of the reader. `place` and
`durable` are what a directory shows now and what a power failure leaves of it:
an entry is certain only after the fsync of its directory. `temps` are the files
`.<name>.<pid>.tmp`.

### MessageAcl

A check takes the time of the file (`StatFile`) and reads it if it is another
than the cached one (`ReadFile`). The lock admits one check at a time, but not
the operator, who replaces, rewrites or removes the file at any moment, under any
modification time: a later one, an earlier one, the same or one that was there
before. `during` is the set of the contents the file had while the check ran, and
`returned` remembers that a file has come under the time the cache goes by since
it was filled.

### Migration

`batch_size` is 1. `NextTable` and `NextBatch` send rows; `BatchLost` loses an
answer, and the attempt may run later (`RunOrphan`), perhaps under the next
command. A command opens the shadow ledger first, which inserts the default
settings (`Opened`), also when `import` then refuses a ledger that is not empty
(`ImportRefused`). `Verify` counts table by table. `ToolDies` stops the tool.

### TaskBoard and Rescue

A step of `TaskBoard` is the next task event in the order of ids; any peer may
post any event in any state. In `Rescue` `Drain` reads a page of pending events
and `TakeOrder`, `Run`, `Emit`, `Reply`, `AckOrder` follow one order; the first
error ends the drain and the next one begins anew. `RunFails` and `CallFails` are
failures that pass. `fails` says which commands fail every time, and where: `handle`
raises (a `lines` that is no number, a whitelist without `endpoint_state`, a service
command that takes longer than 20 seconds), the task it posts is refused, or its
reply is; `AlwaysFails` then ends every drain there.

## Runs

| Run | Question |
|---|---|
| `ledger` | do keys, counters and answers stay right with two threads, reused ids, own and assigned sequence numbers, crashes; how far can the backlog limit be exceeded; is a retry ever refused; is a command authorized when it commits; does a half-written target ACL ever open a target; is `LedgerSpec` implemented |
| `ledger_refused` (violation) | 429 although the event is committed |
| `raft_ledger` | the same of the rqlite ledger, when batches run twice, late or not at all: what of its authorization is still so when a batch runs late |
| `adapter_openclaw` | nothing is forgotten unanswered; every event is handled |
| `adapter_forgotten`, `adapter_stuck` (violations) | what the comments of `OpenClawTaskStore` say of failed sends and acknowledgements |
| `consumers` | the handlers without a task ledger: nothing lost, nothing applied unanswered, cursor behind `received`, no second final reply; the file inbox under crashes, power failures and a full disk; the storage latch; the rescue executor |
| `federation` | one event id used by two families and a local peer; changes of keys and registrations; receipts and failures; `FederationSpec` |
| `federation_live` | every event ends, every acknowledgement is reported |
| `wake` | missed wakes, stolen lanes; the adapter catches up whatever happens to wakes |
| `notifications` | one cursor moved by two threads, a backlog beyond the budget; pull and acknowledgement by pages |
| `operators` | token commands half-way or next to each other; imports and syncs with lost and late batches; the ACL file exchanged during a check; task events in any order |

Some runs ask about matters that do not meet in the code. Each behaviour then
belongs to one story: every behaviour of a story is explored, mixtures are not.
In `ledger`, `raft_ledger` and `federation` an action constraint, `OneStory` in
the MC module, sees to it (messages, commands, target ACLs; two callers with
messages, one under a changing ACL, one with commands under revocations, one with a
command while time passes and the token is rotated, one whose command lacks its
reference; collisions of ids, changes
of a sender's key, acknowledgements with changes of the receiver's key). In
`consumers` and `operators` modules without shared state stand side by side and
the variable `story`, set at the start, says which of them moves (chat, disk,
queue, faults, rescue; tokens, migration, acl file, tasks).

Bounds and why they are enough. Two request threads are the least that
interleave; the invariants are also proved for any number. Bodies
are chosen so that every branch of `insert_event` is met: a reused id with another
target, a taken and an untaken caller-chosen `seq`, a broadcast, a pair the ACL
file denies, commands in and out of scope. `MaxInboxDepth` is 1, so that the gate
closes after one event. In `raft_ledger` there are two endpoints, so that each
batch may run twice, and one attempt that is still to run (`MaxLate`); two grants
let a duplicated `add_grant` leave its second row. A clock of 3 lets a grant that is
valid until 2, and a token whose grace is 1 second, run out while a batch is on its
way. The nodes do not enforce foreign keys (`ForeignKeys` is FALSE), as by default.

In OpenClaw mode the adapter has two events of one work thread (they share the
task) and pages of one, so that the second event arrives while the first is under
way or waits. In chat mode there are four: work on both sides of a skipped event,
and one without text, which the handler refuses for ever. The inbox has two
messages, two connections (a request that was given up keeps running next to the
new one), two process ids, so that a temporary file may be met again, and one or
two faults: a crash while recovering from the first. The executor has six
orders, the last of them behind as many other events as a page of two holds (the
code's page is 200), and two mishaps, so that a re-run may fail as well. Either all
commands work (when nothing goes wrong), or one of the switch and takeover orders
fails every time, at its run, its task or its reply (`RescueFates`).

Federation needs two origins only for collisions of ids, two clock readings for
recomposed envelopes, two keys for rotation; every story uses the dimensions its
question needs and fixes the others. In `Wake` two streams are an old and a new
connection; one event and one hint fill a queue of one (`QueueSize` is 1, in the
code 1024), so that the second item overflows. In `notifications` six rows (the
operator's, four of an absent agent, one of an agent that comes and goes) exceed
page and budget (2 and 4; the code has 100 and 5000): a scan takes several pages
and may end before the last row, and a short page wraps around. Five of them are
recorded before the server starts (`Backlog`), one while the scans go on.

In `operators` three tokens and two processes allow a rotation of a rotation next
to another command, and a clock of 4 lets a grace of 1 end in between. Two
tables, one of them `settings`, and two snapshots, the second with a changed, a
new and a lost row, are moved by up to three commands (`import`, a retry, `sync`)
over two nodes, with two attempts outstanding. Three modification times let the
file change, and come back under an earlier or the same time, at every step of a
check and between two.

`CHECK_DEADLOCK FALSE` is set where all work may be done: a finite number of
events is posted and the system is then idle.

Fairness. Adapter and worker are loops that a supervisor restarts: their steps are
weakly fair. A call that may fail is strongly fair in its success: it fails any number
of times, but not every time it is tried. The stream's 25-second timer is weakly fair.
In `consumers` the server's threads, the health requests (monitors poll them) and the
adapter's loop are weakly fair, and the adapter's acknowledgement is strongly fair,
since its loop tries it again after every failure; the reader is a person and may stop
anywhere. The executor's loop is weakly fair, and its mishaps, the failures that pass,
are bounded: a crash and the outage of a server end. Commands that fail every time are
not among them; `EveryOrderEnds` excepts them by name (`Blocked`). In `Notifications`
restarts are bounded, since a server that restarts before each scan ends would rightly
never reach the rows behind the budget. That readers keep polling, and do not die
between every pull and its acknowledgement, is assumed by `EveryNotificationAcked`
alone: `EveryHintPushed` must hold without them, since an acknowledgement would hide a
lost push.

## What the runs found

Properties that hold are the rule. Three disagreements between the code and its
words, each with a violating run, are under `findings`: a 429 may answer a
request whose event is committed (`ledger_refused`); in OpenClaw mode the task is
forgotten before its `applied` acknowledgements succeeded (`adapter_forgotten`);
and a thread that completed on a retry may stay in the task file without being
retried (`adapter_stuck`).

Other observations made while modelling, without a run of their own. The inbox
limit is a soft one: it is exceeded by at most the other threads in flight, which
is what `BacklogOvershoot` states. OpenClaw replies take their id from the
outcome and the attempt as well, so a redelivered event may be answered under two
ids; `FinalReplyOnce` is therefore a property of the other handlers only. A 409
also means that somebody else used the event id, not only that other content was
replayed. A hint may be marked as sent that no live handler will forward; pulling
makes up for it (`EveryNotificationAcked`). The comment above `_hint_cursor` says
the scan is confined to the worker, while two request paths run it too;
`EveryHintPushed` shows that this only delays rows.

*Tokens.* Two `peer-add`s of one peer at once can revoke each other's token.
`peer-add` with a token that is already in the table, revoked, in its grace or another
peer's, reports success although the token does not work. `peer-rotate` with such a
token fails after the grace of the old ones is committed, and repeated rotations
prolong the grace of older tokens. A `peer-rotate` that dies after its first statement
leaves the peer with tokens that expire and no new one. `NotLockedOut` excuses the
peers to whom one of these was done, or whose primary token the operator revoked, and
only them.

*rqlite.* A late duplicate of `peer-acl` overrides a newer one. `add_grant` executed
twice leaves a second row in force after the returned id is revoked. A late batch
compares `valid_until` and `grace_until` with the `now` of its composition, so that it
stores a command whose token or grant has expired meanwhile; `RaftAuthorizedAtCommit`
says what is left. A `peer-rotate` whose first attempt was executed without an answer
fails when it is tried again, and its caller never learns that the new token counts. A
caller-chosen `seq` that is taken is reported as "target not allowed". Without
enforced foreign keys an acknowledgement of an unknown event is stored: the refinement
holds of a `LedgerSpec` that does not look at it.

*Message ACL file.* The cache is compared by modification time alone. When the file
is exchanged between the stat and the open, the new contents are kept under the old
time; when the old file is then moved back with that time (`mv`, `cp -p`), the other
file's map is served until the time changes. Two edits within one tick of the file
system's clock have the same effect, and when the second leaves a file that does not
parse, the check does not fail closed although the docstring of `MessageAcl`
promises it ("if the config file exists but cannot be parsed, every non-command send
is denied", `atalk/server.py:46`). `VerdictCurrent` excepts just these checks
(`check.hit /\ returned`).

*Inbox and storage.* A delivery returns at once when an earlier process renamed
the file but died before the fsync of the directory: the message is then
acknowledged although a power failure may still lose the entry
(`ReceivedMeansKept` names this case, `unsynced`). A temporary file left by a
process with the same pid blocks its message (`PidTaken`). The cursor file is
never synced, which costs repeated deliveries only. The latch may be cleared by
a success older than the failure, and by the second of two copies of a stored
message, which writes nothing; a later write sets it again.

*Migration.* The late attempt of `DELETE FROM settings` can empty the settings
after a verified import. A batch that was executed and tried again makes an
import fail although it is complete, and another import is refused; `sync`
repairs it. A late upsert of an older sync can overwrite newer rows, and only
`compare` sees it. A refused import restores missing default settings.

*Task board.* An event before its create, or a create without title or assignee,
spoils the task id for good. `start`, `block`, `complete` and `cancel` may come
from anybody, and a deliverable survives a handoff.

*Rescue.* A `switch_endpoint` run again after a failure takes what the first run
wrote as the old endpoint, so that its answer names a wrong one to roll back to;
`takeover` and `report` are posted again. A process that dies while it writes
leaves an empty endpoint file. As many pending events of other kinds as a page
holds keep rescue commands out of it for ever, and so does a command that raises
every time for all that come after it; a takeover whose reply is refused posts
another task on every drain. `EveryOrderEnds` excepts both cases by name (`Crowded`,
`Blocked`).

## Proofs

Checked by TLAPS, for every value of the constants that satisfies the modules'
ASSUMEs. Every invariant, action property and refinement that a passing run
checks is a theorem; `PROJECT.json` lists them. Sets of peers, bodies, messages
and so on are arbitrary, finite or not. The assumptions are those of a program
that can run at all: bounds are natural numbers (the number of orders and of
messages at least one), the placeholders are not values, bodies and snapshots
have their types. Two are about finiteness: the request threads of a server are
finitely many (`Ledger`, where `BacklogOvershoot` counts them), and a table has
finitely many keys (`Migration`, where `verify_counts` counts rows). Two theorems
have a hypothesis of their own, which is a setting of the deployment: `Mode = "chat"`
for `ChatForgetsNothing` and `ChatRepliesOnce` (false in OpenClaw mode, see
`adapter_forgotten`). The
strengthened invariants were model-checked before they were proved.

*Ledger.* `TypeCorrect` goes by groups of variables, with a lemma for each that
names the actions that write it. `LogCorrect`: the invariant `LogInv` adds to
unique keys, counters and audit that acknowledgements name stored events. A new
assigned number is above the counter, which covers the log, so uniqueness and
coverage need each other. `AnswersCorrect`: `AnswersInv` says of each thread,
by its place, what its locals promise about the log (a recorded retry was
stored, a pending 201 is backed by a row); the log only grows
(`StoredForever`), so no other thread can spoil it. `AuthorizationCorrect` is
an action property from the transaction's own reads. `AclCorrect`: `AclInv`
describes the half-written states of the operator's command. `BacklogCorrect`:
the bound itself is not inductive, since it says nothing of the threads that have
passed the gate and not committed yet. `BacklogInv` counts them: backlog and
admitted threads together never exceed the limit by more than the number of other
threads, and a thread that was let past as a retry has its event stored, so that
it will not add one. `Refinement`: each step is a step of `LedgerSpec` or a
stutter.

*RaftLedger.* `LogCorrect` is about what a batch does at whatever moment it is
executed: numbers come from the counter inside the batch, so a batch that runs
twice, or after others, keeps `LogInv`. `BatchServes` ties a batch that is sent to
the request of its caller; with it `AnswersCorrect` says of a caller at
`ReadBack` that an insert without an event has a reason (`ReasonOK`).
`AuthorizationCorrect` follows from the SQL of the batch, which is the point: the
reads before it prove nothing. The batch it speaks of is one on its way
(`ExecutesOrNot`), and `NowInv` says that none of these was put together in the
future; nothing can be said of times that ran out since then. `Refinement` holds
whether the nodes enforce foreign keys or not, against a `LedgerSpec` that asks for
the event of an acknowledgement in the first case only.

*Adapter.* `TypeCorrect` with `TasksInv` (shape of the task file). `EvidenceCorrect`
combines two lemmas. `AppliedCorrect`: `EvidenceInv` carries, for each place of the
loop, that the events to be acknowledged were received and answered. `CursorCorrect`:
`OrderInv` says that everything up to the current event and not left in the page was
received; it needs that pages are closed under smaller pending ids. `ForgetCorrect`:
`ForgetInv` adds that the event at hand is in its thread until the completion reply is
stored, that what `Finalize` is about to remove has been answered, and that an event
about to be acknowledged is answered or on record, so that the cursor may pass it.
`ChatForgetsNothing` and `ChatRepliesOnce` rest on `ChatInv`: without a task ledger
the cursor moves only after the acknowledgement, and a reply's id depends on the event
alone.

*Federation.* `TypeCorrect` includes that everything on the wire or stored is an
original of its sender's outbox. `MessagesCorrect`: one envelope per outbox row
(`OneEnvelope`), what was accepted is kept (`AcceptedKept`), and a call
past its commit is stored (`CallsStored`) together give `StoredOnce`,
`StoredAsAccepted`, `SentMeansStored` and `NoSelfConflict`. `ReceiptsCorrect`,
`FailuresCorrect` and `Refinement` build on it.

*Wake.* `WakeCorrect`: a client that is behind is `Covered`, by a line on its
stream, by a line in the queue, or by a sender that has committed and has still to
look up the lane. `OneReader` (two clients never read one stream) is what keeps one
client from taking the line that covers another. `LaneCorrect`: `unsubscribe`
takes out the queue it was given and no other.

*Notifications.* `NotificationsTypeCorrect`: besides types, the scan's budget, the
cursor that names a row, and that the operator's rows stay out of every page,
while several threads move one cursor. The lemmas give the least and the greatest
of a set of rows, by the well-foundedness of the naturals. That every row is
pushed is liveness.

*Tokens.* `TokensCorrect`: `NotLockedOut` speaks of peers no command is working on and
that are not excused (see the observations; a `peer-rotate` that stops after its first
statement is among the excuses), so the invariant says what a command under way has
done (`Progress`), that commands side by side have excused their peers
(`PairsExcused`), and that a token that has no row yet is one peer's (`OneOwner`,
`BringsToOne`), since `_migrate_peer_tokens` gives the row to one of the peers that
have the token. `NoRevivalCorrect` and `DevicesCorrect` go action by action from the
types.

*Migration.* `CopyInv` says where the command is, what the batches of this command
that may still run carry, which rows a sync has in place, and that an import's
tables hold no row that is not the snapshot's. From the last, equal counts mean
equal tables (`CountEqual`, by cardinality), which is why `verify_counts` is
enough (`ImportCorrect`).

*MessageAcl.* `AclFileCorrect`: the invariant adds to the property that a cached map
whose time is the file's holds the file's content unless a file came back under that
time (`CacheCurrent`), and that `during` covers what the check may still read
(`DuringCovers`). Nothing is assumed of the times.

*TaskBoard.* `TaskCorrect`: the property is inductive as it stands; it holds for
any set of peers.

*Inbox.* `InboxCorrect`: `deliver` looks into one directory and then into the
other while the reader moves files from the first to the second; `DeliverInv` says
why the looks stay true. `FilesInv` relates what is on the disk to what a power
failure leaves, `OrderInv` that the cursor leaves no earlier message behind, and
`CallsInv` that a request which outlives its caller still says nothing false.

*Rescue.* `RescueCorrect`: the invariant adds what was done for the order at hand
at each step (`OrderAtHand`) and that only an order that was run is answered.

Only model-checked, because liveness under fairness is outside the prover's
reach: `EveryEventHandled`, `LatchFollowsDisk`, `EveryOrderEnds`,
`EveryMessageDelivered`, `EveryEventEnds`, `EveryEventDelivered`,
`EveryAckReported`, `AdapterFindsEvents`, `EveryHintPushed`,
`EveryNotificationAcked`. What the violating runs refute cannot be proved:
`RefusedMeansNotStored`, `CompletedThreadsLeave`, and `NothingForgotten` in
OpenClaw mode. No module uses RECURSIVE operators.

## Abstractions

Time is abstract: a due row may be tried at any moment, a deadline may pass at
any moment. Names, texts and payloads are members of small sets. Ed25519 and
canonical JSON are the identity of (fields, key). Reads that change nothing are
not actions unless a client's control depends on them. HTTP errors are the
outcomes the client tells apart. The federation rate limiters only delay and are
left out. One receiver stands for all.

## Not modelled, and the plan

Left for later:

1. Proofs: refinement corollaries (what a reader of `LedgerSpec` and of
   `FederationSpec` may rely on, proved of the abstract modules and carried over),
   and the safety parts of the liveness properties, such as what an event that was
   received and not yet handled waits for.
2. Registering peers and device tokens on rqlite.
3. `update` of the task board, which changes descriptive fields only.

Left out for good: byte-level canonicalisation and signatures (pure
computation over byte strings), the federation rate limiters (they only delay),
argument parsing, the web user interface, deployment files, and the tmux and
stdout handlers (pure output).
