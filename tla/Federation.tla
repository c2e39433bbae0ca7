------------------------------ MODULE Federation ------------------------------
(***************************************************************************)
(* Federation between ATalk families (atalk/federation/store.py and        *)
(* runtime.py, the /federation endpoints of atalk/server.py): families     *)
(* send events to one receiving family, whose agents' acknowledgements     *)
(* travel back as signed receipts.                                         *)
(*                                                                         *)
(* Each family has one worker, which posts a due row, waits for the answer *)
(* and records the outcome in a later transaction.  A request or an answer *)
(* may be lost, and a request the worker gave up on may still be handled   *)
(* later.  Any server may crash between two transactions; it reloads its   *)
(* identity and its registry of peers, which an operator may have changed. *)
(* Time is abstract: a pending row may become due at any moment.           *)
(***************************************************************************)
EXTENDS Naturals, FiniteSets

CONSTANTS
    Origins,         \* sending families
    Agents,          \* agent ids at the receiving family
    EventIds,        \* event ids that callers and local peers choose from
    Texts,           \* message texts
    Times,           \* readings of the clock
    Keys,            \* signing keys
    NoKey,           \* the registry has no record of the family
    Intents,         \* what local callers ask the origins to send
    OriginConfigs,   \* identity and peers files an origin may load
    ReceiverConfigs, \* identity and peers files the receiver may load
    OutboxCap,       \* ATALK_FED_OUTBOX_CAP
    AckTypes         \* bound: the ack types agents give, of "received" and "applied"

\* What a caller of POST /events asks for.
Intent == [event_id : EventIds, agent : Agents, text : Texts]

\* A signed event envelope; the signature is determined by the fields and key.
Envelope == [origin : Origins, event_id : EventIds, agent : Agents,
             text : Texts, created_at : Times, key : Keys]

\* A row of federation_receipt_out: its declaration fields.
ReceiptIntent == [env : Envelope, ack_type : AckTypes, at : Times]

\* A signed receipt.
Receipt == [env : Envelope, ack_type : AckTypes, at : Times, key : Keys]

ASSUME FederationAssumption ==
    /\ NoKey \notin Keys
    /\ Intents \subseteq Intent
    /\ OriginConfigs \subseteq [key : Keys, peer : Keys \cup {NoKey}]
    /\ OriginConfigs # {}
    /\ ReceiverConfigs \subseteq [key : Keys, peers : [Origins -> Keys \cup {NoKey}]]
    /\ ReceiverConfigs # {}
    /\ OutboxCap \in Nat \ {0}
    /\ AckTypes \subseteq {"received", "applied"}

VARIABLES
    origin_conf,      \* what each origin has loaded
    receiver_conf,    \* what the receiver has loaded
    accepted,         \* history: requests answered 201, as <<origin, intent>>
    outbound,         \* federation_outbound rows of all origins: their originals
    outbound_sent,    \* the rows with status sent
    outbound_failed,  \* the rows with status failed_permanent
    posted,           \* events on the network whose worker waits for the answer
    late,             \* events on the network whose worker gave up
    handling,         \* calls of POST /federation/inbox in progress
    answers,          \* answers that reached a worker, not yet recorded
    members,          \* the receiver's accepted peers
    local_events,     \* event ids of the receiver's own events
    inbound,          \* federation_inbound rows with their events rows
    delivered,        \* the rows with delivery_state delivered
    conflicts,        \* federation_inbound_conflicts, as <<envelope, reason>>
    acks,             \* the receiver's acks of federation events, as <<envelope, type>>
    receipt_out,      \* federation_receipt_out rows
    signed,           \* signed originals persisted in those rows
    receipt_sent,     \* the rows with status sent
    receipt_failed,   \* the rows with status failed_permanent
    receipts_posted,  \* receipts on the network whose worker waits
    receipts_late,    \* receipts on the network whose worker gave up
    receipt_answers,  \* answers to receipts, not yet recorded
    originals,        \* federation_receipt_in_originals of all origins
    notifications     \* federation_notifications, as <<kind, envelope, type>>

config == <<origin_conf, receiver_conf>>
outbox == <<accepted, outbound, outbound_sent, outbound_failed>>
wire == <<posted, late, handling, answers>>
inbox == <<members, local_events, inbound, delivered, conflicts>>
receipting == <<acks, receipt_out, signed, receipt_sent, receipt_failed>>
receipt_wire == <<receipts_posted, receipts_late, receipt_answers>>
reports == <<originals, notifications>>
vars == <<origin_conf, receiver_conf, accepted, outbound, outbound_sent, outbound_failed,
          posted, late, handling, answers, members, local_events, inbound, delivered,
          conflicts, acks, receipt_out, signed, receipt_sent, receipt_failed,
          receipts_posted, receipts_late, receipt_answers, originals, notifications>>

-----------------------------------------------------------------------------
(* Sending family: the outbox *)

\* Rows with status pending.
Pending == outbound \ (outbound_sent \cup outbound_failed)

\* compose_event: build and sign an envelope at this time.
ComposeEvent(o, b, now) ==
    [origin |-> o, event_id |-> b.event_id, agent |-> b.agent, text |-> b.text,
     created_at |-> now, key |-> origin_conf[o].key]

\* A repeated event_id belongs to the stored original: it must ask for the same.
SameIntent(env, b) == env.agent = b.agent /\ env.text = b.text

\* Mutant of Enqueue: a repeated event_id is signed and queued again.
EnqueueAgain(o, env) ==
    /\ Cardinality({x \in Pending : x.origin = o}) < OutboxCap
    /\ outbound' = outbound \cup {env}

\* enqueue_outbound inserts a row unless one with this event_id exists.
Enqueue(o, env) ==
    IF \E x \in outbound : x.origin = o /\ x.event_id = env.event_id
      THEN UNCHANGED outbound
      ELSE /\ Cardinality({x \in Pending : x.origin = o}) < OutboxCap
           /\ outbound' = outbound \cup {env}

\* Mutant of FederationSend: a repeated event_id is not compared with the original.
FederationSendUnchecked(o, b, now) ==
    /\ origin_conf[o].peer # NoKey
    /\ Enqueue(o, ComposeEvent(o, b, now))
    /\ accepted' = accepted \cup {<<o, b>>}
    /\ UNCHANGED <<outbound_sent, outbound_failed, config, wire, inbox, receipting,
                   receipt_wire, reports>>

\* federation_send: POST /events with a foreign target.  Answers other than
\* 201 (unregistered family, outbox full, event id used for something else)
\* leave no trace.
FederationSend(o, b, now) ==
    /\ origin_conf[o].peer # NoKey
    /\ Enqueue(o, ComposeEvent(o, b, now))
    /\ \E x \in outbound' :
          x.origin = o /\ x.event_id = b.event_id /\ SameIntent(x, b)
    /\ accepted' = accepted \cup {<<o, b>>}
    /\ UNCHANGED <<outbound_sent, outbound_failed, config, wire, inbox, receipting,
                   receipt_wire, reports>>

\* The origin's worker waits for the answer to a call, or has one to record.
Busy(o) ==
    \/ \E x \in posted : x.origin = o
    \/ \E c \in handling : c.env.origin = o /\ c.caller = "waits"
    \/ \E a \in answers : a.env.origin = o

\* Mutant of SendOutbound: the envelope is composed anew for each attempt.
SendRecomposed(env) ==
    /\ env \in Pending
    /\ ~Busy(env.origin)
    /\ \E now \in Times : posted' = posted \cup {ComposeEvent(env.origin, env, now)}
    /\ UNCHANGED <<late, handling, answers, config, outbox, inbox, receipting,
                   receipt_wire, reports>>

\* _send_outbound: post the stored original of a due row.
SendOutbound(env) ==
    /\ env \in Pending
    /\ ~Busy(env.origin)
    /\ origin_conf[env.origin].peer # NoKey
    /\ posted' = posted \cup {env}
    /\ UNCHANGED <<late, handling, answers, config, outbox, inbox, receipting,
                   receipt_wire, reports>>

\* The origin's calls end: nobody waits for them any more.
Abandon(o) ==
    /\ posted' = {x \in posted : x.origin # o}
    /\ late' = late \cup {x \in posted : x.origin = o}
    /\ handling' = {IF c.env.origin = o
                       THEN [env |-> c.env, step |-> c.step, caller |-> "gone"]
                       ELSE c : c \in handling}
    /\ answers' = {a \in answers : a.env.origin # o}

\* mark_outbound_retry: a timeout, a lost answer or a transient one (429, 5xx);
\* the row stays pending.
RetryOutbound(o) ==
    /\ Busy(o)
    /\ Abandon(o)
    /\ UNCHANGED <<config, outbox, inbox, receipting, receipt_wire, reports>>

\* Mutant of ApplyOutcome: a permanent failure is recorded without notification.
ApplySilently(a) ==
    /\ a \in answers
    /\ answers' = answers \ {a}
    /\ IF a.result = "sent"
         THEN outbound_sent' = outbound_sent \cup {a.env} /\ UNCHANGED outbound_failed
         ELSE outbound_failed' = outbound_failed \cup {a.env} /\ UNCHANGED outbound_sent
    /\ UNCHANGED <<posted, late, handling, accepted, outbound, config, inbox, receipting,
                   receipt_wire, reports>>

\* Mutant of ApplyOutcome: a permanent failure is retried like any other.
ApplySentOnly(a) ==
    /\ a \in answers
    /\ answers' = answers \ {a}
    /\ outbound_sent' = IF a.result = "sent" THEN outbound_sent \cup {a.env} ELSE outbound_sent
    /\ UNCHANGED <<posted, late, handling, accepted, outbound, outbound_failed, config, inbox,
                   receipting, receipt_wire, reports>>

\* _apply_outcome: mark_outbound_sent, or fail_outbound_permanent with its
\* notification in the same transaction; only a pending row changes.
ApplyOutcome(a) ==
    /\ a \in answers
    /\ answers' = answers \ {a}
    /\ IF a.env \notin Pending
         THEN UNCHANGED <<outbound_sent, outbound_failed, notifications>>
         ELSE IF a.result = "sent"
           THEN /\ outbound_sent' = outbound_sent \cup {a.env}
                /\ UNCHANGED <<outbound_failed, notifications>>
           ELSE /\ outbound_failed' = outbound_failed \cup {a.env}
                /\ notifications' = notifications \cup {<<"send_failed", a.env, "none">>}
                /\ UNCHANGED outbound_sent
    /\ UNCHANGED <<posted, late, handling, accepted, outbound, config, inbox, receipting,
                   receipt_wire, originals>>

-----------------------------------------------------------------------------
(* Receiving family: the inbox *)

\* The call ends; its answer reaches the worker if that still waits.
AnswerCall(c, result) ==
    answers' = IF c.caller = "waits"
                 THEN answers \cup {[env |-> c.env, result |-> result]}
                 ELSE answers

\* A call reaches federation_inbox: the signing key must be registered and the
\* target must be a member; otherwise 403 or 422, both permanent.
Arrive(c) ==
    /\ IF receiver_conf.peers[c.env.origin] # c.env.key \/ c.env.agent \notin members
         THEN AnswerCall(c, "permanent") /\ UNCHANGED handling
         ELSE handling' = handling \cup {c} /\ UNCHANGED answers
    /\ UNCHANGED <<config, outbox, inbox, receipting, receipt_wire, reports>>

InboxArrive(env) ==
    /\ env \in posted
    /\ posted' = posted \ {env}
    /\ Arrive([env |-> env, step |-> "commit", caller |-> "waits"])
    /\ UNCHANGED late

InboxArriveLate(env) ==
    /\ env \in late
    /\ late' = late \ {env}
    /\ Arrive([env |-> env, step |-> "commit", caller |-> "gone"])
    /\ UNCHANGED posted

\* event_ids of the receiver's events table.
EventRows == local_events \cup {x.event_id : x \in inbound}

\* Mutant of Refused: only the origin's own rows are looked at.
RefusedByOrigin(env) ==
    \E x \in inbound : x.origin = env.origin /\ x.event_id = env.event_id

\* UNIQUE(origin, event_id) of federation_inbound or UNIQUE event_id of events
\* refuses the rows.
Refused(env) ==
    \/ \E x \in inbound : x.origin = env.origin /\ x.event_id = env.event_id
    \/ env.event_id \in EventRows

\* The bytes compared for a duplicate: the event, not its signature.
EventJcs(env) == <<env.event_id, env.agent, env.text, env.created_at>>

\* Mutant of Duplicate: any row with the event id counts.
DuplicateById(env) == env.event_id \in EventRows

\* A refused envelope is a duplicate when the stored row of this origin has the
\* same bytes.
Duplicate(env) ==
    \E x \in inbound : x.origin = env.origin /\ EventJcs(x) = EventJcs(env)

ConflictReason(env) ==
    IF \E x \in inbound : x.origin = env.origin /\ x.event_id = env.event_id
      THEN "same_id_different_content" ELSE "local_event_id_collision"

\* The row of this event is marked delivered.
Delivered(env) ==
    \E x \in delivered : x.origin = env.origin /\ x.event_id = env.event_id

\* receive_event: the inbound row and the events row in one transaction, or a duplicate,
\* or a conflict (409).  The conflict's audit row has a transaction of its own; rows are
\* never removed, so that nothing in between changes the finding.
ReceiveEvent(c) ==
    /\ c \in handling /\ c.step = "commit"
    /\ IF Refused(c.env) /\ ~Duplicate(c.env)
         THEN /\ conflicts' = conflicts \cup {<<c.env, ConflictReason(c.env)>>}
              /\ handling' = handling \ {c}
              /\ AnswerCall(c, "permanent")
              /\ UNCHANGED inbound
         ELSE /\ inbound' = IF Refused(c.env) THEN inbound ELSE inbound \cup {c.env}
              /\ handling' = (handling \ {c}) \cup
                    {[env |-> c.env, caller |-> c.caller,
                      step |-> IF Delivered(c.env) THEN "answer" ELSE "deliver"]}
              /\ UNCHANGED <<conflicts, answers>>
    /\ UNCHANGED <<posted, late, members, local_events, delivered, config, outbox,
                   receipting, receipt_wire, reports>>

\* When its row was pending the handler runs deliver_pending, which wakes the recipients
\* of all pending rows, or of those DeliverPending has reached when others fail; then 200
\* stored or duplicate, whether they failed or not.
DeliverAndAnswer(c) ==
    /\ c \in handling /\ c.step # "commit"
    /\ delivered' \in {delivered, IF c.step = "deliver" THEN inbound ELSE delivered}
    /\ handling' = handling \ {c}
    /\ AnswerCall(c, "sent")
    /\ UNCHANGED <<posted, late, members, local_events, inbound, conflicts, config, outbox,
                   receipting, receipt_wire, reports>>

\* Mutant of DeliverPending: the worker never looks for rows left pending.
DeliverNothing(env) == FALSE

\* deliver_pending delivers one row: the worker's own, which finds rows a crash
\* left pending, or a handler's that dies before it answers.
DeliverPending(env) ==
    /\ env \in inbound \ delivered
    /\ delivered' = delivered \cup {env}
    /\ UNCHANGED <<members, local_events, inbound, conflicts, config, outbox, wire,
                   receipting, receipt_wire, reports>>

\* A local peer of the receiver posts an event of its own.
LocalPost(e) ==
    /\ e \notin EventRows
    /\ local_events' = local_events \cup {e}
    /\ UNCHANGED <<members, inbound, delivered, conflicts, config, outbox, wire,
                   receipting, receipt_wire, reports>>

\* add_peer registers a peer, or takes back its revocation.
AddMember(p) ==
    /\ p \notin members
    /\ members' = members \cup {p}
    /\ UNCHANGED <<local_events, inbound, delivered, conflicts, config, outbox, wire,
                   receipting, receipt_wire, reports>>

\* A peer's revoked_at is set, which is_local_member reads; no command sets it, so
\* the operator does it in the database.
RevokeMember(p) ==
    /\ p \in members
    /\ members' = members \ {p}
    /\ UNCHANGED <<local_events, inbound, delivered, conflicts, config, outbox, wire,
                   receipting, receipt_wire, reports>>

-----------------------------------------------------------------------------
(* Receiving family: acknowledgements and receipts *)

\* A row exists for this event and ack_type.
HasIntent(env, k) == \E r \in receipt_out : r.env = env /\ r.ack_type = k

\* Mutant of AckWithReceiptIntent: the receipt is queued, the ack is lost.
ReceiptWithoutAck(env, k, now) ==
    /\ env \in inbound
    /\ receipt_out' = IF HasIntent(env, k) THEN receipt_out
                      ELSE receipt_out \cup {[env |-> env, ack_type |-> k, at |-> now]}
    /\ UNCHANGED <<acks, signed, receipt_sent, receipt_failed, config, outbox, wire, inbox,
                   receipt_wire, reports>>

\* Mutant of AckWithReceiptIntent: the ack is recorded, no receipt is queued.
AckWithoutReceipt(env, k, now) ==
    /\ env \in inbound
    /\ acks' = acks \cup {<<env, k>>}
    /\ UNCHANGED <<receipt_out, signed, receipt_sent, receipt_failed, config, outbox, wire,
                   inbox, receipt_wire, reports>>

\* POST /ack by the recipient, whose token is valid (membership is not asked
\* again): ack_with_receipt_intent records the ack and, the first time, the
\* receipt to send, in one transaction.
AckWithReceiptIntent(env, k, now) ==
    /\ env \in inbound
    /\ acks' = acks \cup {<<env, k>>}
    /\ receipt_out' = IF HasIntent(env, k) THEN receipt_out
                      ELSE receipt_out \cup {[env |-> env, ack_type |-> k, at |-> now]}
    /\ UNCHANGED <<signed, receipt_sent, receipt_failed, config, outbox, wire, inbox,
                   receipt_wire, reports>>

PendingReceipts == receipt_out \ (receipt_sent \cup receipt_failed)

IntentOf(r) == [env |-> r.env, ack_type |-> r.ack_type, at |-> r.at]

ReceiverBusy == receipts_posted # {} \/ receipt_answers # {}

\* compose_receipt signs with the key the receiver has loaded.
ComposeReceipt(i) ==
    [env |-> i.env, ack_type |-> i.ack_type, at |-> i.at, key |-> receiver_conf.key]

\* Mutant of Materialize: every attempt signs anew with the key then loaded.
MaterializeAgain(i) ==
    /\ i \in PendingReceipts
    /\ ~ReceiverBusy
    /\ signed' = signed \cup {ComposeReceipt(i)}
    /\ UNCHANGED <<acks, receipt_out, receipt_sent, receipt_failed, config, outbox, wire,
                   inbox, receipt_wire, reports>>

\* materialize_receipt: the first signed original is kept for all retries.
Materialize(i) ==
    /\ i \in PendingReceipts
    /\ ~ReceiverBusy
    /\ \A r \in signed : IntentOf(r) # i
    /\ signed' = signed \cup {ComposeReceipt(i)}
    /\ UNCHANGED <<acks, receipt_out, receipt_sent, receipt_failed, config, outbox, wire,
                   inbox, receipt_wire, reports>>

\* _send_receipt: post the signed original to the event's origin.
SendReceipt(r) ==
    /\ r \in signed
    /\ IntentOf(r) \in PendingReceipts
    /\ ~ReceiverBusy
    /\ receiver_conf.peers[r.env.origin] # NoKey
    /\ receipts_posted' = {r}
    /\ UNCHANGED <<receipts_late, receipt_answers, config, outbox, wire, inbox, receipting,
                   reports>>

AbandonReceipt ==
    /\ receipts_late' = receipts_late \cup receipts_posted
    /\ receipts_posted' = {}
    /\ receipt_answers' = {}

\* mark_receipt_retry: the row stays pending.
RetryReceipt ==
    /\ ReceiverBusy
    /\ AbandonReceipt
    /\ UNCHANGED <<config, outbox, wire, inbox, receipting, reports>>

\* _apply_outcome for receipts; a permanent failure notifies the operator.
ApplyReceiptOutcome(a) ==
    /\ a \in receipt_answers
    /\ receipt_answers' = {}
    /\ LET i == IntentOf(a.receipt) IN
       IF i \notin PendingReceipts
         THEN UNCHANGED <<receipt_sent, receipt_failed, notifications>>
         ELSE IF a.result = "sent"
           THEN /\ receipt_sent' = receipt_sent \cup {i}
                /\ UNCHANGED <<receipt_failed, notifications>>
           ELSE /\ receipt_failed' = receipt_failed \cup {i}
                /\ notifications' = notifications \cup
                      {<<"receipt_send_failed", i.env, i.ack_type>>}
                /\ UNCHANGED receipt_sent
    /\ UNCHANGED <<receipts_posted, receipts_late, acks, receipt_out, signed, config, outbox,
                   wire, inbox, originals>>

-----------------------------------------------------------------------------
(* Sending family: receipts *)

\* federation_receipts' checks: the receipt speaks of an event we sent (its
\* signature hash binds the stored original) and its key is registered.
ReceiptValid(r) ==
    /\ r.env \in outbound
    /\ origin_conf[r.env.origin].peer = r.key

\* record_receipt_in, one transaction: the original, the merged state and, for a
\* new original, the notification under its stable intent id.
RecordReceipt(r) ==
    IF ReceiptValid(r)
      THEN /\ originals' = originals \cup {r}
           /\ notifications' = notifications \cup {<<"receipt", r.env, r.ack_type>>}
      ELSE UNCHANGED reports

ReceiptArrive(r) ==
    /\ r \in receipts_posted
    /\ receipts_posted' = {}
    /\ RecordReceipt(r)
    /\ receipt_answers' =
          {[receipt |-> r, result |-> IF ReceiptValid(r) THEN "sent" ELSE "permanent"]}
    /\ UNCHANGED <<receipts_late, config, outbox, wire, inbox, receipting>>

ReceiptArriveLate(r) ==
    /\ r \in receipts_late
    /\ receipts_late' = receipts_late \ {r}
    /\ RecordReceipt(r)
    /\ UNCHANGED <<receipts_posted, receipt_answers, config, outbox, wire, inbox, receipting>>

-----------------------------------------------------------------------------
(* Crashes *)

\* An origin's server dies and comes back with the files it then finds.
RestartOrigin(o, conf) ==
    /\ origin_conf' = [origin_conf EXCEPT ![o] = conf]
    /\ Abandon(o)
    /\ UNCHANGED <<receiver_conf, outbox, inbox, receipting, receipt_wire, reports>>

\* The receiver's server dies: calls in progress end without an answer.
RestartReceiver(conf) ==
    /\ receiver_conf' = conf
    /\ handling' = {}
    /\ AbandonReceipt
    /\ UNCHANGED <<origin_conf, posted, late, answers, outbox, inbox, receipting, reports>>

Init ==
    /\ origin_conf \in [Origins -> OriginConfigs]
    /\ receiver_conf \in ReceiverConfigs
    /\ accepted = {} /\ outbound = {} /\ outbound_sent = {} /\ outbound_failed = {}
    /\ posted = {} /\ late = {} /\ handling = {} /\ answers = {}
    /\ members \in SUBSET Agents
    /\ local_events = {} /\ inbound = {} /\ delivered = {} /\ conflicts = {}
    /\ acks = {} /\ receipt_out = {} /\ signed = {} /\ receipt_sent = {} /\ receipt_failed = {}
    /\ receipts_posted = {} /\ receipts_late = {} /\ receipt_answers = {}
    /\ originals = {} /\ notifications = {}

SendSide ==
    \/ \E o \in Origins :
          \/ \E b \in Intents, now \in Times : FederationSend(o, b, now)
          \/ RetryOutbound(o)
          \/ \E conf \in OriginConfigs : RestartOrigin(o, conf)
    \/ \E env \in outbound : SendOutbound(env)
    \/ \E a \in answers : ApplyOutcome(a)
    \/ \E r \in receipts_posted : ReceiptArrive(r)
    \/ \E r \in receipts_late : ReceiptArriveLate(r)

ReceiveSide ==
    \/ \E env \in posted : InboxArrive(env)
    \/ \E env \in late : InboxArriveLate(env)
    \/ \E c \in handling : ReceiveEvent(c) \/ DeliverAndAnswer(c)
    \/ \E env \in inbound : DeliverPending(env)
    \/ \E e \in EventIds : LocalPost(e)
    \/ \E p \in Agents : AddMember(p) \/ RevokeMember(p)
    \/ \E env \in inbound, k \in AckTypes, now \in Times : AckWithReceiptIntent(env, k, now)
    \/ \E i \in receipt_out : Materialize(i)
    \/ \E r \in signed : SendReceipt(r)
    \/ RetryReceipt
    \/ \E a \in receipt_answers : ApplyReceiptOutcome(a)
    \/ \E conf \in ReceiverConfigs : RestartReceiver(conf)

Next == SendSide \/ ReceiveSide

Spec == Init /\ [][Next]_vars

\* A call whose worker waits for the answer.
Awaited(env, step) == [env |-> env, step |-> step, caller |-> "waits"]

(***************************************************************************)
(* The workers loop for ever and visit every due row (process_due), so     *)
(* each pending row is tried again and again.  Attempts may fail any       *)
(* number of times, but a call that is made again and again is answered    *)
(* at some point: strong fairness of the steps of a successful call.       *)
(***************************************************************************)
Fairness ==
    /\ \A env \in Envelope :
          /\ WF_vars(DeliverPending(env))
          /\ SF_vars(SendOutbound(env))
          /\ SF_vars(InboxArrive(env))
          /\ SF_vars(ReceiveEvent(Awaited(env, "commit")))
          /\ SF_vars(\E s \in {"deliver", "answer"} : DeliverAndAnswer(Awaited(env, s)))
          /\ SF_vars(\E a \in answers : a.env = env /\ ApplyOutcome(a))
    /\ \A i \in ReceiptIntent : SF_vars(Materialize(i))
    /\ \A r \in Receipt :
          /\ SF_vars(SendReceipt(r))
          /\ SF_vars(ReceiptArrive(r))
          /\ SF_vars(\E a \in receipt_answers : a.receipt = r /\ ApplyReceiptOutcome(a))

FairSpec == Spec /\ Fairness

-----------------------------------------------------------------------------
(* Properties *)

NotificationKinds == {"send_failed", "receipt_send_failed", "receipt"}

OutboxOK ==
    /\ origin_conf \in [Origins -> OriginConfigs]
    /\ accepted \subseteq Origins \X Intents
    /\ outbound \subseteq Envelope
    /\ outbound_sent \subseteq outbound
    /\ outbound_failed \subseteq outbound

WireOK ==
    /\ posted \subseteq outbound
    /\ late \subseteq outbound
    /\ handling \subseteq [env : outbound, step : {"commit", "deliver", "answer"},
                           caller : {"waits", "gone"}]
    /\ answers \subseteq [env : outbound, result : {"sent", "permanent"}]

InboxOK ==
    /\ receiver_conf \in ReceiverConfigs
    /\ members \subseteq Agents
    /\ local_events \subseteq EventIds
    /\ inbound \subseteq outbound
    /\ delivered \subseteq inbound
    /\ conflicts \subseteq
          outbound \X {"same_id_different_content", "local_event_id_collision"}

ReceiptsOK ==
    /\ acks \subseteq inbound \X AckTypes
    /\ receipt_out \subseteq [env : inbound, ack_type : AckTypes, at : Times]
    /\ signed \subseteq Receipt
    /\ receipt_sent \subseteq receipt_out
    /\ receipt_failed \subseteq receipt_out

ReportsOK ==
    /\ receipts_posted \subseteq signed
    /\ receipts_late \subseteq signed
    /\ receipt_answers \subseteq [receipt : signed, result : {"sent", "permanent"}]
    /\ originals \subseteq signed
    /\ notifications \subseteq NotificationKinds \X outbound \X (AckTypes \cup {"none"})

\* Every variable has its type: in particular every envelope on the network, in a
\* call or stored is an original of its origin's outbox, and every receipt
\* anywhere is one the receiver persisted.
TypeOK == OutboxOK /\ WireOK /\ InboxOK /\ ReceiptsOK /\ ReportsOK

\* The receiver stores at most one event per event id, whichever family or local
\* peer it comes from and however often it is sent (receive_event's constraints).
StoredOnce ==
    /\ \A x, y \in inbound : x.event_id = y.event_id => x = y
    /\ \A x \in inbound : x.event_id \notin local_events

\* An outbox row is marked sent only when the receiver has its exact original,
\* whatever was lost, retried or handled late in between.
SentMeansStored == outbound_sent \subseteq inbound

\* What a caller was told is accepted (201) is what the receiver stores: a
\* repeated request never changes or re-signs the message on its way.
StoredAsAccepted ==
    \A x \in inbound, p \in accepted :
        p[1] = x.origin /\ p[2].event_id = x.event_id => SameIntent(x, p[2])

\* A family never conflicts with itself: a 409 for different content under the
\* same (origin, event_id) needs two originals, and retries resend the first one.
NoSelfConflict ==
    \A x \in conflicts : x[2] # "same_id_different_content"

\* Whatever is lost, retried, repeated or handled late, an event is stored once, as
\* it was accepted, and in conflict only with another sender's; and a row marked sent
\* is stored.
MessagesSound == StoredOnce /\ StoredAsAccepted /\ NoSelfConflict /\ SentMeansStored

\* A receipt an origin has recorded was given by the recipient, for the very
\* envelope this origin signed and the receiver stored.
ReceiptMeansAcked ==
    \A r \in originals :
        /\ r.env \in inbound
        /\ <<r.env, r.ack_type>> \in acks

\* An origin never sees two different signed receipts for one acknowledgement,
\* though the recipient may acknowledge again and the receiver may restart with
\* another key before the receipt is sent again.
OneOriginal ==
    \A r, s \in originals : r.env = s.env /\ r.ack_type = s.ack_type => r = s

\* Receipts at an origin are truthful and there is one per acknowledgement.
ReceiptsSound == ReceiptMeansAcked /\ OneOriginal

\* "Notify, never silently drop": a permanent failure, of an event or of a
\* receipt, is always accompanied by its notification, and a row never ends both
\* ways.
FailuresNotified ==
    /\ outbound_sent \cap outbound_failed = {}
    /\ receipt_sent \cap receipt_failed = {}
    /\ \A x \in outbound : x \in outbound_failed <=> <<"send_failed", x, "none">> \in notifications
    /\ \A i \in receipt_failed : <<"receipt_send_failed", i.env, i.ack_type>> \in notifications

\* Every event that enters the outbox ends, sent or failed.
EveryEventEnds ==
    \A env \in Envelope :
        env \in outbound ~> env \in outbound_sent \cup outbound_failed

\* Every stored event is eventually delivered, though the receiver may die
\* between the commit and the delivery.
EveryEventDelivered == \A env \in Envelope : env \in inbound ~> env \in delivered

\* Every acknowledgement of a federation event eventually reaches its origin, or
\* the receiver's operator is told that it cannot.
EveryAckReported ==
    \A env \in Envelope, k \in AckTypes :
        <<env, k>> \in acks ~>
            \/ \E r \in originals : r.env = env /\ r.ack_type = k
            \/ <<"receipt_send_failed", env, k>> \in notifications

\* The families with their outboxes, retries and receipts implement what
\* FederationSpec promises.
Abstract == INSTANCE FederationSpec WITH
    Message <- Envelope, AckKinds <- AckTypes,
    submitted <- outbound, stored <- inbound, acked <- acks,
    reported <- {<<r.env, r.ack_type>> : r \in originals}
ImplementsFederationSpec == Abstract!FSpec
=============================================================================
