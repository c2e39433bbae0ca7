--------------------------- MODULE FederationProofs ---------------------------
(***************************************************************************)
(* Proofs about Federation, for any set of families, agents, event ids,    *)
(* texts, clock readings, keys and configuration files.                    *)
(***************************************************************************)
EXTENDS Federation, TLAPS

-----------------------------------------------------------------------------
(* Which steps write which tables *)

\* Who writes to the origins' outboxes.
LEMMA OutboxWriters ==
  ASSUME Next
  PROVE  \/ UNCHANGED <<origin_conf, accepted, outbound, outbound_sent, outbound_failed>>
         \/ \E o \in Origins, b \in Intents, now \in Times : FederationSend(o, b, now)
         \/ \E a \in answers : ApplyOutcome(a)
         \/ \E o \in Origins, conf \in OriginConfigs : RestartOrigin(o, conf)
BY DEF Next, SendSide, ReceiveSide, config, outbox, RetryOutbound, SendOutbound,
       ReceiptArrive, ReceiptArriveLate, InboxArrive, InboxArriveLate, Arrive,
       ReceiveEvent, DeliverAndAnswer, DeliverPending, LocalPost, AddMember, RevokeMember,
       AckWithReceiptIntent, Materialize, SendReceipt, RetryReceipt,
       ApplyReceiptOutcome, RestartReceiver

\* Who writes to what is on its way.
LEMMA WireWriters ==
  ASSUME Next
  PROVE  \/ UNCHANGED <<posted, late, handling, answers>>
         \/ \E env \in outbound : SendOutbound(env)
         \/ \E o \in Origins : Abandon(o)
         \/ \E a \in answers : ApplyOutcome(a)
         \/ \E env \in posted : InboxArrive(env)
         \/ \E env \in late : InboxArriveLate(env)
         \/ \E c \in handling : ReceiveEvent(c) \/ DeliverAndAnswer(c)
         \/ handling' = {} /\ UNCHANGED <<posted, late, answers>>
BY DEF Next, SendSide, ReceiveSide, wire, FederationSend, RetryOutbound, RestartOrigin,
       ReceiptArrive, ReceiptArriveLate, DeliverPending, LocalPost, AddMember, RevokeMember,
       AckWithReceiptIntent, Materialize, SendReceipt, RetryReceipt,
       ApplyReceiptOutcome, RestartReceiver

\* Who writes to the receiver's tables.
LEMMA InboxWriters ==
  ASSUME Next
  PROVE  \/ UNCHANGED <<receiver_conf, members, local_events, inbound, delivered, conflicts>>
         \/ \E c \in handling : ReceiveEvent(c) \/ DeliverAndAnswer(c)
         \/ \E env \in inbound : DeliverPending(env)
         \/ \E e \in EventIds : LocalPost(e)
         \/ \E p \in Agents : AddMember(p) \/ RevokeMember(p)
         \/ \E conf \in ReceiverConfigs : RestartReceiver(conf)
BY DEF Next, SendSide, ReceiveSide, config, inbox, FederationSend, RetryOutbound,
       RestartOrigin, SendOutbound, ApplyOutcome, ReceiptArrive, ReceiptArriveLate,
       InboxArrive, InboxArriveLate, Arrive, AckWithReceiptIntent, Materialize,
       SendReceipt, RetryReceipt, ApplyReceiptOutcome

\* Who writes to the receiver's receipts.
LEMMA ReceiptWriters ==
  ASSUME Next
  PROVE  \/ UNCHANGED <<acks, receipt_out, signed, receipt_sent, receipt_failed>>
         \/ \E env \in inbound, k \in AckTypes, now \in Times :
               AckWithReceiptIntent(env, k, now)
         \/ \E i \in receipt_out : Materialize(i)
         \/ \E a \in receipt_answers : ApplyReceiptOutcome(a)
BY DEF Next, SendSide, ReceiveSide, receipting, FederationSend, RetryOutbound,
       RestartOrigin, SendOutbound, ApplyOutcome, ReceiptArrive, ReceiptArriveLate,
       InboxArrive, InboxArriveLate, Arrive, ReceiveEvent, DeliverAndAnswer,
       DeliverPending, LocalPost, AddMember, RevokeMember, SendReceipt, RetryReceipt,
       RestartReceiver

\* Who writes to what the origins hear back.
LEMMA ReportWriters ==
  ASSUME Next
  PROVE  \/ UNCHANGED <<receipts_posted, receipts_late, receipt_answers, originals,
                        notifications>>
         \/ \E a \in answers : ApplyOutcome(a)
         \/ \E r \in signed : SendReceipt(r)
         \/ AbandonReceipt /\ UNCHANGED <<originals, notifications>>
         \/ \E a \in receipt_answers : ApplyReceiptOutcome(a)
         \/ \E r \in receipts_posted : ReceiptArrive(r)
         \/ \E r \in receipts_late : ReceiptArriveLate(r)
BY DEF Next, SendSide, ReceiveSide, receipt_wire, reports, FederationSend, RetryOutbound,
       RestartOrigin, SendOutbound, InboxArrive, InboxArriveLate, Arrive, ReceiveEvent,
       DeliverAndAnswer, DeliverPending, LocalPost, AddMember, RevokeMember, AckWithReceiptIntent,
       Materialize, RetryReceipt, RestartReceiver

-----------------------------------------------------------------------------
(* Types *)

\* The outbox and the inbox only grow, and so do the receipts.
LEMMA Monotone ==
  ASSUME Next
  PROVE  /\ outbound \subseteq outbound'
         /\ inbound \subseteq inbound'
         /\ acks \subseteq acks'
         /\ receipt_out \subseteq receipt_out'
         /\ signed \subseteq signed'
<1>1. outbound \subseteq outbound'
  BY OutboxWriters DEF FederationSend, Enqueue, ApplyOutcome, RestartOrigin, outbox
<1>2. inbound \subseteq inbound'
  BY InboxWriters DEF ReceiveEvent, DeliverAndAnswer, DeliverPending, LocalPost,
       AddMember, RevokeMember, RestartReceiver, inbox
<1>3. /\ acks \subseteq acks'
      /\ receipt_out \subseteq receipt_out'
      /\ signed \subseteq signed'
  BY ReceiptWriters DEF AckWithReceiptIntent, Materialize, ApplyReceiptOutcome
<1> QED
  BY <1>1, <1>2, <1>3

\* A composed event is an envelope of that origin and event.
LEMMA ComposedOK ==
  ASSUME OutboxOK, NEW o \in Origins, NEW b \in Intents, NEW now \in Times
  PROVE  /\ ComposeEvent(o, b, now) \in Envelope
         /\ ComposeEvent(o, b, now).origin = o
         /\ ComposeEvent(o, b, now).event_id = b.event_id
BY FederationAssumption DEF OutboxOK, ComposeEvent, Envelope, Intent

\* Every step keeps the types of the outboxes.
LEMMA OutboxTypes == TypeOK /\ Next => OutboxOK'
<1> SUFFICES ASSUME TypeOK, Next PROVE OutboxOK'
  OBVIOUS
<1>1. OutboxOK /\ WireOK
  BY DEF TypeOK
<1>2. CASE UNCHANGED <<origin_conf, accepted, outbound, outbound_sent, outbound_failed>>
  BY <1>1, <1>2 DEF OutboxOK
<1>3. ASSUME NEW o \in Origins, NEW b \in Intents, NEW now \in Times,
             FederationSend(o, b, now)
      PROVE  OutboxOK'
  BY <1>1, <1>3, ComposedOK DEF OutboxOK, FederationSend, Enqueue, config
<1>4. ASSUME NEW a \in answers, ApplyOutcome(a) PROVE OutboxOK'
  BY <1>1, <1>4 DEF OutboxOK, WireOK, ApplyOutcome, config
<1>5. ASSUME NEW o \in Origins, NEW conf \in OriginConfigs, RestartOrigin(o, conf)
      PROVE  OutboxOK'
  BY <1>1, <1>5 DEF OutboxOK, RestartOrigin, outbox
<1> QED
  BY <1>2, <1>3, <1>4, <1>5, OutboxWriters

\* Every step keeps the types of what is on its way.
LEMMA WireTypes == TypeOK /\ Next => WireOK'
<1> SUFFICES ASSUME TypeOK, Next PROVE WireOK'
  OBVIOUS
<1>1. WireOK /\ outbound \subseteq outbound'
  BY Monotone DEF TypeOK
<1>2. CASE UNCHANGED <<posted, late, handling, answers>>
  BY <1>1, <1>2 DEF WireOK
<1>3. ASSUME NEW env \in outbound, SendOutbound(env) PROVE WireOK'
  BY <1>1, <1>3 DEF WireOK, SendOutbound
<1>4. ASSUME NEW o \in Origins, Abandon(o) PROVE WireOK'
  BY <1>1, <1>4 DEF WireOK, Abandon
<1>5. ASSUME NEW a \in answers, ApplyOutcome(a) PROVE WireOK'
  BY <1>1, <1>5 DEF WireOK, ApplyOutcome
<1>6. ASSUME NEW env \in posted, InboxArrive(env) PROVE WireOK'
  BY <1>1, <1>6 DEF WireOK, InboxArrive, Arrive, AnswerCall
<1>7. ASSUME NEW env \in late, InboxArriveLate(env) PROVE WireOK'
  BY <1>1, <1>7 DEF WireOK, InboxArriveLate, Arrive, AnswerCall
<1>8. ASSUME NEW c \in handling, ReceiveEvent(c) PROVE WireOK'
  BY <1>1, <1>8 DEF WireOK, ReceiveEvent, AnswerCall
<1>9. ASSUME NEW c \in handling, DeliverAndAnswer(c) PROVE WireOK'
  BY <1>1, <1>9 DEF WireOK, DeliverAndAnswer, AnswerCall
<1>10. CASE handling' = {} /\ UNCHANGED <<posted, late, answers>>
  BY <1>1, <1>10 DEF WireOK
<1> QED
  BY <1>2, <1>3, <1>4, <1>5, <1>6, <1>7, <1>8, <1>9, <1>10, WireWriters

\* Every step keeps the types of the receiver's tables.
LEMMA InboxTypes == TypeOK /\ Next => InboxOK'
<1> SUFFICES ASSUME TypeOK, Next PROVE InboxOK'
  OBVIOUS
<1>1. InboxOK /\ WireOK /\ outbound \subseteq outbound'
  BY Monotone DEF TypeOK
<1>2. CASE UNCHANGED <<receiver_conf, members, local_events, inbound, delivered, conflicts>>
  BY <1>1, <1>2 DEF InboxOK
<1>3. ASSUME NEW c \in handling, ReceiveEvent(c) PROVE InboxOK'
  BY <1>1, <1>3 DEF InboxOK, WireOK, ReceiveEvent, ConflictReason, config
<1>4. ASSUME NEW c \in handling, DeliverAndAnswer(c) PROVE InboxOK'
  BY <1>1, <1>4 DEF InboxOK, DeliverAndAnswer, config
<1>5. ASSUME NEW env \in inbound, DeliverPending(env) PROVE InboxOK'
  BY <1>1, <1>5 DEF InboxOK, DeliverPending, config
<1>6. ASSUME NEW e \in EventIds, LocalPost(e) PROVE InboxOK'
  BY <1>1, <1>6 DEF InboxOK, LocalPost, config
<1>7. ASSUME NEW p \in Agents, AddMember(p) \/ RevokeMember(p) PROVE InboxOK'
  BY <1>1, <1>7 DEF InboxOK, AddMember, RevokeMember, config
<1>8. ASSUME NEW conf \in ReceiverConfigs, RestartReceiver(conf) PROVE InboxOK'
  BY <1>1, <1>8 DEF InboxOK, RestartReceiver, inbox
<1> QED
  BY <1>2, <1>3, <1>4, <1>5, <1>6, <1>7, <1>8, InboxWriters

\* Every step keeps the types of the receipts.
LEMMA ReceiptTypes == TypeOK /\ Next => ReceiptsOK'
<1> SUFFICES ASSUME TypeOK, Next PROVE ReceiptsOK'
  OBVIOUS
<1>1. ReceiptsOK /\ ReportsOK /\ inbound \subseteq inbound'
  BY Monotone DEF TypeOK
<1>2. inbound \subseteq Envelope /\ receiver_conf.key \in Keys
  BY FederationAssumption DEF TypeOK, OutboxOK, InboxOK
<1>3. CASE UNCHANGED <<acks, receipt_out, signed, receipt_sent, receipt_failed>>
  BY <1>1, <1>3 DEF ReceiptsOK
<1>4. ASSUME NEW env \in inbound, NEW k \in AckTypes, NEW now \in Times,
             AckWithReceiptIntent(env, k, now)
      PROVE  ReceiptsOK'
  BY <1>1, <1>4 DEF ReceiptsOK, AckWithReceiptIntent
<1>5. ASSUME NEW i \in receipt_out, Materialize(i) PROVE ReceiptsOK'
  BY <1>1, <1>2, <1>5 DEF ReceiptsOK, Materialize, ComposeReceipt, Receipt
<1>6. ASSUME NEW a \in receipt_answers, ApplyReceiptOutcome(a) PROVE ReceiptsOK'
  BY <1>1, <1>6 DEF ReceiptsOK, ApplyReceiptOutcome, PendingReceipts
<1> QED
  BY <1>3, <1>4, <1>5, <1>6, ReceiptWriters

\* Every step keeps the types of the reports.
LEMMA ReportTypes == TypeOK /\ Next => ReportsOK'
<1> SUFFICES ASSUME TypeOK, Next PROVE ReportsOK'
  OBVIOUS
<1>1. /\ ReportsOK /\ ReceiptsOK /\ WireOK /\ inbound \subseteq outbound
      /\ outbound \subseteq outbound' /\ signed \subseteq signed'
  BY Monotone DEF TypeOK, InboxOK
<1>2. CASE UNCHANGED <<receipts_posted, receipts_late, receipt_answers, originals,
                       notifications>>
  BY <1>1, <1>2 DEF ReportsOK
<1>3. ASSUME NEW a \in answers, ApplyOutcome(a) PROVE ReportsOK'
  BY <1>1, <1>3 DEF ReportsOK, WireOK, ApplyOutcome, NotificationKinds, receipt_wire
<1>4. ASSUME NEW r \in signed, SendReceipt(r) PROVE ReportsOK'
  BY <1>1, <1>4 DEF ReportsOK, SendReceipt, reports
<1>5. CASE AbandonReceipt /\ UNCHANGED <<originals, notifications>>
  BY <1>1, <1>5 DEF ReportsOK, AbandonReceipt
<1>6. ASSUME NEW a \in receipt_answers, ApplyReceiptOutcome(a) PROVE ReportsOK'
  <2>1. IntentOf(a.receipt) \in PendingReceipts =>
           /\ IntentOf(a.receipt).env \in outbound
           /\ IntentOf(a.receipt).ack_type \in AckTypes
    BY <1>1 DEF ReceiptsOK, PendingReceipts
  <2> QED
    BY <1>1, <1>6, <2>1 DEF ReportsOK, ApplyReceiptOutcome, NotificationKinds
<1>7. ASSUME NEW r \in signed, RecordReceipt(r)
      PROVE  /\ (originals \subseteq signed)'
             /\ (notifications \subseteq
                   NotificationKinds \X outbound \X (AckTypes \cup {"none"}))'
  BY <1>1, <1>7 DEF ReportsOK, ReceiptsOK, RecordReceipt, ReceiptValid, Receipt,
       NotificationKinds, reports
<1>8. ASSUME NEW r \in receipts_posted, ReceiptArrive(r) PROVE ReportsOK'
  BY <1>1, <1>7, <1>8 DEF ReportsOK, ReceiptArrive
<1>9. ASSUME NEW r \in receipts_late, ReceiptArriveLate(r) PROVE ReportsOK'
  BY <1>1, <1>7, <1>9 DEF ReportsOK, ReceiptArriveLate
<1> QED
  BY <1>2, <1>3, <1>4, <1>5, <1>6, <1>8, <1>9, ReportWriters

\* Whatever is on the network, in a call or stored, at either end, is an original
\* of the sending family's outbox or a receipt the receiving family persisted.
THEOREM TypeCorrect == Spec => []TypeOK
<1>1. Init => TypeOK
  BY DEF Init, TypeOK, OutboxOK, WireOK, InboxOK, ReceiptsOK, ReportsOK
<1>2. TypeOK /\ Next => TypeOK'
  BY OutboxTypes, WireTypes, InboxTypes, ReceiptTypes, ReportTypes DEF TypeOK
<1>3. TypeOK /\ UNCHANGED vars => TypeOK'
  BY DEF TypeOK, OutboxOK, WireOK, InboxOK, ReceiptsOK, ReportsOK, vars
<1> QED
  BY <1>1, <1>2, <1>3, PTL DEF Spec

-----------------------------------------------------------------------------
(* Messages *)

\* A family has one original per event id.
OneEnvelope ==
    \A x, y \in outbound : x.origin = y.origin /\ x.event_id = y.event_id => x = y

\* Every accepted request is in the outbox as it was asked for.
AcceptedKept ==
    \A p \in accepted : \E x \in outbound :
        x.origin = p[1] /\ x.event_id = p[2].event_id /\ SameIntent(x, p[2])

\* A call past its commit, and a positive answer, speak of a stored event.
CallsStored ==
    /\ \A c \in handling : c.step # "commit" => c.env \in inbound
    /\ \A a \in answers : a.result = "sent" => a.env \in inbound

\* The inductive part about messages.
MessagesInv ==
    /\ OneEnvelope /\ AcceptedKept /\ CallsStored
    /\ StoredOnce /\ SentMeansStored /\ NoSelfConflict

\* Every step keeps an event to one envelope.
LEMMA OneEnvelopeStep == TypeOK /\ OneEnvelope /\ AcceptedKept /\ Next => OneEnvelope' /\ AcceptedKept'
<1> SUFFICES ASSUME TypeOK, OneEnvelope, AcceptedKept, Next
             PROVE  OneEnvelope' /\ AcceptedKept'
  OBVIOUS
<1>1. CASE UNCHANGED <<accepted, outbound>>
  BY <1>1 DEF OneEnvelope, AcceptedKept, SameIntent
<1>2. ASSUME NEW o \in Origins, NEW b \in Intents, NEW now \in Times,
             FederationSend(o, b, now)
      PROVE  OneEnvelope' /\ AcceptedKept'
  <2>1. OneEnvelope'
    BY <1>2, ComposedOK DEF TypeOK, OneEnvelope, FederationSend, Enqueue
  <2>2. outbound \subseteq outbound'
    BY Monotone
  <2>3. AcceptedKept'
    BY <1>2, <2>2 DEF AcceptedKept, FederationSend, SameIntent
  <2> QED
    BY <2>1, <2>3
<1> QED
  BY <1>1, <1>2, OutboxWriters DEF ApplyOutcome, RestartOrigin, outbox

\* Among originals, equal origin and event id means the same envelope, so a
\* refused original is stored already or collides with somebody else's event.
LEMMA RefusedCases ==
  ASSUME TypeOK, OneEnvelope, NEW env \in outbound, Refused(env)
  PROVE  /\ Duplicate(env) <=> env \in inbound
         /\ ~Duplicate(env) => ConflictReason(env) = "local_event_id_collision"
<1>1. \A x \in inbound : x.origin = env.origin /\ x.event_id = env.event_id => x = env
  BY DEF TypeOK, InboxOK, OneEnvelope
<1>2. ASSUME NEW x \in inbound, EventJcs(x) = EventJcs(env) PROVE x.event_id = env.event_id
  BY <1>2 DEF EventJcs
<1>3. Duplicate(env) => env \in inbound
  BY <1>1, <1>2 DEF Duplicate
<1>4. env \in inbound => Duplicate(env)
  BY DEF Duplicate
<1> QED
  BY <1>1, <1>3, <1>4 DEF ConflictReason

\* Committing an event refuses it or has it in the inbox.
LEMMA CommitCases ==
  ASSUME TypeOK, OneEnvelope, NEW c \in handling, ReceiveEvent(c)
  PROVE  \/ /\ UNCHANGED inbound
            /\ conflicts' = conflicts \cup {<<c.env, "local_event_id_collision">>}
            /\ handling' = handling \ {c}
            /\ answers' \subseteq answers \cup {[env |-> c.env, result |-> "permanent"]}
         \/ /\ c.env \in inbound'
            /\ \/ UNCHANGED inbound
               \/ ~Refused(c.env) /\ inbound' = inbound \cup {c.env}
            /\ UNCHANGED <<conflicts, answers>>
            /\ \E s \in {"deliver", "answer"} :
                  handling' = (handling \ {c}) \cup
                     {[env |-> c.env, step |-> s, caller |-> c.caller]}
<1>1. c.env \in outbound
  BY DEF TypeOK, WireOK
<1>2. CASE Refused(c.env)
  BY <1>1, <1>2, RefusedCases DEF ReceiveEvent, AnswerCall
<1>3. CASE ~Refused(c.env)
  BY <1>3 DEF ReceiveEvent
<1> QED
  BY <1>2, <1>3

\* Every step keeps it.
LEMMA MessagesStep == TypeOK /\ MessagesInv /\ [Next]_vars => MessagesInv'
<1> SUFFICES ASSUME TypeOK, MessagesInv, [Next]_vars PROVE MessagesInv'
  OBVIOUS
<1>1. CASE UNCHANGED vars
  BY <1>1 DEF vars, MessagesInv, OneEnvelope, AcceptedKept, SameIntent, CallsStored,
       StoredOnce, SentMeansStored, NoSelfConflict
<1>2. CASE Next
  <2>1. OneEnvelope' /\ AcceptedKept'
    BY <1>2, OneEnvelopeStep DEF MessagesInv
  <2>2. inbound \subseteq inbound' /\ WireOK /\ OneEnvelope /\ CallsStored
    BY <1>2, Monotone DEF TypeOK, MessagesInv
  <2>3. CallsStored'
    <3>1. CASE UNCHANGED <<posted, late, handling, answers>>
      BY <2>2, <3>1 DEF CallsStored
    <3>2. ASSUME NEW env \in outbound, SendOutbound(env) PROVE CallsStored'
      BY <2>2, <3>2 DEF CallsStored, SendOutbound
    <3>3. ASSUME NEW o \in Origins, Abandon(o) PROVE CallsStored'
      BY <2>2, <3>3 DEF CallsStored, Abandon
    <3>4. ASSUME NEW a \in answers, ApplyOutcome(a) PROVE CallsStored'
      BY <2>2, <3>4 DEF CallsStored, ApplyOutcome
    <3>5. ASSUME NEW env \in posted, InboxArrive(env) PROVE CallsStored'
      BY <2>2, <3>5 DEF CallsStored, InboxArrive, Arrive, AnswerCall
    <3>6. ASSUME NEW env \in late, InboxArriveLate(env) PROVE CallsStored'
      BY <2>2, <3>6 DEF CallsStored, InboxArriveLate, Arrive, AnswerCall
    <3>7. ASSUME NEW c \in handling, ReceiveEvent(c) PROVE CallsStored'
      BY <2>2, <3>7, CommitCases DEF CallsStored
    <3>8. ASSUME NEW c \in handling, DeliverAndAnswer(c) PROVE CallsStored'
      BY <2>2, <3>8 DEF CallsStored, DeliverAndAnswer, AnswerCall
    <3>9. CASE handling' = {} /\ UNCHANGED <<posted, late, answers>>
      BY <2>2, <3>9 DEF CallsStored
    <3> QED
      BY <1>2, <3>1, <3>2, <3>3, <3>4, <3>5, <3>6, <3>7, <3>8, <3>9, WireWriters
  <2>4. StoredOnce' /\ NoSelfConflict'
    <3>1. StoredOnce /\ NoSelfConflict
      BY DEF MessagesInv
    <3>2. CASE UNCHANGED <<local_events, inbound, conflicts>>
      BY <3>1, <3>2 DEF StoredOnce, NoSelfConflict
    <3>3. ASSUME NEW e \in EventIds, LocalPost(e) PROVE StoredOnce' /\ NoSelfConflict'
      BY <3>1, <3>3 DEF LocalPost, EventRows, StoredOnce, NoSelfConflict
    <3>4. ASSUME NEW c \in handling, ReceiveEvent(c) PROVE StoredOnce' /\ NoSelfConflict'
      <4>1. UNCHANGED local_events
        BY <3>4 DEF ReceiveEvent
      <4>2. NoSelfConflict'
        BY <2>2, <3>1, <3>4, CommitCases DEF NoSelfConflict
      <4>3. ~Refused(c.env) =>
               /\ \A x \in inbound : x.event_id # c.env.event_id
               /\ c.env.event_id \notin local_events
        BY DEF Refused, EventRows
      <4> QED
        BY <2>2, <3>1, <3>4, <4>1, <4>2, <4>3, CommitCases DEF StoredOnce
    <3> QED
      BY <1>2, <3>2, <3>3, <3>4, InboxWriters DEF DeliverAndAnswer, DeliverPending,
           AddMember, RevokeMember, RestartReceiver, inbox
  <2>5. SentMeansStored'
    <3>1. SentMeansStored
      BY DEF MessagesInv
    <3>2. CASE UNCHANGED outbound_sent
      BY <2>2, <3>1, <3>2 DEF SentMeansStored
    <3>3. ASSUME NEW a \in answers, ApplyOutcome(a) PROVE SentMeansStored'
      BY <2>2, <3>1, <3>3 DEF SentMeansStored, CallsStored, ApplyOutcome
    <3> QED
      BY <1>2, <3>2, <3>3, OutboxWriters DEF FederationSend, RestartOrigin, outbox
  <2> QED
    BY <2>1, <2>3, <2>4, <2>5 DEF MessagesInv
<1> QED
  BY <1>1, <1>2

\* It holds in every behaviour.
LEMMA MessagesAlways == Spec => []MessagesInv
<1>1. Init => MessagesInv
  BY DEF Init, MessagesInv, OneEnvelope, AcceptedKept, CallsStored, StoredOnce,
       SentMeansStored, NoSelfConflict
<1> QED
  BY <1>1, MessagesStep, TypeCorrect, PTL DEF Spec

\* However often an event is sent, lost, handled late or sent again, the receiver
\* stores it at most once, as its caller asked for it; what the outbox calls sent is
\* stored; and a family never runs into a conflict with itself.
THEOREM MessagesCorrect == Spec => []MessagesSound
<1>1. TypeOK /\ MessagesInv => StoredAsAccepted
  BY DEF TypeOK, InboxOK, MessagesInv, OneEnvelope, AcceptedKept, StoredAsAccepted
<1>2. MessagesInv => StoredOnce /\ SentMeansStored /\ NoSelfConflict
  BY DEF MessagesInv
<1> QED
  BY <1>1, <1>2, MessagesAlways, TypeCorrect, PTL DEF MessagesSound

-----------------------------------------------------------------------------
(* Receipts *)

\* Every row of federation_receipt_out comes from an acknowledgement, one row per
\* acknowledgement; every signed original belongs to a row, one per row.
ReceiptsInv ==
    /\ \A i \in receipt_out : <<i.env, i.ack_type>> \in acks
    /\ \A i, j \in receipt_out : i.env = j.env /\ i.ack_type = j.ack_type => i = j
    /\ \A r \in signed : IntentOf(r) \in receipt_out
    /\ \A r, s \in signed : IntentOf(r) = IntentOf(s) => r = s

\* Every step keeps the receipts sound.
LEMMA ReceiptsStep == TypeOK /\ ReceiptsInv /\ [Next]_vars => ReceiptsInv'
<1> SUFFICES ASSUME TypeOK, ReceiptsInv, [Next]_vars PROVE ReceiptsInv'
  OBVIOUS
<1>1. CASE UNCHANGED <<acks, receipt_out, signed>>
  BY <1>1 DEF ReceiptsInv, IntentOf
<1>2. ASSUME NEW env \in inbound, NEW k \in AckTypes, NEW now \in Times,
             AckWithReceiptIntent(env, k, now)
      PROVE  ReceiptsInv'
  BY <1>2 DEF ReceiptsInv, AckWithReceiptIntent, HasIntent, IntentOf
<1>3. ASSUME NEW i \in receipt_out, Materialize(i) PROVE ReceiptsInv'
  <2>1. IntentOf(ComposeReceipt(i)) = i
    BY DEF TypeOK, ReceiptsOK, IntentOf, ComposeReceipt
  <2>2. /\ signed' = signed \cup {ComposeReceipt(i)}
        /\ \A r \in signed : IntentOf(r) # i
        /\ UNCHANGED <<acks, receipt_out>>
    BY <1>3 DEF Materialize
  <2>3. \A r \in signed' : IntentOf(r) \in receipt_out
    BY <2>1, <2>2 DEF ReceiptsInv
  <2>4. \A r, s \in signed' : IntentOf(r) = IntentOf(s) => r = s
    BY <2>1, <2>2 DEF ReceiptsInv
  <2> QED
    BY <2>2, <2>3, <2>4 DEF ReceiptsInv, IntentOf
<1> QED
  BY <1>1, <1>2, <1>3, ReceiptWriters DEF ApplyReceiptOutcome, vars

\* The receipts are sound in every behaviour.
LEMMA ReceiptsAlways == Spec => []ReceiptsInv
<1>1. Init => ReceiptsInv
  BY DEF Init, ReceiptsInv
<1> QED
  BY <1>1, ReceiptsStep, TypeCorrect, PTL DEF Spec

\* Acknowledgements of stored events are what receipts are made of.
LEMMA ReceiptBacked ==
  ASSUME TypeOK, ReceiptsInv, NEW r \in signed
  PROVE  r.env \in inbound /\ r.ack_type \in AckTypes /\ <<r.env, r.ack_type>> \in acks
<1>1. /\ IntentOf(r) \in receipt_out
      /\ IntentOf(r).env = r.env /\ IntentOf(r).ack_type = r.ack_type
  BY DEF ReceiptsInv, IntentOf
<1> QED
  BY <1>1 DEF ReceiptsInv, TypeOK, ReceiptsOK

\* A receipt at an origin is backed by the recipient's acknowledgement of the very
\* envelope this origin signed, and there is one original per acknowledgement,
\* though the receiver retries, crashes and changes its key.
THEOREM ReceiptsCorrect == Spec => []ReceiptsSound
<1>1. TypeOK /\ ReceiptsInv => ReceiptMeansAcked
  BY ReceiptBacked DEF ReceiptMeansAcked, TypeOK, ReportsOK
<1>2. TypeOK /\ ReceiptsInv => OneOriginal
  <2> SUFFICES ASSUME TypeOK, ReceiptsInv, NEW r \in originals, NEW s \in originals,
                      r.env = s.env, r.ack_type = s.ack_type
               PROVE  r = s
    BY DEF OneOriginal
  <2>1. r \in signed /\ s \in signed
    BY DEF TypeOK, ReportsOK
  <2>2. IntentOf(r) \in receipt_out /\ IntentOf(s) \in receipt_out
    BY <2>1 DEF ReceiptsInv
  <2>3. /\ IntentOf(r).env = IntentOf(s).env
        /\ IntentOf(r).ack_type = IntentOf(s).ack_type
    BY DEF IntentOf
  <2>4. IntentOf(r) = IntentOf(s)
    BY <2>2, <2>3 DEF ReceiptsInv
  <2> QED
    BY <2>1, <2>4 DEF ReceiptsInv
<1> QED
  BY <1>1, <1>2, ReceiptsAlways, TypeCorrect, PTL DEF ReceiptsSound

-----------------------------------------------------------------------------
(* Notifications *)

\* A failure and its notification are one transaction, and only a pending row can
\* end, so a permanent failure is always notified and no row ends both ways.
THEOREM FailuresCorrect == Spec => []FailuresNotified
<1>1. Init => FailuresNotified
  BY DEF Init, FailuresNotified
<1>2. TypeOK /\ FailuresNotified /\ [Next]_vars => FailuresNotified'
  <2> SUFFICES ASSUME TypeOK, FailuresNotified, [Next]_vars PROVE FailuresNotified'
    OBVIOUS
  <2> DEFINE rows == <<outbound, outbound_sent, outbound_failed, receipt_sent,
                       receipt_failed, notifications>>
  <2>1. CASE UNCHANGED rows
    BY <2>1 DEF FailuresNotified
  <2>2. ASSUME NEW o \in Origins, NEW b \in Intents, NEW now \in Times,
               FederationSend(o, b, now)
        PROVE  FailuresNotified'
    <3>1. \A x \in outbound' \ outbound : <<"send_failed", x, "none">> \notin notifications
      BY DEF TypeOK, ReportsOK
    <3> QED
      BY <2>2, <3>1 DEF FailuresNotified, FederationSend, TypeOK, OutboxOK, receipting, reports
  <2>3. ASSUME NEW a \in answers, ApplyOutcome(a) PROVE FailuresNotified'
    BY <2>3 DEF FailuresNotified, ApplyOutcome, Pending, receipting
  <2>4. ASSUME NEW a \in receipt_answers, ApplyReceiptOutcome(a) PROVE FailuresNotified'
    BY <2>4 DEF FailuresNotified, ApplyReceiptOutcome, PendingReceipts, outbox
  <2>5. ASSUME NEW r, RecordReceipt(r),
               UNCHANGED <<outbound, outbound_sent, outbound_failed, receipt_sent, receipt_failed>>
        PROVE  FailuresNotified'
    BY <2>5 DEF FailuresNotified, RecordReceipt, reports
  <2>6. ASSUME NEW r \in receipts_posted, ReceiptArrive(r) PROVE FailuresNotified'
    BY <2>5, <2>6 DEF ReceiptArrive, outbox, receipting
  <2>7. ASSUME NEW r \in receipts_late, ReceiptArriveLate(r) PROVE FailuresNotified'
    BY <2>5, <2>7 DEF ReceiptArriveLate, outbox, receipting
  <2>8. CASE Next
    <3>1. \/ UNCHANGED rows
          \/ \E o \in Origins, b \in Intents, now \in Times : FederationSend(o, b, now)
          \/ \E a \in answers : ApplyOutcome(a)
          \/ \E a \in receipt_answers : ApplyReceiptOutcome(a)
          \/ \E r \in receipts_posted : ReceiptArrive(r)
          \/ \E r \in receipts_late : ReceiptArriveLate(r)
      BY <2>8 DEF Next, SendSide, ReceiveSide, outbox, receipting, reports, RetryOutbound,
           RestartOrigin, SendOutbound, InboxArrive, InboxArriveLate, Arrive, ReceiveEvent,
           DeliverAndAnswer, DeliverPending, LocalPost, AddMember, RevokeMember,
           AckWithReceiptIntent, Materialize, SendReceipt, RetryReceipt, RestartReceiver
    <3> QED
      BY <2>1, <2>2, <2>3, <2>4, <2>6, <2>7, <3>1
  <2> QED
    BY <2>1, <2>8 DEF vars
<1> QED
  BY <1>1, <1>2, TypeCorrect, PTL DEF Spec

-----------------------------------------------------------------------------
(* Federation implements its abstract specification *)

\* The receipts an origin has heard of.
Reported == {<<r.env, r.ack_type>> : r \in originals}

\* Outboxes, retries, the network, crashes and configuration are invisible in
\* FederationSpec: every step submits a message, stores a submitted one for the
\* first time, records an acknowledgement of a stored one, reports a given
\* acknowledgement to its origin, or changes none of these.
THEOREM Refinement == Spec => ImplementsFederationSpec
<1>1. Init => Abstract!FInit
  BY DEF Init, Abstract!FInit
<1>2. TypeOK /\ MessagesInv /\ ReceiptsInv /\ [Next]_vars => [Abstract!FNext]_(Abstract!fvars)
  <2> SUFFICES ASSUME TypeOK, MessagesInv, ReceiptsInv, Next
               PROVE  Abstract!FNext \/ UNCHANGED <<outbound, inbound, acks, Reported>>
    BY DEF vars, Abstract!fvars, Reported
  <2>1. ASSUME NEW o \in Origins, NEW b \in Intents, NEW now \in Times,
               FederationSend(o, b, now), ~UNCHANGED outbound
        PROVE  Abstract!FNext
    <3> DEFINE m == ComposeEvent(o, b, now)
    <3>1. m \in Envelope /\ m.origin = o /\ m.event_id = b.event_id
      BY ComposedOK DEF TypeOK
    <3>2. /\ \A n \in outbound : n.origin = m.origin => n.event_id # m.event_id
          /\ outbound' = outbound \cup {m}
      BY <2>1, <3>1 DEF FederationSend, Enqueue
    <3>3. UNCHANGED <<inbound, acks, originals>>
      BY <2>1 DEF FederationSend, inbox, receipting, reports
    <3>4. Abstract!Submit(m)
      BY <3>1, <3>2, <3>3 DEF Abstract!Submit
    <3> QED
      BY <3>2, <3>4 DEF Abstract!FNext
  <2>2. ASSUME NEW c \in handling, ReceiveEvent(c), ~UNCHANGED inbound
        PROVE  Abstract!FNext
    <3>1. c.env \in outbound
      BY DEF TypeOK, WireOK
    <3>2. ~Refused(c.env) /\ inbound' = inbound \cup {c.env}
      BY <2>2, CommitCases DEF MessagesInv
    <3>3. \A n \in inbound : n.event_id # c.env.event_id
      BY <3>2 DEF Refused, EventRows
    <3>4. UNCHANGED <<outbound, acks, originals>>
      BY <2>2 DEF ReceiveEvent, outbox, receipting, reports
    <3>5. Abstract!Store(c.env)
      BY <3>1, <3>2, <3>3, <3>4 DEF Abstract!Store
    <3> QED
      BY <3>1, <3>4, <3>5 DEF Abstract!FNext
  <2>3. ASSUME NEW env \in inbound, NEW k \in AckTypes, NEW now \in Times,
               AckWithReceiptIntent(env, k, now)
        PROVE  Abstract!FNext
    <3>1. env \in outbound'
      BY <2>3 DEF AckWithReceiptIntent, TypeOK, InboxOK, outbox
    <3>2. Abstract!Acknowledge(env, k)
      BY <2>3 DEF AckWithReceiptIntent, Abstract!Acknowledge, outbox, inbox, reports
    <3> QED
      BY <3>1, <3>2 DEF Abstract!FNext
  <2>4. ASSUME NEW r \in signed, RecordReceipt(r), UNCHANGED <<outbound, inbound, acks>>
        PROVE  Abstract!FNext \/ UNCHANGED <<outbound, inbound, acks, Reported>>
    <3>1. CASE UNCHANGED originals
      BY <2>4, <3>1 DEF Reported
    <3>2. CASE originals' = originals \cup {r}
      <4>1. r.env \in outbound /\ r.ack_type \in AckTypes /\ <<r.env, r.ack_type>> \in acks
        BY ReceiptBacked DEF TypeOK, InboxOK
      <4>2. Reported' = Reported \cup {<<r.env, r.ack_type>>}
        BY <3>2 DEF Reported
      <4>3. Abstract!Report(r.env, r.ack_type)
        BY <2>4, <4>1, <4>2 DEF Abstract!Report, Reported
      <4> QED
        BY <2>4, <4>1, <4>3 DEF Abstract!FNext
    <3> QED
      BY <2>4, <3>1, <3>2 DEF RecordReceipt, reports
  <2>5. ASSUME NEW r \in receipts_posted, ReceiptArrive(r)
        PROVE  Abstract!FNext \/ UNCHANGED <<outbound, inbound, acks, Reported>>
    BY <2>4, <2>5 DEF TypeOK, ReportsOK, ReceiptArrive, outbox, inbox, receipting
  <2>6. ASSUME NEW r \in receipts_late, ReceiptArriveLate(r)
        PROVE  Abstract!FNext \/ UNCHANGED <<outbound, inbound, acks, Reported>>
    BY <2>4, <2>6 DEF TypeOK, ReportsOK, ReceiptArriveLate, outbox, inbox, receipting
  <2>7. \/ UNCHANGED <<outbound, inbound, acks, originals>>
        \/ \E o \in Origins, b \in Intents, now \in Times :
              FederationSend(o, b, now) /\ ~UNCHANGED outbound
        \/ \E c \in handling : ReceiveEvent(c) /\ ~UNCHANGED inbound
        \/ \E env \in inbound, k \in AckTypes, now \in Times : AckWithReceiptIntent(env, k, now)
        \/ \E r \in receipts_posted : ReceiptArrive(r)
        \/ \E r \in receipts_late : ReceiptArriveLate(r)
    BY DEF Next, SendSide, ReceiveSide, outbox, inbox, receipting, reports, RetryOutbound,
           RestartOrigin, SendOutbound, InboxArrive, InboxArriveLate, Arrive, ReceiveEvent,
           DeliverAndAnswer, DeliverPending, LocalPost, AddMember, RevokeMember, FederationSend,
           ApplyOutcome, ApplyReceiptOutcome, Materialize, SendReceipt, RetryReceipt,
           RestartReceiver
  <2>8. UNCHANGED originals => UNCHANGED Reported
    BY DEF Reported
  <2> QED
    BY <2>1, <2>2, <2>3, <2>5, <2>6, <2>7, <2>8
<1> QED
  BY <1>1, <1>2, TypeCorrect, MessagesAlways, ReceiptsAlways, PTL
     DEF Spec, ImplementsFederationSpec, Abstract!FSpec
=============================================================================
