---------------------------- MODULE OperatorsProofs ---------------------------
(***************************************************************************)
(* Proofs about Tokens, Migration, MessageAcl and TaskBoard: the           *)
(* operator's commands on the SQLite ledger and on the shadow ledger, the  *)
(* ACL file, and the board of the tasks. Each component has a              *)
(* specification of its own, and each section proves one.                  *)
(***************************************************************************)
EXTENDS Tokens, Migration, MessageAcl, TaskBoard, FiniteSetTheorems, TLAPS

-----------------------------------------------------------------------------
(***************************************************************************)
(* Tokens, for any number of peers, tokens and operator processes.         *)
(*                                                                         *)
(* NotLockedOut speaks of the peers that are not excused: not of one whose *)
(* peer-rotate stopped between its first two statements, and not of those  *)
(* whose commands ran next to each other.  It is not inductive: it does    *)
(* not say that a command under way finds what it wrote before.  The       *)
(* invariant adds where each command is (Progress), that two commands for  *)
(* one peer, or with one token, have excused their peers (PairsExcused),   *)
(* and that a token without a row belongs to one peer (OneOwner,           *)
(* BringsToOne), so that the migration at the next start gives it to the   *)
(* right one.                                                              *)
(***************************************************************************)

\* The process c has a command under way.
Busy(c) == op[c] # NoOp

\* Commands that run next to each other for one peer, or with one token, have excused
\* their peers.
PairsExcused ==
    \A c, d \in Clis :
        /\ c # d /\ Busy(c) /\ Busy(d)
        /\ op[c].peer = op[d].peer \/ op[c].secret = op[d].secret
        => op[c].peer \in excused

\* A token that has no row yet belongs to one peer, and a command that brings one
\* brings it to no other.
OneOwner ==
    \A p, q \in Peers :
        p # q /\ peers[p] = peers[q] /\ peers[p] # NoSecret /\ tokens[peers[p]] = NoRow
        => p \in excused

\* The token of c, while it has no row, is in the peers row of no other peer.
Brings(c) ==
    \A q \in Peers :
        tokens[op[c].secret] = NoRow /\ peers[q] = op[c].secret /\ q # op[c].peer
        => q \in excused /\ op[c].peer \in excused

\* It holds of every command under way.
BringsToOne == \A c \in Clis : Busy(c) => Brings(c)

\* What a command whose peer is not excused has done so far.
Progress(c) ==
    /\ op[c].step = 1 => peers[op[c].peer] = NoSecret \/ HasToken(op[c].peer)
    /\ op[c].cmd = "add" =>
          /\ tokens[op[c].secret] \in {NoRow, NewRow(op[c].peer, "primary")}
          /\ op[c].step # 1 => peers[op[c].peer] = op[c].secret
    /\ op[c].step = 3 => tokens[op[c].secret] = NewRow(op[c].peer, "primary")

\* It holds of every command under way.
InProgress == \A c \in Clis : Busy(c) /\ op[c].peer \notin excused => Progress(c)

\* A rotation that is about to write the peers row has written its token.
Written(c) == op[c].cmd = "rotate" /\ op[c].step = 3 => tokens[op[c].secret] # NoRow

\* It holds of every command under way.
Rotated == \A c \in Clis : Busy(c) => Written(c)

\* The inductive invariant: NotLockedOut, and what the commands under way are good for.
TokenInv == PairsExcused /\ OneOwner /\ BringsToOne /\ InProgress /\ Rotated /\ NotLockedOut

-----------------------------------------------------------------------------
\* A new row is a row, of that peer, valid without end.
LEMMA NewRowOK ==
  ASSUME NEW p \in Peers, NEW line \in {"primary", "device"}
  PROVE  /\ NewRow(p, line) \in Row
         /\ NewRow(p, line) # NoRow
         /\ NewRow(p, line).peer = p /\ NewRow(p, line).line = line
         /\ NewRow(p, line).grace = 0 /\ NewRow(p, line).revoked = "no"
BY DEF NewRow, Row, NoRow

\* A missing row is not a row.
LEMMA NoRowNotRow == NoRow \notin Row
BY DEF NoRow, Row

\* What a command under way carries.
LEMMA OpFields ==
  ASSUME TypeOK, NEW c \in Clis, op[c] # NoOp
  PROVE  /\ op[c] \in Ops
         /\ op[c].peer \in Peers /\ op[c].secret \in Secrets /\ op[c].secret # NoSecret
         /\ op[c].now \in Nat /\ op[c].until \in Nat
         /\ op[c].cmd \in {"add", "rotate"} /\ op[c].step \in 1..3
BY TokensAssumption DEF TypeOK, Ops

\* Opening the store keeps every row and gives a token without one to a peer that has it.
LEMMA MigratedRows ==
  ASSUME TypeOK, NEW s \in Secrets
  PROVE  /\ Migrated \in [Secrets -> Row \cup {NoRow}]
         /\ tokens[s] # NoRow => Migrated[s] = tokens[s]
         /\ tokens[s] = NoRow =>
               \/ Migrated[s] = NoRow /\ \A p \in Peers : peers[p] # s
               \/ \E p \in Peers : peers[p] = s /\ Migrated[s] = NewRow(p, "primary")
<1>1. ASSUME NEW r \in Secrets, \E p \in Peers : peers[p] = r
      PROVE  /\ (CHOOSE p \in Peers : peers[p] = r) \in Peers
             /\ peers[CHOOSE p \in Peers : peers[p] = r] = r
  BY <1>1
<1>2. ASSUME NEW r \in Secrets, tokens[r] # NoRow \/ ~\E p \in Peers : peers[p] = r
      PROVE  Migrated[r] = tokens[r]
  BY <1>2 DEF Migrated
<1>3. ASSUME NEW r \in Secrets, tokens[r] = NoRow, \E p \in Peers : peers[p] = r
      PROVE  \E p \in Peers : peers[p] = r /\ Migrated[r] = NewRow(p, "primary")
  <2>1. Migrated[r] = NewRow(CHOOSE p \in Peers : peers[p] = r, "primary")
    BY <1>3 DEF Migrated
  <2> QED
    BY <1>1, <1>3, <2>1
<1>4. ASSUME NEW r \in Secrets PROVE Migrated[r] \in Row \cup {NoRow}
  BY <1>2, <1>3, NewRowOK DEF TypeOK
<1>5. Migrated \in [Secrets -> Row \cup {NoRow}]
  BY <1>4 DEF Migrated
<1> QED
  BY <1>2, <1>3, <1>5

-----------------------------------------------------------------------------
(* Types *)

\* Every step keeps the types.
LEMMA TokenTypeStep == TypeOK /\ [Next]_vars => TypeOK'
<1> SUFFICES ASSUME TypeOK, [Next]_vars PROVE TypeOK'
  OBVIOUS
<1> USE TokensAssumption
<1>0. CASE UNCHANGED vars
  BY <1>0 DEF vars, TypeOK
<1>1. ASSUME NEW c \in Clis, NEW cmd \in {"add", "rotate"}, NEW p \in Peers, NEW s \in Secrets,
             Begin(c, cmd, p, s)
      PROVE  TypeOK'
  <2>1. [cmd |-> cmd, step |-> 1, peer |-> p, secret |-> s, now |-> clock,
         until |-> clock + Grace] \in Ops
    BY DEF Ops, TypeOK
  <2>2. Excuses(c, cmd, p, s) \subseteq Peers
    <3>1. \A d \in Clis : op[d] # NoOp => op[d].peer \in Peers
      BY OpFields
    <3> QED
      BY <3>1 DEF Excuses, Clashing
  <2> QED
    BY <1>1, <2>1, <2>2, MigratedRows DEF Begin, TypeOK
<1>2. ASSUME NEW c \in Clis, AddPeerRow(c) PROVE TypeOK'
  <2>1. op[c] # NoOp /\ op[c].step = 1
    BY <1>2 DEF AddPeerRow, Running
  <2>2. [op[c] EXCEPT !.step = @ + 1] \in Ops
    BY <2>1, OpFields DEF Ops
  <2> QED
    BY <1>2, <2>1, <2>2, OpFields DEF AddPeerRow, Advance, TypeOK
<1>3. ASSUME NEW c \in Clis, AddPeerToken(c) PROVE TypeOK'
  <2>1. op[c] # NoOp /\ op[c].step = 2
    BY <1>3 DEF AddPeerToken, Running
  <2>2. [op[c] EXCEPT !.step = @ + 1] \in Ops
    BY <2>1, OpFields DEF Ops
  <2>3. NewRow(op[c].peer, "primary") \in Row
    BY <2>1, OpFields, NewRowOK
  <2> QED
    BY <1>3, <2>1, <2>2, <2>3, OpFields DEF AddPeerToken, Advance, TypeOK
<1>4. ASSUME NEW c \in Clis, AddPeerRevokes(c) PROVE TypeOK'
  <2>1. \A s \in Secrets : tokens[s] # NoRow => [tokens[s] EXCEPT !.revoked = "yes"] \in Row
    BY DEF TypeOK, Row
  <2> QED
    BY <1>4, <2>1 DEF AddPeerRevokes, PrimaryOf, Finish, TypeOK
<1>5. ASSUME NEW c \in Clis, RotateGrace(c) PROVE TypeOK'
  <2>1. op[c] # NoOp /\ op[c].step = 1
    BY <1>5 DEF RotateGrace, Running
  <2>2. [op[c] EXCEPT !.step = @ + 1] \in Ops
    BY <2>1, OpFields DEF Ops
  <2>3. \A s \in Secrets : tokens[s] # NoRow => [tokens[s] EXCEPT !.grace = op[c].until] \in Row
    BY <2>1, OpFields DEF TypeOK, Row
  <2> QED
    BY <1>5, <2>2, <2>3 DEF RotateGrace, PrimaryOf, Advance, TypeOK
<1>6. ASSUME NEW c \in Clis, RotateInsert(c) PROVE TypeOK'
  <2>1. op[c] # NoOp /\ op[c].step = 2
    BY <1>6 DEF RotateInsert, Running
  <2>2. [op[c] EXCEPT !.step = @ + 1] \in Ops
    BY <2>1, OpFields DEF Ops
  <2>3. NewRow(op[c].peer, "primary") \in Row /\ op[c].peer \in Peers
    BY <2>1, OpFields, NewRowOK
  <2> QED
    BY <1>6, <2>1, <2>2, <2>3, OpFields DEF RotateInsert, Advance, Finish, TypeOK
<1>7. ASSUME NEW c \in Clis, RotatePeerRow(c) PROVE TypeOK'
  BY <1>7, OpFields DEF RotatePeerRow, Running, Finish, TypeOK
<1>8. ASSUME NEW c \in Clis, CliCrash(c) PROVE TypeOK'
  BY <1>8, OpFields DEF CliCrash, Finish, TypeOK
<1>9. ASSUME NEW p \in Peers, NEW s \in Secrets, AddDevice(p, s) PROVE TypeOK'
  <2>1. \A d \in Clis : op[d] # NoOp => op[d].peer \in Peers
    BY OpFields
  <2> QED
    BY <1>9, <2>1, MigratedRows, NewRowOK DEF AddDevice, TypeOK
<1>10. ASSUME NEW s \in Secrets, RevokeDevice(s) PROVE TypeOK'
  <2>1. Migrated[s] \in Row
    BY <1>10, MigratedRows DEF RevokeDevice
  <2>2. [Migrated[s] EXCEPT !.revoked = "yes"] \in Row /\ Migrated[s].peer \in Peers
    BY <2>1 DEF Row
  <2> QED
    BY <1>10, <2>2, MigratedRows DEF RevokeDevice, TypeOK
<1>11. CASE Open
  <2>1. Migrated \in [Secrets -> Row \cup {NoRow}]
    <3>1. CASE Secrets = {}
      BY <3>1 DEF Migrated
    <3> QED
      BY <3>1, MigratedRows
  <2> QED
    BY <1>11, <2>1 DEF Open, TypeOK
<1>12. CASE Tick
  BY <1>12 DEF Tick, TypeOK
<1> QED
  BY <1>0, <1>1, <1>2, <1>3, <1>4, <1>5, <1>6, <1>7, <1>8, <1>9, <1>10, <1>11, <1>12 DEF Next

-----------------------------------------------------------------------------
(* What every action but the two that write table peers does to the rows *)

\* No row goes.  The primary row of a peer that is not excused, nor of X, stays as it
\* is; a row that appears is the one its peers and its commands need.
RowsStep(X) ==
    /\ peers' = peers /\ excused \subseteq excused'
    /\ \A s \in Secrets :
          /\ tokens[s] # NoRow => tokens'[s] # NoRow
          /\ \A p \in Peers \ (excused' \cup X) :
                tokens[s] = NewRow(p, "primary") => tokens'[s] = tokens[s]
          /\ tokens[s] = NoRow /\ tokens'[s] # NoRow =>
                /\ \A p \in Peers \ excused' :
                      peers[p] = s => tokens'[s] = NewRow(p, "primary")
                /\ \A c \in Clis :
                      Busy(c) /\ op[c].secret = s /\ op[c].peer \notin excused' =>
                          tokens'[s] = NewRow(op[c].peer, "primary")

\* Such a change leaves the token of a peer outside X.
LEMMA HasTokenKept ==
  ASSUME TypeOK, NEW X, RowsStep(X), NEW p \in Peers \ (excused' \cup X), HasToken(p)
  PROVE  HasToken(p)'
<1>1. PICK s \in Secrets : 
           tokens[s] = NewRow(p, "primary") \/ (tokens[s] = NoRow /\ peers[p] = s)
  BY DEF HasToken
<1>2. tokens'[s] = NewRow(p, "primary") \/ (tokens'[s] = NoRow /\ peers'[p] = s)
  BY <1>1 DEF RowsStep
<1> QED
  BY <1>2 DEF HasToken, NewRow, NoRow

\* Such a change gives a token without a row to no second peer.
LEMMA OwnersKept ==
  ASSUME TypeOK, OneOwner, NEW X, RowsStep(X)
  PROVE  OneOwner'
<1> SUFFICES ASSUME NEW p \in Peers, NEW q \in Peers, p # q, peers'[p] = peers'[q],
                    peers'[p] # NoSecret, tokens'[peers'[p]] = NoRow
             PROVE  p \in excused'
  BY DEF OneOwner
<1>1. peers[p] \in Secrets
  BY DEF RowsStep, TypeOK
<1> QED
  BY <1>1 DEF RowsStep, OneOwner

\* A command that does not move stays as far as it is.
LEMMA CommandKept ==
  ASSUME TypeOK, TokenInv, NEW X, RowsStep(X), NEW d \in Clis, Busy(d), op'[d] = op[d],
         op[d].peer \in X => op[d].peer \in excused'
  PROVE  Brings(d)' /\ (op'[d].peer \notin excused' => Progress(d)') /\ Written(d)'
<1> DEFINE p == op[d].peer
           s == op[d].secret
<1>0. p \in Peers /\ s \in Secrets
  BY OpFields DEF Busy
<1>1. Brings(d)'
  BY <1>0 DEF Brings, RowsStep, TokenInv, BringsToOne
<1>2. Written(d)'
  BY <1>0 DEF Written, RowsStep, TokenInv, Rotated
<1>3. ASSUME p \notin excused' PROVE Progress(d)'
  <2>1. p \notin excused /\ p \notin X
    BY <1>3 DEF RowsStep
  <2>2. Progress(d)
    BY <2>1 DEF TokenInv, InProgress
  <2>3. op[d].step = 1 => peers'[p] = NoSecret \/ HasToken(p)'
    BY <1>0, <1>3, <2>1, <2>2, HasTokenKept DEF Progress, RowsStep
  <2>4. tokens[s] = NewRow(p, "primary") => tokens'[s] = NewRow(p, "primary")
    BY <1>0, <1>3, <2>1 DEF RowsStep
  <2>5. tokens[s] = NoRow => tokens'[s] \in {NoRow, NewRow(p, "primary")}
    BY <1>0, <1>3 DEF RowsStep
  <2>6. op'[d].peer = p /\ op'[d].secret = s /\ peers' = peers
    BY DEF RowsStep
  <2>7. op'[d].cmd = "add" =>
          /\ tokens'[op'[d].secret] \in {NoRow, NewRow(op'[d].peer, "primary")}
          /\ op'[d].step # 1 => peers'[op'[d].peer] = op'[d].secret
    BY <2>2, <2>4, <2>5, <2>6 DEF Progress
  <2>8. op'[d].step = 3 => tokens'[op'[d].secret] = NewRow(op'[d].peer, "primary")
    BY <2>2, <2>4, <2>6 DEF Progress
  <2>9. op'[d].step = 1 => peers'[op'[d].peer] = NoSecret \/ HasToken(op[d].peer)'
    BY <2>3, <2>6
  <2> QED
    BY <2>7, <2>8, <2>9, op'[d] = op[d] DEF Progress, NewRow, NoRow, HasToken
<1> QED
  BY <1>1, <1>2, <1>3

\* Commands that go on, or end, are excused as they were.
LEMMA PairsKept ==
  ASSUME PairsExcused, excused \subseteq excused',
         \A d \in Clis : op'[d] # NoOp => /\ op[d] # NoOp
                                          /\ op'[d].peer = op[d].peer
                                          /\ op'[d].secret = op[d].secret
  PROVE  PairsExcused'
BY DEF PairsExcused, Busy

\* A peer that no command is about keeps its token.
LEMMA IdlePeerKept ==
  ASSUME TypeOK, TokenInv, NEW X, RowsStep(X), NEW p \in Peers \ (excused' \cup X),
         peers'[p] # NoSecret, \A c \in Clis : op[c] # NoOp => op[c].peer # p
  PROVE  HasToken(p)'
<1>1. HasToken(p)
  BY DEF TokenInv, NotLockedOut, RowsStep
<1> QED
  BY <1>1, HasTokenKept

\* A command goes on to its next step and no other command moves.
LEMMA AdvanceFields ==
  ASSUME TypeOK, NEW c \in Clis, op[c] # NoOp, Advance(c)
  PROVE  /\ op'[c] # NoOp /\ op'[c].step = op[c].step + 1 /\ op'[c].cmd = op[c].cmd
         /\ op'[c].peer = op[c].peer /\ op'[c].secret = op[c].secret
         /\ \A d \in Clis \ {c} : op'[d] = op[d]
<1>1. op'[c] = [op[c] EXCEPT !.step = @ + 1] /\ \A d \in Clis \ {c} : op'[d] = op[d]
  BY DEF Advance, TypeOK
<1>2. op'[c].cmd \in {"add", "rotate"}
  BY <1>1, OpFields DEF Ops
<1>3. op'[c] # NoOp
  BY <1>2 DEF NoOp
<1> QED
  BY <1>1, <1>3, OpFields DEF Ops

\* A command ends and no other command moves.
LEMMA FinishFields ==
  ASSUME TypeOK, NEW c \in Clis, Finish(c)
  PROVE  op'[c] = NoOp /\ \A d \in Clis \ {c} : op'[d] = op[d]
BY DEF Finish, TypeOK

\* Only the command of c moves, or none does, and it brings its own progress: what is
\* left is the peer it may have left.
LEMMA OneCommandMoves ==
  ASSUME TypeOK, TokenInv, NEW c \in Clis, op[c] # NoOp, NEW o \in Peers, o = op[c].peer,
         NEW X \in SUBSET {o}, RowsStep(X),
         \A d \in Clis \ {c} : op'[d] = op[d],
         op'[c] # NoOp => /\ op'[c].peer = op[c].peer /\ op'[c].secret = op[c].secret
                          /\ op'[c].peer \notin excused' => Progress(c)'
                          /\ Written(c)',
         op'[c] = NoOp /\ o \notin excused' => peers'[o] = NoSecret \/ HasToken(o)'
  PROVE  TokenInv'
<1>0. op[c].peer \in Peers /\ op[c].secret \in Secrets
  BY OpFields
<1>1. PairsExcused'
  BY PairsKept DEF TokenInv, RowsStep
<1>2. OneOwner'
  BY OwnersKept DEF TokenInv
<1>3. ASSUME NEW d \in Clis \ {c}, Busy(d)
      PROVE  Brings(d)' /\ (op'[d].peer \notin excused' => Progress(d)') /\ Written(d)'
  <2>1. op[d].peer \in X => op[d].peer \in excused'
    BY <1>3 DEF TokenInv, PairsExcused, Busy, RowsStep
  <2> QED
    BY <1>3, <2>1, CommandKept
<1>4. op'[c] # NoOp => Brings(c)'
  BY <1>0 DEF Brings, RowsStep, TokenInv, BringsToOne, Busy
<1>5. BringsToOne' /\ InProgress' /\ Rotated'
  BY <1>3, <1>4 DEF BringsToOne, InProgress, Rotated, Busy
<1>6. ASSUME NEW p \in Peers, peers'[p] # NoSecret, p \notin excused',
             \A d \in Clis : op'[d] # NoOp => op'[d].peer # p
      PROVE  HasToken(p)'
  <2>1. CASE p = o
    <3>1. op'[c] = NoOp
      BY <1>6, <2>1
    <3> QED
      BY <1>6, <2>1, <3>1
  <2>2. CASE p # o
    BY <1>6, <2>2, IdlePeerKept
  <2> QED
    BY <2>1, <2>2
<1>7. NotLockedOut'
  BY <1>6 DEF NotLockedOut
<1> QED
  BY <1>1, <1>2, <1>5, <1>7 DEF TokenInv

-----------------------------------------------------------------------------
(* Opening the store *)

\* What opening the store does to a token, where commands run next to it.
LEMMA MigrationRows ==
  ASSUME TypeOK, TokenInv, peers' = peers, excused \subseteq excused', NEW s \in Secrets
  PROVE  /\ tokens[s] # NoRow => Migrated[s] = tokens[s]
         /\ tokens[s] = NoRow /\ Migrated[s] # NoRow =>
               /\ \A p \in Peers \ excused' : peers[p] = s => Migrated[s] = NewRow(p, "primary")
               /\ \A c \in Clis : Busy(c) /\ op[c].secret = s /\ op[c].peer \notin excused' =>
                      Migrated[s] = NewRow(op[c].peer, "primary")
<1>1. tokens[s] # NoRow => Migrated[s] = tokens[s]
  BY MigratedRows
<1>2. ASSUME tokens[s] = NoRow, Migrated[s] # NoRow
      PROVE  /\ \A p \in Peers \ excused' : peers[p] = s => Migrated[s] = NewRow(p, "primary")
             /\ \A c \in Clis : Busy(c) /\ op[c].secret = s /\ op[c].peer \notin excused' =>
                      Migrated[s] = NewRow(op[c].peer, "primary")
  <2>1. PICK q \in Peers : peers[q] = s /\ Migrated[s] = NewRow(q, "primary")
    BY <1>2, MigratedRows
  <2>2. \A p \in Peers \ excused' : peers[p] = s => p = q
    BY <1>2, <2>1, TokensAssumption DEF TokenInv, OneOwner
  <2>3. \A c \in Clis : Busy(c) /\ op[c].secret = s /\ op[c].peer \notin excused' => op[c].peer = q
    BY <1>2, <2>1 DEF TokenInv, BringsToOne, Brings
  <2> QED
    BY <2>1, <2>2, <2>3
<1> QED
  BY <1>1, <1>2

\* Opening the store is such a change.
LEMMA OpenRows ==
  ASSUME TypeOK, TokenInv, tokens' = Migrated, peers' = peers, excused \subseteq excused'
  PROVE  RowsStep({})
<1>1. ASSUME NEW s \in Secrets
      PROVE  /\ tokens[s] # NoRow => tokens'[s] = tokens[s]
             /\ tokens[s] = NoRow /\ tokens'[s] # NoRow =>
                  /\ \A p \in Peers \ excused' : peers[p] = s => tokens'[s] = NewRow(p, "primary")
                  /\ \A c \in Clis : Busy(c) /\ op[c].secret = s /\ op[c].peer \notin excused' =>
                         tokens'[s] = NewRow(op[c].peer, "primary")
  BY MigrationRows
<1> QED
  BY <1>1, NewRowOK DEF RowsStep

-----------------------------------------------------------------------------
(* The steps *)

\* A command that begins excuses the peers it runs next to.
LEMMA BeginStep ==
  ASSUME TypeOK, TypeOK', TokenInv, NEW c \in Clis, NEW cmd \in {"add", "rotate"},
         NEW p \in Peers, NEW s \in Secrets, Begin(c, cmd, p, s)
  PROVE  TokenInv'
<1>0. RowsStep({})
  BY OpenRows DEF Begin
<1>1. /\ op[c] = NoOp /\ op'[c].cmd = cmd /\ op'[c].step = 1 /\ op'[c].peer = p
      /\ op'[c].secret = s /\ \A d \in Clis \ {c} : op'[d] = op[d]
  BY DEF Begin, TypeOK
<1>2. op'[c] # NoOp
  BY <1>1 DEF NoOp
<1>3. ASSUME NEW d \in Clis \ {c}, Busy(d), op[d].peer = p \/ op[d].secret = s
      PROVE  p \in excused' /\ op[d].peer \in excused'
  <2>1. op[d].peer \in Clashing(c, p, s)
    BY <1>3 DEF Clashing, Busy
  <2> QED
    BY <2>1 DEF Begin, Excuses
<1>4. PairsExcused'
  BY <1>0, <1>1, <1>3 DEF TokenInv, PairsExcused, Busy, RowsStep
<1>5. OneOwner'
  BY <1>0, OwnersKept DEF TokenInv
<1>6. ASSUME NEW d \in Clis \ {c}, Busy(d)
      PROVE  Brings(d)' /\ (op'[d].peer \notin excused' => Progress(d)') /\ Written(d)'
  BY <1>0, <1>1, <1>6, CommandKept
<1>7. Written(c)'
  BY <1>1 DEF Written
<1>8. tokens'[s] = NoRow => \A q \in Peers : peers'[q] # s
  BY MigratedRows, NewRowOK DEF Begin
<1>9. Brings(c)'
  BY <1>1, <1>8 DEF Brings
<1>10. ASSUME NEW q \in Peers, peers'[q] # NoSecret, q \notin excused',
              \A d \in Clis \ {c} : op'[d] # NoOp => op'[d].peer # q
       PROVE  HasToken(q)'
  BY <1>0, <1>1, <1>10, IdlePeerKept
<1>11. NotLockedOut'
  BY <1>10 DEF NotLockedOut
<1>12. ASSUME p \notin excused' PROVE Progress(c)'
  <2>1. peers'[p] = NoSecret \/ HasToken(p)'
    BY <1>1, <1>3, <1>10, <1>12 DEF Busy
  <2>2. cmd = "add" => tokens'[s] \in {NoRow, NewRow(p, "primary")}
    BY <1>12 DEF Begin, Excuses
  <2>3. /\ op'[c].cmd = "add" =>
             tokens'[op'[c].secret] \in {NoRow, NewRow(op'[c].peer, "primary")}
        /\ op'[c].step # 3 /\ op'[c].step = 1
    BY <1>1, <2>2
  <2> QED
    BY <1>1, <2>1, <2>3 DEF Progress, HasToken, NewRow, NoRow
<1>13. BringsToOne' /\ InProgress' /\ Rotated'
  BY <1>1, <1>6, <1>7, <1>9, <1>12 DEF BringsToOne, InProgress, Rotated, Busy
<1> QED
  BY <1>4, <1>5, <1>11, <1>13 DEF TokenInv

\* peer-add writes the token.
LEMMA AddPeerTokenStep ==
  ASSUME TypeOK, TypeOK', TokenInv, NEW c \in Clis, AddPeerToken(c)
  PROVE  TokenInv'
<1> DEFINE s == op[c].secret
<1>0. op[c] # NoOp /\ op[c].cmd = "add" /\ op[c].step = 2 /\ s \in Secrets
  BY OpFields DEF AddPeerToken, Running
<1>1. PICK p \in Peers : p = op[c].peer
  BY <1>0, OpFields
<1>2. /\ op'[c] # NoOp /\ op'[c].step = 3 /\ op'[c].cmd = "add" /\ op'[c].peer = p
      /\ op'[c].secret = s /\ \A d \in Clis \ {c} : op'[d] = op[d]
  BY <1>0, <1>1, AdvanceFields DEF AddPeerToken
<1>3. \A r \in Secrets : tokens'[r] = IF r = s /\ tokens[s] = NoRow THEN NewRow(p, "primary")
                                                                   ELSE tokens[r]
  BY <1>0, <1>1 DEF AddPeerToken, TypeOK
<1>4. /\ \A q \in Peers \ excused : tokens[s] = NoRow /\ peers[q] = s => q = p
      /\ \A d \in Clis : Busy(d) /\ op[d].secret = s /\ op[d].peer \notin excused => op[d].peer = p
  <2>1. \A q \in Peers \ excused : tokens[s] = NoRow /\ peers[q] = s => q = p
    BY <1>0, <1>1 DEF TokenInv, BringsToOne, Brings, Busy
  <2>2. \A d \in Clis : Busy(d) /\ op[d].secret = s /\ op[d].peer \notin excused => op[d].peer = p
    BY <1>0, <1>1 DEF TokenInv, PairsExcused, Busy
  <2> QED
    BY <2>1, <2>2
<1>5. peers' = peers /\ excused' = excused
  BY DEF AddPeerToken
<1>6. RowsStep({})
  BY <1>3, <1>4, <1>5, NewRowOK DEF RowsStep
<1>7. ASSUME p \notin excused' PROVE Progress(c)'
  <2>1. Progress(c)
    BY <1>0, <1>1, <1>5, <1>7 DEF TokenInv, InProgress, Busy
  <2>2. tokens'[s] = NewRow(p, "primary") /\ peers'[p] = s
    BY <1>0, <1>1, <1>3, <1>5, <2>1 DEF Progress
  <2> QED
    BY <1>2, <2>2 DEF Progress, NewRow
<1>8. Written(c)'
  BY <1>2 DEF Written
<1> QED
  BY <1>0, <1>1, <1>2, <1>6, <1>7, <1>8, OneCommandMoves

\* peer-add revokes the peer's other primary tokens.
LEMMA AddPeerRevokesStep ==
  ASSUME TypeOK, TypeOK', TokenInv, NEW c \in Clis, AddPeerRevokes(c)
  PROVE  TokenInv'
<1> DEFINE s == op[c].secret
<1>0. op[c] # NoOp /\ op[c].cmd = "add" /\ op[c].step = 3 /\ s \in Secrets
  BY OpFields DEF AddPeerRevokes, Running
<1>1. PICK p \in Peers : p = op[c].peer
  BY <1>0, OpFields
<1>2. op'[c] = NoOp /\ \A d \in Clis \ {c} : op'[d] = op[d]
  BY FinishFields DEF AddPeerRevokes
<1>3. tokens'[s] = tokens[s]
  BY <1>0 DEF AddPeerRevokes
<1>4. \A r \in Secrets : tokens[r] = NoRow => tokens'[r] = NoRow
  BY DEF AddPeerRevokes, PrimaryOf
<1>5. \A r \in Secrets : tokens[r] # NoRow => tokens'[r] # NoRow
  <2>1. \A r \in Secrets : tokens[r] # NoRow => [tokens[r] EXCEPT !.revoked = "yes"] \in Row
    BY DEF TypeOK, Row
  <2> QED
    BY <2>1, NoRowNotRow DEF AddPeerRevokes
<1>6. \A r \in Secrets, q \in Peers \ {p} :
         tokens[r] = NewRow(q, "primary") => tokens'[r] = tokens[r]
  BY <1>1, NewRowOK DEF AddPeerRevokes, PrimaryOf
<1>7. peers' = peers /\ excused' = excused
  BY DEF AddPeerRevokes
<1>8. RowsStep({p})
  BY <1>4, <1>5, <1>6, <1>7 DEF RowsStep
<1>9. ASSUME p \notin excused' PROVE HasToken(p)'
  <2>1. Progress(c)
    BY <1>0, <1>1, <1>7, <1>9 DEF TokenInv, InProgress, Busy
  <2>2. tokens'[s] = NewRow(p, "primary")
    BY <1>0, <1>1, <1>3, <2>1 DEF Progress
  <2> QED
    BY <1>0, <2>2 DEF HasToken, NewRow
<1> QED
  BY <1>0, <1>1, <1>2, <1>8, <1>9, OneCommandMoves

\* peer-rotate gives the old tokens their grace.
LEMMA RotateGraceStep ==
  ASSUME TypeOK, TypeOK', TokenInv, NEW c \in Clis, RotateGrace(c)
  PROVE  TokenInv'
<1>0. op[c] # NoOp /\ op[c].cmd = "rotate" /\ op[c].step = 1 /\ op[c].until \in Nat
  BY OpFields DEF RotateGrace, Running
<1>1. PICK p \in Peers : p = op[c].peer
  BY <1>0, OpFields
<1>2. /\ op'[c] # NoOp /\ op'[c].step = 2 /\ op'[c].cmd = "rotate" /\ op'[c].peer = p
      /\ op'[c].secret = op[c].secret /\ \A d \in Clis \ {c} : op'[d] = op[d]
  BY <1>0, <1>1, AdvanceFields DEF RotateGrace
<1>4. \A r \in Secrets : tokens[r] = NoRow => tokens'[r] = NoRow
  BY DEF RotateGrace, PrimaryOf
<1>5. \A r \in Secrets : tokens[r] # NoRow => tokens'[r] # NoRow
  <2>1. \A r \in Secrets : tokens[r] # NoRow => [tokens[r] EXCEPT !.grace = op[c].until] \in Row
    BY <1>0 DEF TypeOK, Row
  <2> QED
    BY <2>1, NoRowNotRow DEF RotateGrace
<1>6. \A r \in Secrets, q \in Peers \ {p} :
         tokens[r] = NewRow(q, "primary") => tokens'[r] = tokens[r]
  BY <1>1, NewRowOK DEF RotateGrace, PrimaryOf
<1>7. peers' = peers /\ excused' = excused
  BY DEF RotateGrace
<1>8. RowsStep({p})
  BY <1>4, <1>5, <1>6, <1>7 DEF RowsStep
<1>9. Progress(c)' /\ Written(c)'
  BY <1>2 DEF Progress, Written
<1> QED
  BY <1>0, <1>1, <1>2, <1>8, <1>9, OneCommandMoves

\* peer-rotate writes the new token.
LEMMA RotateInsertStep ==
  ASSUME TypeOK, TypeOK', TokenInv, NEW c \in Clis, RotateInsert(c)
  PROVE  TokenInv'
<1> DEFINE s == op[c].secret
<1>0. op[c] # NoOp /\ op[c].cmd = "rotate" /\ op[c].step = 2 /\ s \in Secrets
  BY OpFields DEF RotateInsert, Running
<1>1. PICK p \in Peers : p = op[c].peer
  BY <1>0, OpFields
<1>2. peers' = peers
  BY DEF RotateInsert
<1>3. CASE tokens[s] = NoRow /\ peers[p] # NoSecret
  <2>1. /\ tokens' = [tokens EXCEPT ![s] = NewRow(p, "primary")]
        /\ Advance(c) /\ excused' = excused
    BY <1>1, <1>3 DEF RotateInsert
  <2>2. /\ op'[c] # NoOp /\ op'[c].step = 3 /\ op'[c].cmd = "rotate" /\ op'[c].peer = p
        /\ op'[c].secret = s /\ \A d \in Clis \ {c} : op'[d] = op[d]
    BY <1>0, <1>1, <2>1, AdvanceFields
  <2>3. \A r \in Secrets : tokens'[r] = IF r = s THEN NewRow(p, "primary") ELSE tokens[r]
    BY <1>0, <2>1 DEF TypeOK
  <2>4. \A q \in Peers \ excused : peers[q] = s => q = p
    BY <1>0, <1>1, <1>3 DEF TokenInv, BringsToOne, Brings, Busy
  <2>5. \A d \in Clis : Busy(d) /\ op[d].secret = s /\ op[d].peer \notin excused => op[d].peer = p
    BY <1>0, <1>1 DEF TokenInv, PairsExcused, Busy
  <2>6. RowsStep({})
    BY <1>2, <1>3, <2>1, <2>3, <2>4, <2>5, NewRowOK DEF RowsStep
  <2>7. tokens'[s] = NewRow(p, "primary") /\ tokens'[s] # NoRow
    BY <1>0, <2>3, NewRowOK
  <2>8. Progress(c)' /\ Written(c)'
    BY <2>2, <2>7 DEF Progress, Written, NewRow, NoRow
  <2> QED
    BY <1>0, <1>1, <2>2, <2>6, <2>8, OneCommandMoves
<1>4. CASE ~(tokens[s] = NoRow /\ peers[p] # NoSecret)
  <2>1. tokens' = tokens /\ Finish(c) /\ excused' = excused \cup {p}
    BY <1>1, <1>4 DEF RotateInsert
  <2>2. op'[c] = NoOp /\ \A d \in Clis \ {c} : op'[d] = op[d]
    BY <2>1, FinishFields
  <2>3. RowsStep({})
    BY <1>2, <2>1 DEF RowsStep
  <2> QED
    BY <1>0, <1>1, <2>1, <2>2, <2>3, OneCommandMoves
<1> QED
  BY <1>3, <1>4

\* A command dies where it is.
LEMMA CliCrashStep ==
  ASSUME TypeOK, TypeOK', TokenInv, NEW c \in Clis, CliCrash(c)
  PROVE  TokenInv'
<1> DEFINE s == op[c].secret
<1>0. op[c] # NoOp /\ s \in Secrets
  BY OpFields DEF CliCrash
<1>1. PICK p \in Peers : p = op[c].peer
  BY <1>0, OpFields
<1>2. op'[c] = NoOp /\ \A d \in Clis \ {c} : op'[d] = op[d]
  BY FinishFields DEF CliCrash
<1>3. peers' = peers /\ tokens' = tokens /\ excused \subseteq excused'
  BY DEF CliCrash
<1>4. RowsStep({})
  BY <1>3 DEF RowsStep
<1>5. ASSUME p \notin excused' PROVE peers'[p] = NoSecret \/ HasToken(p)'
  <2>1. p \notin excused /\ ~Running(c, "rotate", 2)
    BY <1>1, <1>5 DEF CliCrash
  <2>2. Progress(c)
    BY <1>0, <1>1, <2>1 DEF TokenInv, InProgress, Busy
  <2>3. CASE op[c].step = 1
    <3>1. peers[p] = NoSecret \/ HasToken(p)
      BY <1>1, <2>2, <2>3 DEF Progress
    <3> QED
      BY <1>3, <1>4, <1>5, <3>1, HasTokenKept
  <2>4. CASE op[c].step # 1
    <3>1. \/ tokens[s] = NewRow(p, "primary")
          \/ tokens[s] = NoRow /\ peers[p] = s
      BY <1>0, <1>1, <2>1, <2>2, <2>4, OpFields DEF Progress, Running
    <3>2. HasToken(p)
      BY <1>0, <3>1 DEF HasToken
    <3> QED
      BY <1>4, <1>5, <3>2, HasTokenKept
  <2> QED
    BY <2>3, <2>4
<1> QED
  BY <1>0, <1>1, <1>2, <1>4, <1>5, OneCommandMoves

\* No command moves: what is left is that the rows do what RowsStep says.
LEMMA NoCommandMoves ==
  ASSUME TypeOK, TokenInv, RowsStep({}), op' = op
  PROVE  TokenInv'
<1>1. PairsExcused'
  BY PairsKept DEF TokenInv, RowsStep
<1>2. OneOwner'
  BY OwnersKept DEF TokenInv
<1>3. ASSUME NEW d \in Clis, Busy(d)
      PROVE  Brings(d)' /\ (op'[d].peer \notin excused' => Progress(d)') /\ Written(d)'
  BY <1>3, CommandKept
<1>4. BringsToOne' /\ InProgress' /\ Rotated'
  BY <1>3 DEF BringsToOne, InProgress, Rotated, Busy
<1>5. ASSUME NEW p \in Peers, peers'[p] # NoSecret, p \notin excused',
             \A d \in Clis : op'[d] # NoOp => op'[d].peer # p
      PROVE  HasToken(p)'
  BY <1>5, IdlePeerKept
<1>6. NotLockedOut'
  BY <1>5 DEF NotLockedOut
<1> QED
  BY <1>1, <1>2, <1>4, <1>6 DEF TokenInv

\* device-token add changes only the row of its own token.
LEMMA AddDeviceRows ==
  ASSUME TypeOK, TokenInv, NEW p \in Peers, NEW s \in Secrets, AddDevice(p, s)
  PROVE  RowsStep({})
<1>1. peers' = peers /\ excused \subseteq excused' /\ op' = op
  BY DEF AddDevice
<1>2. \A r \in Secrets \ {s} : tokens'[r] = Migrated[r]
  BY MigratedRows DEF AddDevice
<1>3. tokens'[s] = NewRow(p, "device") /\ tokens[s] = NoRow /\ \A q \in Peers : peers[q] # s
  BY MigratedRows, NewRowOK DEF AddDevice
<1>4. \A c \in Clis : Busy(c) /\ op[c].secret = s => op[c].peer \in excused'
  BY DEF AddDevice, Busy
<1>5. ASSUME NEW r \in Secrets
      PROVE  /\ tokens[r] # NoRow => tokens'[r] = tokens[r]
             /\ tokens[r] = NoRow /\ tokens'[r] # NoRow =>
                  /\ \A q \in Peers \ excused' : peers[q] = r => tokens'[r] = NewRow(q, "primary")
                  /\ \A c \in Clis : Busy(c) /\ op[c].secret = r /\ op[c].peer \notin excused' =>
                         tokens'[r] = NewRow(op[c].peer, "primary")
  <2>1. CASE r = s
    BY <1>3, <1>4, <2>1
  <2>2. CASE r # s
    <3>1. tokens'[r] = Migrated[r]
      BY <1>2, <2>2
    <3> QED
      BY <1>1, <3>1, MigrationRows
  <2> QED
    BY <2>1, <2>2
<1> QED
  BY <1>1, <1>5, NewRowOK DEF RowsStep

\* device-token revoke changes only the row of its own token.
LEMMA RevokeDeviceRows ==
  ASSUME TypeOK, TokenInv, NEW s \in Secrets, RevokeDevice(s)
  PROVE  RowsStep({})
<1>1. peers' = peers /\ excused \subseteq excused' /\ op' = op
  BY DEF RevokeDevice
<1>2. \A r \in Secrets \ {s} : tokens'[r] = Migrated[r]
  BY MigratedRows DEF RevokeDevice
<1>3. Migrated[s] \in Row /\ tokens'[s] = [Migrated[s] EXCEPT !.revoked = "yes"]
  BY MigratedRows DEF RevokeDevice
<1>4. tokens'[s] \in Row /\ tokens'[s] # NoRow
  BY <1>3, NoRowNotRow DEF Row
<1>5. \A q \in Peers : Migrated[s] = NewRow(q, "primary") => q \in excused'
  BY NewRowOK DEF RevokeDevice
<1>6. ASSUME NEW r \in Secrets
      PROVE  /\ tokens[r] # NoRow => tokens'[r] # NoRow
             /\ \A q \in Peers \ excused' :
                  tokens[r] = NewRow(q, "primary") => tokens'[r] = tokens[r]
             /\ tokens[r] = NoRow /\ tokens'[r] # NoRow =>
                  /\ \A q \in Peers \ excused' : peers[q] = r => tokens'[r] = NewRow(q, "primary")
                  /\ \A c \in Clis : Busy(c) /\ op[c].secret = r /\ op[c].peer \notin excused' =>
                         tokens'[r] = NewRow(op[c].peer, "primary")
  <2>1. CASE r = s
    <3>1. /\ tokens[s] # NoRow => Migrated[s] = tokens[s]
          /\ tokens[s] = NoRow =>
               /\ \A q \in Peers \ excused' : peers[q] = s => Migrated[s] = NewRow(q, "primary")
               /\ \A c \in Clis : Busy(c) /\ op[c].secret = s /\ op[c].peer \notin excused' =>
                      Migrated[s] = NewRow(op[c].peer, "primary")
      BY <1>1, <1>3, NoRowNotRow, MigrationRows
    <3>2. \A c \in Clis : Busy(c) => op[c].peer \in Peers
      BY OpFields DEF Busy
    <3>3. /\ \A q \in Peers \ excused' : tokens[s] # NewRow(q, "primary")
      BY <1>5, <3>1, NewRowOK
    <3>4. tokens[s] = NoRow => /\ \A q \in Peers \ excused' : peers[q] # s
                               /\ \A c \in Clis : Busy(c) /\ op[c].secret = s =>
                                     op[c].peer \in excused'
      BY <1>5, <3>1, <3>2
    <3> QED
      BY <1>4, <2>1, <3>3, <3>4
  <2>2. CASE r # s
    <3>1. tokens'[r] = Migrated[r]
      BY <1>2, <2>2
    <3>2. /\ tokens[r] # NoRow => Migrated[r] = tokens[r]
          /\ tokens[r] = NoRow /\ Migrated[r] # NoRow =>
               /\ \A q \in Peers \ excused' : peers[q] = r => Migrated[r] = NewRow(q, "primary")
               /\ \A c \in Clis : Busy(c) /\ op[c].secret = r /\ op[c].peer \notin excused' =>
                      Migrated[r] = NewRow(op[c].peer, "primary")
      BY <1>1, MigrationRows
    <3> QED
      BY <3>1, <3>2, NewRowOK
  <2> QED
    BY <2>1, <2>2
<1> QED
  BY <1>1, <1>6 DEF RowsStep

-----------------------------------------------------------------------------
(* The two actions that write table peers *)

\* c writes the peers row of its peer p: another peer with the same token in it is
\* excused, or the token has its row.
LEMMA PeersRowStep ==
  ASSUME TypeOK, TokenInv, NEW c \in Clis, op[c] # NoOp, NEW p \in Peers, p = op[c].peer,
         peers' = [peers EXCEPT ![p] = op[c].secret], tokens' = tokens, excused' = excused,
         \A d \in Clis \ {c} : op'[d] = op[d],
         op'[c] # NoOp => /\ op'[c].peer = op[c].peer /\ op'[c].secret = op[c].secret
                          /\ op'[c].peer \notin excused' => Progress(c)'
                          /\ Written(c)',
         op'[c] = NoOp /\ p \notin excused' => HasToken(p)'
  PROVE  TokenInv'
<1> DEFINE s == op[c].secret
<1>0. s \in Secrets /\ s # NoSecret
  BY OpFields
<1>1. peers'[p] = s /\ \A q \in Peers \ {p} : peers'[q] = peers[q]
  BY DEF TypeOK
<1>2. PairsExcused'
  BY PairsKept DEF TokenInv
<1>3. \A q \in Peers \ {p} : tokens[s] = NoRow /\ peers[q] = s => {p, q} \subseteq excused
  BY DEF TokenInv, BringsToOne, Brings, Busy
<1>4. OneOwner'
  BY <1>1, <1>3 DEF TokenInv, OneOwner
<1>5. \A q \in Peers \ {p} : HasToken(q) => HasToken(q)'
  BY <1>1 DEF HasToken, NewRow, NoRow
<1>6. ASSUME NEW d \in Clis \ {c}, Busy(d)
      PROVE  Brings(d)' /\ (op'[d].peer \notin excused' => Progress(d)') /\ Written(d)'
  <2>1. op[d].peer = p \/ op[d].secret = s => {p, op[d].peer} \subseteq excused
    BY <1>6 DEF TokenInv, PairsExcused, Busy
  <2>2. Brings(d)'
    BY <1>1, <1>6, <2>1 DEF Brings, TokenInv, BringsToOne
  <2>3. Written(d)'
    BY <1>6 DEF Written, TokenInv, Rotated
  <2>4. ASSUME op[d].peer \notin excused PROVE Progress(d)'
    <3>1. PICK q \in Peers \ {p} : q = op[d].peer
      BY <1>6, <2>1, <2>4, OpFields DEF Busy
    <3>2. Progress(d)
      BY <1>6, <2>4 DEF TokenInv, InProgress
    <3>3. op[d].step = 1 => peers'[q] = NoSecret \/ HasToken(q)'
      BY <1>1, <1>5, <3>1, <3>2 DEF Progress
    <3>4. /\ op[d].cmd = "add" =>
               /\ tokens'[op[d].secret] \in {NoRow, NewRow(q, "primary")}
               /\ op[d].step # 1 => peers'[q] = op[d].secret
          /\ op[d].step = 3 => tokens'[op[d].secret] = NewRow(q, "primary")
      BY <1>1, <3>1, <3>2 DEF Progress
    <3> QED
      BY <3>1, <3>3, <3>4, op'[d] = op[d] DEF Progress, HasToken, NewRow, NoRow
  <2> QED
    BY <2>2, <2>3, <2>4
<1>7. op'[c] # NoOp => Brings(c)'
  BY <1>1 DEF Brings, TokenInv, BringsToOne, Busy
<1>8. BringsToOne' /\ InProgress' /\ Rotated'
  BY <1>6, <1>7 DEF BringsToOne, InProgress, Rotated, Busy
<1>9. ASSUME NEW q \in Peers, peers'[q] # NoSecret, q \notin excused',
             \A d \in Clis : op'[d] # NoOp => op'[d].peer # q
      PROVE  HasToken(q)'
  <2>1. CASE q = p
    BY <1>9, <2>1
  <2>2. CASE q # p
    <3>1. HasToken(q)
      BY <1>1, <1>9, <2>2 DEF TokenInv, NotLockedOut
    <3> QED
      BY <1>5, <2>2, <3>1
  <2> QED
    BY <2>1, <2>2
<1>10. NotLockedOut'
  BY <1>9 DEF NotLockedOut
<1> QED
  BY <1>2, <1>4, <1>8, <1>10 DEF TokenInv

\* peer-add writes the peers row.
LEMMA AddPeerRowStep ==
  ASSUME TypeOK, TypeOK', TokenInv, NEW c \in Clis, AddPeerRow(c)
  PROVE  TokenInv'
<1> DEFINE s == op[c].secret
<1>0. op[c] # NoOp /\ op[c].cmd = "add" /\ op[c].step = 1
  BY DEF AddPeerRow, Running
<1>1. PICK p \in Peers : p = op[c].peer
  BY <1>0, OpFields
<1>2. /\ op'[c] # NoOp /\ op'[c].step = 2 /\ op'[c].cmd = "add" /\ op'[c].peer = p
      /\ op'[c].secret = s /\ \A d \in Clis \ {c} : op'[d] = op[d]
  BY <1>0, <1>1, AdvanceFields DEF AddPeerRow
<1>3. peers' = [peers EXCEPT ![p] = s] /\ tokens' = tokens /\ excused' = excused
  BY <1>1 DEF AddPeerRow
<1>4. ASSUME p \notin excused PROVE Progress(c)'
  <2>1. Progress(c)
    BY <1>0, <1>1, <1>4 DEF TokenInv, InProgress, Busy
  <2>2. tokens'[s] \in {NoRow, NewRow(p, "primary")} /\ peers'[p] = s
    BY <1>0, <1>1, <1>3, <2>1 DEF Progress, TypeOK
  <2> QED
    BY <1>2, <2>2 DEF Progress, NewRow, NoRow
<1>5. Written(c)'
  BY <1>2 DEF Written
<1> QED
  BY <1>0, <1>1, <1>2, <1>3, <1>4, <1>5, PeersRowStep

\* peer-rotate writes the peers row.
LEMMA RotatePeerRowStep ==
  ASSUME TypeOK, TypeOK', TokenInv, NEW c \in Clis, RotatePeerRow(c)
  PROVE  TokenInv'
<1> DEFINE s == op[c].secret
<1>0. op[c] # NoOp /\ op[c].cmd = "rotate" /\ op[c].step = 3
  BY DEF RotatePeerRow, Running
<1>1. PICK p \in Peers : p = op[c].peer
  BY <1>0, OpFields
<1>2. op'[c] = NoOp /\ \A d \in Clis \ {c} : op'[d] = op[d]
  BY FinishFields DEF RotatePeerRow
<1>3. peers' = [peers EXCEPT ![p] = s] /\ tokens' = tokens /\ excused' = excused
  BY <1>1 DEF RotatePeerRow
<1>4. ASSUME p \notin excused PROVE HasToken(p)'
  <2>1. Progress(c)
    BY <1>0, <1>1, <1>4 DEF TokenInv, InProgress, Busy
  <2>2. tokens'[s] = NewRow(p, "primary") /\ s \in Secrets
    BY <1>0, <1>1, <1>3, <2>1, OpFields DEF Progress
  <2> QED
    BY <2>2 DEF HasToken, NewRow
<1> QED
  BY <1>0, <1>1, <1>2, <1>3, <1>4, PeersRowStep

-----------------------------------------------------------------------------
(* The theorems *)

\* Every step keeps the invariant.
LEMMA TokenInvStep == TypeOK /\ TypeOK' /\ TokenInv /\ [Next]_vars => TokenInv'
<1> SUFFICES ASSUME TypeOK, TypeOK', TokenInv, [Next]_vars PROVE TokenInv'
  OBVIOUS
<1>1. CASE UNCHANGED <<peers, tokens, op, excused>>
  BY <1>1, NoCommandMoves DEF RowsStep
<1>2. CASE Open
  BY <1>2, OpenRows, NoCommandMoves DEF Open
<1>3. ASSUME NEW p \in Peers, NEW s \in Secrets, AddDevice(p, s) PROVE TokenInv'
  BY <1>3, AddDeviceRows, NoCommandMoves DEF AddDevice
<1>4. ASSUME NEW s \in Secrets, RevokeDevice(s) PROVE TokenInv'
  BY <1>4, RevokeDeviceRows, NoCommandMoves DEF RevokeDevice
<1>5. CASE Tick
  BY <1>1, <1>5 DEF Tick
<1>6. CASE UNCHANGED vars
  BY <1>1, <1>6 DEF vars
<1> QED
  BY <1>2, <1>3, <1>4, <1>5, <1>6, BeginStep, AddPeerRowStep, AddPeerTokenStep,
     AddPeerRevokesStep, RotateGraceStep, RotateInsertStep, RotatePeerRowStep, CliCrashStep
  DEF Next

\* The tables stay typed, and commands that come one after the other leave every
\* registered peer a token, whatever the number of peers, tokens and operator processes
\* (peer-add, peer-rotate, device-token and the migration at every start), where
\* peer-add dies after any of its statements and peer-rotate after its second.  It does
\* not speak of a peer-rotate that stops after its first statement, dead or refused:
\* that one does cut its peer off when the grace is over.
THEOREM TokensCorrect == Spec => []TokensSound
<1>1. Init => TypeOK
  BY TokensAssumption DEF Init, TypeOK
<1>2. Init => TokenInv
  BY DEF Init, TokenInv, PairsExcused, OneOwner, BringsToOne, InProgress, Rotated,
         NotLockedOut, Busy
<1>3. TypeOK /\ TokenInv /\ [Next]_vars => TypeOK' /\ TokenInv'
  BY TokenTypeStep, TokenInvStep
<1>4. TypeOK /\ TokenInv => TokensSound
  BY DEF TokensSound, TokenInv
<1> QED
  BY <1>1, <1>2, <1>3, <1>4, PTL DEF Spec

\* The tables are typed in every behaviour.
LEMMA TokensTyped == Spec => []TypeOK
<1>1. TokensSound => TypeOK
  BY DEF TokensSound
<1> QED
  BY <1>1, TokensCorrect, PTL

\* What a step does to a row that exists.
LEMMA OldRowSteps ==
  ASSUME TypeOK, [Next]_vars, NEW s \in Secrets, tokens[s] # NoRow
  PROVE  \/ tokens'[s] = tokens[s]
         \/ \E c \in Clis : /\ RotateGrace(c) /\ PrimaryOf(op[c].peer, s)
                            /\ GraceUpdate(op[c], s)
         \/ /\ tokens'[s] = [tokens[s] EXCEPT !.revoked = "yes"]
            /\ \/ tokens[s].line = "primary"
               \/ \A r \in Secrets \ {s} : tokens[r] # NoRow => tokens'[r] = tokens[r]
<1>0. \A r \in Secrets : tokens[r] # NoRow => Migrated[r] = tokens[r]
  BY MigratedRows
<1>1. ASSUME NEW c \in Clis, AddPeerToken(c) \/ RotateInsert(c) PROVE tokens'[s] = tokens[s]
  BY <1>1, OpFields DEF AddPeerToken, RotateInsert, Running, TypeOK
<1>2. ASSUME NEW c \in Clis, AddPeerRevokes(c)
      PROVE  \/ tokens'[s] = tokens[s]
             \/ /\ tokens'[s] = [tokens[s] EXCEPT !.revoked = "yes"]
                /\ tokens[s].line = "primary"
  BY <1>2 DEF AddPeerRevokes, PrimaryOf
<1>3. ASSUME NEW c \in Clis, RotateGrace(c)
      PROVE  tokens'[s] = tokens[s] \/ (PrimaryOf(op[c].peer, s) /\ GraceUpdate(op[c], s))
  BY <1>3 DEF RotateGrace
<1>4. ASSUME NEW p \in Peers, NEW t \in Secrets, AddDevice(p, t) PROVE tokens'[s] = tokens[s]
  BY <1>0, <1>4, MigratedRows DEF AddDevice
<1>5. ASSUME NEW t \in Secrets, RevokeDevice(t)
      PROVE  \/ tokens'[s] = tokens[s]
             \/ /\ tokens'[s] = [tokens[s] EXCEPT !.revoked = "yes"]
                /\ \A r \in Secrets \ {s} : tokens[r] # NoRow => tokens'[r] = tokens[r]
  <2>1. /\ tokens'[t] = [Migrated[t] EXCEPT !.revoked = "yes"]
        /\ \A r \in Secrets \ {t} : tokens'[r] = Migrated[r]
    BY <1>5, MigratedRows DEF RevokeDevice
  <2> QED
    BY <1>0, <2>1
<1>6. ASSUME \/ \E c \in Clis, cmd \in {"add", "rotate"}, p \in Peers, t \in Secrets :
                    Begin(c, cmd, p, t)
             \/ Open
      PROVE  tokens'[s] = tokens[s]
  BY <1>0, <1>6 DEF Begin, Open
<1>7. ASSUME \/ \E c \in Clis : AddPeerRow(c) \/ RotatePeerRow(c) \/ CliCrash(c)
             \/ Tick
             \/ UNCHANGED vars
      PROVE  tokens'[s] = tokens[s]
  BY <1>7 DEF AddPeerRow, RotatePeerRow, CliCrash, Tick, vars
<1> QED
  BY <1>1, <1>2, <1>3, <1>4, <1>5, <1>6, <1>7 DEF Next

\* Time goes forward.
LEMMA ClockSteps == TypeOK /\ [Next]_vars => clock' \in Nat /\ clock <= clock'
<1> SUFFICES ASSUME TypeOK, [Next]_vars PROVE clock' \in Nat /\ clock <= clock'
  OBVIOUS
<1>1. clock' = clock \/ clock' = clock + 1
  BY DEF Next, Begin, AddPeerRow, AddPeerToken, AddPeerRevokes, RotateGrace, RotateInsert,
         RotatePeerRow, AddDevice, RevokeDevice, CliCrash, Open, Tick, vars
<1> QED
  BY <1>1 DEF TypeOK

\* A token that was revoked, or whose grace is over, is not accepted again by
\* anything the operators or the server do, unless a rotation read the clock while it
\* was valid.
THEOREM NoRevivalCorrect == Spec => NoRevival
<1>1. TypeOK /\ [Next]_vars =>
        [\A s \in Secrets :
           tokens[s] # NoRow /\ ~Accepted(s) /\ Accepted(s)' =>
              \E c \in Clis : Running(c, "rotate", 1) /\ op[c].now <= tokens[s].grace]_vars
  <2> SUFFICES ASSUME TypeOK, [Next]_vars, NEW s \in Secrets,
                      tokens[s] # NoRow, ~Accepted(s), Accepted(s)'
               PROVE  \E c \in Clis : Running(c, "rotate", 1) /\ op[c].now <= tokens[s].grace
    OBVIOUS
  <2>1. tokens[s] \in Row /\ tokens[s].grace \in Nat /\ clock \in Nat
    BY DEF TypeOK, Row
  <2>2. tokens'[s] # tokens[s]
    BY <2>1, ClockSteps DEF Accepted
  <2>3. tokens'[s] # [tokens[s] EXCEPT !.revoked = "yes"]
    BY <2>1 DEF Accepted, Row
  <2>4. PICK c \in Clis : RotateGrace(c) /\ GraceUpdate(op[c], s)
    BY <2>2, <2>3, OldRowSteps
  <2>5. Running(c, "rotate", 1) /\ op[c].now \in Nat
    BY <2>4, OpFields DEF RotateGrace, Running
  <2>6. op[c].now <= tokens[s].grace
    BY <2>1, <2>4 DEF GraceUpdate, Accepted
  <2> QED
    BY <2>5, <2>6
<1> QED
  BY <1>1, TokensTyped, PTL DEF Spec, NoRevival

\* A device's token changes only when it is revoked itself, and then nothing else does,
\* whatever peer-add, peer-rotate and the migration do to the peer's other tokens.
THEOREM DevicesCorrect == Spec => DevicesUnaffected
<1>1. TypeOK /\ [Next]_vars =>
        [\A s \in Secrets :
          tokens[s] # NoRow /\ tokens[s].line = "device" /\ tokens'[s] # tokens[s] =>
              /\ tokens'[s] = [tokens[s] EXCEPT !.revoked = "yes"]
              /\ \A r \in Secrets \ {s} : tokens[r] # NoRow => tokens'[r] = tokens[r]]_vars
  <2> SUFFICES ASSUME TypeOK, [Next]_vars, NEW s \in Secrets, tokens[s] # NoRow,
                      tokens[s].line = "device", tokens'[s] # tokens[s]
               PROVE  /\ tokens'[s] = [tokens[s] EXCEPT !.revoked = "yes"]
                      /\ \A r \in Secrets \ {s} : tokens[r] # NoRow => tokens'[r] = tokens[r]
    OBVIOUS
  <2> QED
    BY OldRowSteps DEF PrimaryOf
<1> QED
  BY <1>1, TokensTyped, PTL DEF Spec, DevicesUnaffected

-----------------------------------------------------------------------------
(***************************************************************************)
(* Migration, for any tables, keys, snapshots and number of commands.      *)
(*                                                                         *)
(* A batch may be executed by an attempt that the sender has given up,     *)
(* after later batches. The invariant says what the batch on its way and   *)
(* the attempts of this command carry (BatchInv), so that whenever they    *)
(* run they write rows of this command's snapshot, or clear settings; on   *)
(* top of it, which rows are in place (SyncInv) and that no other row is   *)
(* there (ImportInv), which is what makes the comparison of counts at the  *)
(* end conclusive.                                                         *)
(***************************************************************************)

\* The value of the row that the batch writes is the snapshot's.
Carries(b, kind) == b.kind = kind /\ b.value = Content[snap][b.table][b.key]
\* The batch that empties settings.
IsClear(b) == b.kind = "clear" /\ b.table = Settings

\* A sync is under way or has reported success.
Syncing == command = "sync" \/ verdict = "synced"

\* Where the command is.
CommandInv ==
    /\ command # "none" => commands >= 1 /\ verdict = "running"
    /\ command = "none" => batch = {} /\ left = {}
    /\ left # {} => at >= 1
    /\ command = "import" => checked < Tables
    /\ verdict = "synced" => command = "none" /\ at = Tables
    /\ \A b, c \in batch : b = c
    /\ \A o \in orphans : o[2] <= commands

\* What the batch on its way, and the attempts of this command that may still be
\* executed, do to the tables.
BatchInv ==
    /\ command = "sync" => \A b \in batch : Carries(b, "upsert")
    /\ command = "import" => \A b \in batch : IF at = 0 THEN IsClear(b) ELSE Carries(b, "insert")
    /\ \A o \in orphans : o[2] = commands =>
          /\ Syncing => Carries(o[1], "upsert")
          /\ command = "import" => IsClear(o[1]) \/ Carries(o[1], "insert")

\* The rows of the snapshot a sync has sent are in place.
Sent(t, k) ==
    /\ t < at \/ (t = at /\ k \notin left)
    /\ \A b \in batch : b.table # t \/ b.key # k

\* An undisturbed sync has put every row it has sent in place.
SyncInv ==
    Syncing /\ disturbed = "no" =>
        \A t \in 1..Tables, k \in Keys :
            Sent(t, k) /\ Content[snap][t][k] # 0 => shadow[t][k] = Content[snap][t][k]

\* The tables hold nothing but the snapshot's rows, settings once they are cleared, and
\* a table that was compared holds all of them; settings are compared last.
ImportInv ==
    command = "import" /\ disturbed = "no" =>
        /\ \A t \in 1..Tables : t # Settings \/ at > 0 \/ batch = {} =>
              \A k \in Keys : shadow[t][k] \in {0, Content[snap][t][k]}
        /\ \A t \in 1..Tables : t # Settings /\ t <= checked => shadow[t] = Content[snap][t]

\* The inductive invariant.
CopyInv == MigrationTypeOK /\ CommandInv /\ BatchInv /\ SyncInv /\ ImportInv

-----------------------------------------------------------------------------
(* The operators *)

\* The key a clear batch carries is a key.
LEMMA AnyKeyOK == AnyKey \in Keys
BY MigrationAssumption DEF AnyKey

\* Executing a batch changes the row it writes, or clears its table, or nothing.
LEMMA ExecutedRows ==
  ASSUME shadow \in [1..Tables -> TableRows], NEW b \in Batch
  PROVE  /\ Executed(b) \in [1..Tables -> TableRows]
         /\ \A t \in 1..Tables, k \in Keys :
              Executed(b)[t][k] = IF Conflicts(b) \/ t # b.table THEN shadow[t][k]
                                  ELSE IF b.kind = "clear" THEN 0
                                  ELSE IF k = b.key THEN b.value ELSE shadow[t][k]
<1>1. b.table \in 1..Tables /\ b.key \in Keys /\ b.value \in Nat
  BY DEF Batch
<1>2. CASE Conflicts(b)
  BY <1>2 DEF Executed, TableRows
<1>3. CASE ~Conflicts(b) /\ b.kind = "clear"
  <2>1. Executed(b) = [shadow EXCEPT ![b.table] = [k \in Keys |-> 0]]
    BY <1>3 DEF Executed
  <2>2. [k \in Keys |-> 0] \in TableRows
    BY DEF TableRows
  <2>3. /\ Executed(b) \in [1..Tables -> TableRows]
        /\ Executed(b)[b.table] = [k \in Keys |-> 0]
        /\ \A t \in 1..Tables : t # b.table => Executed(b)[t] = shadow[t]
    BY <1>1, <2>1, <2>2
  <2> QED
    BY <1>3, <2>3
<1>4. CASE ~Conflicts(b) /\ b.kind # "clear"
  <2> DEFINE row == [shadow[b.table] EXCEPT ![b.key] = b.value]
  <2>1. Executed(b) = [shadow EXCEPT ![b.table] = row]
    BY <1>4 DEF Executed
  <2>2. /\ row \in TableRows
        /\ \A k \in Keys : row[k] = IF k = b.key THEN b.value ELSE shadow[b.table][k]
    BY <1>1 DEF TableRows
  <2>3. /\ Executed(b) \in [1..Tables -> TableRows]
        /\ Executed(b)[b.table] = row
        /\ \A t \in 1..Tables : t # b.table => Executed(b)[t] = shadow[t]
    BY <1>1, <2>1, <2>2
  <2> QED
    BY <1>4, <2>2, <2>3
<1> QED
  BY <1>2, <1>3, <1>4

\* Opening the shadow writes to settings alone.
LEMMA OpenedRows ==
  ASSUME shadow \in [1..Tables -> TableRows], NEW cmd
  PROVE  /\ Opened(cmd) \in [1..Tables -> TableRows]
         /\ \A t \in 1..Tables \ {Settings} : Opened(cmd)[t] = shadow[t]
<1> DEFINE row == [k \in Keys |-> IF shadow[Settings][k] = 0 THEN Defaults[k]
                                                           ELSE shadow[Settings][k]]
<1>1. Settings \in 1..Tables
  BY MigrationAssumption DEF Settings
<1>2. row \in TableRows
  BY <1>1, MigrationAssumption DEF TableRows
<1>3. Opened(cmd) = shadow \/ Opened(cmd) = [shadow EXCEPT ![Settings] = row]
  BY DEF Opened
<1> QED
  BY <1>1, <1>2, <1>3

\* Tables with as many rows, all of them the other's, are equal.
LEMMA CountEqual ==
  ASSUME NEW r \in TableRows, NEW c \in TableRows, \A k \in Keys : r[k] \in {0, c[k]},
         Count(r) = Count(c)
  PROVE  r = c
<1> DEFINE R == {k \in Keys : r[k] # 0}
           C == {k \in Keys : c[k] # 0}
<1>1. R \in SUBSET C
  OBVIOUS
<1>2. IsFiniteSet(C)
  BY MigrationAssumption, FS_Subset
<1>3. Cardinality(C) = Cardinality(R)
  BY DEF Count
<1>4. C = R
  BY <1>1, <1>2, <1>3, FS_Subset
<1>5. \A k \in Keys : r[k] = c[k]
  BY <1>4
<1> QED
  BY <1>5 DEF TableRows

\* A table of no rows holds none.
LEMMA CountZero ==
  ASSUME NEW r \in TableRows, Count(r) = 0
  PROVE  \A k \in Keys : r[k] = 0
<1> DEFINE R == {k \in Keys : r[k] # 0}
<1>1. IsFiniteSet(R)
  BY MigrationAssumption, FS_Subset
<1>2. R = {}
  BY <1>1, FS_EmptySet DEF Count
<1> QED
  BY <1>2

\* The tables of a snapshot are tables.
LEMMA ContentOK ==
  ASSUME NEW s \in 1..Snapshots, NEW t \in 1..Tables
  PROVE  Content[s][t] \in TableRows /\ \A k \in Keys : Content[s][t][k] \in Nat
<1>1. Content[s] \in [1..Tables -> TableRows]
  BY MigrationAssumption
<1>2. Content[s][t] \in TableRows
  BY <1>1
<1> QED
  BY <1>2 DEF TableRows

-----------------------------------------------------------------------------
(* Types and where the command is *)

\* Every step keeps the types and where the command is.
LEMMA MigrationTypeStep ==
  ASSUME MigrationTypeOK, CommandInv, [MigrationNext]_migrationVars
  PROVE  MigrationTypeOK' /\ CommandInv'
<1> USE MigrationAssumption
<1>1. ASSUME NEW cmd \in {"import", "sync"}, NEW s \in 1..Snapshots, StartCommand(cmd, s)
      PROVE  MigrationTypeOK' /\ CommandInv'
  <2>1. [kind |-> "clear", table |-> Settings, key |-> AnyKey, value |-> 0] \in Batch
    BY AnyKeyOK DEF Batch, Settings
  <2>2. shadow' \in [1..Tables -> TableRows]
    BY <1>1, OpenedRows DEF StartCommand, MigrationTypeOK
  <2>3. MigrationTypeOK'
    BY <1>1, <2>1, <2>2 DEF StartCommand, MigrationTypeOK
  <2>4. CommandInv'
    BY <1>1 DEF StartCommand, MigrationTypeOK, CommandInv
  <2> QED
    BY <2>3, <2>4
<1>2. ASSUME ImportRefused PROVE MigrationTypeOK' /\ CommandInv'
  <2>1. shadow' \in [1..Tables -> TableRows]
    BY <1>2, OpenedRows DEF ImportRefused, MigrationTypeOK
  <2>2. MigrationTypeOK'
    BY <1>2, <2>1 DEF ImportRefused, MigrationTypeOK
  <2>3. CommandInv'
    BY <1>2 DEF ImportRefused, MigrationTypeOK, CommandInv
  <2> QED
    BY <2>2, <2>3
<1>3. ASSUME NextTable PROVE MigrationTypeOK' /\ CommandInv'
  BY <1>3 DEF NextTable, MigrationTypeOK, CommandInv
<1>4. ASSUME NEW k \in Keys, NextBatch(k) PROVE MigrationTypeOK' /\ CommandInv'
  <2>1. at \in 1..Tables
    BY <1>4 DEF NextBatch, MigrationTypeOK, CommandInv
  <2>2. [kind |-> BatchKind, table |-> at, key |-> k, value |-> Content[snap][at][k]] \in Batch
    BY <2>1, ContentOK DEF Batch, BatchKind, MigrationTypeOK
  <2>3. MigrationTypeOK'
    BY <1>4, <2>2 DEF NextBatch, MigrationTypeOK
  <2>4. CommandInv'
    BY <1>4 DEF NextBatch, MigrationTypeOK, CommandInv
  <2> QED
    BY <2>3, <2>4
<1>5. ASSUME NEW b \in batch, BatchAnswered(b) PROVE MigrationTypeOK' /\ CommandInv'
  <2>1. shadow' \in [1..Tables -> TableRows]
    BY <1>5, ExecutedRows DEF BatchAnswered, MigrationTypeOK
  <2>2. MigrationTypeOK'
    BY <1>5, <2>1 DEF BatchAnswered, Fail, MigrationTypeOK
  <2>3. CommandInv'
    BY <1>5 DEF BatchAnswered, Fail, MigrationTypeOK, CommandInv
  <2> QED
    BY <2>2, <2>3
<1>6. ASSUME NEW b \in batch, BatchLost(b) PROVE MigrationTypeOK' /\ CommandInv'
  <2>1. b \in Batch /\ commands \in 1..MaxCommands
    BY DEF MigrationTypeOK, CommandInv
  <2>2. orphans' = orphans \/ orphans' = orphans \cup {<<b, commands>>}
    BY <1>6 DEF BatchLost
  <2>3. MigrationTypeOK'
    BY <1>6, <2>1, <2>2 DEF BatchLost, Fail, MigrationTypeOK
  <2>4. \A o \in orphans' : o[2] <= commands'
    BY <1>6, <2>1, <2>2 DEF BatchLost, CommandInv
  <2>5. CommandInv'
    BY <1>6, <2>4 DEF BatchLost, Fail, MigrationTypeOK, CommandInv
  <2> QED
    BY <2>3, <2>5
<1>7. ASSUME NEW o \in orphans, RunOrphan(o) PROVE MigrationTypeOK' /\ CommandInv'
  <2>1. o[1] \in Batch
    BY DEF MigrationTypeOK
  <2>2. shadow' \in [1..Tables -> TableRows]
    BY <1>7, <2>1, ExecutedRows DEF RunOrphan, MigrationTypeOK
  <2>3. MigrationTypeOK'
    BY <1>7, <2>2 DEF RunOrphan, tool, MigrationTypeOK
  <2>4. CommandInv'
    BY <1>7 DEF RunOrphan, tool, CommandInv
  <2> QED
    BY <2>3, <2>4
<1>8. ASSUME Verify PROVE MigrationTypeOK' /\ CommandInv'
  BY <1>8 DEF Verify, Compared, Fail, AllSent, MigrationTypeOK, CommandInv
<1>9. ASSUME SyncReturns PROVE MigrationTypeOK' /\ CommandInv'
  BY <1>9 DEF SyncReturns, AllSent, MigrationTypeOK, CommandInv
<1>10. ASSUME ToolDies PROVE MigrationTypeOK' /\ CommandInv'
  <2>1. \A b \in batch : b \in Batch /\ commands \in 1..MaxCommands
    BY DEF MigrationTypeOK, CommandInv
  <2>2. orphans' = orphans \/ orphans' = orphans \cup {<<b, commands>> : b \in batch}
    BY <1>10 DEF ToolDies
  <2>3. orphans' \subseteq Batch \X (1..MaxCommands)
    BY <2>1, <2>2 DEF MigrationTypeOK
  <2>4. \A o \in orphans' : o[2] <= commands'
    BY <1>10, <2>1, <2>2 DEF ToolDies, CommandInv
  <2>5. MigrationTypeOK'
    BY <1>10, <2>3 DEF ToolDies, Fail, MigrationTypeOK
  <2>6. CommandInv'
    BY <1>10, <2>4 DEF ToolDies, Fail, MigrationTypeOK, CommandInv
  <2> QED
    BY <2>5, <2>6
<1>11. CASE UNCHANGED migrationVars
  BY <1>11 DEF migrationVars, MigrationTypeOK, CommandInv
<1> QED
  BY <1>1, <1>2, <1>3, <1>4, <1>5, <1>6, <1>7, <1>8, <1>9, <1>10, <1>11 DEF MigrationNext

-----------------------------------------------------------------------------
(* The copy *)

\* A command that ends without success promises nothing.
LEMMA FailedCopy ==
  ASSUME command' = "none", verdict' = "failed"
  PROVE  BatchInv' /\ SyncInv' /\ ImportInv'
BY DEF BatchInv, SyncInv, ImportInv, Syncing

\* Executing a batch of the sync, late or again, keeps what it has put in place.
LEMMA UpsertKeeps ==
  ASSUME MigrationTypeOK, NEW b \in Batch, Carries(b, "upsert"),
         NEW t \in 1..Tables, NEW k \in Keys,
         shadow[t][k] = Content[snap][t][k] \/ (t = b.table /\ k = b.key)
  PROVE  Executed(b)[t][k] = Content[snap][t][k]
<1>1. ~Conflicts(b)
  BY DEF Conflicts, Carries
<1> QED
  BY <1>1, ExecutedRows DEF Carries, MigrationTypeOK

\* So does executing a batch of the import.
LEMMA InsertKeeps ==
  ASSUME MigrationTypeOK, NEW b \in Batch, IsClear(b) \/ Carries(b, "insert"),
         NEW t \in 1..Tables, NEW k \in Keys
  PROVE  /\ shadow[t][k] \in {0, Content[snap][t][k]} =>
              Executed(b)[t][k] \in {0, Content[snap][t][k]}
         /\ t # Settings /\ shadow[t][k] = Content[snap][t][k] =>
              Executed(b)[t][k] = Content[snap][t][k]
<1>1. Executed(b)[t][k] = IF Conflicts(b) \/ t # b.table THEN shadow[t][k]
                          ELSE IF b.kind = "clear" THEN 0
                          ELSE IF k = b.key THEN b.value ELSE shadow[t][k]
  BY ExecutedRows DEF MigrationTypeOK
<1> QED
  BY <1>1 DEF IsClear, Carries

\* Tables with the same rows are equal.
LEMMA SameTable ==
  ASSUME NEW r \in TableRows, NEW c \in TableRows, \A k \in Keys : r[k] = c[k]
  PROVE  r = c
BY DEF TableRows

\* Every step keeps what the batches do and what the tables hold.
LEMMA CopyStep ==
  ASSUME CopyInv, MigrationTypeOK', CommandInv', [MigrationNext]_migrationVars
  PROVE  BatchInv' /\ SyncInv' /\ ImportInv'
<1> USE MigrationAssumption DEF CopyInv
<1>1. ASSUME NEW cmd \in {"import", "sync"}, NEW s \in 1..Snapshots, StartCommand(cmd, s)
      PROVE  BatchInv' /\ SyncInv' /\ ImportInv'
  <2>1. \A o \in orphans' : o[2] # commands'
    BY <1>1 DEF StartCommand, CommandInv, MigrationTypeOK
  <2>2. BatchInv'
    BY <1>1, <2>1 DEF StartCommand, BatchInv, IsClear
  <2>3. SyncInv'
    BY <1>1 DEF StartCommand, SyncInv, Sent, Syncing
  <2>4. ASSUME cmd = "import" PROVE \A t \in 1..Tables \ {Settings}, k \in Keys : shadow'[t][k] = 0
    <3>1. \A t \in 1..Tables \ {Settings} : Count(shadow[t]) = 0 /\ shadow[t] \in TableRows
      BY <1>1, <2>4 DEF StartCommand, EmptyShadow, MigrationTypeOK
    <3>2. \A t \in 1..Tables \ {Settings}, k \in Keys : shadow[t][k] = 0
      BY <3>1, CountZero
    <3> QED
      BY <1>1, <3>2, OpenedRows DEF StartCommand, MigrationTypeOK
  <2>5. ImportInv'
    <3>1. CASE cmd = "import"
      <4>1. at' = 0 /\ batch' # {} /\ checked' = 0
        BY <1>1, <3>1 DEF StartCommand
      <4>2. ASSUME NEW t \in 1..Tables
            PROVE  /\ t # Settings \/ at' > 0 \/ batch' = {} =>
                        \A k \in Keys : shadow'[t][k] \in {0, Content[snap'][t][k]}
                   /\ ~(t <= checked')
        BY <2>4, <3>1, <4>1
      <4> QED
        BY <4>2 DEF ImportInv
    <3>2. CASE cmd # "import"
      BY <1>1, <3>2 DEF StartCommand, ImportInv
    <3> QED
      BY <3>1, <3>2
  <2> QED
    BY <2>2, <2>3, <2>5
<1>2. ASSUME ImportRefused PROVE BatchInv' /\ SyncInv' /\ ImportInv'
  BY <1>2, FailedCopy DEF ImportRefused
<1>3. ASSUME NextTable PROVE BatchInv' /\ SyncInv' /\ ImportInv'
  <2>1. BatchInv'
    BY <1>3 DEF NextTable, BatchInv, Carries, IsClear, Syncing
  <2>2. SyncInv'
    BY <1>3 DEF NextTable, SyncInv, Sent, Syncing, MigrationTypeOK
  <2>3. ImportInv'
    BY <1>3 DEF NextTable, ImportInv
  <2> QED
    BY <2>1, <2>2, <2>3
<1>4. ASSUME NEW k \in Keys, NextBatch(k) PROVE BatchInv' /\ SyncInv' /\ ImportInv'
  <2>1. at \in 1..Tables /\ batch = {}
    BY <1>4 DEF NextBatch, MigrationTypeOK, CommandInv
  <2>2. BatchInv'
    BY <1>4, <2>1 DEF NextBatch, BatchInv, BatchKind, Carries, IsClear, Syncing
  <2>3. SyncInv'
    BY <1>4, <2>1 DEF NextBatch, SyncInv, Sent, Syncing, MigrationTypeOK
  <2>4. ImportInv'
    BY <1>4, <2>1 DEF NextBatch, ImportInv
  <2> QED
    BY <2>2, <2>3, <2>4
<1>5. ASSUME NEW b \in batch, BatchAnswered(b) PROVE BatchInv' /\ SyncInv' /\ ImportInv'
  <2>1. CASE Conflicts(b)
    BY <1>5, <2>1, FailedCopy DEF BatchAnswered, Fail
  <2>2. CASE ~Conflicts(b)
    <3>1. /\ shadow' = Executed(b) /\ batch' = {}
          /\ UNCHANGED <<command, snap, at, left, checked, verdict, orphans, commands, disturbed>>
      BY <1>5, <2>2 DEF BatchAnswered
    <3>2. b \in Batch /\ batch = {b}
      BY DEF MigrationTypeOK, CommandInv
    <3>3. BatchInv'
      BY <3>1 DEF BatchInv, Carries, IsClear, Syncing
    <3>4. SyncInv'
      <4> SUFFICES ASSUME Syncing, disturbed = "no", NEW t \in 1..Tables, NEW k \in Keys,
                          Sent(t, k)', Content[snap][t][k] # 0
                   PROVE  shadow'[t][k] = Content[snap][t][k]
        BY <3>1 DEF SyncInv, Syncing
      <4>1. shadow[t][k] = Content[snap][t][k] \/ (t = b.table /\ k = b.key)
        BY <3>1, <3>2 DEF SyncInv, Sent
      <4>2. Carries(b, "upsert")
        BY DEF BatchInv, Syncing, CommandInv
      <4> QED
        BY <3>1, <3>2, <4>1, <4>2, UpsertKeeps
    <3>5. ImportInv'
      <4> SUFFICES ASSUME command = "import", disturbed = "no", NEW t \in 1..Tables
                   PROVE  /\ \A k \in Keys : shadow'[t][k] \in {0, Content[snap][t][k]}
                          /\ t # Settings /\ t <= checked => shadow'[t] = Content[snap][t]
        BY <3>1 DEF ImportInv
      <4>1. IsClear(b) \/ (at > 0 /\ Carries(b, "insert"))
        BY DEF BatchInv, MigrationTypeOK
      <4>2. ASSUME NEW k \in Keys PROVE shadow'[t][k] \in {0, Content[snap][t][k]}
        <5>1. CASE t = Settings /\ at = 0
          BY <2>2, <3>1, <3>2, <4>1, <5>1, ExecutedRows DEF IsClear, MigrationTypeOK
        <5>2. CASE t # Settings \/ at > 0
          BY <3>1, <3>2, <4>1, <5>2, InsertKeeps DEF ImportInv
        <5> QED
          BY <5>1, <5>2 DEF MigrationTypeOK
      <4>3. ASSUME t # Settings, t <= checked PROVE shadow'[t] = Content[snap][t]
        <5>1. \A k \in Keys : shadow'[t][k] = Content[snap][t][k]
          BY <3>1, <3>2, <4>1, <4>3, InsertKeeps DEF ImportInv
        <5> QED
          BY <5>1, SameTable, ContentOK DEF MigrationTypeOK
      <4> QED
        BY <4>2, <4>3
    <3> QED
      BY <3>3, <3>4, <3>5
  <2> QED
    BY <2>1, <2>2
<1>6. ASSUME NEW b \in batch, BatchLost(b) PROVE BatchInv' /\ SyncInv' /\ ImportInv'
  <2>1. CASE tries = 1
    BY <1>6, <2>1, FailedCopy DEF BatchLost, Fail
  <2>2. CASE tries # 1
    <3>1. /\ UNCHANGED <<shadow, command, snap, at, left, batch, checked, verdict, commands, disturbed>>
          /\ orphans' = orphans \/ orphans' = orphans \cup {<<b, commands>>}
      BY <1>6, <2>2 DEF BatchLost
    <3>2. SyncInv' /\ ImportInv'
      BY <3>1 DEF SyncInv, ImportInv, Syncing, Sent
    <3>3. ASSUME NEW o \in orphans', o[2] = commands
          PROVE  /\ Syncing => Carries(o[1], "upsert")
                 /\ command = "import" => IsClear(o[1]) \/ Carries(o[1], "insert")
      <4>1. CASE o \in orphans
        BY <3>3, <4>1 DEF BatchInv
      <4>2. CASE o = <<b, commands>>
        BY <4>2 DEF BatchInv, CommandInv, Syncing
      <4> QED
        BY <3>1, <4>1, <4>2
    <3>4. BatchInv'
      BY <3>1, <3>3 DEF BatchInv, Carries, IsClear, Syncing
    <3> QED
      BY <3>2, <3>4
  <2> QED
    BY <2>1, <2>2
<1>7. ASSUME NEW o \in orphans, RunOrphan(o) PROVE BatchInv' /\ SyncInv' /\ ImportInv'
  <2>1. PICK b \in Batch : b = o[1]
    BY DEF MigrationTypeOK
  <2>2. /\ shadow' = Executed(b) /\ orphans' \subseteq orphans
        /\ disturbed' = "no" => disturbed = "no" /\ o[2] = commands
        /\ UNCHANGED <<command, snap, at, left, batch, checked, verdict, commands>>
    BY <1>7, <2>1 DEF RunOrphan, tool
  <2>3. BatchInv'
    BY <2>2 DEF BatchInv, Carries, IsClear, Syncing
  <2>4. SyncInv'
    <3> SUFFICES ASSUME Syncing, disturbed' = "no", NEW t \in 1..Tables, NEW k \in Keys,
                        Sent(t, k), Content[snap][t][k] # 0
                 PROVE  shadow'[t][k] = Content[snap][t][k]
      BY <2>2 DEF SyncInv, Syncing, Sent
    <3>1. shadow[t][k] = Content[snap][t][k] /\ Carries(b, "upsert")
      BY <2>1, <2>2 DEF SyncInv, BatchInv
    <3> QED
      BY <2>2, <3>1, UpsertKeeps
  <2>5. ImportInv'
    <3> SUFFICES ASSUME command = "import", disturbed' = "no", NEW t \in 1..Tables
                 PROVE  /\ t # Settings \/ at > 0 \/ batch = {} =>
                             \A k \in Keys : shadow'[t][k] \in {0, Content[snap][t][k]}
                        /\ t # Settings /\ t <= checked => shadow'[t] = Content[snap][t]
      BY <2>2 DEF ImportInv
    <3>1. IsClear(b) \/ Carries(b, "insert")
      BY <2>1, <2>2 DEF BatchInv
    <3>2. ASSUME t # Settings \/ at > 0 \/ batch = {}, NEW k \in Keys
          PROVE  shadow'[t][k] \in {0, Content[snap][t][k]}
      BY <2>2, <3>1, <3>2, InsertKeeps DEF ImportInv
    <3>3. ASSUME t # Settings, t <= checked PROVE shadow'[t] = Content[snap][t]
      <4>1. \A k \in Keys : shadow'[t][k] = Content[snap][t][k]
        BY <2>2, <3>1, <3>3, InsertKeeps DEF ImportInv
      <4> QED
        BY <4>1, SameTable, ContentOK DEF MigrationTypeOK
    <3> QED
      BY <3>2, <3>3
  <2> QED
    BY <2>3, <2>4, <2>5
<1>8. ASSUME Verify PROVE BatchInv' /\ SyncInv' /\ ImportInv'
  <2>1. /\ UNCHANGED <<shadow, snap, orphans, commands, disturbed, at, batch>>
        /\ command = "import" /\ at = Tables /\ batch = {} /\ verdict = "running"
        /\ checked \in 0..(Tables - 1)
    BY <1>8 DEF Verify, Compared, Fail, AllSent, CommandInv, MigrationTypeOK
  <2>2. CASE command' = "none"
    BY <1>8, <2>1, <2>2 DEF Verify, Compared, Fail, BatchInv, SyncInv, ImportInv, Syncing
  <2>3. CASE command' # "none"
    <3>1. /\ command' = "import" /\ verdict' = "running" /\ checked' = checked + 1
          /\ checked + 1 # Tables
          /\ Count(shadow[checked + 1]) = Count(Content[snap][checked + 1])
      BY <1>8, <2>1, <2>3 DEF Verify, Compared, Fail
    <3>2. BatchInv' /\ SyncInv'
      BY <2>1, <3>1 DEF BatchInv, SyncInv, Syncing, Carries, IsClear
    <3>3. disturbed = "no" => shadow[checked + 1] = Content[snap][checked + 1]
      <4>1. PICK t \in 1..Tables : t = checked + 1
        BY <2>1
      <4>2. shadow[t] \in TableRows /\ Content[snap][t] \in TableRows
        BY ContentOK DEF MigrationTypeOK
      <4>3. disturbed = "no" => \A k \in Keys : shadow[t][k] \in {0, Content[snap][t][k]}
        BY <2>1 DEF ImportInv
      <4> QED
        BY <3>1, <4>1, <4>2, <4>3, CountEqual
    <3>4. ImportInv'
      BY <2>1, <3>1, <3>3 DEF ImportInv, MigrationTypeOK
    <3> QED
      BY <3>2, <3>4
  <2> QED
    BY <2>2, <2>3
<1>9. ASSUME SyncReturns PROVE BatchInv' /\ SyncInv' /\ ImportInv'
  BY <1>9 DEF SyncReturns, AllSent, BatchInv, SyncInv, ImportInv, Syncing, Sent, Carries
<1>10. ASSUME ToolDies PROVE BatchInv' /\ SyncInv' /\ ImportInv'
  BY <1>10, FailedCopy DEF ToolDies, Fail
<1>11. CASE UNCHANGED migrationVars
  BY <1>11 DEF migrationVars, BatchInv, SyncInv, ImportInv, Syncing, Sent, Carries, IsClear
<1> QED
  BY <1>1, <1>2, <1>3, <1>4, <1>5, <1>6, <1>7, <1>8, <1>9, <1>10, <1>11 DEF MigrationNext

\* The invariant holds in every behaviour.
LEMMA CopyInvariant == MigrationSpec => []CopyInv
<1>1. MigrationInit => CopyInv
  <2> SUFFICES ASSUME MigrationInit PROVE CopyInv
    OBVIOUS
  <2>1. shadow \in [1..Tables -> TableRows]
    BY MigrationAssumption DEF MigrationInit, TableRows
  <2> QED
    BY <2>1, MigrationAssumption DEF MigrationInit, CopyInv, MigrationTypeOK, CommandInv,
       BatchInv, SyncInv, ImportInv, Syncing
<1>2. CopyInv /\ [MigrationNext]_migrationVars => CopyInv'
  BY MigrationTypeStep, CopyStep DEF CopyInv
<1> QED
  BY <1>1, <1>2, PTL DEF MigrationSpec

\* A sync that reported success leaves every row of its snapshot in place, whatever
\* batches it sent twice or late, and whatever commands failed before it, for any
\* tables, snapshots and number of commands (sync_snapshot).
THEOREM MigrationCorrect == MigrationSpec => []SyncSound
<1>1. CopyInv => SyncSound
  BY MigrationAssumption DEF CopyInv, SyncSound, SyncCurrent, SyncInv, CommandInv, Syncing, Sent,
     MigrationTypeOK
<1> QED
  BY <1>1, CopyInvariant, PTL

\* An import that reports success has copied the snapshot exactly: comparing the counts
\* is enough, since the tables never hold a row that is not the snapshot's
\* (import_snapshot, verify_counts).
THEOREM ImportCorrect == MigrationSpec => ImportWhole
<1>1. CopyInv /\ [MigrationNext]_migrationVars =>
        [verdict' = "imported" /\ verdict # "imported" /\ disturbed = "no" =>
            shadow' = Content[snap]]_migrationVars
  <2> SUFFICES ASSUME CopyInv, MigrationNext, verdict' = "imported", verdict # "imported",
                      disturbed = "no"
               PROVE  shadow' = Content[snap]
    BY DEF migrationVars
  <2>1. Verify
    BY DEF MigrationNext, StartCommand, ImportRefused, NextTable, NextBatch, BatchAnswered,
           BatchLost, RunOrphan, SyncReturns, ToolDies, Fail, tool
  <2>2. /\ command = "import" /\ at = Tables /\ batch = {} /\ checked + 1 = Tables
        /\ Count(shadow[Tables]) = Count(Content[snap][Tables]) /\ shadow' = shadow
    BY <2>1 DEF Verify, AllSent, Compared, Fail
  <2>3. Tables \in 1..Tables /\ checked \in Nat /\ snap \in 1..Snapshots
        /\ shadow \in [1..Tables -> TableRows]
    BY MigrationAssumption DEF CopyInv, MigrationTypeOK
  <2>4. shadow[Tables] = Content[snap][Tables]
    BY <2>2, <2>3, CountEqual, ContentOK DEF CopyInv, ImportInv
  <2>5. \A t \in 1..Tables : shadow[t] = Content[snap][t]
    BY <2>2, <2>3, <2>4, MigrationAssumption DEF CopyInv, ImportInv, Settings
  <2>6. Content[snap] \in [1..Tables -> TableRows]
    BY <2>3, MigrationAssumption
  <2>7. shadow = [t \in 1..Tables |-> shadow[t]]
        /\ Content[snap] = [t \in 1..Tables |-> Content[snap][t]]
    BY <2>3, <2>6
  <2>8. [t \in 1..Tables |-> shadow[t]] = [t \in 1..Tables |-> Content[snap][t]]
    BY <2>5
  <2> QED
    BY <2>2, <2>7, <2>8
<1> QED
  BY <1>1, CopyInvariant, PTL DEF MigrationSpec, ImportWhole

-----------------------------------------------------------------------------
(***************************************************************************)
(* MessageAcl, for any set of modification times.                          *)
(*                                                                         *)
(* The verdict of a check rests on a cache that an earlier check filled,   *)
(* which may have read another file than the one it had looked at; the     *)
(* invariant says why that does no harm until a file comes back under the  *)
(* time the cache goes by.                                                 *)
(***************************************************************************)

\* A cache that passes for fresh holds what the file says, unless a file has come into
\* place under the cache's time since.
CacheCurrent ==
    aclFile # Absent /\ aclFile.mtime = mtime /\ ~broken /\ ~returned => cached = aclFile.content

\* The running check has seen the present contents; once past the stat, also others
\* than an absent file.
DuringCovers ==
    /\ check # NoCheck => aclFile.content \in during
    /\ check.pc = "read" => \E c \in during : c # "absent"

\* The inductive invariant.
AclInv == AclFileSound /\ CacheCurrent /\ DuringCovers

\* The operator may exchange the file at any moment.
LEMMA FileStep ==
    ASSUME AclInv, NEW file \in AclFile, Becomes(file)
    PROVE  AclInv'
<1> USE MtimesAssumption DEF AclInv, AclFileSound, AclTypeOK, Becomes
<1>1. AclTypeOK'
  <2>1. file.content \in Contents \cup {"absent"}
    BY DEF AclFile, Absent
  <2> QED
    BY <2>1
<1>2. VerdictCurrent'
  BY DEF VerdictCurrent, RestsOnFile, DuringCovers, NoCheck
<1>3. CacheCurrent'
  BY DEF CacheCurrent
<1>4. DuringCovers'
  BY DEF DuringCovers
<1> QED
  BY <1>1, <1>2, <1>3, <1>4

\* A check ends with a verdict that the cache it has just set and the file agree on.
LEMMA ConcludeStep ==
    ASSUME AclInv, UNCHANGED <<aclFile, during>>, check # NoCheck,
           NEW m \in Mtimes \cup {-1}, NEW c \in {"allows", "forbids"}, NEW b \in BOOLEAN,
           Conclude(m, c, b),
           aclFile # Absent /\ aclFile.mtime = m /\ ~b => c = aclFile.content,
           RestsOnFile(Verdict(b, c))
    PROVE  AclInv'
<1> USE MtimesAssumption DEF AclInv, AclFileSound, AclTypeOK, Conclude, Answer
<1>0. check'.pc = "done" /\ check'.verdict = Verdict(b, c) /\ check'.verdict \in {"allow", "deny"}
  BY DEF Verdict
<1>1. AclTypeOK'
  BY DEF Checks, Verdict
<1>2. VerdictCurrent'
  BY <1>0 DEF VerdictCurrent, RestsOnFile
<1>3. CacheCurrent' /\ DuringCovers'
  BY <1>0 DEF CacheCurrent, DuringCovers
<1> QED
  BY <1>1, <1>2, <1>3

\* A check that leaves time and contents of the cache alone ends with a verdict that
\* rests on the file or falls under the exception.
LEMMA AnswerStep ==
    ASSUME AclInv, UNCHANGED <<aclFile, during, mtime, cached, returned>>, check # NoCheck,
           NEW b \in BOOLEAN, NEW hit \in BOOLEAN, broken' = b, broken => b,
           Answer(cached, b, hit),
           (hit /\ returned) \/ RestsOnFile(Verdict(b, cached))
    PROVE  AclInv'
<1> USE MtimesAssumption DEF AclInv, AclFileSound, AclTypeOK, Answer
<1>0. /\ check'.pc = "done" /\ check'.hit = hit
      /\ check'.verdict = Verdict(b, cached) /\ check'.verdict \in {"allow", "deny"}
  BY DEF Verdict
<1>1. AclTypeOK'
  BY DEF Checks, Verdict
<1>2. VerdictCurrent'
  BY <1>0 DEF VerdictCurrent, RestsOnFile
<1>3. CacheCurrent' /\ DuringCovers'
  BY <1>0 DEF CacheCurrent, DuringCovers
<1> QED
  BY <1>1, <1>2, <1>3

\* Every step of a check, and of the operator, keeps the invariant.
LEMMA AclStep ==
    ASSUME AclInv, [AclNext]_aclVars
    PROVE  AclInv'
<1>1. ASSUME NEW t \in Mtimes, NEW c \in Contents, ReplaceFile(t, c)
      PROVE  AclInv'
  <2>1. [mtime |-> t, content |-> c] \in AclFile
    BY DEF AclFile
  <2> QED
    BY <1>1, <2>1, FileStep DEF ReplaceFile
<1>2. CASE RemoveFile
  <2>1. Absent \in AclFile
    BY DEF AclFile
  <2> QED
    BY <1>2, <2>1, FileStep DEF RemoveFile
<1>3. CASE CheckStarts
  <2> USE <1>3 DEF CheckStarts, AclInv, AclFileSound, aclCache
  <2>1. AclTypeOK'
    BY DEF AclTypeOK, AclFile, Absent, Checks
  <2> QED
    BY <2>1 DEF VerdictCurrent, CacheCurrent, DuringCovers
<1>4. CASE StatFile
  <2> USE DEF AclInv, AclFileSound, AclTypeOK
  <2>0. /\ check # NoCheck /\ aclFile.content \in during
        /\ UNCHANGED <<aclFile, during>>
    BY <1>4 DEF StatFile, NoCheck, DuringCovers
  <2>1. CASE aclFile = Absent
    <3>1. Conclude(-1, "allows", FALSE)
      BY <1>4, <2>1 DEF StatFile
    <3>2. "absent" \in during
      BY <2>0, <2>1 DEF Absent
    <3>3. RestsOnFile(Verdict(FALSE, "allows"))
      BY <3>2 DEF RestsOnFile, Verdict
    <3> QED
      BY <2>0, <2>1, <3>1, <3>3, ConcludeStep
  <2>2. CASE aclFile # Absent /\ Fresh(aclFile.mtime)
    <3>1. Answer(cached, broken, TRUE) /\ UNCHANGED <<mtime, cached, broken, returned>>
      BY <1>4, <2>2 DEF StatFile, aclCache
    <3>2. broken = FALSE /\ (returned \/ cached = aclFile.content)
      BY <2>2 DEF Fresh, CacheCurrent
    <3>3. returned \/ RestsOnFile(Verdict(broken, cached))
      BY <2>0, <3>2 DEF RestsOnFile, Verdict
    <3> QED
      BY <2>0, <3>1, <3>2, <3>3, AnswerStep
  <2>3. CASE aclFile # Absent /\ ~Fresh(aclFile.mtime)
    <3>1. /\ check' = [pc |-> "read", seen |-> aclFile.mtime]
          /\ UNCHANGED <<mtime, cached, broken, returned>>
      BY <1>4, <2>3 DEF StatFile, aclCache
    <3>2. aclFile \in [mtime : Mtimes, content : Contents]
      BY <2>3 DEF AclFile
    <3>3. aclFile.content # "absent" /\ aclFile.mtime \in Mtimes
      BY <3>2 DEF Contents
    <3>4. AclTypeOK'
      BY <2>0, <3>1, <3>3 DEF Checks
    <3> QED
      BY <2>0, <2>3, <3>1, <3>3, <3>4 DEF VerdictCurrent, CacheCurrent, DuringCovers
  <2> QED
    BY <2>1, <2>2, <2>3
<1>5. CASE ReadFile
  <2> USE DEF AclInv, AclFileSound, AclTypeOK
  <2>0. /\ check # NoCheck /\ aclFile.content \in during /\ check.seen \in Mtimes
        /\ \E c \in during : c # "absent"
        /\ UNCHANGED <<aclFile, during>>
    BY <1>5 DEF ReadFile, NoCheck, DuringCovers, Checks
  <2>1. CASE aclFile.content \in {"garbage", "absent"}
    <3>1. /\ Answer(cached, TRUE, FALSE) /\ broken' = TRUE
          /\ UNCHANGED <<mtime, cached, returned>>
      BY <1>5, <2>1 DEF ReadFile
    <3>2. RestsOnFile(Verdict(TRUE, cached))
      BY <2>0, <2>1 DEF RestsOnFile, Verdict
    <3> QED
      BY <2>0, <3>1, <3>2, AnswerStep
  <2>2. CASE aclFile.content \notin {"garbage", "absent"}
    <3>1. Conclude(check.seen, aclFile.content, FALSE)
      BY <1>5, <2>2 DEF ReadFile
    <3>2. aclFile.content \in {"allows", "forbids"}
      BY <2>2 DEF AclFile, Contents, Absent
    <3>3. RestsOnFile(Verdict(FALSE, aclFile.content))
      BY <2>0, <3>2 DEF RestsOnFile, Verdict
    <3> QED
      BY <2>0, <3>1, <3>2, <3>3, ConcludeStep
  <2> QED
    BY <2>1, <2>2
<1>6. CASE CheckReturns
  <2> USE <1>6 DEF CheckReturns, AclInv, AclFileSound, aclCache
  <2>1. AclTypeOK'
    BY DEF AclTypeOK
  <2> QED
    BY <2>1 DEF VerdictCurrent, CacheCurrent, DuringCovers, NoCheck
<1>7. CASE UNCHANGED aclVars
  BY <1>7 DEF aclVars, AclInv, AclFileSound, AclTypeOK, VerdictCurrent, RestsOnFile,
              CacheCurrent, DuringCovers
<1> QED
  BY <1>1, <1>2, <1>3, <1>4, <1>5, <1>6, <1>7 DEF AclNext

\* MessageAcl.check never lets a message pass, nor stops one, on the strength of a file
\* that was not there at some moment of the check, also when the file is exchanged
\* between its stat and its open, as long as no file comes into place under the time
\* that the cache goes by.
THEOREM AclFileCorrect == AclSpec => []AclFileSound
<1>1. AclInit => AclInv
  <2> SUFFICES ASSUME AclInit PROVE AclInv
    OBVIOUS
  <2> USE DEF AclInit
  <2>1. AclTypeOK
    BY DEF AclTypeOK, AclFile
  <2>2. check.pc = "idle"
    BY DEF NoCheck
  <2> QED
    BY <2>1, <2>2 DEF AclInv, AclFileSound, VerdictCurrent, CacheCurrent, DuringCovers
<1>2. AclInv /\ [AclNext]_aclVars => AclInv'
  BY AclStep
<1>3. AclInv => AclFileSound
  BY DEF AclInv
<1> QED
  BY <1>1, <1>2, <1>3, PTL DEF AclSpec

-----------------------------------------------------------------------------
(***************************************************************************)
(* TaskBoard, for any set of workers.                                      *)
(*                                                                         *)
(* TaskSound is inductive as it stands: every event's action looks only at *)
(* the status, and the status is what consent and verification are         *)
(* recorded against.                                                       *)
(***************************************************************************)

\* One event, folded in, keeps the task sound.
LEMMA TaskStep ==
    ASSUME TaskSound, [TaskNext]_taskVars
    PROVE  TaskSound'
<1> USE TaskAssumption DEF TaskSound, TaskTypeOK, ConsentOfAssignee, CompletionVerifiable,
                           Task, OPEN, TERMINAL
<1>1. ASSUME NEW to \in Workers \cup {Nobody}, TaskCreate(to)
      PROVE  TaskSound'
  BY <1>1 DEF TaskCreate, NoTask
<1>2. CASE TaskBeforeCreate
  BY <1>2 DEF TaskBeforeCreate
<1>3. ASSUME NEW src \in Workers, TaskAccept(src)
      PROVE  TaskSound'
  BY <1>3 DEF TaskAccept
<1>4. CASE TaskStart
  BY <1>4 DEF TaskStart
<1>5. CASE TaskBlock
  BY <1>5 DEF TaskBlock
<1>6. CASE TaskDeliver
  BY <1>6 DEF TaskDeliver
<1>7. CASE TaskVerify
  BY <1>7 DEF TaskVerify
<1>8. ASSUME NEW to \in Workers \cup {Nobody}, TaskHandoff(to)
      PROVE  TaskSound'
  BY <1>8 DEF TaskHandoff
<1>9. ASSUME NEW d \in {"none", "given"}, NEW v \in {"none", "given"}, TaskComplete(d, v)
      PROVE  TaskSound'
  BY <1>9 DEF TaskComplete
<1>10. ASSUME NEW status \in {"failed", "cancelled"}, TaskEnds(status)
       PROVE  TaskSound'
  BY <1>10 DEF TaskEnds
<1>11. CASE UNCHANGED taskVars
  BY <1>11 DEF taskVars
<1> QED
  BY <1>1, <1>2, <1>3, <1>4, <1>5, <1>6, <1>7, <1>8, <1>9, <1>10, <1>11 DEF TaskNext

\* Whatever the peers post and in whichever order: a task that is accepted, worked on
\* or completed was accepted by the peer who has it now, and a completed one has a
\* deliverable and a verification (fold of tasklib.py).
THEOREM TaskCorrect == TaskSpec => []TaskSound
<1>1. TaskInit => TaskSound
  BY TaskAssumption DEF TaskInit, NoTask, TaskSound, TaskTypeOK, ConsentOfAssignee,
                        CompletionVerifiable, Task, OPEN, TERMINAL
<1>2. TaskSound /\ [TaskNext]_taskVars => TaskSound'
  BY TaskStep
<1> QED
  BY <1>1, <1>2, PTL DEF TaskSpec

===============================================================================
