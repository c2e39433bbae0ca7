-------------------------------- MODULE Tokens --------------------------------
(***************************************************************************)
(* The tokens of the peers (atalk/core.py, tables peers and peer_tokens):  *)
(* peer-add, peer-rotate and device-token, each in an operator process of  *)
(* its own, next to the server that accepts or refuses tokens.             *)
(*                                                                         *)
(* The connections are in autocommit mode: add_peer and rotate_peer_token  *)
(* are chains of statements, other processes see the tables between them,  *)
(* and a process that dies leaves them half-way.  Every process that opens *)
(* the store runs _migrate_peer_tokens first.                              *)
(***************************************************************************)
EXTENDS Naturals

CONSTANTS
    Peers,     \* peer ids
    Secrets,   \* tokens; a row is found by its hash, which is UNIQUE
    NoSecret,  \* peers.token_hash of a peer that is not registered
    Clis,      \* operator processes
    Grace,     \* --grace-seconds
    MaxClock   \* bound: seconds the clock counts

ASSUME TokensAssumption ==
    /\ NoSecret \notin Secrets
    /\ Grace \in Nat /\ MaxClock \in Nat

\* A row of peer_tokens.  line is "primary" for the labels that peer-add and
\* peer-rotate replace (NULL, legacy, primary, rotation); grace = 0: no grace_until.
Row == [peer : Peers, line : {"primary", "device"}, grace : Nat, revoked : {"no", "yes"}]
NoRow == [line |-> "none"]
Ops == [cmd : {"add", "rotate"}, step : 1..3, peer : Peers, secret : Secrets,
        now : Nat, until : Nat]
NoOp == [cmd |-> "none"]

VARIABLES
    peers,    \* table peers: token_hash of each peer
    tokens,   \* table peer_tokens
    clock,    \* the time, in seconds from 1
    op,       \* the command each operator process is running
    excused   \* history: peers whose operators may have cut them off, see Excuses,
              \* RotateInsert, RevokeDevice and CliCrash

vars == <<peers, tokens, clock, op, excused>>

-----------------------------------------------------------------------------
\* token_scope: the row is neither revoked nor past its grace.
Accepted(s) ==
    /\ tokens[s] # NoRow
    /\ tokens[s].revoked = "no"
    /\ tokens[s].grace = 0 \/ tokens[s].grace >= clock

PrimaryOf(p, s) ==
    tokens[s] # NoRow /\ tokens[s].peer = p /\ tokens[s].line = "primary"

NewRow(p, line) == [peer |-> p, line |-> line, grace |-> 0, revoked |-> "no"]

\* Mutant of Migrated: rows are replaced instead of ignored.
MigratedOver ==
    [s \in Secrets |->
        IF \E p \in Peers : peers[p] = s
          THEN NewRow(CHOOSE p \in Peers : peers[p] = s, "primary")
          ELSE tokens[s]]

\* _migrate_peer_tokens: INSERT OR IGNORE of every peers.token_hash.
Migrated ==
    [s \in Secrets |->
        IF tokens[s] = NoRow /\ \E p \in Peers : peers[p] = s
          THEN NewRow(CHOOSE p \in Peers : peers[p] = s, "primary")
          ELSE tokens[s]]

\* Peers that a command for p with token s leaves without a token, by design or
\* not: it runs next to another one for the same peer or with the same token, or it
\* is peer-add with a token that is in the table and revoked, in grace, a device's
\* or another peer's (INSERT OR IGNORE keeps it so).
Clashing(c, p, s) ==
    {op[d].peer : d \in {d \in Clis \ {c} :
                            op[d] # NoOp /\ (op[d].peer = p \/ op[d].secret = s)}}

Excuses(c, cmd, p, s) ==
    Clashing(c, p, s) \cup
    IF \/ Clashing(c, p, s) # {}
       \/ cmd = "add" /\ Migrated[s] # NoRow /\ Migrated[s] # NewRow(p, "primary")
      THEN {p}
      ELSE {}

\* peer-add and peer-rotate: the store is opened and the clock read.
Begin(c, cmd, p, s) ==
    /\ op[c] = NoOp
    /\ tokens' = Migrated
    /\ op' = [op EXCEPT ![c] = [cmd |-> cmd, step |-> 1, peer |-> p, secret |-> s,
                                now |-> clock, until |-> clock + Grace]]
    /\ excused' = excused \cup Excuses(c, cmd, p, s)
    /\ UNCHANGED <<peers, clock>>

Running(c, cmd, step) == op[c] # NoOp /\ op[c].cmd = cmd /\ op[c].step = step
Advance(c) == op' = [op EXCEPT ![c].step = @ + 1]
Finish(c) == op' = [op EXCEPT ![c] = NoOp]

\* add_peer, first statement: the peers row.
AddPeerRow(c) ==
    /\ Running(c, "add", 1)
    /\ peers' = [peers EXCEPT ![op[c].peer] = op[c].secret]
    /\ Advance(c)
    /\ UNCHANGED <<tokens, clock, excused>>

\* Second: INSERT OR IGNORE of the token.
AddPeerToken(c) ==
    /\ Running(c, "add", 2)
    /\ tokens' = IF tokens[op[c].secret] = NoRow
                   THEN [tokens EXCEPT ![op[c].secret] = NewRow(op[c].peer, "primary")]
                   ELSE tokens
    /\ Advance(c)
    /\ UNCHANGED <<peers, clock, excused>>

\* Mutant of AddPeerRevokes: every token of the peer goes.
AddPeerRevokesDevices(c) ==
    /\ Running(c, "add", 3)
    /\ tokens' = [s \in Secrets |->
                    IF tokens[s] # NoRow /\ tokens[s].peer = op[c].peer /\ s # op[c].secret
                      THEN [tokens[s] EXCEPT !.revoked = "yes"]
                      ELSE tokens[s]]
    /\ Finish(c)
    /\ UNCHANGED <<peers, clock, excused>>

\* Third: the peer's other primary tokens are revoked.
AddPeerRevokes(c) ==
    /\ Running(c, "add", 3)
    /\ tokens' = [s \in Secrets |->
                    IF PrimaryOf(op[c].peer, s) /\ s # op[c].secret
                      THEN [tokens[s] EXCEPT !.revoked = "yes"]
                      ELSE tokens[s]]
    /\ Finish(c)
    /\ UNCHANGED <<peers, clock, excused>>

\* Mutant of GraceUpdate: tokens whose grace is over get a new one.
GraceRevives(o, s) == tokens[s].revoked = "no"

\* The rows the UPDATE of rotate_peer_token selects: still valid when the clock
\* was read.
GraceUpdate(o, s) ==
    /\ tokens[s].revoked = "no"
    /\ tokens[s].grace = 0 \/ tokens[s].grace >= o.now

\* rotate_peer_token, first statement: valid primary tokens go into grace.
RotateGrace(c) ==
    /\ Running(c, "rotate", 1)
    /\ tokens' = [s \in Secrets |->
                    IF PrimaryOf(op[c].peer, s) /\ GraceUpdate(op[c], s)
                      THEN [tokens[s] EXCEPT !.grace = op[c].until]
                      ELSE tokens[s]]
    /\ Advance(c)
    /\ UNCHANGED <<peers, clock, excused>>

\* Mutant of RotateInsert: a token in the table is ignored, as in add_peer.
RotateIgnores(c) ==
    /\ Running(c, "rotate", 2)
    /\ tokens' = IF tokens[op[c].secret] = NoRow
                   THEN [tokens EXCEPT ![op[c].secret] = NewRow(op[c].peer, "primary")]
                   ELSE tokens
    /\ Advance(c)
    /\ UNCHANGED <<peers, clock, excused>>

\* Second: the new token.  A token in the table, or a peer that is not, is an
\* IntegrityError, and the grace of the old tokens stays.
RotateInsert(c) ==
    /\ Running(c, "rotate", 2)
    /\ IF tokens[op[c].secret] = NoRow /\ peers[op[c].peer] # NoSecret
         THEN /\ tokens' = [tokens EXCEPT ![op[c].secret] = NewRow(op[c].peer, "primary")]
              /\ Advance(c)
              /\ UNCHANGED excused
         ELSE /\ Finish(c)
              /\ excused' = excused \cup {op[c].peer}
              /\ UNCHANGED tokens
    /\ UNCHANGED <<peers, clock>>

\* Third: the peers row.
RotatePeerRow(c) ==
    /\ Running(c, "rotate", 3)
    /\ peers' = [peers EXCEPT ![op[c].peer] = op[c].secret]
    /\ Finish(c)
    /\ UNCHANGED <<tokens, clock, excused>>

\* add_device_token, one transaction; a token in the table is refused.
AddDevice(p, s) ==
    /\ peers[p] # NoSecret
    /\ Migrated[s] = NoRow
    /\ tokens' = [Migrated EXCEPT ![s] = NewRow(p, "device")]
    /\ excused' = excused \cup {op[c].peer : c \in {c \in Clis : op[c] # NoOp /\ op[c].secret = s}}
    /\ UNCHANGED <<peers, clock, op>>

\* revoke_device_token takes the id of any row, primary ones too.
RevokeDevice(s) ==
    /\ Migrated[s] # NoRow /\ Migrated[s].revoked = "no"
    /\ tokens' = [Migrated EXCEPT ![s].revoked = "yes"]
    /\ excused' = IF Migrated[s].line = "primary" THEN excused \cup {Migrated[s].peer} ELSE excused
    /\ UNCHANGED <<peers, clock, op>>

\* An operator process dies.  Only between the grace and the new token of
\* peer-rotate does that cut the peer off.
CliCrash(c) ==
    /\ op[c] # NoOp
    /\ Finish(c)
    /\ excused' = IF Running(c, "rotate", 2) THEN excused \cup {op[c].peer} ELSE excused
    /\ UNCHANGED <<peers, tokens, clock>>

\* The server opens the store.
Open ==
    /\ tokens' = Migrated
    /\ UNCHANGED <<peers, clock, op, excused>>

Tick ==
    /\ clock < MaxClock
    /\ clock' = clock + 1
    /\ UNCHANGED <<peers, tokens, op, excused>>

-----------------------------------------------------------------------------
Init ==
    /\ peers = [p \in Peers |-> NoSecret]
    /\ tokens = [s \in Secrets |-> NoRow]
    /\ clock = 1
    /\ op = [c \in Clis |-> NoOp]
    /\ excused = {}

Next ==
    \/ \E c \in Clis :
          \/ \E cmd \in {"add", "rotate"}, p \in Peers, s \in Secrets : Begin(c, cmd, p, s)
          \/ AddPeerRow(c) \/ AddPeerToken(c) \/ AddPeerRevokes(c)
          \/ RotateGrace(c) \/ RotateInsert(c) \/ RotatePeerRow(c)
          \/ CliCrash(c)
    \/ \E p \in Peers, s \in Secrets : AddDevice(p, s)
    \/ \E s \in Secrets : RevokeDevice(s)
    \/ Open \/ Tick

Spec == Init /\ [][Next]_vars

-----------------------------------------------------------------------------
(* Properties *)

\* Every variable has its type.
TypeOK ==
    /\ peers \in [Peers -> Secrets \cup {NoSecret}]
    /\ tokens \in [Secrets -> Row \cup {NoRow}]
    /\ clock \in Nat
    /\ op \in [Clis -> Ops \cup {NoOp}]
    /\ excused \subseteq Peers

\* A token that was revoked, or whose grace is over, is never accepted again: not
\* by peer-add with the same token, by the migration at the next start, nor by a
\* rotation, unless that rotation read the clock while the token was valid.
NoRevival ==
    [][\A s \in Secrets :
          tokens[s] # NoRow /\ ~Accepted(s) /\ Accepted(s)' =>
              \E c \in Clis :
                 Running(c, "rotate", 1) /\ op[c].now <= tokens[s].grace]_vars

\* A device's token changes only when it is revoked itself, whatever happens to
\* the peer's own tokens ("a single device token can be revoked without affecting
\* the others", SECURITY.md).
DevicesUnaffected ==
    [][\A s \in Secrets :
          tokens[s] # NoRow /\ tokens[s].line = "device" /\ tokens'[s] # tokens[s] =>
              /\ tokens'[s] = [tokens[s] EXCEPT !.revoked = "yes"]
              /\ \A r \in Secrets \ {s} : tokens[r] # NoRow => tokens'[r] = tokens[r]]_vars

\* p has a token for good, or will have it when the store is opened next.
HasToken(p) ==
    \E s \in Secrets :
        \/ tokens[s] = NewRow(p, "primary")
        \/ tokens[s] = NoRow /\ peers[p] = s

\* Commands that come one after the other never leave a registered peer without a
\* token, though peer-add may die after any of its statements and peer-rotate after its
\* second.  A peer-rotate that stops after its first (it dies, or its token is in the
\* table already) is excused: its peer is cut off when the grace of the old token ends.
NotLockedOut ==
    \A p \in Peers :
        /\ peers[p] # NoSecret
        /\ p \notin excused
        /\ \A c \in Clis : op[c] # NoOp => op[c].peer # p
        => HasToken(p)

\* The tables are sound: typed, and no peer is cut off that is not excused.
TokensSound == TypeOK /\ NotLockedOut
=============================================================================
