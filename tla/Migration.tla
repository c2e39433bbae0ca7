------------------------------ MODULE Migration ------------------------------
(***************************************************************************)
(* The move from the SQLite ledger to rqlite (atalk/migration.py): import  *)
(* and sync of a snapshot into the shadow ledger, run by an operator.      *)
(*                                                                         *)
(* Rows go over in batches, each a transaction sent by RqliteClient, which *)
(* tries one endpoint after the other: an attempt that failed may still be *)
(* executed, once, at any later time, perhaps under the next command.  The *)
(* operator's process may die.  Nobody else writes the shadow ledger.      *)
(***************************************************************************)
EXTENDS Naturals, FiniteSets

CONSTANTS
    Tables,     \* number of tables; the last one is settings
    Keys,       \* primary keys of a table
    Snapshots,  \* number of snapshots, taken one after the other
    Content,    \* what each snapshot holds: Content[s][t][k], 0 for no row
    Defaults,   \* the settings rows that initializing the shadow ledger leaves
    Nodes,      \* endpoints of the rqlite client
    MaxOrphans, \* bound: failed attempts that may still be executed at once
    MaxCommands \* bound: commands the operator gives

Settings == Tables
TableRows == [Keys -> Nat]

ASSUME MigrationAssumption ==
    /\ Tables \in Nat \ {0} /\ Snapshots \in Nat \ {0} /\ Nodes \in Nat \ {0}
    /\ MaxOrphans \in Nat /\ MaxCommands \in Nat
    /\ IsFiniteSet(Keys) /\ Keys # {}
    /\ Content \in [1..Snapshots -> [1..Tables -> TableRows]]
    /\ Defaults \in TableRows

\* A batch: DELETE FROM settings, or INSERT or upsert of a row (batch_size = 1).
Batch == [kind : {"clear", "insert", "upsert"}, table : 1..Tables, key : Keys, value : Nat]

VARIABLES
    shadow,     \* the tables of the shadow ledger
    command,    \* the command that runs, "none" when there is none
    snap,       \* the snapshot it has read
    at,         \* table whose batches it is sending, 0 before the first
    left,       \* keys of that table not sent yet
    batch,      \* batches it is sending, one or none
    tries,      \* endpoints not tried yet
    checked,    \* tables whose count verify_counts has compared
    verdict,    \* what the last command reported
    orphans,    \* failed attempts that may still be executed, as <<batch, command number>>
    commands,   \* number of the command
    disturbed   \* history: "yes" when an earlier command's attempt ran under this one

tool == <<command, snap, at, left, batch, tries, checked, verdict>>
migrationVars == <<shadow, command, snap, at, left, batch, tries, checked, verdict, orphans,
                   commands, disturbed>>

-----------------------------------------------------------------------------
\* INSERT fails on a primary key that is taken; ON CONFLICT makes it an update.
Conflicts(b) == b.kind = "insert" /\ shadow[b.table][b.key] # 0

\* What executing the batch makes of the tables; a failed transaction is rolled back.
Executed(b) ==
    IF Conflicts(b) THEN shadow
    ELSE IF b.kind = "clear" THEN [shadow EXCEPT ![b.table] = [k \in Keys |-> 0]]
    ELSE [shadow EXCEPT ![b.table][b.key] = b.value]

Count(rows) == Cardinality({k \in Keys : rows[k] # 0})

AnyKey == CHOOSE k \in Keys : TRUE

\* Opening the shadow ledger for import creates what its schema lacks, the default
\* settings too (INSERT OR IGNORE).
Opened(cmd) ==
    IF cmd = "import"
      THEN [shadow EXCEPT ![Settings] = [k \in Keys |-> IF @[k] = 0 THEN Defaults[k] ELSE @[k]]]
      ELSE shadow

\* assert_empty_shadow: settings may hold rows.
EmptyShadow == \A t \in 1..Tables \ {Settings} : Count(shadow[t]) = 0

\* import begins with an empty shadow ledger, sync with any.
StartCommand(cmd, s) ==
    /\ command = "none" /\ commands < MaxCommands
    /\ cmd = "import" => EmptyShadow
    /\ command' = cmd /\ snap' = s
    /\ batch' = IF cmd = "import"
                  THEN {[kind |-> "clear", table |-> Settings, key |-> AnyKey, value |-> 0]}
                  ELSE {}
    /\ at' = 0 /\ left' = {} /\ tries' = Nodes /\ checked' = 0
    /\ verdict' = "running" /\ commands' = commands + 1 /\ disturbed' = "no"
    /\ shadow' = Opened(cmd)
    /\ UNCHANGED orphans

\* An import that is refused has opened the shadow ledger all the same.
ImportRefused ==
    /\ command = "none" /\ commands < MaxCommands
    /\ ~EmptyShadow
    /\ verdict' = "failed" /\ commands' = commands + 1 /\ disturbed' = "no"
    /\ shadow' = Opened("import")
    /\ UNCHANGED <<command, snap, at, left, batch, tries, checked, orphans>>

\* The next table, in the order of TABLES.
NextTable ==
    /\ command # "none" /\ batch = {} /\ left = {} /\ at < Tables
    /\ at' = at + 1
    /\ left' = {k \in Keys : Content[snap][at + 1][k] # 0}
    /\ UNCHANGED <<shadow, command, snap, batch, tries, checked, verdict, orphans, commands,
                   disturbed>>

BatchKind == IF command = "import" THEN "insert" ELSE "upsert"

NextBatch(k) ==
    /\ command # "none" /\ batch = {} /\ k \in left
    /\ batch' = {[kind |-> BatchKind, table |-> at, key |-> k, value |-> Content[snap][at][k]]}
    /\ left' = left \ {k}
    /\ tries' = Nodes
    /\ UNCHANGED <<shadow, command, snap, at, checked, verdict, orphans, commands, disturbed>>

Fail ==
    /\ command' = "none" /\ verdict' = "failed" /\ batch' = {} /\ left' = {}
    /\ UNCHANGED <<snap, at, tries, checked>>

\* An endpoint executes the batch and its answer arrives: an SQL error raises.
BatchAnswered(b) ==
    /\ b \in batch
    /\ shadow' = Executed(b)
    /\ IF Conflicts(b)
         THEN Fail
         ELSE batch' = {} /\ UNCHANGED <<command, snap, at, left, tries, checked, verdict>>
    /\ UNCHANGED <<orphans, commands, disturbed>>

\* Mutant of BatchLost: after the last endpoint the command goes on.
BatchLostIgnored(b) ==
    /\ b \in batch
    /\ batch' = {}
    /\ UNCHANGED <<shadow, command, snap, at, left, tries, checked, verdict, orphans, commands,
                   disturbed>>

\* The attempt is lost, for good or to be executed yet; after the last endpoint the
\* command raises RaftUnavailable.
BatchLost(b) ==
    /\ b \in batch
    /\ \/ UNCHANGED orphans
       \/ /\ Cardinality(orphans) < MaxOrphans
          /\ orphans' = orphans \cup {<<b, commands>>}
    /\ IF tries = 1
         THEN Fail
         ELSE tries' = tries - 1 /\ UNCHANGED <<command, snap, at, left, batch, checked, verdict>>
    /\ UNCHANGED <<shadow, commands, disturbed>>

\* A lost attempt is executed after all.
RunOrphan(o) ==
    /\ o \in orphans
    /\ shadow' = Executed(o[1])
    /\ orphans' = orphans \ {o}
    /\ disturbed' = IF o[2] # commands THEN "yes" ELSE disturbed
    /\ UNCHANGED <<tool, commands>>

AllSent == command # "none" /\ batch = {} /\ left = {} /\ at = Tables

\* After the last table the import returns.
Compared ==
    /\ checked' = checked + 1
    /\ IF checked + 1 = Tables
         THEN command' = "none" /\ verdict' = "imported"
         ELSE UNCHANGED <<command, verdict>>
    /\ UNCHANGED <<snap, at, left, batch, tries>>

\* Mutant of Verify: the counts are not compared.
VerifyNothing ==
    /\ AllSent /\ command = "import"
    /\ Compared
    /\ UNCHANGED <<shadow, orphans, commands, disturbed>>

\* verify_counts, which import ends with: one table after the other is compared, and
\* a mismatch makes the import raise.
Verify ==
    /\ AllSent /\ command = "import"
    /\ IF Count(shadow[checked + 1]) = Count(Content[snap][checked + 1]) THEN Compared ELSE Fail
    /\ UNCHANGED <<shadow, orphans, commands, disturbed>>

SyncReturns ==
    /\ AllSent /\ command = "sync"
    /\ verdict' = "synced"
    /\ command' = "none"
    /\ UNCHANGED <<shadow, snap, at, left, batch, tries, checked, orphans, commands, disturbed>>

\* The process dies, or a count cannot be read; the attempt on its way may still be executed.
ToolDies ==
    /\ command # "none"
    /\ orphans' \in {orphans, orphans \cup {<<b, commands>> : b \in batch}}
    /\ Cardinality(orphans') <= MaxOrphans
    /\ Fail
    /\ UNCHANGED <<shadow, commands, disturbed>>

MigrationInit ==
    /\ shadow = [t \in 1..Tables |-> IF t = Settings THEN Defaults ELSE [k \in Keys |-> 0]]
    /\ command = "none" /\ snap = 1 /\ at = 0 /\ left = {} /\ batch = {} /\ tries = Nodes
    /\ checked = 0
    /\ verdict = "none" /\ orphans = {} /\ commands = 0 /\ disturbed = "no"

MigrationNext ==
    \/ \E cmd \in {"import", "sync"}, s \in 1..Snapshots : StartCommand(cmd, s)
    \/ ImportRefused \/ NextTable
    \/ \E k \in Keys : NextBatch(k)
    \/ \E b \in batch : BatchAnswered(b) \/ BatchLost(b)
    \/ \E o \in orphans : RunOrphan(o)
    \/ Verify \/ SyncReturns \/ ToolDies

MigrationSpec == MigrationInit /\ [][MigrationNext]_migrationVars

-----------------------------------------------------------------------------
(* Properties *)

\* Every variable has its type.
MigrationTypeOK ==
    /\ shadow \in [1..Tables -> TableRows]
    /\ command \in {"none", "import", "sync"} /\ snap \in 1..Snapshots
    /\ at \in 0..Tables /\ left \subseteq Keys /\ batch \subseteq Batch
    /\ tries \in 1..Nodes /\ checked \in 0..Tables
    /\ verdict \in {"none", "running", "failed", "imported", "synced"}
    /\ orphans \subseteq Batch \X (1..MaxCommands)
    /\ commands \in 0..MaxCommands /\ disturbed \in {"no", "yes"}

\* An import that reports success has copied the snapshot: no row is missing,
\* old or left over, though any of its batches may have been executed twice or late,
\* the DELETE of the settings too.
ImportWhole ==
    [][verdict' = "imported" /\ verdict # "imported" /\ disturbed = "no" =>
          shadow' = Content[snap]]_migrationVars

\* A sync that reported success, after whatever imports and syncs that failed, leaves
\* every row of its snapshot in place with its value, until an attempt of an earlier
\* command is executed.
SyncCurrent ==
    verdict = "synced" /\ disturbed = "no" =>
        \A t \in 1..Tables, k \in Keys :
            Content[snap][t][k] # 0 => shadow[t][k] = Content[snap][t][k]

\* The copy is sound: typed, and a sync that succeeded is current.
SyncSound == MigrationTypeOK /\ SyncCurrent
=============================================================================
