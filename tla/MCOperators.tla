----------------------------- MODULE MCOperators -----------------------------
(***************************************************************************)
(* Instances of Tokens, Migration, MessageAcl and TaskBoard for TLC: the   *)
(* operator's commands on the SQLite ledger, on the shadow ledger and on   *)
(* the ACL file, and the board of the tasks, each in behaviours of its own.*)
(***************************************************************************)
EXTENDS Tokens, Migration, MessageAcl, TaskBoard, TLC

VARIABLE story

\* The second snapshot has changed a row, gained one and lost one.
TwoSnapshots ==
    << <<[k1 |-> 1, k2 |-> 1, k3 |-> 0], [k1 |-> 1, k2 |-> 0, k3 |-> 0]>>,
       <<[k1 |-> 2, k2 |-> 0, k3 |-> 1], [k1 |-> 2, k2 |-> 0, k3 |-> 0]>> >>
RetentionDays == [k1 |-> 9, k2 |-> 0, k3 |-> 0]

OperatorsInit ==
    /\ Init /\ MigrationInit /\ AclInit /\ TaskInit
    /\ story \in {"tokens", "migration", "acl file", "tasks"}

OperatorsNext ==
    /\ UNCHANGED story
    /\ \/ story = "tokens" /\ Next /\ UNCHANGED <<migrationVars, aclVars, taskVars>>
       \/ story = "migration" /\ MigrationNext /\ UNCHANGED <<vars, aclVars, taskVars>>
       \/ story = "acl file" /\ AclNext /\ UNCHANGED <<vars, migrationVars, taskVars>>
       \/ story = "tasks" /\ TaskNext /\ UNCHANGED <<vars, migrationVars, aclVars>>

OperatorsSpec ==
    OperatorsInit /\ [][OperatorsNext]_<<vars, migrationVars, aclVars, taskVars, story>>

Symmetry == Permutations(Secrets) \cup Permutations(Clis)
=============================================================================
