------------------------------ MODULE TaskBoard ------------------------------
(***************************************************************************)
(* The task board (tools/tasklib.py): the state of a task is a fold over   *)
(* the task events of the ledger, in the order of their ids.  Any peer may *)
(* post any event at any time, twice, or on the ground of a board it read  *)
(* long ago, so an event may find the task in any state.                   *)
(*                                                                         *)
(* One task; events of another one do not touch it.  A step is the next    *)
(* event of the log, folded in.  An event that the fold records only as an *)
(* anomaly is an event whose action leaves the task as it is.  update      *)
(* changes descriptive fields only and is left out.                        *)
(***************************************************************************)
EXTENDS Naturals

CONSTANTS
    Workers,    \* the peers that post task events
    Nobody      \* an empty field of a payload, and no assignee

ASSUME TaskAssumption == Nobody \notin Workers

OPEN == {"pending", "accepted", "in_progress", "waiting"}
TERMINAL == {"completed", "failed", "cancelled"}

VARIABLES
    task,       \* the fold: "absent" before the first event, "void" for status None
    accepter    \* history: the peer whose accept the task rests on

taskVars == <<task, accepter>>

Task == [status : {"absent", "void"} \cup OPEN \cup TERMINAL,
         assignee : Workers \cup {Nobody},
         deliverable : {"none", "given"}, verification : {"none", "given"}]
NoTask == [status |-> "absent", assignee |-> Nobody, deliverable |-> "none",
           verification |-> "none"]

-----------------------------------------------------------------------------
\* A create without title or assignee opens nothing, nor does any other event
\* before the create; from then on the task id is spoilt.
TaskCreate(to) ==
    /\ task' = IF task.status # "absent" THEN task
               ELSE IF to = Nobody THEN [NoTask EXCEPT !.status = "void"]
               ELSE [NoTask EXCEPT !.status = "pending", !.assignee = to]
    /\ UNCHANGED accepter

TaskBeforeCreate ==
    /\ task.status = "absent"
    /\ task' = [task EXCEPT !.status = "void"]
    /\ UNCHANGED accepter

TaskAccept(src) ==
    /\ task.status \in OPEN
    /\ IF src = task.assignee /\ task.status = "pending"
         THEN task' = [task EXCEPT !.status = "accepted"] /\ accepter' = src
         ELSE UNCHANGED <<task, accepter>>

TaskStart ==
    /\ task.status \in OPEN
    /\ task' = IF task.status \in {"accepted", "waiting"}
                 THEN [task EXCEPT !.status = "in_progress"] ELSE task
    /\ UNCHANGED accepter

TaskBlock ==
    /\ task.status \in OPEN
    /\ task' = IF task.status \in {"accepted", "in_progress"}
                 THEN [task EXCEPT !.status = "waiting"] ELSE task
    /\ UNCHANGED accepter

\* deliver and verify, by anybody and in any open state.
TaskDeliver ==
    /\ task.status \in OPEN
    /\ task' = [task EXCEPT !.deliverable = "given"]
    /\ UNCHANGED accepter

TaskVerify ==
    /\ task.status \in OPEN
    /\ task' = [task EXCEPT !.verification = "given"]
    /\ UNCHANGED accepter

\* Mutant of TaskHandoff: the status stays.
HandoffKeepsStatus(to) ==
    /\ task.status \in OPEN
    /\ task' = IF to = Nobody THEN task ELSE [task EXCEPT !.assignee = to]
    /\ accepter' = IF to = Nobody THEN accepter ELSE Nobody

\* The task goes to another peer, who has to accept it; the deliverable stays.
TaskHandoff(to) ==
    /\ task.status \in OPEN
    /\ task' = IF to = Nobody THEN task
               ELSE [task EXCEPT !.assignee = to, !.status = "pending"]
    /\ accepter' = IF to = Nobody THEN accepter ELSE Nobody

\* complete brings a deliverable and a verification with it, or rests on earlier ones.
TaskComplete(deliverable, verification) ==
    /\ task.status \in OPEN
    /\ LET d == IF deliverable = "given" THEN "given" ELSE task.deliverable
           v == IF verification = "given" THEN "given" ELSE task.verification
       IN  IF task.status = "in_progress" /\ d = "given" /\ v = "given"
             THEN task' = [task EXCEPT !.status = "completed", !.deliverable = d,
                                       !.verification = v]
             ELSE UNCHANGED task
    /\ UNCHANGED accepter

\* fail (with a reason) and cancel, by anybody.
TaskEnds(status) ==
    /\ task.status \in OPEN
    /\ task' = [task EXCEPT !.status = status]
    /\ UNCHANGED accepter

TaskInit == task = NoTask /\ accepter = Nobody

TaskNext ==
    \/ \E to \in Workers \cup {Nobody} : TaskCreate(to) \/ TaskHandoff(to)
    \/ \E src \in Workers : TaskAccept(src)
    \/ TaskBeforeCreate \/ TaskStart \/ TaskBlock \/ TaskDeliver \/ TaskVerify
    \/ \E d, v \in {"none", "given"} : TaskComplete(d, v)
    \/ \E status \in {"failed", "cancelled"} : TaskEnds(status)

TaskSpec == TaskInit /\ [][TaskNext]_taskVars

-----------------------------------------------------------------------------
(* Properties *)

\* Every variable has its type.
TaskTypeOK ==
    /\ task \in Task
    /\ accepter \in Workers \cup {Nobody}

\* Work rests on the consent of the peer who has the task now: whatever is accepted,
\* in progress, waiting or completed was accepted by its present assignee, after every
\* handoff ("create -> accept -> start <-> block -> handoff -> complete").
ConsentOfAssignee ==
    task.status \in {"accepted", "in_progress", "waiting", "completed"} =>
        accepter = task.assignee

\* "completion must be verifiable": a deliverable and a verification were posted, by
\* whomever and under whichever assignee.
CompletionVerifiable ==
    task.status = "completed" =>
        task.deliverable = "given" /\ task.verification = "given"

\* The task's record, and what its status rests on.
TaskSound == TaskTypeOK /\ ConsentOfAssignee /\ CompletionVerifiable
=============================================================================
