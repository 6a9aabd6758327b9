-------------------------- MODULE ActivationWorkflow --------------------------
(***************************************************************************)
(* One service activation and the workflow engine that executes it:        *)
(* create_activation, start_activation and update_activation of the        *)
(* activation service, execute_workflow, its retries and its rollback.     *)
(* The activation and its steps are database rows; every commit is a step  *)
(* of the model, and so is every call of a handler and every query of the  *)
(* rows, because other requests run in between and the process may die     *)
(* there.                                                                  *)
(*                                                                         *)
(* The handlers reach systems outside (RADIUS, NAS, billing).  What they   *)
(* leave there is kept in effect: how often a step has been applied and    *)
(* not undone.  A handler that returns True has applied its step, a        *)
(* rollback handler that returns True has undone it, and one that returns  *)
(* False or raises has done nothing.                                       *)
(***************************************************************************)
EXTENDS Integers, FiniteSets

CONSTANTS Runs,        \* calls of start_activation that may be under way at once
          StepCount,   \* number of steps of the workflow, in step_order
          MaxRetries,  \* max_retries of every step
          MaxUpdates,  \* bound: how often a manager sets the status by hand
          MaxCrashes   \* bound: how often a request dies (restart, database error)

ASSUME WorkflowAssumption ==
    /\ StepCount \in Nat \ {0}
    /\ MaxRetries \in Nat
    /\ MaxUpdates \in Nat /\ MaxCrashes \in Nat

VARIABLES created,     \* how far create_activation has come
          status,      \* status of the activation row
          stepStatus,  \* status of each step row
          retries,     \* retry_count of each step row
          effect,      \* what the handlers have left outside
          pc,          \* where each run is
          cur,         \* the step each run executes
          tries,       \* the retry_count each run read before it called the handler
          undo,        \* the steps each run has yet to roll back
          undoFailed,  \* the steps whose rollback failed in this run
          updates, crashes

run == <<pc, cur, tries, undo, undoFailed>>
vars == <<created, status, stepStatus, retries, effect, run, updates, crashes>>

Steps == 1 .. StepCount

Statuses == {"pending", "in_progress", "completed", "failed", "cancelled",
             "rollback_in_progress", "rollback_completed", "rollback_failed"}
\* "row": the activation is committed, its steps are not.  "late": they were
\* committed after the activation had been started.  "died": they never are.
Creations == {"no", "row", "steps", "late", "died"}
StepStatuses == {"pending", "in_progress", "completed", "failed"}
Places == {"idle", "begin", "load", "step", "handler", "returnedTrue", "returnedFalse",
           "raised", "finish", "rollback", "collect", "undo"}

TypeOK ==
    /\ created \in Creations
    /\ status \in Statuses
    /\ stepStatus \in [Steps -> StepStatuses]
    /\ retries \in [Steps -> 0 .. MaxRetries]
    /\ effect \in [Steps -> Int]
    /\ pc \in [Runs -> Places]
    /\ cur \in [Runs -> Steps]
    /\ tries \in [Runs -> 0 .. MaxRetries]
    /\ undo \in [Runs -> SUBSET Steps]
    /\ undoFailed \in [Runs -> SUBSET Steps]
    /\ updates \in 0 .. MaxUpdates
    /\ crashes \in 0 .. MaxCrashes

Init ==
    /\ created = "no"
    /\ status = "pending"
    /\ stepStatus = [s \in Steps |-> "pending"]
    /\ retries = [s \in Steps |-> 0]
    /\ effect = [s \in Steps |-> 0]
    /\ pc = [e \in Runs |-> "idle"]
    /\ cur = [e \in Runs |-> 1]
    /\ tries = [e \in Runs |-> 0]
    /\ undo = [e \in Runs |-> {}]
    /\ undoFailed = [e \in Runs |-> {}]
    /\ updates = 0
    /\ crashes = 0

------------------------------------------------------------------------------
Goto(e, place) == pc' = [pc EXCEPT ![e] = place]

\* The run is over: nothing of it remains but what it committed.
Leave(e) ==
    /\ Goto(e, "idle")
    /\ cur' = [cur EXCEPT ![e] = 1]
    /\ tries' = [tries EXCEPT ![e] = 0]
    /\ undo' = [undo EXCEPT ![e] = {}]
    /\ undoFailed' = [undoFailed EXCEPT ![e] = {}]

\* create_activation commits the activation, then its steps in one more commit.
CreateActivation ==
    /\ created = "no"
    /\ created' = "row"
    /\ UNCHANGED <<status, stepStatus, retries, effect, run, updates, crashes>>

CreateSteps ==
    /\ created = "row"
    /\ created' = IF status = "pending" /\ \A e \in Runs : pc[e] = "idle"
                  THEN "steps" ELSE "late"
    /\ UNCHANGED <<status, stepStatus, retries, effect, run, updates, crashes>>

CreateDies ==
    /\ created = "row" /\ crashes < MaxCrashes
    /\ created' = "died"
    /\ crashes' = crashes + 1
    /\ UNCHANGED <<status, stepStatus, retries, effect, run, updates>>

\* start_activation reads the activation and refuses any status but PENDING.
Start(e) ==
    /\ pc[e] = "idle"
    /\ created # "no" /\ status = "pending"
    /\ Goto(e, "begin")
    /\ UNCHANGED <<created, status, stepStatus, retries, effect, cur, tries, undo, undoFailed,
                   updates, crashes>>

\* execute_workflow commits IN_PROGRESS.  The prerequisite and payment checks
\* after it only set flags no one reads again.
Begin(e) ==
    /\ pc[e] = "begin"
    /\ status' = "in_progress"
    /\ Goto(e, "load")
    /\ UNCHANGED <<created, stepStatus, retries, effect, cur, tries, undo, undoFailed, updates, crashes>>

\* The query for the steps finds those that are committed.
LoadSteps(e) ==
    /\ pc[e] = "load"
    /\ Goto(e, IF created \in {"steps", "late"} THEN "step" ELSE "finish")
    /\ UNCHANGED <<created, status, stepStatus, retries, effect, cur, tries, undo, undoFailed,
                   updates, crashes>>

\* The steps of an activation have no depends_on_step_id (services.py:349-374).
BeginStep(e) ==
    /\ pc[e] = "step"
    /\ stepStatus' = [stepStatus EXCEPT ![cur[e]] = "in_progress"]
    /\ tries' = [tries EXCEPT ![e] = retries[cur[e]]]
    /\ Goto(e, "handler")
    /\ UNCHANGED <<created, status, retries, effect, cur, undo, undoFailed, updates, crashes>>

CallHandler(e) ==
    /\ pc[e] = "handler"
    /\ \/ /\ effect' = [effect EXCEPT ![cur[e]] = @ + 1]
          /\ Goto(e, "returnedTrue")
       \/ /\ UNCHANGED effect
          /\ \E place \in {"returnedFalse", "raised"} : Goto(e, place)
    /\ UNCHANGED <<created, status, stepStatus, retries, cur, tries, undo, undoFailed, updates, crashes>>

CompleteStep(e) ==
    /\ pc[e] = "returnedTrue"
    /\ stepStatus' = [stepStatus EXCEPT ![cur[e]] = "completed"]
    /\ IF cur[e] < StepCount
       THEN cur' = [cur EXCEPT ![e] = @ + 1] /\ Goto(e, "step")
       ELSE UNCHANGED cur /\ Goto(e, "finish")
    /\ UNCHANGED <<created, status, retries, effect, tries, undo, undoFailed, updates, crashes>>

\* Mutants of RetryStep: one retry too many; the retry is not counted.
RetryStepOnceMore(e) ==
    /\ pc[e] = "returnedFalse"
    /\ tries[e] <= MaxRetries
    /\ retries' = [retries EXCEPT ![cur[e]] = tries[e] + 1]
    /\ stepStatus' = [stepStatus EXCEPT ![cur[e]] = "pending"]
    /\ Goto(e, "step")
    /\ UNCHANGED <<created, status, effect, cur, tries, undo, undoFailed, updates, crashes>>

RetryStepUncounted(e) ==
    /\ pc[e] = "returnedFalse"
    /\ tries[e] < MaxRetries
    /\ stepStatus' = [stepStatus EXCEPT ![cur[e]] = "pending"]
    /\ Goto(e, "step")
    /\ UNCHANGED <<created, status, retries, effect, cur, tries, undo, undoFailed, updates, crashes>>

RetryStep(e) ==
    /\ pc[e] = "returnedFalse"
    /\ tries[e] < MaxRetries
    /\ retries' = [retries EXCEPT ![cur[e]] = tries[e] + 1]
    /\ stepStatus' = [stepStatus EXCEPT ![cur[e]] = "pending"]
    /\ Goto(e, "step")
    /\ UNCHANGED <<created, status, effect, cur, tries, undo, undoFailed, updates, crashes>>

\* Mutant of FailStep: the loop goes on with the next step.
FailStepGoesOn(e) ==
    /\ \/ pc[e] = "returnedFalse" /\ tries[e] >= MaxRetries
       \/ pc[e] = "raised"
    /\ stepStatus' = [stepStatus EXCEPT ![cur[e]] = "failed"]
    /\ IF cur[e] < StepCount
       THEN cur' = [cur EXCEPT ![e] = @ + 1] /\ Goto(e, "step")
       ELSE UNCHANGED cur /\ Goto(e, "finish")
    /\ UNCHANGED <<created, status, retries, effect, tries, undo, undoFailed, updates, crashes>>

\* Out of retries, or the handler raised: then it is not retried.
FailStep(e) ==
    /\ \/ pc[e] = "returnedFalse" /\ tries[e] >= MaxRetries
       \/ pc[e] = "raised"
    /\ stepStatus' = [stepStatus EXCEPT ![cur[e]] = "failed"]
    /\ Goto(e, "rollback")
    /\ UNCHANGED <<created, status, retries, effect, cur, tries, undo, undoFailed, updates, crashes>>

Finish(e) ==
    /\ pc[e] = "finish"
    /\ status' = "completed"
    /\ Leave(e)
    /\ UNCHANGED <<created, stepStatus, retries, effect, updates, crashes>>

------------------------------------------------------------------------------
StartRollback(e) ==
    /\ pc[e] = "rollback"
    /\ status' = "rollback_in_progress"
    /\ Goto(e, "collect")
    /\ UNCHANGED <<created, stepStatus, retries, effect, cur, tries, undo, undoFailed, updates, crashes>>

\* Mutant of CollectUndo: every step, executed or not.
CollectUndoAll(e) ==
    /\ pc[e] = "collect"
    /\ undo' = [undo EXCEPT ![e] = Steps]
    /\ Goto(e, "undo")
    /\ UNCHANGED <<created, status, stepStatus, retries, effect, cur, tries, undoFailed, updates, crashes>>

\* The steps whose row says COMPLETED.
CollectUndo(e) ==
    /\ pc[e] = "collect"
    /\ undo' = [undo EXCEPT ![e] = {s \in Steps : stepStatus[s] = "completed"}]
    /\ Goto(e, "undo")
    /\ UNCHANGED <<created, status, stepStatus, retries, effect, cur, tries, undoFailed, updates, crashes>>

\* Mutant of Latest: step_order ascending.
Earliest(S) == CHOOSE s \in S : \A t \in S : s <= t

\* The next step to undo: the last in step_order.
Latest(S) == CHOOSE s \in S : \A t \in S : t <= s

\* _rollback_step; a failure is remembered and the others are still undone.
\* The row of the step keeps its status.
UndoStep(e) ==
    /\ pc[e] = "undo" /\ undo[e] # {}
    /\ LET s == Latest(undo[e]) IN
          /\ undo' = [undo EXCEPT ![e] = @ \ {s}]
          /\ \/ /\ effect' = [effect EXCEPT ![s] = @ - 1]
                /\ UNCHANGED undoFailed
             \/ /\ undoFailed' = [undoFailed EXCEPT ![e] = @ \cup {s}]
                /\ UNCHANGED effect
    /\ UNCHANGED <<created, status, stepStatus, retries, pc, cur, tries, updates, crashes>>

\* Mutant of EndRollback: the failures are forgotten.
EndRollbackWell(e) ==
    /\ pc[e] = "undo" /\ undo[e] = {}
    /\ status' = "rollback_completed"
    /\ Leave(e)
    /\ UNCHANGED <<created, stepStatus, retries, effect, updates, crashes>>

EndRollback(e) ==
    /\ pc[e] = "undo" /\ undo[e] = {}
    /\ status' = IF undoFailed[e] = {} THEN "rollback_completed" ELSE "rollback_failed"
    /\ Leave(e)
    /\ UNCHANGED <<created, stepStatus, retries, effect, updates, crashes>>

------------------------------------------------------------------------------
\* update_activation writes whatever status it is given.
UpdateActivation(s) ==
    /\ created # "no" /\ updates < MaxUpdates
    /\ updates' = updates + 1
    /\ status' = s
    /\ UNCHANGED <<created, stepStatus, retries, effect, run, crashes>>

\* The process dies, or the database refuses a commit, which no one catches.
Crash(e) ==
    /\ pc[e] # "idle" /\ crashes < MaxCrashes
    /\ crashes' = crashes + 1
    /\ Leave(e)
    /\ UNCHANGED <<created, status, stepStatus, retries, effect, updates>>

RunStep(e) ==
    \/ Begin(e) \/ LoadSteps(e) \/ BeginStep(e) \/ CallHandler(e)
    \/ CompleteStep(e) \/ RetryStep(e) \/ FailStep(e) \/ Finish(e)
    \/ StartRollback(e) \/ CollectUndo(e) \/ UndoStep(e) \/ EndRollback(e)

Next ==
    \/ CreateActivation \/ CreateSteps \/ CreateDies
    \/ \E e \in Runs : Start(e) \/ RunStep(e) \/ Crash(e)
    \/ \E s \in Statuses : UpdateActivation(s)

Spec == Init /\ [][Next]_vars

\* A run that has begun goes on, and its handlers return.
FairSpec == Spec /\ \A e \in Runs : WF_vars(RunStep(e))

------------------------------------------------------------------------------
\* The hazards of a status set by hand, and of an activation started before its
\* steps exist, are apart: the properties below are about an activation whose
\* status only the engine has written and which had its steps when it started.
Untouched == updates = 0
Regular == Untouched /\ created = "steps"

InPlace == {s \in Steps : effect[s] > 0}

\* An activation that reads COMPLETED is provisioned, every step of it:
\* "If we get here, all steps completed successfully" (workflow_engine.py:129).
CompletedIsProvisioned == Regular /\ status = "completed" => InPlace = Steps

\* The same line, for the rows: an activation that reads COMPLETED has no step
\* that was not executed.
CompletedExecutedAll ==
    Untouched /\ status = "completed" => \A s \in Steps : stepStatus[s] = "completed"

\* An activation that reads PENDING, FAILED, CANCELLED or ROLLBACK_COMPLETED has
\* left nothing outside, whatever failed and wherever a run died.
NothingLeftBehind ==
    Regular /\ status \in {"pending", "failed", "cancelled", "rollback_completed"}
    => InPlace = {}

\* Rollback undoes only what is in place, at most once.
UndoesOnlyApplied == Regular => \A s \in Steps : effect[s] >= 0

\* Rollback goes backwards: while it runs, a step that has been undone has no
\* later step still in place, except one whose own rollback failed.
RollsBackInReverse ==
    \A e \in Runs : Regular /\ pc[e] = "undo" =>
       \A s \in InPlace \ undoFailed[e] : \A t \in Steps :
          t < s /\ stepStatus[t] = "completed" => t \in InPlace

\* A run ends by itself, in a status that says how it ended: retries run out and
\* rollback reaches its end.  Only a crash, or a status set by hand, leaves the
\* activation in between.
Settles ==
    LET underway == status \in {"in_progress", "rollback_in_progress"}
    IN  underway ~> (~underway \/ crashes > 0 \/ ~Untouched)

==============================================================================
