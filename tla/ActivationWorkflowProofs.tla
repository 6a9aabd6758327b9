----------------------- MODULE ActivationWorkflowProofs -----------------------
(***************************************************************************)
(* Proofs about ActivationWorkflow, for any number of steps, retries,      *)
(* crashes and hand-made updates: type correctness for any number of runs, *)
(* and, for an activation that one run executes at a time, that the status *)
(* of the activation agrees with what its handlers have left outside and   *)
(* that rollback undoes what is in place, backwards and once.              *)
(***************************************************************************)
EXTENDS ActivationWorkflow, FiniteSetTheorems, TLAPS

\* No two runs are under way at once.  The service does not ensure it (with two,
\* CompletedIsProvisioned fails), so it is a hypothesis about the behaviour.
OneAtATime == \A e, f \in Runs : pc[e] # "idle" /\ pc[f] # "idle" => e = f

OthersIdle(e) == \A f \in Runs \ {e} : pc[f] = "idle"

Executing == {"step", "handler", "returnedTrue", "returnedFalse", "raised"}

StepsUntouched == \A s \in Steps : effect[s] = 0 /\ stepStatus[s] = "pending"

\* A run that finds no steps executes none.
BeforeSteps ==
    created \in {"no", "row", "died"} =>
       /\ StepsUntouched
       /\ \A e \in Runs : pc[e] \in {"idle", "begin", "load", "finish"}

\* A run starts at the first step, and its rollback with no failure on record.
StartsClean ==
    \A e \in Runs :
       /\ pc[e] \in {"idle", "begin", "load"} => cur[e] = 1
       /\ pc[e] # "undo" => undoFailed[e] = {}

\* The status while a run is under way.
StatusOfRun(e) ==
    /\ pc[e] = "begin" => status = "pending"
    /\ pc[e] \in Executing \cup {"load", "finish", "rollback"} => status = "in_progress"
    /\ pc[e] \in {"collect", "undo"} => status = "rollback_in_progress"

\* The status and what is in place.
StatusOfEffect ==
    /\ status \notin {"failed", "cancelled"}
    /\ status = "pending" => StepsUntouched
    /\ status = "completed" => \A s \in Steps : effect[s] = 1
    /\ status = "rollback_completed" => \A s \in Steps : effect[s] = 0

AppliedOnce == \A s \in Steps : effect[s] \in {0, 1}

Completed(s) == stepStatus[s] = "completed"

\* The run has executed the steps before cur[e] and none after it.
InOrder(e) ==
    \A s \in Steps :
       /\ Completed(s) <=> s < cur[e]
       /\ effect[s] = 1 <=> s < cur[e] \/ (s = cur[e] /\ pc[e] = "returnedTrue")

\* What the rollback of e has left to do: the steps in place but for those whose
\* rollback failed, and with a step every earlier one that was completed.
Undoing(e) ==
    /\ undo[e] \cap undoFailed[e] = {}
    /\ \A s \in Steps : effect[s] = 1 <=> s \in undo[e] \cup undoFailed[e]
    /\ \A s \in undo[e], t \in Steps : t < s /\ Completed(t) => t \in undo[e]

Progress(e) ==
    /\ pc[e] = "load" => StepsUntouched
    /\ pc[e] \in Executing => InOrder(e)
    /\ pc[e] = "finish" => \A s \in Steps : effect[s] = 1
    /\ pc[e] \in {"rollback", "collect"} => \A s \in Steps : effect[s] = 1 <=> Completed(s)
    /\ pc[e] = "undo" => Undoing(e)

\* What holds of any number of runs.
Typed == TypeOK /\ BeforeSteps /\ StartsClean

\* What holds of a regular activation with one run.
Agrees ==
    /\ StatusOfEffect /\ AppliedOnce
    /\ \A e \in Runs : StatusOfRun(e) /\ Progress(e)

\* The inductive invariant.
Sound == Typed /\ (Regular => Agrees)

------------------------------------------------------------------------------
\* Among some steps there is a last one, and Latest finds it.
LEMMA LatestIsLast ==
    ASSUME NEW S \in SUBSET Steps, S # {}
    PROVE  Latest(S) \in S /\ \A t \in S : t <= Latest(S)
<1> DEFINE R == StrictSubsetOrdering(Steps)
           From(s) == s .. StepCount
           Tails == {From(s) : s \in S}
<1>1. IsFiniteSet(Steps)
  BY FS_Interval, WorkflowAssumption DEF Steps
<1>2. IsWellFoundedOn(R, SUBSET Steps)
  <2>1. FiniteSubsetsOf(Steps) = SUBSET Steps
    BY <1>1, FS_FiniteSubsetsOfFinite
  <2>2. IsWellFoundedOn(StrictSubsetOrdering(Steps), FiniteSubsetsOf(Steps))
    BY FS_StrictSubsetOrderingWellFounded
  <2> QED
    BY <2>1, <2>2
<1>3. Tails \subseteq SUBSET Steps /\ Tails # {}
  <2>1. \A s \in S : From(s) \subseteq Steps
    BY WorkflowAssumption DEF Steps
  <2> HIDE DEF From
  <2> QED
    BY <2>1
<1>4. PICK tail \in Tails : \A y \in Tails : <<y, tail>> \notin R
  <2> HIDE DEF R, Tails
  <2> QED
    BY <1>2, <1>3, WFMin
<1>5. PICK s \in S : tail = From(s)
  OBVIOUS
<1>6. ASSUME NEW t \in S, s < t
      PROVE  FALSE
  <2>1. From(t) \subseteq From(s) /\ s \in From(s) /\ s \notin From(t)
    BY <1>6, WorkflowAssumption DEF Steps
  <2>2. From(s) \in SUBSET Steps /\ From(t) \in SUBSET Steps
    BY WorkflowAssumption DEF Steps
  <2>3. <<From(t), From(s)>> \in R
    <3> HIDE DEF From
    <3> QED
      BY <2>1, <2>2 DEF StrictSubsetOrdering
  <2> QED
    BY <1>4, <1>5, <2>3
<1>7. \A t \in S : t <= s
  BY <1>6, WorkflowAssumption DEF Steps
<1> QED
  BY <1>7 DEF Latest

\* A run that left.
LEMMA LeaveTyped ==
    ASSUME TypeOK, NEW e \in Runs, Leave(e)
    PROVE  /\ pc' \in [Runs -> Places] /\ cur' \in [Runs -> Steps]
           /\ tries' \in [Runs -> 0 .. MaxRetries]
           /\ undo' \in [Runs -> SUBSET Steps] /\ undoFailed' \in [Runs -> SUBSET Steps]
           /\ pc'[e] = "idle" /\ cur'[e] = 1 /\ undoFailed'[e] = {}
           /\ \A f \in Runs \ {e} : /\ pc'[f] = pc[f] /\ cur'[f] = cur[f]
                                     /\ undoFailed'[f] = undoFailed[f]
BY WorkflowAssumption DEF TypeOK, Leave, Goto, Places, Steps

\* It holds initially.
LEMMA InitSound == Init => Sound
BY WorkflowAssumption DEF Init, Sound, Typed, TypeOK, BeforeSteps, StepsUntouched, StartsClean,
   Regular, Steps, Statuses, Creations, StepStatuses, Places

\* The steps that only move a run on, and write the status or the row of a step.
LEMMA MovesTyped ==
    ASSUME Typed, NEW e \in Runs,
           \/ Start(e) \/ Begin(e) \/ LoadSteps(e) \/ BeginStep(e) \/ FailStep(e)
           \/ StartRollback(e) \/ CollectUndo(e)
    PROVE  Typed'
<1>1. CASE Start(e)
  BY <1>1 DEF Typed, TypeOK, BeforeSteps, StepsUntouched, StartsClean, Start, Goto, Places
<1>2. CASE Begin(e)
  BY <1>2 DEF Typed, TypeOK, BeforeSteps, StepsUntouched, StartsClean, Begin, Goto, Places,
              Statuses
<1>3. CASE LoadSteps(e)
  BY <1>3 DEF Typed, TypeOK, BeforeSteps, StepsUntouched, StartsClean, LoadSteps, Goto, Places
<1>4. CASE BeginStep(e)
  BY <1>4 DEF Typed, TypeOK, BeforeSteps, StartsClean, BeginStep, Goto, Places, StepStatuses
<1>5. CASE FailStep(e)
  BY <1>5 DEF Typed, TypeOK, BeforeSteps, StartsClean, FailStep, Goto, Places, StepStatuses
<1>6. CASE StartRollback(e)
  BY <1>6 DEF Typed, TypeOK, BeforeSteps, StartsClean, StartRollback, Goto, Places, Statuses
<1>7. CASE CollectUndo(e)
  BY <1>7 DEF Typed, TypeOK, BeforeSteps, StartsClean, CollectUndo, Goto, Places
<1> QED
  BY <1>1, <1>2, <1>3, <1>4, <1>5, <1>6, <1>7

\* What a handler has left outside is a number.
LEMMA CallHandlerTyped ==
    ASSUME Typed, NEW e \in Runs, CallHandler(e)
    PROVE  Typed'
<1>1. PICK place \in {"returnedTrue", "returnedFalse", "raised"} : Goto(e, place)
  BY DEF CallHandler
<1>2. created \in {"steps", "late"}
  BY DEF Typed, TypeOK, BeforeSteps, CallHandler, Creations
<1>3. effect' \in [Steps -> Int] /\ pc' \in [Runs -> Places]
  BY <1>1 DEF Typed, TypeOK, CallHandler, Goto, Places
<1> QED
  BY <1>1, <1>2, <1>3 DEF Typed, TypeOK, BeforeSteps, StartsClean, CallHandler, Goto

\* A run goes on with the next step as long as there is one.
LEMMA CompleteStepTyped ==
    ASSUME Typed, NEW e \in Runs, CompleteStep(e)
    PROVE  Typed'
<1>1. cur[e] \in Steps /\ pc[e] = "returnedTrue" /\ created \in {"steps", "late"}
  BY DEF Typed, TypeOK, BeforeSteps, CompleteStep, Creations
<1>2. cur[e] < StepCount => cur[e] + 1 \in Steps
  BY <1>1, WorkflowAssumption DEF Steps
<1>3. cur' \in [Runs -> Steps] /\ pc' \in [Runs -> Places]
  BY <1>1, <1>2 DEF Typed, TypeOK, CompleteStep, Goto, Places
<1>4. stepStatus' \in [Steps -> StepStatuses]
  BY DEF Typed, TypeOK, CompleteStep, StepStatuses
<1>5. TypeOK'
  BY <1>3, <1>4 DEF Typed, TypeOK, CompleteStep
<1>6. BeforeSteps' /\ StartsClean'
  BY <1>1 DEF Typed, TypeOK, BeforeSteps, StartsClean, CompleteStep, Goto
<1> QED
  BY <1>5, <1>6 DEF Typed

\* No step is retried more often than max_retries.
LEMMA RetryStepTyped ==
    ASSUME Typed, NEW e \in Runs, RetryStep(e)
    PROVE  Typed'
<1>1. tries[e] + 1 \in 0 .. MaxRetries
  BY WorkflowAssumption DEF Typed, TypeOK, RetryStep
<1>2. retries' \in [Steps -> 0 .. MaxRetries] /\ stepStatus' \in [Steps -> StepStatuses]
  BY <1>1 DEF Typed, TypeOK, RetryStep, StepStatuses
<1>3. created \in {"steps", "late"}
  BY DEF Typed, TypeOK, BeforeSteps, RetryStep, Creations
<1> QED
  BY <1>2, <1>3 DEF Typed, TypeOK, BeforeSteps, StartsClean, RetryStep, Goto, Places

\* The steps a run ends with.
LEMMA LeavesTyped ==
    ASSUME Typed, NEW e \in Runs, Finish(e) \/ EndRollback(e) \/ Crash(e)
    PROVE  Typed'
<1>1. /\ pc' \in [Runs -> Places] /\ cur' \in [Runs -> Steps]
      /\ tries' \in [Runs -> 0 .. MaxRetries]
      /\ undo' \in [Runs -> SUBSET Steps] /\ undoFailed' \in [Runs -> SUBSET Steps]
      /\ pc'[e] = "idle" /\ cur'[e] = 1 /\ undoFailed'[e] = {}
      /\ \A f \in Runs \ {e} : /\ pc'[f] = pc[f] /\ cur'[f] = cur[f]
                                /\ undoFailed'[f] = undoFailed[f]
  BY LeaveTyped DEF Typed, Finish, EndRollback, Crash
<1>2. /\ status' \in Statuses /\ crashes' \in 0 .. MaxCrashes
      /\ UNCHANGED <<created, stepStatus, retries, effect, updates>>
  BY WorkflowAssumption DEF Typed, TypeOK, Finish, EndRollback, Crash, Statuses
<1>3. TypeOK'
  BY <1>1, <1>2 DEF Typed, TypeOK
<1>4. BeforeSteps' /\ StartsClean'
  BY <1>1, <1>2 DEF Typed, BeforeSteps, StepsUntouched, StartsClean
<1> QED
  BY <1>3, <1>4 DEF Typed

\* The steps of create_activation and update_activation.
LEMMA ServiceTyped ==
    ASSUME Typed, \/ CreateActivation \/ CreateSteps \/ CreateDies \/ UNCHANGED vars
                  \/ \E s \in Statuses : UpdateActivation(s)
    PROVE  Typed'
<1>1. UNCHANGED <<stepStatus, retries, effect, run>>
  BY DEF CreateActivation, CreateSteps, CreateDies, UpdateActivation, vars
<1>2. /\ created' \in Creations /\ status' \in Statuses
      /\ updates' \in 0 .. MaxUpdates /\ crashes' \in 0 .. MaxCrashes
  BY WorkflowAssumption DEF Typed, TypeOK, CreateActivation, CreateSteps, CreateDies,
     UpdateActivation, vars, Creations
<1>3. TypeOK'
  BY <1>1, <1>2 DEF Typed, TypeOK, run
<1>4. created' \in {"no", "row", "died"} => created \in {"no", "row", "died"}
  BY DEF CreateActivation, CreateSteps, CreateDies, UpdateActivation, vars
<1>5. BeforeSteps' /\ StartsClean'
  BY <1>1, <1>4 DEF Typed, BeforeSteps, StepsUntouched, StartsClean, run
<1> QED
  BY <1>3, <1>5 DEF Typed

\* A rollback undoes a step of the workflow.
LEMMA UndoStepTyped ==
    ASSUME Typed, NEW e \in Runs, UndoStep(e)
    PROVE  Typed'
<1>1. undo[e] \in SUBSET Steps /\ undo[e] # {} /\ pc[e] = "undo"
  BY DEF Typed, TypeOK, UndoStep
<1>2. PICK s \in Steps : s = Latest(undo[e])
  BY <1>1, LatestIsLast
<1>3. created \in {"steps", "late"}
  BY <1>1 DEF Typed, TypeOK, BeforeSteps, Creations
<1>4. /\ effect' \in [Steps -> Int] /\ undo' \in [Runs -> SUBSET Steps]
      /\ undoFailed' \in [Runs -> SUBSET Steps]
  BY <1>1, <1>2 DEF Typed, TypeOK, UndoStep
<1> QED
  BY <1>3, <1>4 DEF Typed, TypeOK, BeforeSteps, StartsClean, UndoStep

------------------------------------------------------------------------------
\* The step of a run finds and leaves the others idle.
LEMMA StepsAlone ==
    ASSUME Typed, OneAtATime, OneAtATime', NEW e \in Runs, Start(e) \/ RunStep(e) \/ Crash(e)
    PROVE  OthersIdle(e)'
<1>1. \A f \in Runs \ {e} : pc'[f] = pc[f]
  <2>1. (\E place : Goto(e, place)) \/ pc' = pc
    BY DEF RunStep, Start, Begin, LoadSteps, BeginStep, CallHandler, CompleteStep, RetryStep,
       FailStep, Finish, StartRollback, CollectUndo, UndoStep, EndRollback, Crash, Leave
  <2> QED
    BY <2>1 DEF Typed, TypeOK, Goto
<1>2. Start(e) => pc'[e] # "idle"
  BY DEF Typed, TypeOK, Start, Goto
<1>3. RunStep(e) \/ Crash(e) => pc[e] # "idle"
  BY DEF RunStep, Begin, LoadSteps, BeginStep, CallHandler, CompleteStep, RetryStep, FailStep,
     Finish, StartRollback, CollectUndo, UndoStep, EndRollback, Crash
<1> QED
  BY <1>1, <1>2, <1>3 DEF OneAtATime, OthersIdle

\* A run that is idle is in no state to disagree.
LEMMA OnlyRun ==
    ASSUME NEW e \in Runs, OthersIdle(e)',
           StatusOfEffect', AppliedOnce', StatusOfRun(e)', Progress(e)'
    PROVE  Agrees'
BY DEF OthersIdle, Agrees, StatusOfRun, Progress, Executing

\* A regular activation was regular before the step of a run.
LEMMA WasRegular ==
    ASSUME Sound, Regular', NEW e \in Runs, Start(e) \/ RunStep(e) \/ Crash(e)
    PROVE  Regular /\ Agrees /\ StatusOfRun(e) /\ Progress(e)
<1>1. created' = created /\ updates' = updates
  BY DEF Start, RunStep, Begin, LoadSteps, BeginStep, CallHandler, CompleteStep, RetryStep,
     FailStep, Finish, StartRollback, CollectUndo, UndoStep, EndRollback, Crash
<1> QED
  BY <1>1 DEF Sound, Agrees, Regular, Untouched

\* The steps between handlers: none of them touches what is in place.
LEMMA MovesAgree ==
    ASSUME Sound, Typed', Regular', NEW e \in Runs, OthersIdle(e)',
           \/ Start(e) \/ Begin(e) \/ LoadSteps(e) \/ BeginStep(e) \/ RetryStep(e)
           \/ FailStep(e) \/ StartRollback(e)
    PROVE  Agrees'
<1>1. TypeOK /\ StartsClean /\ created = "steps" /\ Agrees /\ StatusOfRun(e) /\ Progress(e)
  BY WasRegular DEF RunStep, Sound, Typed, Regular
<1>2. AppliedOnce'
  BY <1>1 DEF Agrees, AppliedOnce, Start, Begin, LoadSteps, BeginStep, RetryStep, FailStep,
              StartRollback
<1>3. CASE Start(e)
  <2>1. status' = "pending" /\ pc'[e] = "begin" /\ UNCHANGED <<status, stepStatus, effect>>
    BY <1>1, <1>3 DEF TypeOK, Start, Goto
  <2> QED
    BY <1>1, <1>2, <2>1, OnlyRun DEF Agrees, StatusOfEffect, StepsUntouched, StatusOfRun,
       Progress, Executing
<1>4. CASE Begin(e)
  <2>1. /\ status = "pending" /\ status' = "in_progress" /\ pc'[e] = "load"
        /\ UNCHANGED <<stepStatus, effect>>
    BY <1>1, <1>4 DEF TypeOK, Begin, Goto, StatusOfRun
  <2> QED
    BY <1>1, <1>2, <2>1, OnlyRun DEF Agrees, StatusOfEffect, StepsUntouched, StatusOfRun,
       Progress, Executing
<1>5. CASE LoadSteps(e)
  <2>1. /\ pc'[e] = "step" /\ status = "in_progress" /\ cur'[e] = 1 /\ StepsUntouched
        /\ UNCHANGED <<status, stepStatus, effect>>
    BY <1>1, <1>5 DEF TypeOK, StartsClean, LoadSteps, Goto, StatusOfRun, Progress
  <2>2. InOrder(e)'
    BY <2>1, WorkflowAssumption DEF StepsUntouched, InOrder, Completed, Steps
  <2> QED
    BY <1>1, <1>2, <2>1, <2>2, OnlyRun DEF Agrees, StatusOfEffect, StatusOfRun, Progress,
       Executing
<1>6. CASE BeginStep(e) \/ RetryStep(e)
  <2>1. /\ pc[e] \in {"step", "returnedFalse"} /\ pc'[e] \in {"handler", "step"}
        /\ status = "in_progress" /\ InOrder(e) /\ cur[e] \in Steps
        /\ UNCHANGED <<status, effect, cur>>
    BY <1>1, <1>6 DEF TypeOK, BeginStep, RetryStep, Goto, StatusOfRun, Progress, Executing
  <2>2. \A s \in Steps : Completed(s)' <=> Completed(s)
    <3>1. stepStatus[cur[e]] # "completed" /\ stepStatus'[cur[e]] # "completed"
      <4>1. stepStatus[cur[e]] # "completed"
        BY <2>1 DEF InOrder, Completed, Steps
      <4>2. stepStatus'[cur[e]] \in {"in_progress", "pending"}
        BY <1>1, <1>6, <2>1 DEF TypeOK, BeginStep, RetryStep
      <4> QED
        BY <4>1, <4>2
    <3>2. \A s \in Steps \ {cur[e]} : stepStatus'[s] = stepStatus[s]
      BY <1>1, <1>6 DEF TypeOK, BeginStep, RetryStep
    <3> QED
      BY <3>1, <3>2 DEF Completed
  <2>3. InOrder(e)'
    BY <2>1, <2>2 DEF InOrder
  <2> QED
    BY <1>1, <1>2, <2>1, <2>3, OnlyRun DEF Agrees, StatusOfEffect, StatusOfRun, Progress,
       Executing
<1>7. CASE FailStep(e)
  <2>1. /\ pc[e] \in {"returnedFalse", "raised"} /\ pc'[e] = "rollback"
        /\ status = "in_progress" /\ InOrder(e) /\ cur[e] \in Steps
        /\ stepStatus' = [stepStatus EXCEPT ![cur[e]] = "failed"]
        /\ UNCHANGED <<status, effect>>
    BY <1>1, <1>7 DEF TypeOK, FailStep, Goto, StatusOfRun, Progress, Executing
  <2>2. \A s \in Steps : effect'[s] = 1 <=> Completed(s)'
    BY <1>1, <2>1 DEF TypeOK, InOrder, Completed, Steps
  <2> QED
    BY <1>1, <1>2, <2>1, <2>2, OnlyRun DEF Agrees, StatusOfEffect, StatusOfRun, Progress,
       Executing
<1>8. CASE StartRollback(e)
  <2>1. /\ pc[e] = "rollback" /\ pc'[e] = "collect" /\ status' = "rollback_in_progress"
        /\ \A s \in Steps : effect[s] = 1 <=> Completed(s)
        /\ UNCHANGED <<stepStatus, effect>>
    BY <1>1, <1>8 DEF TypeOK, StartRollback, Goto, Progress
  <2> QED
    BY <1>1, <1>2, <2>1, OnlyRun DEF Agrees, StatusOfEffect, StatusOfRun, Progress, Executing,
       Completed
<1> QED
  BY <1>3, <1>4, <1>5, <1>6, <1>7, <1>8

\* Calling the handler of a step puts it in place or leaves it out.
LEMMA CallHandlerAgrees ==
    ASSUME Sound, Typed', Regular', NEW e \in Runs, OthersIdle(e)', CallHandler(e)
    PROVE  Agrees'
<1>1. TypeOK /\ Agrees /\ StatusOfRun(e) /\ Progress(e)
  BY WasRegular DEF RunStep, Sound, Typed
<1>2. InOrder(e) /\ pc[e] = "handler" /\ cur[e] \in Steps /\ status = "in_progress"
  BY <1>1 DEF TypeOK, StatusOfRun, Progress, Executing, CallHandler
<1>3. effect[cur[e]] = 0
  BY <1>1, <1>2 DEF Agrees, AppliedOnce, InOrder, Steps
<1>4. PICK place \in {"returnedTrue", "returnedFalse", "raised"} :
         /\ pc'[e] = place
         /\ IF place = "returnedTrue" THEN effect' = [effect EXCEPT ![cur[e]] = @ + 1]
            ELSE effect' = effect
  BY <1>1 DEF CallHandler, Goto, TypeOK
<1>5. UNCHANGED <<status, stepStatus, cur>>
  BY DEF CallHandler
<1>6. AppliedOnce'
  BY <1>1, <1>2, <1>3, <1>4 DEF TypeOK, Agrees, AppliedOnce
<1>7. InOrder(e)'
  <2>1. \A s \in Steps : effect'[s] = IF s = cur[e] /\ pc'[e] = "returnedTrue" THEN 1
                                      ELSE effect[s]
    BY <1>1, <1>2, <1>3, <1>4 DEF TypeOK
  <2> QED
    BY <1>2, <1>5, <2>1 DEF InOrder, Completed, Steps
<1> QED
  BY <1>1, <1>2, <1>4, <1>5, <1>6, <1>7, OnlyRun DEF Agrees, StatusOfEffect, StatusOfRun,
     Progress, Executing

\* Completing a step makes the next one the run's step, or ends the loop with
\* every step in place.
LEMMA CompleteStepAgrees ==
    ASSUME Sound, Typed', Regular', NEW e \in Runs, OthersIdle(e)', CompleteStep(e)
    PROVE  Agrees'
<1>1. TypeOK /\ Agrees /\ StatusOfRun(e) /\ Progress(e)
  BY WasRegular DEF RunStep, Sound, Typed
<1>2. InOrder(e) /\ pc[e] = "returnedTrue" /\ cur[e] \in Steps /\ status = "in_progress"
  BY <1>1 DEF TypeOK, StatusOfRun, Progress, Executing, CompleteStep
<1>3. UNCHANGED <<status, effect>>
  BY DEF CompleteStep
<1>4. AppliedOnce'
  BY <1>1, <1>3 DEF Agrees, AppliedOnce
<1>5. \A s \in Steps : Completed(s)' <=> s <= cur[e]
  BY <1>1, <1>2 DEF TypeOK, InOrder, Completed, CompleteStep, Steps
<1>6. \A s \in Steps : effect'[s] = 1 <=> s <= cur[e]
  BY <1>2, <1>3 DEF InOrder, Steps
<1>7. Progress(e)' /\ pc'[e] \in {"step", "finish"}
  <2>1. CASE cur[e] < StepCount
    <3>1. cur'[e] = cur[e] + 1 /\ pc'[e] = "step"
      BY <1>1, <2>1 DEF TypeOK, CompleteStep, Goto
    <3>2. InOrder(e)'
      BY <1>2, <1>5, <1>6, <3>1 DEF InOrder, Completed, Steps
    <3> QED
      BY <3>1, <3>2 DEF Progress, Executing
  <2>2. CASE ~ (cur[e] < StepCount)
    <3>1. pc'[e] = "finish"
      BY <1>1, <2>2 DEF TypeOK, CompleteStep, Goto
    <3>2. \A s \in Steps : effect'[s] = 1
      BY <1>2, <1>6, <2>2, WorkflowAssumption DEF Steps
    <3> QED
      BY <3>1, <3>2 DEF Progress, Executing
  <2> QED
    BY <2>1, <2>2
<1> QED
  BY <1>1, <1>2, <1>3, <1>4, <1>7, OnlyRun DEF Agrees, StatusOfEffect, StatusOfRun, Executing

\* A rollback begins with the steps that are in place.
LEMMA CollectUndoAgrees ==
    ASSUME Sound, Typed', Regular', NEW e \in Runs, OthersIdle(e)', CollectUndo(e)
    PROVE  Agrees'
<1>1. TypeOK /\ StartsClean /\ Agrees /\ StatusOfRun(e) /\ Progress(e)
  BY WasRegular DEF RunStep, Sound, Typed
<1>2. /\ pc[e] = "collect" /\ pc'[e] = "undo" /\ status = "rollback_in_progress"
      /\ undo'[e] = {s \in Steps : Completed(s)}
      /\ \A s \in Steps : effect[s] = 1 <=> Completed(s)
      /\ UNCHANGED <<status, stepStatus, effect>>
  BY <1>1 DEF TypeOK, StatusOfRun, Progress, Completed, CollectUndo, Goto
<1>3. undoFailed'[e] = {}
  BY <1>1 DEF StartsClean, CollectUndo
<1>4. Undoing(e)'
  BY <1>2, <1>3 DEF Undoing, Completed
<1> QED
  BY <1>1, <1>2, <1>4, OnlyRun DEF Agrees, StatusOfEffect, AppliedOnce, StatusOfRun, Progress,
     Executing

\* It undoes the last of them, or remembers that it could not.
LEMMA UndoStepAgrees ==
    ASSUME Sound, Typed', Regular', NEW e \in Runs, OthersIdle(e)', UndoStep(e)
    PROVE  Agrees'
<1>1. TypeOK /\ Agrees /\ StatusOfRun(e) /\ Progress(e)
  BY WasRegular DEF RunStep, Sound, Typed
<1>2. /\ undo[e] \in SUBSET Steps /\ undo[e] # {} /\ undoFailed[e] \in SUBSET Steps
      /\ pc[e] = "undo" /\ pc'[e] = "undo" /\ Undoing(e)
      /\ status = "rollback_in_progress" /\ UNCHANGED <<status, stepStatus>>
  BY <1>1 DEF TypeOK, StatusOfRun, Progress, UndoStep
<1>3. PICK s \in undo[e] : s = Latest(undo[e]) /\ \A t \in undo[e] : t <= s
  BY <1>2, LatestIsLast
<1>4. effect[s] = 1 /\ s \notin undoFailed[e] /\ s \in Steps
  BY <1>2, <1>3 DEF Undoing
<1>5. /\ undo'[e] = undo[e] \ {s}
      /\ \/ /\ effect'[s] = 0 /\ undoFailed'[e] = undoFailed[e]
         \/ /\ effect'[s] = 1 /\ undoFailed'[e] = undoFailed[e] \cup {s}
      /\ \A t \in Steps \ {s} : effect'[t] = effect[t]
  BY <1>1, <1>3, <1>4 DEF TypeOK, UndoStep
<1>6. AppliedOnce'
  BY <1>1, <1>4, <1>5 DEF Agrees, AppliedOnce
<1>7. Undoing(e)'
  <2>1. undo'[e] \cap undoFailed'[e] = {}
    BY <1>2, <1>5 DEF Undoing
  <2>2. ASSUME NEW t \in Steps
        PROVE  effect'[t] = 1 <=> t \in undo'[e] \cup undoFailed'[e]
    BY <1>2, <1>4, <1>5 DEF Undoing
  <2>3. ASSUME NEW u \in undo'[e], NEW t \in Steps, t < u, Completed(t)'
        PROVE  t \in undo'[e]
    <3>1. t \in undo[e]
      BY <1>2, <1>5, <2>3 DEF Undoing, Completed
    <3>2. t # s
      BY <1>2, <1>3, <1>5, <2>3 DEF Steps
    <3> QED
      BY <1>5, <3>1, <3>2
  <2> QED
    BY <2>1, <2>2, <2>3 DEF Undoing
<1> QED
  BY <1>1, <1>2, <1>6, <1>7, OnlyRun DEF Agrees, StatusOfEffect, StatusOfRun, Progress,
     Executing

\* A run ends with every step in place, with those whose rollback failed, or,
\* if it dies, with a status that says it was under way.
LEMMA LeavesAgree ==
    ASSUME Sound, Typed', Regular', NEW e \in Runs, OthersIdle(e)',
           Finish(e) \/ EndRollback(e) \/ Crash(e)
    PROVE  Agrees'
<1>1. TypeOK /\ Agrees /\ StatusOfRun(e) /\ Progress(e)
  BY WasRegular DEF RunStep, Sound, Typed
<1>2. pc'[e] = "idle" /\ UNCHANGED <<stepStatus, effect>>
  BY <1>1 DEF TypeOK, Finish, EndRollback, Crash, Leave, Goto
<1>3. AppliedOnce'
  BY <1>1, <1>2 DEF Agrees, AppliedOnce
<1>4. StatusOfRun(e)' /\ Progress(e)'
  BY <1>2 DEF StatusOfRun, Progress, Executing
<1>5. StatusOfEffect'
  <2>1. CASE Finish(e)
    BY <1>1, <1>2, <2>1 DEF Finish, Progress, StatusOfEffect
  <2>2. CASE EndRollback(e)
    <3>1. \A s \in Steps : effect[s] = 1 <=> s \in undoFailed[e]
      BY <1>1, <2>2 DEF Progress, Undoing, EndRollback
    <3>2. \A s \in Steps : undoFailed[e] = {} => effect[s] = 0
      BY <1>1, <3>1 DEF Agrees, AppliedOnce
    <3> QED
      BY <1>2, <2>2, <3>2 DEF StatusOfEffect, EndRollback
  <2>3. CASE Crash(e)
    BY <1>1, <1>2, <2>3 DEF Crash, Agrees, StatusOfEffect, StepsUntouched
  <2> QED
    BY <2>1, <2>2, <2>3
<1> QED
  BY <1>3, <1>4, <1>5, OnlyRun

\* The steps become those of a regular activation only while nothing runs.
LEMMA CreateStepsAgrees ==
    ASSUME Sound, Regular', CreateSteps
    PROVE  Agrees'
<1>1. /\ created = "row" /\ status = "pending"
      /\ \A e \in Runs : pc[e] = "idle"
  BY DEF CreateSteps, Regular
<1>2. StepsUntouched
  BY <1>1 DEF Sound, Typed, BeforeSteps
<1> QED
  BY <1>1, <1>2 DEF CreateSteps, run, Agrees, StatusOfEffect, AppliedOnce, StepsUntouched,
     StatusOfRun, Progress, Executing

\* A step that leaves everything a regular activation is about as it was.
LEMMA QuietAgrees ==
    ASSUME Sound, Regular', UNCHANGED vars
    PROVE  Agrees'
<1>1. Regular /\ Agrees
  BY DEF Sound, Regular, Untouched, vars
<1> QED
  BY <1>1 DEF vars, run, Agrees, StatusOfEffect, AppliedOnce, StepsUntouched, StatusOfRun,
     Progress, Executing, InOrder, Undoing, Completed

------------------------------------------------------------------------------
\* Every step keeps what holds of any number of runs.
LEMMA NextTyped == Typed /\ [Next]_vars => Typed'
<1> SUFFICES ASSUME Typed, [Next]_vars
             PROVE  Typed'
  OBVIOUS
<1>1. CASE \/ CreateActivation \/ CreateSteps \/ CreateDies \/ UNCHANGED vars
           \/ \E s \in Statuses : UpdateActivation(s)
  BY <1>1, ServiceTyped
<1>2. ASSUME NEW e \in Runs, Start(e) \/ RunStep(e) \/ Crash(e)
      PROVE  Typed'
  BY <1>2, MovesTyped, CallHandlerTyped, CompleteStepTyped, RetryStepTyped, UndoStepTyped,
     LeavesTyped DEF RunStep
<1> QED
  BY <1>1, <1>2 DEF Next

\* As long as one run is under way at a time, every step keeps the inductive invariant.
LEMMA NextSound == Sound /\ OneAtATime /\ OneAtATime' /\ [Next]_vars => Sound'
<1> SUFFICES ASSUME Sound, OneAtATime, OneAtATime', [Next]_vars, Regular'
             PROVE  Agrees'
  BY NextTyped DEF Sound
<1>1. Typed'
  BY NextTyped DEF Sound
<1>2. CASE CreateActivation \/ CreateSteps \/ CreateDies
  BY <1>2, CreateStepsAgrees DEF Regular, CreateActivation, CreateDies
<1>3. ASSUME NEW e \in Runs, Start(e) \/ RunStep(e) \/ Crash(e)
      PROVE  Agrees'
  <2>1. OthersIdle(e)'
    BY <1>3, StepsAlone DEF Sound
  <2> QED
    BY <1>1, <1>3, <2>1, MovesAgree, CallHandlerAgrees, CompleteStepAgrees, CollectUndoAgrees,
       UndoStepAgrees, LeavesAgree DEF RunStep
<1>4. ASSUME NEW s \in Statuses, UpdateActivation(s)
      PROVE  FALSE
  BY <1>4, WorkflowAssumption DEF UpdateActivation, Regular, Untouched, Sound, Typed, TypeOK
<1>5. CASE UNCHANGED vars
  BY <1>5, QuietAgrees
<1> QED
  BY <1>2, <1>3, <1>4, <1>5 DEF Next

------------------------------------------------------------------------------
\* Type correctness, for any number of runs: in particular no step is retried
\* more often than max_retries, and only steps of the workflow are undone.
THEOREM TypeCorrect == Spec => []TypeOK
<1>1. Init => Typed
  BY InitSound DEF Sound
<1>2. Typed => TypeOK
  BY DEF Typed
<1> QED
  BY <1>1, <1>2, NextTyped, PTL DEF Spec

\* The inductive invariant holds in every reachable state of an activation that
\* is executed by one run at a time.
THEOREM Soundness == Spec /\ []OneAtATime => []Sound
BY InitSound, NextSound, PTL DEF Spec

\* An activation that reads COMPLETED is provisioned: execute_workflow gets to
\* its last commit only if every handler returned True.
THEOREM CompletedProvisioned == Spec /\ []OneAtATime => []CompletedIsProvisioned
<1>1. Sound => CompletedIsProvisioned
  BY DEF Sound, Agrees, StatusOfEffect, CompletedIsProvisioned, InPlace
<1> QED
  BY <1>1, Soundness, PTL

\* An activation that reads PENDING, FAILED, CANCELLED or ROLLBACK_COMPLETED has
\* left nothing outside, wherever a handler failed or a run died.
THEOREM NothingLeft == Spec /\ []OneAtATime => []NothingLeftBehind
<1>1. Sound => NothingLeftBehind
  BY DEF Sound, Agrees, StatusOfEffect, StepsUntouched, NothingLeftBehind, InPlace
<1> QED
  BY <1>1, Soundness, PTL

\* _rollback_workflow undoes only steps that are in place, each at most once.
THEOREM OnlyAppliedUndone == Spec /\ []OneAtATime => []UndoesOnlyApplied
<1>1. Sound => UndoesOnlyApplied
  BY DEF Sound, Agrees, AppliedOnce, UndoesOnlyApplied
<1> QED
  BY <1>1, Soundness, PTL

\* _rollback_workflow undoes the steps in reverse of step_order.
THEOREM RolledBackInReverse == Spec /\ []OneAtATime => []RollsBackInReverse
<1>1. Sound => RollsBackInReverse
  BY DEF Sound, Agrees, Progress, Undoing, AppliedOnce, Completed, RollsBackInReverse, InPlace
<1> QED
  BY <1>1, Soundness, PTL

=============================================================================
