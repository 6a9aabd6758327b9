---------------------------- MODULE ReportExecutions ----------------------------
(***************************************************************************)
(* The executions of one report template: requested by a user or made for  *)
(* a due schedule, generated by a task of the event loop, delivered,       *)
(* cancelled and deleted.                                                  *)
(*                                                                         *)
(* Every worker process runs an event loop with the tasks it started.  All *)
(* share the database.  Each commit is a step: the calls between two       *)
(* commits are synchronous, so they exclude the other coroutines of the    *)
(* same worker, never those of another one.  A task is suspended while it  *)
(* fetches data and renders.                                               *)
(*                                                                         *)
(* Due schedules are executed by a caller of get_due_scheduled_reports and *)
(* execute_scheduled_report, which is external: the check of the module's  *)
(* tasks.py cannot be imported, no beat entry starts it, and it calls      *)
(* execute_report instead.  Nothing is assumed of how often a caller runs. *)
(***************************************************************************)
EXTENDS Integers, FiniteSets

CONSTANTS Workers,       \* worker processes
          Schedules,     \* ids of scheduled reports
          MaxExecutions, \* bound: execution rows ever created
          MaxRequests,   \* bound: those of them a user asks for
          MaxTime,       \* bound: the clock, in days
          MaxFaults,     \* bound: crashes and failed commits
          Frequencies,   \* frequencies, as a number of days
          NoSchedule,    \* the schedule of an execution that has none
          NoWorker       \* the worker of a row that was not created

ASSUME ReportsAssumption ==
    /\ MaxExecutions \in Nat /\ MaxRequests \in Nat /\ MaxTime \in Nat /\ MaxFaults \in Nat
    /\ Frequencies \subseteq Nat \ {0} /\ IsFiniteSet(Frequencies) /\ Frequencies # {}
    /\ NoSchedule \notin Schedules
    /\ NoWorker \notin Workers

VARIABLES template,  \* the template's row is there
          schedule,  \* the scheduled_reports rows
          execution, \* the report_executions rows and their outputs
          task,      \* the task of each execution
          todo,      \* the due schedules each worker's caller has read and not yet passed on
          serving,   \* the execution each worker created and not yet rescheduled
          canceling, \* the execution a cancellation has read as cancellable
          now, faults

vars == <<template, schedule, execution, task, todo, serving, canceling, now, faults>>

Ids == 1 .. MaxExecutions
None == 0
Never == -1
MaxNext == MaxTime + (CHOOSE f \in Frequencies : \A g \in Frequencies : g <= f)

Unfinished == {"pending", "running"}
Finished == {"completed", "failed", "canceled"}
Statuses == Unfinished \cup Finished \cup {"none", "deleted"}

Schedule == [row : {"none", "live", "deleted"}, active : BOOLEAN,
             frequency : Frequencies \cup {0}, next : 0 .. MaxNext]

\* due, at and rescheduled record where an execution came from: the occurrence
\* its worker had read as due, that worker, and whether it moved the schedule on
\* afterwards.  outputs tells how many of the requested formats have a
\* report_outputs row.
Execution == [status : Statuses, for : Schedules \cup {NoSchedule},
              outputs : {"none", "part", "all"}, delivered : BOOLEAN,
              due : 0 .. MaxNext \cup {Never},
              at : Workers \cup {NoWorker},
              rescheduled : BOOLEAN]

Tasks == {"none", "start", "render", "deliver", "ended", "lost"}

TypeOK ==
    /\ template \in BOOLEAN
    /\ schedule \in [Schedules -> Schedule]
    /\ execution \in [Ids -> Execution]
    /\ task \in [Ids -> Tasks]
    /\ todo \in [Workers -> SUBSET (Schedules \X (0 .. MaxNext))]
    /\ serving \in [Workers -> Ids \cup {None}]
    /\ canceling \in Ids \cup {None}
    /\ now \in 0 .. MaxTime
    /\ faults \in 0 .. MaxFaults

Init ==
    /\ template = TRUE
    /\ schedule = [s \in Schedules |->
                     [row |-> "none", active |-> FALSE, frequency |-> 0, next |-> 0]]
    /\ execution = [e \in Ids |->
                      [status |-> "none", for |-> NoSchedule, outputs |-> "none",
                       delivered |-> FALSE, due |-> Never,
                       at |-> NoWorker, rescheduled |-> FALSE]]
    /\ task = [e \in Ids |-> "none"]
    /\ todo = [w \in Workers |-> {}]
    /\ serving = [w \in Workers |-> None]
    /\ canceling = None
    /\ now = 0
    /\ faults = 0

------------------------------------------------------------------------------
\* Mutant of NextAfter: midnight itself counts as the next midnight.
NextFrom(f, t) == ((t + f - 1) \div f) * f

\* Mutant of NextAfter: one period too far.
NextSkipping(f, t) == (t \div f + 2) * f

\* _calculate_next_execution_time: the first start of a period after t.
NextAfter(f, t) == (t \div f + 1) * f

Live(s) == schedule[s].row = "live"
Due(s) == Live(s) /\ schedule[s].active /\ schedule[s].next <= now

Used == {e \in Ids : execution[e].status # "none"}
NextId == Cardinality(Used) + 1
RowsLeft == NextId \in Ids
Exists(e) == execution[e].status \notin {"none", "deleted"}

\* No coroutine of w is between the two commits of execute_scheduled_report.
Free(w) == serving[w] = None

Row(w, s, due) ==
    [status |-> "pending", for |-> s, outputs |-> "none",
     delivered |-> FALSE, due |-> due, at |-> w, rescheduled |-> FALSE]

Gone == [row |-> "deleted", active |-> FALSE, frequency |-> 0, next |-> 0]

\* Deleting a schedule or the template takes the executions and outputs along
\* (cascade="all, delete-orphan").
Deleted(e) == [execution[e] EXCEPT !.status = "deleted", !.outputs = "none",
                                   !.delivered = FALSE, !.due = Never,
                                   !.rescheduled = FALSE]

------------------------------------------------------------------------------
\* execute_report: a user asks for an execution.  (One that names a schedule has
\* the task of a scheduled execution; it is not told from CreateScheduled's.)
ExecuteReport(w) ==
    /\ template /\ Free(w) /\ RowsLeft
    /\ Cardinality({e \in Used : execution[e].for = NoSchedule}) < MaxRequests
    /\ execution' = [execution EXCEPT ![NextId] = Row(w, NoSchedule, Never)]
    /\ task' = [task EXCEPT ![NextId] = "start"]
    /\ UNCHANGED <<template, schedule, todo, serving, canceling, now, faults>>

\* get_due_scheduled_reports, called by whoever has passed on what it read before.
ReadDue(w) ==
    /\ Free(w) /\ todo[w] = {}
    /\ \E s \in Schedules : Due(s)
    /\ todo' = [todo EXCEPT ![w] = {<<s, schedule[s].next>> : s \in {x \in Schedules : Due(x)}}]
    /\ UNCHANGED <<template, schedule, execution, task, serving, canceling, now, faults>>

\* execute_scheduled_report up to its first commit.  It looks at is_active again,
\* not at next_execution_time.
CreateScheduled(w, s, due) ==
    /\ <<s, due>> \in todo[w] /\ serving[w] = None
    /\ Live(s) /\ schedule[s].active /\ RowsLeft
    /\ execution' = [execution EXCEPT ![NextId] = Row(w, s, due)]
    /\ serving' = [serving EXCEPT ![w] = NextId]
    /\ todo' = [todo EXCEPT ![w] = @ \ {<<s, due>>}]
    /\ UNCHANGED <<template, schedule, task, canceling, now, faults>>

\* The ValueError of a schedule that was deactivated or deleted meanwhile.
SkipScheduled(w, s, due) ==
    /\ <<s, due>> \in todo[w] /\ serving[w] = None
    /\ ~(Live(s) /\ schedule[s].active)
    /\ todo' = [todo EXCEPT ![w] = @ \ {<<s, due>>}]
    /\ UNCHANGED <<template, schedule, execution, task, serving, canceling, now, faults>>

\* update_next_execution_time, the second commit, and the start of the task.  A
\* schedule deleted meanwhile raises, and the task is never started.
UpdateNext(w) ==
    LET e == serving[w]
        s == execution[e].for
    IN  /\ e # None
        /\ IF Live(s)
           THEN /\ schedule' = [schedule EXCEPT
                                  ![s].next = NextAfter(schedule[s].frequency, now)]
                /\ execution' = [execution EXCEPT ![e].rescheduled = TRUE]
                /\ task' = [task EXCEPT ![e] = "start"]
           ELSE UNCHANGED <<schedule, execution, task>>
        /\ serving' = [serving EXCEPT ![w] = None]
        /\ UNCHANGED <<template, todo, canceling, now, faults>>

------------------------------------------------------------------------------
\* The task of e (_generate_report) is at step and its worker's loop is free.
At(e, step) == task[e] = step /\ Free(execution[e].at)
Goto(e, step) == task' = [task EXCEPT ![e] = step]
RestOfTask == <<template, schedule, todo, serving, canceling, now, faults>>

\* A write to a row that was deleted raises; so does the handler's own query,
\* and the task ends.
RowGone(e) ==
    /\ \E step \in {"start", "render", "deliver"} : At(e, step)
    /\ ~Exists(e)
    /\ Goto(e, "ended")
    /\ UNCHANGED <<execution, RestOfTask>>

\* RUNNING, whatever the status was.
Start(e) ==
    /\ At(e, "start") /\ Exists(e)
    /\ execution' = [execution EXCEPT ![e].status = "running"]
    /\ Goto(e, "render")
    /\ UNCHANGED RestOfTask

\* Mutant of Fail: the exception is logged only.
FailSilently(e, added) ==
    /\ Goto(e, "ended")
    /\ UNCHANGED <<execution, RestOfTask>>

\* The handler of any exception.  Outputs the session holds are committed too.
Fail(e, added) ==
    /\ execution' = [execution EXCEPT ![e].status = "failed",
                                      ![e].outputs = IF @ = "all" THEN @ ELSE added]
    /\ Goto(e, "ended")
    /\ UNCHANGED RestOfTask

\* After the awaits of fetch_data and generate: the data source or a generator
\* has raised.
RenderFails(e) == At(e, "render") /\ Exists(e) /\ Fail(e, "none")

\* os.path.getsize raises for one of the files.
SizeFails(e) ==
    /\ At(e, "render") /\ Exists(e)
    /\ \E added \in {"none", "part"} : Fail(e, added)

\* Mutant of Save: the status has a commit of its own, before the outputs.
SaveStatusFirst(e) ==
    /\ At(e, "render") /\ Exists(e)
    /\ execution' = [execution EXCEPT ![e].status = "completed",
                                      ![e].outputs = IF execution[e].status = "completed"
                                                     THEN "all" ELSE @]
    /\ Goto(e, IF execution[e].status = "completed" THEN "ended" ELSE "render")
    /\ UNCHANGED RestOfTask

\* The outputs and COMPLETED, whatever the status was, in one commit.
Save(e) ==
    /\ At(e, "render") /\ Exists(e)
    /\ execution' = [execution EXCEPT ![e].status = "completed",
                                      ![e].outputs = "all"]
    /\ Goto(e, IF execution[e].for = NoSchedule THEN "ended" ELSE "deliver")
    /\ UNCHANGED RestOfTask

\* _deliver_scheduled_report, in a session of its own, hands the outputs over
\* if the execution still shows as completed.  A file that cannot be stored is
\* logged.
Deliver(e) ==
    /\ At(e, "deliver") /\ Exists(e)
    /\ execution' = [execution EXCEPT ![e].delivered = execution[e].status = "completed"]
    /\ Goto(e, "ended")
    /\ UNCHANGED RestOfTask

\* A query of the delivery raises: the handler of _generate_report takes over.
DeliverFails(e) == At(e, "deliver") /\ Exists(e) /\ Fail(e, "none")

------------------------------------------------------------------------------
\* cancel_report_execution up to its check, and its commit.  Another worker's
\* task may run in between.
ReadCancelable(e) ==
    /\ execution[e].status \in Unfinished
    /\ canceling = None
    /\ canceling' = e
    /\ UNCHANGED <<template, schedule, execution, task, todo, serving, now, faults>>

Cancel(e) ==
    /\ canceling = e
    /\ execution' = IF Exists(e) THEN [execution EXCEPT ![e].status = "canceled"] ELSE execution
    /\ canceling' = None
    /\ UNCHANGED <<template, schedule, task, todo, serving, now, faults>>

CreateSchedule(s, f) ==
    /\ schedule[s].row = "none" /\ template
    /\ schedule' = [schedule EXCEPT ![s] =
          [row |-> "live", active |-> TRUE, frequency |-> f, next |-> NextAfter(f, now)]]
    /\ UNCHANGED <<template, execution, task, todo, serving, canceling, now, faults>>

\* update_scheduled_report: a new frequency moves the next execution time.
Reschedule(s) ==
    /\ Live(s)
    /\ \E f \in Frequencies :
          schedule' = [schedule EXCEPT ![s].frequency = f, ![s].next = NextAfter(f, now)]
    /\ UNCHANGED <<template, execution, task, todo, serving, canceling, now, faults>>

\* update_scheduled_report: is_active leaves the next execution time as it is.
SetActive(s) ==
    /\ Live(s)
    /\ schedule' = [schedule EXCEPT ![s].active = ~ @]
    /\ UNCHANGED <<template, execution, task, todo, serving, canceling, now, faults>>

DeleteSchedule(s) ==
    /\ Live(s)
    /\ schedule' = [schedule EXCEPT ![s] = Gone]
    /\ execution' = [e \in Ids |-> IF Exists(e) /\ execution[e].for = s
                                   THEN Deleted(e) ELSE execution[e]]
    /\ UNCHANGED <<template, task, todo, serving, canceling, now, faults>>

\* delete_report_template, unless an active schedule uses it.
DeleteTemplate ==
    /\ template
    /\ \A s \in Schedules : ~(Live(s) /\ schedule[s].active)
    /\ template' = FALSE
    /\ schedule' = [s \in Schedules |-> IF Live(s) THEN Gone ELSE schedule[s]]
    /\ execution' = [e \in Ids |-> IF Exists(e) THEN Deleted(e) ELSE execution[e]]
    /\ UNCHANGED <<task, todo, serving, canceling, now, faults>>

------------------------------------------------------------------------------
Tick ==
    /\ now < MaxTime
    /\ now' = now + 1
    /\ UNCHANGED <<template, schedule, execution, task, todo, serving, canceling, faults>>

\* A worker process dies at work and is started again: its tasks and its caller
\* are gone.
Crash(w) ==
    /\ faults < MaxFaults
    /\ \/ ~Free(w) \/ todo[w] # {}
       \/ \E e \in Used : execution[e].at = w /\ task[e] \notin {"ended", "lost"}
    /\ faults' = faults + 1
    /\ task' = [e \in Ids |-> IF execution[e].at = w /\ task[e] # "ended" THEN "lost" ELSE task[e]]
    /\ todo' = [todo EXCEPT ![w] = {}]
    /\ serving' = [serving EXCEPT ![w] = None]
    /\ UNCHANGED <<template, schedule, execution, canceling, now>>

\* The commit of a task fails.  Its handler uses the same session, which refuses
\* every query until it is rolled back: the row keeps its status.
CommitFails(e) ==
    /\ At(e, "start") \/ At(e, "render")
    /\ faults < MaxFaults
    /\ faults' = faults + 1
    /\ Goto(e, "lost")
    /\ UNCHANGED <<template, schedule, execution, todo, serving, canceling, now>>

Step(e) ==
    \/ RowGone(e) \/ Start(e) \/ RenderFails(e)
    \/ SizeFails(e) \/ Save(e) \/ Deliver(e) \/ DeliverFails(e)

\* The caller of one worker: it passes what get_due_scheduled_reports returned to
\* execute_scheduled_report, one schedule after the other, or stops anywhere.
Scheduler(w) ==
    \/ ReadDue(w)
    \/ \E s \in Schedules, due \in 0 .. MaxNext :
          CreateScheduled(w, s, due) \/ SkipScheduled(w, s, due)
    \/ UpdateNext(w)

Next ==
    \/ \E w \in Workers : ExecuteReport(w) \/ Scheduler(w) \/ Crash(w)
    \/ \E e \in Ids : Step(e) \/ ReadCancelable(e) \/ Cancel(e) \/ CommitFails(e)
    \/ \E s \in Schedules :
          \/ \E f \in Frequencies : CreateSchedule(s, f)
          \/ Reschedule(s) \/ SetActive(s) \/ DeleteSchedule(s)
    \/ DeleteTemplate
    \/ Tick

Spec == Init /\ [][Next]_vars

\* An event loop runs its callbacks first in, first out: a task that is ready gets
\* its turn, and a call between its two commits is not suspended.  Nobody is
\* assumed to call anything.
Fairness ==
    /\ \A e \in Ids : SF_vars(Step(e))
    /\ \A w \in Workers : WF_vars(UpdateNext(w))

FairSpec == Spec /\ Fairness

------------------------------------------------------------------------------
\* A report that shows as completed, or that was delivered, has all its files:
\* no crash, failed write or cancellation in between exposes a half-saved report.
CompleteIsWhole ==
    \A e \in Ids :
        /\ execution[e].status = "completed" => execution[e].outputs = "all"
        /\ Exists(e) /\ execution[e].delivered => execution[e].outputs = "all"

\* The executions a worker makes for what it reads as due: an occurrence is
\* executed once, unless the worker died between creating the execution and moving
\* the schedule on.  (Another worker that read it as due executes it as well.)
OncePerWorker ==
    \A e, f \in Used :
        /\ e < f
        /\ execution[e].due # Never
        /\ execution[e].for = execution[f].for
        /\ execution[e].due = execution[f].due
        /\ execution[e].at = execution[f].at
        => ~execution[e].rescheduled

\* An execution whose task was not lost ends for good as completed, failed,
\* canceled or deleted, even if a cancellation and the task overwrite each other.
Settles ==
    \A e \in Ids :
        execution[e].status = "pending"
        ~> [](execution[e].status \in Finished \cup {"deleted"} \/ task[e] = "lost")

==============================================================================
