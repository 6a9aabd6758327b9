------------------------ MODULE ReportExecutionsProofs ------------------------
(***************************************************************************)
(* Proofs about ReportExecutions, for any workers, schedules, frequencies  *)
(* and bounds: type correctness, that a report that shows as completed or  *)
(* delivered has all its files, and that a worker executes an occurrence   *)
(* of a schedule once.                                                     *)
(***************************************************************************)
EXTENDS ReportExecutions, FiniteSetTheorems, TLAPS

\* Ids are given in order: a new execution has the highest.
Numbered == Used = 1 .. Cardinality(Used)

\* A live schedule has a frequency, so that moving it on moves it past now.
HasFrequency == \A s \in Schedules : Live(s) => schedule[s].frequency \in Frequencies

\* A schedule that has an execution was created.
WasCreated ==
    \A e \in Ids :
       execution[e].for \in Schedules => schedule[execution[e].for].row # "none"

\* An execution made for an occurrence belongs to a schedule that is still there,
\* and once the schedule was moved on it is past that occurrence.
MovedPast ==
    \A e \in Ids :
       LET x == execution[e]
       IN  /\ x.status \in {"none", "deleted"} => x.due = Never
           /\ x.due # Never => /\ x.for \in Schedules
                               /\ x.due <= now
                               /\ Live(x.for)
                               /\ x.rescheduled => schedule[x.for].next > x.due

\* What a worker has yet to serve: an occurrence of each schedule at most, of the
\* past, that it has not executed before.
TodoIsNew ==
    \A w \in Workers : \A o \in todo[w] :
       /\ o[2] <= now
       /\ \A p \in todo[w] : p[1] = o[1] => p = o
       /\ \A e \in Ids :
             execution[e].at = w /\ execution[e].for = o[1] /\ execution[e].due = o[2]
             => ~execution[e].rescheduled

\* The execution a worker has created and whose schedule it has not moved on yet
\* is its latest, and it has read no other occurrence of the schedule.
ServesLatest ==
    \A w \in Workers : serving[w] # None =>
       LET e == serving[w]
           x == execution[e]
       IN  /\ e \in Used
           /\ x.at = w /\ x.for \in Schedules /\ ~x.rescheduled
           /\ Live(x.for) => x.due # Never
           /\ \A o \in todo[w] : o[1] # x.for
           /\ \A f \in Used : execution[f].at = w => f <= e

\* The inductive invariant.
Sound ==
    /\ TypeOK /\ CompleteIsWhole /\ OncePerWorker
    /\ Numbered /\ HasFrequency /\ WasCreated /\ MovedPast /\ TodoIsNew /\ ServesLatest

------------------------------------------------------------------------------
\* There is a longest frequency.
LEMMA LongestFrequency ==
    \E f \in Frequencies : \A g \in Frequencies : g <= f
<1> DEFINE R == StrictSubsetOrdering(Frequencies)
           Above(f) == {g \in Frequencies : g > f}
           Tails == {Above(f) : f \in Frequencies}
<1>1. IsWellFoundedOn(R, SUBSET Frequencies)
  <2>3. IsFiniteSet(Frequencies)
    BY ReportsAssumption
  <2>1. FiniteSubsetsOf(Frequencies) = SUBSET Frequencies
    BY <2>3, FS_FiniteSubsetsOfFinite
  <2>2. IsWellFoundedOn(StrictSubsetOrdering(Frequencies), FiniteSubsetsOf(Frequencies))
    BY FS_StrictSubsetOrderingWellFounded
  <2> QED
    BY <2>1, <2>2
<1>2. Tails \subseteq SUBSET Frequencies /\ Tails # {}
  <2>1. \A f \in Frequencies : Above(f) \subseteq Frequencies
    OBVIOUS
  <2> HIDE DEF Above
  <2> QED
    BY <2>1, ReportsAssumption
<1>3. PICK tail \in Tails : \A y \in Tails : <<y, tail>> \notin R
  <2> HIDE DEF R, Tails
  <2> QED
    BY <1>1, <1>2, WFMin
<1>4. PICK f \in Frequencies : tail = Above(f)
  OBVIOUS
<1>5. ASSUME NEW g \in Frequencies, f < g
      PROVE  FALSE
  <2>0. f \in Nat /\ g \in Nat /\ Frequencies \subseteq Nat
    BY ReportsAssumption
  <2>1. Above(g) \subseteq Above(f) /\ g \in Above(f) /\ g \notin Above(g)
    <3>1. g \in Above(f) /\ g \notin Above(g)
      BY <1>5, <2>0
    <3>2. ASSUME NEW h \in Above(g)
          PROVE  h \in Above(f)
      <4>1. h \in Nat /\ h > g /\ h \in Frequencies
        BY <2>0
      <4>2. h > f
        BY <4>1, <1>5, <2>0
      <4> QED
        BY <4>1, <4>2
    <3> QED
      BY <3>1, <3>2
  <2>2. Above(f) \in SUBSET Frequencies /\ Above(g) \in SUBSET Frequencies
    OBVIOUS
  <2>3. <<Above(g), Above(f)>> \in R
    <3> HIDE DEF Above
    <3> QED
      BY <2>1, <2>2 DEF StrictSubsetOrdering
  <2> QED
    BY <1>3, <1>4, <2>3
<1> QED
  BY <1>5, ReportsAssumption

\* MaxNext is a bound, and the next execution is later than now and at most one
\* period away.
LEMMA NextAfterIsLater ==
    ASSUME NEW f \in Frequencies, NEW t \in 0 .. MaxTime
    PROVE  /\ MaxNext \in Nat /\ MaxTime <= MaxNext
           /\ NextAfter(f, t) \in 0 .. MaxNext /\ NextAfter(f, t) > t
<1> DEFINE longest == CHOOSE h \in Frequencies : \A g \in Frequencies : g <= h
<1>1. longest \in Frequencies /\ f <= longest
  BY LongestFrequency
<1>2. t \in Nat /\ f \in Nat \ {0} /\ t <= MaxTime
  BY ReportsAssumption
<1>3. NextAfter(f, t) \in Nat /\ NextAfter(f, t) > t /\ NextAfter(f, t) <= t + f
  BY <1>2 DEF NextAfter
<1>4. MaxNext = MaxTime + longest /\ longest \in Nat /\ MaxTime \in Nat
  BY <1>1, ReportsAssumption DEF MaxNext
<1> QED
  <2> HIDE DEF longest
  <2> QED
    BY <1>1, <1>2, <1>3, <1>4

\* The ids in use: a new one is above them.
LEMMA NewIdIsHighest ==
    ASSUME Numbered, RowsLeft
    PROVE  /\ NextId \in Ids /\ NextId \notin Used /\ Used = 1 .. NextId - 1
           /\ \A e \in Used : e < NextId
           /\ Cardinality(1 .. NextId) = NextId
<1>1. NextId \in Ids
  BY DEF RowsLeft
<1>2. IsFiniteSet(Ids)
  BY FS_Interval, ReportsAssumption DEF Ids
<1>3. IsFiniteSet(Used)
  BY <1>2, FS_Subset DEF Used
<1>4. Cardinality(Used) \in Nat
  BY <1>3, FS_CardinalityType
<1>5. Cardinality(1 .. NextId) = NextId
  <2>1. NextId \in Nat /\ ~(1 > NextId)
    BY <1>4 DEF NextId
  <2> QED
    BY <2>1, FS_Interval
<1> QED
  BY <1>1, <1>4, <1>5 DEF Numbered, NextId

------------------------------------------------------------------------------
\* What a step leaves of an execution that only changes its status and outputs.
KeepsOrigin(e) ==
    /\ execution'[e].for = execution[e].for /\ execution'[e].due = execution[e].due
    /\ execution'[e].at = execution[e].at
    /\ execution'[e].rescheduled = execution[e].rescheduled
    /\ execution'[e].status = "none" <=> execution[e].status = "none"
    /\ execution'[e].status = "deleted" <=> execution[e].status = "deleted"

\* A step that changes neither where the executions come from nor the schedules'
\* next execution times, and gives no worker anything new to serve.
LEMMA OriginsKept ==
    ASSUME Sound, TypeOK', \A e \in Ids : KeepsOrigin(e), now <= now',
           \A s \in Schedules : /\ schedule'[s].row = schedule[s].row
                                /\ schedule'[s].frequency = schedule[s].frequency
                                /\ schedule'[s].next = schedule[s].next,
           \A w \in Workers : /\ todo'[w] \subseteq todo[w]
                              /\ serving'[w] = serving[w] \/ serving'[w] = None
    PROVE  /\ OncePerWorker' /\ Numbered' /\ HasFrequency' /\ WasCreated'
           /\ MovedPast' /\ TodoIsNew' /\ ServesLatest'
<1>1. Used' = Used
  BY DEF Used, KeepsOrigin
<1>2. \A s \in Schedules : Live(s)' <=> Live(s)
  BY DEF Live
<1>3. OncePerWorker'
  BY <1>1 DEF Sound, OncePerWorker, KeepsOrigin, Used
<1>4. Numbered'
  BY <1>1 DEF Sound, Numbered
<1>5. HasFrequency' /\ WasCreated'
  BY DEF Sound, HasFrequency, WasCreated, KeepsOrigin, Live
<1>6. MovedPast'
  <2> SUFFICES ASSUME NEW e \in Ids
               PROVE  LET x == execution'[e]
                      IN  /\ x.status \in {"none", "deleted"} => x.due = Never
                          /\ x.due # Never => /\ x.for \in Schedules
                                              /\ x.due <= now'
                                              /\ schedule'[x.for].row = "live"
                                              /\ x.rescheduled =>
                                                   schedule'[x.for].next > x.due
    BY DEF MovedPast, Live
  <2>1. /\ execution[e].status \in {"none", "deleted"} => execution[e].due = Never
        /\ execution[e].due # Never =>
              /\ execution[e].for \in Schedules
              /\ execution[e].due <= now
              /\ schedule[execution[e].for].row = "live"
              /\ execution[e].rescheduled =>
                   schedule[execution[e].for].next > execution[e].due
    BY DEF Sound, MovedPast, Live
  <2>2. KeepsOrigin(e)
    OBVIOUS
  <2>3. execution[e].due \in Int /\ now \in Int /\ now' \in Int
    BY DEF Sound, TypeOK, Execution, Never
  <2> QED
    BY <2>1, <2>2, <2>3 DEF KeepsOrigin
<1>7. TodoIsNew'
  <2> SUFFICES ASSUME NEW w \in Workers, NEW o \in todo'[w]
               PROVE  /\ o[2] <= now'
                      /\ \A p \in todo'[w] : p[1] = o[1] => p = o
                      /\ \A e \in Ids :
                            execution'[e].at = w /\ execution'[e].for = o[1]
                              /\ execution'[e].due = o[2]
                            => ~execution'[e].rescheduled
    BY DEF TodoIsNew
  <2>1. o \in todo[w] /\ todo'[w] \subseteq todo[w]
    OBVIOUS
  <2>2. o[2] <= now'
    <3>1. o[2] <= now /\ o[2] \in Int /\ now \in Int /\ now' \in Int
      BY <2>1 DEF Sound, TodoIsNew, TypeOK
    <3> QED
      BY <3>1
  <2>3. \A p \in todo'[w] : p[1] = o[1] => p = o
    BY <2>1 DEF Sound, TodoIsNew
  <2>4. \A e \in Ids : execution[e].at = w /\ execution[e].for = o[1] /\ execution[e].due = o[2]
                       => ~execution[e].rescheduled
    BY <2>1 DEF Sound, TodoIsNew
  <2> QED
    BY <2>2, <2>3, <2>4 DEF KeepsOrigin
<1>8. ServesLatest'
  <2> SUFFICES ASSUME NEW w \in Workers, serving'[w] # None
               PROVE  LET e == serving'[w]
                          x == execution'[e]
                      IN  /\ e \in Used'
                          /\ x.at = w /\ x.for \in Schedules /\ ~x.rescheduled
                          /\ schedule'[x.for].row = "live" => x.due # Never
                          /\ \A o \in todo'[w] : o[1] # x.for
                          /\ \A f \in Used' : execution'[f].at = w => f <= e
    BY DEF ServesLatest, Live
  <2> DEFINE e == serving[w]
  <2>1. serving'[w] = e /\ serving[w] # None /\ todo'[w] \subseteq todo[w]
    OBVIOUS
  <2>2. /\ e \in Used
        /\ execution[e].at = w /\ execution[e].for \in Schedules /\ ~execution[e].rescheduled
        /\ schedule[execution[e].for].row = "live" => execution[e].due # Never
        /\ \A o \in todo[w] : o[1] # execution[e].for
        /\ \A f \in Used : execution[f].at = w => f <= e
    BY <2>1 DEF Sound, ServesLatest, Live
  <2>3. e \in Ids /\ KeepsOrigin(e)
    BY <2>2 DEF Used
  <2>4. \A f \in Used : execution'[f].at = execution[f].at
    BY DEF KeepsOrigin, Used
  <2> HIDE DEF e
  <2> QED
    BY <1>1, <2>1, <2>2, <2>3, <2>4 DEF KeepsOrigin
<1> QED
  BY <1>3, <1>4, <1>5, <1>6, <1>7, <1>8

\* The reports of one execution are whole.
Whole(e) ==
    /\ execution[e].status = "completed" => execution[e].outputs = "all"
    /\ Exists(e) /\ execution[e].delivered => execution[e].outputs = "all"

\* A step that writes the status, the outputs or the delivery of one execution,
\* and no half-saved report, keeps the invariant.
LEMMA RowWritten ==
    ASSUME Sound, TypeOK', NEW e \in Ids, KeepsOrigin(e), Whole(e)',
           \A f \in Ids : f # e => execution'[f] = execution[f],
           schedule' = schedule, todo' = todo, serving' = serving, now' = now
    PROVE  Sound'
<1>1. \A f \in Ids : KeepsOrigin(f)
  BY DEF KeepsOrigin
<1>2. /\ OncePerWorker' /\ Numbered' /\ HasFrequency' /\ WasCreated'
      /\ MovedPast' /\ TodoIsNew' /\ ServesLatest'
  <2>1. now <= now'
    BY DEF Sound, TypeOK
  <2> QED
    BY <1>1, <2>1, OriginsKept
<1>3. CompleteIsWhole'
  <2> SUFFICES ASSUME NEW f \in Ids
               PROVE  Whole(f)'
    BY DEF CompleteIsWhole, Whole
  <2>1. Whole(f)
    BY DEF Sound, CompleteIsWhole, Whole
  <2> QED
    BY <2>1 DEF Whole, Exists
<1> QED
  BY <1>2, <1>3 DEF Sound

\* A step that leaves every execution as it is.
LEMMA RowsKept ==
    ASSUME Sound, TypeOK', execution' = execution, now <= now',
           \A s \in Schedules : /\ schedule'[s].row = schedule[s].row
                                /\ schedule'[s].frequency = schedule[s].frequency
                                /\ schedule'[s].next = schedule[s].next,
           \A w \in Workers : /\ todo'[w] \subseteq todo[w]
                              /\ serving'[w] = serving[w] \/ serving'[w] = None
    PROVE  Sound'
<1>1. \A f \in Ids : KeepsOrigin(f)
  BY DEF KeepsOrigin
<1>2. /\ OncePerWorker' /\ Numbered' /\ HasFrequency' /\ WasCreated'
      /\ MovedPast' /\ TodoIsNew' /\ ServesLatest'
  BY <1>1, OriginsKept
<1>3. CompleteIsWhole'
  BY DEF Sound, CompleteIsWhole, Exists
<1> QED
  BY <1>2, <1>3 DEF Sound

\* Starting a task writes the status only.
LEMMA StartSound ==
    ASSUME Sound, NEW e \in Ids, Start(e)
    PROVE  Sound'
<1>1. /\ execution' = [execution EXCEPT ![e].status = "running"] /\ Exists(e)
      /\ task' = [task EXCEPT ![e] = "render"]
      /\ UNCHANGED RestOfTask
  BY DEF Start, Goto
<1>2. TypeOK
  BY DEF Sound
<1>3. execution'[e] = [execution[e] EXCEPT !.status = "running"]
  BY <1>1, <1>2 DEF TypeOK
<1>4. TypeOK'
  <2>1. execution[e] \in Execution
    BY <1>2 DEF TypeOK
  <2>2. execution'[e] \in Execution
    BY <1>3, <2>1 DEF Execution, Statuses, Unfinished
  <2> QED
    BY <1>1, <1>2, <1>3, <2>2 DEF TypeOK, Tasks, RestOfTask
<1>5. KeepsOrigin(e) /\ Whole(e)'
  <2>1. execution[e] \in Execution /\ Whole(e)
    BY <1>2 DEF TypeOK, Sound, CompleteIsWhole, Whole
  <2> QED
    BY <1>1, <1>3, <2>1 DEF Execution, KeepsOrigin, Whole, Exists
<1> QED
  BY <1>1, <1>2, <1>4, <1>5, RowWritten DEF TypeOK, RestOfTask

\* So does the handler of an exception: the row is failed, with the outputs the
\* session held.
LEMMA FailSound ==
    ASSUME Sound, NEW e \in Ids, Exists(e), NEW added \in {"none", "part"}, Fail(e, added)
    PROVE  Sound'
<1> DEFINE out == IF execution[e].outputs = "all" THEN "all" ELSE added
<1>1. TypeOK /\ execution[e] \in Execution /\ out \in {"none", "part", "all"}
  BY DEF Sound, TypeOK, Execution
<1>2. /\ execution' = [execution EXCEPT ![e].status = "failed", ![e].outputs = out]
      /\ task' = [task EXCEPT ![e] = "ended"]
      /\ UNCHANGED RestOfTask
  BY <1>1 DEF Fail, Goto, TypeOK
<1> HIDE DEF out
<1>3. execution'[e] = [execution[e] EXCEPT !.status = "failed", !.outputs = out]
  BY <1>1, <1>2 DEF TypeOK
<1>4. TypeOK'
  <2>1. execution'[e] \in Execution
    BY <1>1, <1>3 DEF Execution, Statuses, Finished
  <2> QED
    BY <1>1, <1>2, <1>3, <2>1 DEF TypeOK, Tasks, RestOfTask
<1>5. Whole(e)
  BY DEF Sound, CompleteIsWhole, Whole
<1>6. KeepsOrigin(e)
  BY <1>1, <1>3 DEF Execution, KeepsOrigin, Exists
<1>7. Whole(e)'
  BY <1>1, <1>3, <1>5 DEF Execution, Whole, Exists, out
<1> QED
  BY <1>1, <1>2, <1>4, <1>6, <1>7, RowWritten DEF TypeOK, RestOfTask

\* Completing an execution writes its outputs in the same commit.
LEMMA SaveSound ==
    ASSUME Sound, NEW e \in Ids, Save(e)
    PROVE  Sound'
<1>1. TypeOK /\ execution[e] \in Execution /\ Exists(e)
  BY DEF Sound, TypeOK, Save
<1>2. PICK step \in {"ended", "deliver"} :
      /\ execution' = [execution EXCEPT ![e].status = "completed", ![e].outputs = "all"]
      /\ task' = [task EXCEPT ![e] = step]
      /\ UNCHANGED RestOfTask
  BY <1>1 DEF Save, Goto, TypeOK
<1>3. execution'[e] = [execution[e] EXCEPT !.status = "completed", !.outputs = "all"]
  BY <1>1, <1>2 DEF TypeOK
<1>4. TypeOK'
  <2>1. execution'[e] \in Execution
    BY <1>1, <1>3 DEF Execution, Statuses, Finished
  <2> QED
    BY <1>1, <1>2, <1>3, <2>1 DEF TypeOK, Tasks, RestOfTask
<1>5. KeepsOrigin(e) /\ Whole(e)'
  BY <1>1, <1>3 DEF Execution, KeepsOrigin, Exists, Whole
<1> QED
  BY <1>1, <1>2, <1>4, <1>5, RowWritten DEF TypeOK, RestOfTask

\* The delivery hands over the outputs of a completed execution only.
LEMMA DeliverSound ==
    ASSUME Sound, NEW e \in Ids, Deliver(e)
    PROVE  Sound'
<1> DEFINE handed == execution[e].status = "completed"
<1>1. TypeOK /\ execution[e] \in Execution /\ Exists(e) /\ handed \in BOOLEAN
  BY DEF Sound, TypeOK, Deliver
<1>2. /\ execution' = [execution EXCEPT ![e].delivered = handed]
      /\ task' = [task EXCEPT ![e] = "ended"]
      /\ UNCHANGED RestOfTask
  BY <1>1 DEF Deliver, Goto, TypeOK
<1> HIDE DEF handed
<1>3. execution'[e] = [execution[e] EXCEPT !.delivered = handed]
  BY <1>1, <1>2 DEF TypeOK
<1>4. TypeOK'
  <2>1. execution'[e] \in Execution
    BY <1>1, <1>3 DEF Execution
  <2> QED
    BY <1>1, <1>2, <1>3, <2>1 DEF TypeOK, Tasks, RestOfTask
<1>5. Whole(e)
  BY DEF Sound, CompleteIsWhole, Whole
<1>6. KeepsOrigin(e)
  BY <1>1, <1>3 DEF Execution, KeepsOrigin
<1>7. Whole(e)'
  BY <1>1, <1>3, <1>5 DEF Execution, Whole, handed
<1> QED
  BY <1>1, <1>2, <1>4, <1>6, <1>7, RowWritten DEF TypeOK, RestOfTask

\* Every step of a task keeps the invariant; one whose row is gone writes nothing.
LEMMA StepSound ==
    ASSUME Sound, NEW e \in Ids, Step(e)
    PROVE  Sound'
<1>1. CASE RowGone(e)
  <2>1. TypeOK /\ execution' = execution /\ task' = [task EXCEPT ![e] = "ended"]
        /\ UNCHANGED RestOfTask
    BY <1>1 DEF RowGone, Goto, Sound
  <2>2. TypeOK'
    BY <2>1 DEF TypeOK, Tasks, RestOfTask
  <2> QED
    BY <2>1, <2>2, RowsKept DEF TypeOK, RestOfTask
<1>2. CASE RenderFails(e) \/ SizeFails(e) \/ DeliverFails(e)
  BY <1>2, FailSound DEF RenderFails, SizeFails, DeliverFails
<1> QED
  BY <1>1, <1>2, StartSound, SaveSound, DeliverSound DEF Step

------------------------------------------------------------------------------
\* A cancellation reads the execution and writes its status later, whatever its
\* task has done in between.
LEMMA CancelSound ==
    ASSUME Sound, NEW e \in Ids, ReadCancelable(e) \/ Cancel(e)
    PROVE  Sound'
<1>1. TypeOK /\ execution[e] \in Execution
  BY DEF Sound, TypeOK
<1>2. CASE ReadCancelable(e)
  <2>1. TypeOK'
    BY <1>1, <1>2 DEF ReadCancelable, TypeOK
  <2> QED
    BY <1>1, <1>2, <2>1, RowsKept DEF TypeOK, ReadCancelable
<1>3. CASE Cancel(e) /\ ~Exists(e)
  <2>1. TypeOK'
    BY <1>1, <1>3 DEF Cancel, TypeOK
  <2> QED
    BY <1>1, <1>3, <2>1, RowsKept DEF TypeOK, Cancel
<1>4. CASE Cancel(e) /\ Exists(e)
  <2>1. /\ execution' = [execution EXCEPT ![e].status = "canceled"] /\ canceling' = None
        /\ UNCHANGED <<template, schedule, task, todo, serving, now, faults>>
    BY <1>4 DEF Cancel
  <2>2. execution'[e] = [execution[e] EXCEPT !.status = "canceled"]
    BY <1>1, <2>1 DEF TypeOK
  <2>3. execution'[e] \in Execution
    BY <1>1, <2>2 DEF Execution, Statuses, Finished
  <2>4. TypeOK'
    BY <1>1, <2>1, <2>2, <2>3 DEF TypeOK
  <2>5. Whole(e)
    BY DEF Sound, CompleteIsWhole, Whole
  <2>6. KeepsOrigin(e) /\ Whole(e)'
    BY <1>1, <1>4, <2>2, <2>5 DEF Execution, KeepsOrigin, Exists, Whole
  <2> QED
    BY <1>1, <2>1, <2>4, <2>6, RowWritten DEF TypeOK
<1> QED
  BY <1>2, <1>3, <1>4

\* A crash and a failed commit write no row.
LEMMA FaultSound ==
    ASSUME Sound, \/ \E w \in Workers : Crash(w)
                  \/ \E e \in Ids : CommitFails(e)
    PROVE  Sound'
<1>1. TypeOK /\ faults < MaxFaults /\ faults' = faults + 1
  BY DEF Sound, Crash, CommitFails
<1>2. faults' \in 0 .. MaxFaults
  BY <1>1, ReportsAssumption DEF TypeOK
<1>3. CASE \E w \in Workers : Crash(w)
  <2>1. PICK w \in Workers : Crash(w)
    BY <1>3
  <2>2. TypeOK'
    BY <1>1, <1>2, <2>1 DEF TypeOK, Crash, Tasks
  <2> QED
    BY <1>1, <2>1, <2>2, RowsKept DEF TypeOK, Crash
<1>4. CASE \E e \in Ids : CommitFails(e)
  <2>1. PICK e \in Ids : CommitFails(e)
    BY <1>4
  <2>2. TypeOK'
    BY <1>1, <1>2, <2>1 DEF TypeOK, CommitFails, Goto, Tasks
  <2> QED
    BY <1>1, <2>1, <2>2, RowsKept DEF TypeOK, CommitFails
<1> QED
  BY <1>3, <1>4

\* Time passes.
LEMMA TickSound ==
    ASSUME Sound, Tick
    PROVE  Sound'
<1>1. TypeOK /\ now' = now + 1 /\ now < MaxTime
      /\ UNCHANGED <<template, schedule, execution, task, todo, serving, canceling, faults>>
  BY DEF Sound, Tick
<1>2. now' \in 0 .. MaxTime /\ now <= now'
  BY <1>1, ReportsAssumption DEF TypeOK
<1>3. TypeOK'
  BY <1>1, <1>2 DEF TypeOK
<1> QED
  BY <1>1, <1>2, <1>3, RowsKept DEF TypeOK

\* Activating or deactivating a schedule leaves its next execution time.
LEMMA SetActiveSound ==
    ASSUME Sound, NEW s \in Schedules, SetActive(s)
    PROVE  Sound'
<1>1. TypeOK /\ schedule[s] \in Schedule /\ now \in Int
  BY DEF Sound, TypeOK
<1>2. /\ schedule'[s] = [schedule[s] EXCEPT !.active = ~ schedule[s].active]
      /\ \A r \in Schedules : r # s => schedule'[r] = schedule[r]
      /\ schedule' \in [Schedules -> Schedule]
  <2>1. schedule' = [schedule EXCEPT ![s].active = ~ schedule[s].active]
    BY <1>1 DEF SetActive, TypeOK
  <2>2. [schedule[s] EXCEPT !.active = ~ schedule[s].active] \in Schedule
    BY <1>1 DEF Schedule
  <2> QED
    BY <1>1, <2>1, <2>2 DEF TypeOK
<1>3. TypeOK'
  BY <1>1, <1>2 DEF TypeOK, SetActive
<1>4. \A r \in Schedules : /\ schedule'[r].row = schedule[r].row
                           /\ schedule'[r].frequency = schedule[r].frequency
                           /\ schedule'[r].next = schedule[r].next
  BY <1>1, <1>2 DEF Schedule
<1> QED
  BY <1>1, <1>3, <1>4, RowsKept DEF SetActive

\* Dropping a schedule that was deactivated or deleted meanwhile.
LEMMA SkipSound ==
    ASSUME Sound, NEW w \in Workers, NEW s \in Schedules, NEW due \in 0 .. MaxNext,
           SkipScheduled(w, s, due)
    PROVE  Sound'
<1>1. TypeOK /\ todo' = [todo EXCEPT ![w] = todo[w] \ {<<s, due>>}]
      /\ UNCHANGED <<template, schedule, execution, task, serving, canceling, now, faults>>
  BY DEF Sound, SkipScheduled, TypeOK
<1>2. TypeOK' /\ \A v \in Workers : todo'[v] \subseteq todo[v]
  BY <1>1 DEF TypeOK
<1> QED
  BY <1>1, <1>2, RowsKept DEF TypeOK

------------------------------------------------------------------------------
\* Reading the due schedules: an occurrence that is still the schedule's next one
\* was not executed before by any execution whose schedule was moved on.
LEMMA ReadDueSound ==
    ASSUME Sound, NEW w \in Workers, ReadDue(w)
    PROVE  Sound'
<1> DEFINE read == {<<s, schedule[s].next>> : s \in {x \in Schedules : Due(x)}}
<1>1. TypeOK /\ todo' = [todo EXCEPT ![w] = read] /\ Free(w)
      /\ UNCHANGED <<template, schedule, execution, task, serving, canceling, now, faults>>
  BY DEF Sound, ReadDue
<1>2. \A o \in read : /\ o[1] \in Schedules /\ o[2] = schedule[o[1]].next /\ o = <<o[1], o[2]>>
                      /\ o[2] <= now /\ o[2] \in 0 .. MaxNext /\ Live(o[1])
  BY <1>1 DEF Due, TypeOK, Schedule
<1> HIDE DEF read
<1>3. todo'[w] = read /\ \A v \in Workers : v # w => todo'[v] = todo[v]
  BY <1>1 DEF TypeOK
<1>4. TypeOK'
  <2>1. read \in SUBSET (Schedules \X (0 .. MaxNext))
    BY <1>2
  <2> QED
    BY <1>1, <2>1 DEF TypeOK
<1>5. Used' = Used
  BY <1>1 DEF Used
<1>6. /\ CompleteIsWhole' /\ OncePerWorker' /\ Numbered' /\ HasFrequency' /\ WasCreated'
      /\ MovedPast'
  BY <1>1, <1>5 DEF Sound, CompleteIsWhole, OncePerWorker, Numbered, HasFrequency, WasCreated,
                    MovedPast, Exists, Live
<1>7. TodoIsNew'
  <2> SUFFICES ASSUME NEW v \in Workers, NEW o \in todo'[v]
               PROVE  /\ o[2] <= now
                      /\ \A p \in todo'[v] : p[1] = o[1] => p = o
                      /\ \A e \in Ids :
                            execution[e].at = v /\ execution[e].for = o[1]
                              /\ execution[e].due = o[2]
                            => ~execution[e].rescheduled
    BY <1>1 DEF TodoIsNew
  <2>1. CASE v # w
    BY <1>3, <2>1 DEF Sound, TodoIsNew
  <2>2. CASE v = w
    <3>1. o \in read /\ \A p \in todo'[v] : p \in read
      BY <1>3, <2>2
    <3>2. \A p \in todo'[v] : p[1] = o[1] => p = o
      BY <3>1, <1>2
    <3>3. ASSUME NEW e \in Ids, execution[e].for = o[1], execution[e].due = o[2],
                 execution[e].rescheduled
          PROVE  FALSE
      <4>1. o[2] \in 0 .. MaxNext /\ o[2] = schedule[o[1]].next
        BY <3>1, <1>2
      <4>2. execution[e].due # Never
        BY <4>1, <3>3 DEF Never
      <4>3. schedule[o[1]].next > o[2]
        BY <4>2, <3>3 DEF Sound, MovedPast
      <4> QED
        BY <4>1, <4>3
    <3> QED
      BY <3>1, <3>2, <3>3, <1>2
  <2> QED
    BY <2>1, <2>2
<1>8. ServesLatest'
  <2> SUFFICES ASSUME NEW v \in Workers, serving[v] # None
               PROVE  LET e == serving[v]
                          x == execution[e]
                      IN  /\ e \in Used
                          /\ x.at = v /\ x.for \in Schedules /\ ~x.rescheduled
                          /\ Live(x.for) => x.due # Never
                          /\ \A o \in todo'[v] : o[1] # x.for
                          /\ \A f \in Used : execution[f].at = v => f <= e
    BY <1>1, <1>5 DEF ServesLatest, Live
  <2>1. v # w
    BY <1>1 DEF Free
  <2> QED
    BY <1>3, <2>1 DEF Sound, ServesLatest
<1> QED
  BY <1>4, <1>6, <1>7, <1>8 DEF Sound

------------------------------------------------------------------------------
\* A new row gets the next id, has no reports yet and leaves the other rows as
\* they are.
LEMMA RowCreated ==
    ASSUME Sound, RowsLeft, NEW w \in Workers, NEW s \in Schedules \cup {NoSchedule},
           NEW due \in 0 .. MaxNext \cup {Never},
           execution' = [execution EXCEPT ![NextId] = Row(w, s, due)]
    PROVE  /\ NextId \in Ids /\ NextId \notin Used
           /\ execution' \in [Ids -> Execution]
           /\ execution'[NextId] = Row(w, s, due)
           /\ \A e \in Ids : e # NextId => execution'[e] = execution[e]
           /\ Used' = Used \cup {NextId}
           /\ \A e \in Used : e \in Ids /\ e < NextId
           /\ Numbered' /\ CompleteIsWhole'
<1>1. /\ NextId \in Ids /\ NextId \notin Used /\ Used = 1 .. NextId - 1
      /\ \A e \in Used : e \in Ids /\ e < NextId
      /\ Cardinality(1 .. NextId) = NextId
  BY NewIdIsHighest DEF Sound, Used
<1> DEFINE new == NextId
<1> HIDE DEF new
<1>2. Row(w, s, due) \in Execution
  BY DEF Row, Execution, Statuses, Unfinished
<1>3. /\ execution' \in [Ids -> Execution] /\ execution'[new] = Row(w, s, due)
      /\ \A e \in Ids : e # new => execution'[e] = execution[e]
  BY <1>1, <1>2 DEF Sound, TypeOK, new
<1>4. Used' = Used \cup {new}
  BY <1>1, <1>3 DEF Used, Row, new
<1>5. Used' = 1 .. new
  <2>1. new \in Nat \ {0}
    BY <1>1 DEF Ids, new
  <2>2. Used = 1 .. new - 1
    BY <1>1 DEF new
  <2> QED
    BY <1>4, <2>1, <2>2
<1>6. Numbered'
  BY <1>1, <1>5 DEF Numbered, new
<1>7. CompleteIsWhole'
  BY <1>3 DEF Sound, CompleteIsWhole, Exists, Row
<1> QED
  BY <1>1, <1>3, <1>4, <1>6, <1>7 DEF new

\* A row a user asks for belongs to no schedule.
LEMMA ExecuteReportSound ==
    ASSUME Sound, NEW w \in Workers, ExecuteReport(w)
    PROVE  Sound'
<1> DEFINE new == NextId
<1>1. /\ TypeOK /\ RowsLeft /\ Free(w)
      /\ execution' = [execution EXCEPT ![NextId] = Row(w, NoSchedule, Never)]
      /\ task' = [task EXCEPT ![new] = "start"]
      /\ UNCHANGED <<template, schedule, todo, serving, canceling, now, faults>>
  BY DEF Sound, ExecuteReport
<1>2. /\ new \in Ids /\ new \notin Used /\ execution' \in [Ids -> Execution]
      /\ execution'[new] = Row(w, NoSchedule, Never)
      /\ \A e \in Ids : e # new => execution'[e] = execution[e]
      /\ Used' = Used \cup {new}
      /\ \A e \in Used : e \in Ids /\ e < new
      /\ Numbered' /\ CompleteIsWhole'
  BY <1>1, RowCreated
<1> HIDE DEF new
<1>3. TypeOK'
  BY <1>1, <1>2 DEF TypeOK, Tasks
<1>4. /\ execution'[new].at = w /\ execution'[new].for = NoSchedule
      /\ execution'[new].due = Never /\ ~execution'[new].rescheduled
      /\ execution'[new].status = "pending"
  BY <1>2 DEF Row
<1>5. OncePerWorker'
  <2> SUFFICES ASSUME NEW e \in Used', NEW f \in Used', e < f,
                      execution'[e].due # Never, execution'[e].for = execution'[f].for,
                      execution'[e].due = execution'[f].due,
                      execution'[e].at = execution'[f].at
               PROVE  ~execution'[e].rescheduled
    BY DEF OncePerWorker
  <2>1. e # new /\ f # new
    BY <1>4
  <2> QED
    BY <1>2, <2>1 DEF Sound, OncePerWorker
<1>6. HasFrequency' /\ WasCreated'
  BY <1>1, <1>2, <1>4, ReportsAssumption DEF Sound, HasFrequency, WasCreated, Live
<1>7. MovedPast'
  BY <1>1, <1>2, <1>4 DEF Sound, MovedPast, Live
<1>8. TodoIsNew'
  BY <1>1, <1>2, <1>4 DEF Sound, TodoIsNew
<1>9. ServesLatest'
  <2> SUFFICES ASSUME NEW v \in Workers, serving[v] # None
               PROVE  LET e == serving[v]
                          x == execution'[e]
                      IN  /\ e \in Used'
                          /\ x.at = v /\ x.for \in Schedules /\ ~x.rescheduled
                          /\ schedule[x.for].row = "live" => x.due # Never
                          /\ \A o \in todo[v] : o[1] # x.for
                          /\ \A f \in Used' : execution'[f].at = v => f <= e
    BY <1>1 DEF ServesLatest, Live
  <2>1. v # w
    BY <1>1 DEF Free
  <2>2. serving[v] \in Used /\ serving[v] # new
    BY <1>2 DEF Sound, ServesLatest
  <2>3. \A f \in Used' : execution'[f].at = v => f \in Used /\ execution[f].at = v
    BY <1>2, <1>4, <2>1
  <2> QED
    BY <1>2, <2>2, <2>3 DEF Sound, ServesLatest, Live
<1> QED
  BY <1>2, <1>3, <1>5, <1>6, <1>7, <1>8, <1>9 DEF Sound

\* A row created for an occurrence the worker has read: the worker has not
\* executed that occurrence before, and reads no other one of its schedule before
\* it has moved the schedule on.
LEMMA CreateScheduledSound ==
    ASSUME Sound, NEW w \in Workers, NEW s \in Schedules, NEW due \in 0 .. MaxNext,
           CreateScheduled(w, s, due)
    PROVE  Sound'
<1> DEFINE new == NextId
<1>1. /\ TypeOK /\ RowsLeft /\ <<s, due>> \in todo[w] /\ serving[w] = None /\ Live(s)
      /\ execution' = [execution EXCEPT ![NextId] = Row(w, s, due)]
      /\ serving' = [serving EXCEPT ![w] = new]
      /\ todo' = [todo EXCEPT ![w] = todo[w] \ {<<s, due>>}]
      /\ UNCHANGED <<template, schedule, task, canceling, now, faults>>
  BY DEF Sound, CreateScheduled, TypeOK
<1>2. /\ new \in Ids /\ new \notin Used /\ execution' \in [Ids -> Execution]
      /\ execution'[new] = Row(w, s, due)
      /\ \A e \in Ids : e # new => execution'[e] = execution[e]
      /\ Used' = Used \cup {new}
      /\ \A e \in Used : e \in Ids /\ e < new
      /\ Numbered' /\ CompleteIsWhole'
  BY <1>1, RowCreated
<1> HIDE DEF new
<1>3. /\ execution'[new].at = w /\ execution'[new].for = s
      /\ execution'[new].due = due /\ ~execution'[new].rescheduled
      /\ execution'[new].status = "pending" /\ due # Never
  BY <1>2 DEF Row, Never
<1>4. /\ todo'[w] = todo[w] \ {<<s, due>>} /\ serving'[w] = new
      /\ \A v \in Workers : /\ v # w => todo'[v] = todo[v] /\ serving'[v] = serving[v]
                            /\ todo'[v] \subseteq todo[v]
  BY <1>1 DEF TypeOK
<1>5. /\ due <= now
      /\ \A p \in todo[w] : p[1] = s => p = <<s, due>>
      /\ \A e \in Ids : execution[e].at = w /\ execution[e].for = s /\ execution[e].due = due
                        => ~execution[e].rescheduled
  BY <1>1 DEF Sound, TodoIsNew
<1>6. TypeOK'
  BY <1>1, <1>2, <1>4 DEF TypeOK
<1>7. OncePerWorker'
  <2> SUFFICES ASSUME NEW e \in Used', NEW f \in Used', e < f,
                      execution'[e].due # Never, execution'[e].for = execution'[f].for,
                      execution'[e].due = execution'[f].due,
                      execution'[e].at = execution'[f].at
               PROVE  ~execution'[e].rescheduled
    BY DEF OncePerWorker
  <2>1. CASE e = new
    BY <1>3, <2>1
  <2>2. CASE e # new /\ f = new
    BY <1>2, <1>3, <1>5, <2>2
  <2>3. CASE e # new /\ f # new
    BY <1>2, <2>3 DEF Sound, OncePerWorker
  <2> QED
    BY <2>1, <2>2, <2>3
<1>8. HasFrequency' /\ WasCreated'
  BY <1>1, <1>2, <1>3 DEF Sound, HasFrequency, WasCreated, Live
<1>9. MovedPast'
  <2> SUFFICES ASSUME NEW e \in Ids
               PROVE  LET x == execution'[e]
                      IN  /\ x.status \in {"none", "deleted"} => x.due = Never
                          /\ x.due # Never => /\ x.for \in Schedules
                                              /\ x.due <= now
                                              /\ schedule[x.for].row = "live"
                                              /\ x.rescheduled => schedule[x.for].next > x.due
    BY <1>1 DEF MovedPast, Live
  <2>1. CASE e = new
    BY <1>1, <1>3, <1>5, <2>1 DEF Live
  <2>2. CASE e # new
    BY <1>2, <2>2 DEF Sound, MovedPast, Live
  <2> QED
    BY <2>1, <2>2
<1>10. TodoIsNew'
  <2> SUFFICES ASSUME NEW v \in Workers, NEW o \in todo'[v]
               PROVE  /\ o[2] <= now
                      /\ \A p \in todo'[v] : p[1] = o[1] => p = o
                      /\ \A e \in Ids :
                            execution'[e].at = v /\ execution'[e].for = o[1]
                              /\ execution'[e].due = o[2]
                            => ~execution'[e].rescheduled
    BY <1>1 DEF TodoIsNew
  <2>1. o \in todo[v] /\ todo'[v] \subseteq todo[v]
    BY <1>4
  <2> QED
    BY <1>2, <1>3, <2>1 DEF Sound, TodoIsNew
<1>11. ServesLatest'
  <2> SUFFICES ASSUME NEW v \in Workers, serving'[v] # None
               PROVE  LET e == serving'[v]
                          x == execution'[e]
                      IN  /\ e \in Used'
                          /\ x.at = v /\ x.for \in Schedules /\ ~x.rescheduled
                          /\ schedule[x.for].row = "live" => x.due # Never
                          /\ \A o \in todo'[v] : o[1] # x.for
                          /\ \A f \in Used' : execution'[f].at = v => f <= e
    BY <1>1 DEF ServesLatest, Live
  <2>1. CASE v = w
    <3>1. \A o \in todo'[w] : o[1] # s
      BY <1>4, <1>5
    <3>2. \A f \in Used' : f <= new
      <4>1. \A f \in Used' : f = new \/ f < new
        BY <1>2
      <4>2. Used' \subseteq Int /\ new \in Int
        BY <1>2 DEF Ids
      <4> QED
        BY <4>1, <4>2
    <3> QED
      BY <1>2, <1>3, <1>4, <2>1, <3>1, <3>2
  <2>2. CASE v # w
    <3>1. serving'[v] = serving[v] /\ todo'[v] = todo[v] /\ serving[v] # None
      BY <1>4, <2>2
    <3>2. serving[v] \in Used /\ serving[v] # new
      BY <1>2, <3>1 DEF Sound, ServesLatest
    <3>3. \A f \in Used' : execution'[f].at = v => f \in Used /\ execution[f].at = v
      BY <1>2, <1>3, <2>2
    <3> QED
      BY <1>2, <3>1, <3>2, <3>3 DEF Sound, ServesLatest, Live
  <2> QED
    BY <2>1, <2>2
<1> QED
  BY <1>2, <1>6, <1>7, <1>8, <1>9, <1>10, <1>11 DEF Sound

\* Moving the schedule on: it is then past every occurrence of the past, the
\* execution is the worker's latest, and the worker has no other occurrence of the
\* schedule to serve.
LEMMA UpdateNextSound ==
    ASSUME Sound, NEW w \in Workers, UpdateNext(w)
    PROVE  Sound'
<1> DEFINE e == serving[w]
           s == execution[e].for
           next == NextAfter(schedule[s].frequency, now)
<1>1. /\ TypeOK /\ e # None /\ serving' = [serving EXCEPT ![w] = None]
      /\ UNCHANGED <<template, todo, canceling, now, faults>>
  BY DEF Sound, UpdateNext
<1>2. /\ e \in Used /\ e \in Ids /\ s \in Schedules
      /\ execution[e].at = w /\ ~execution[e].rescheduled
      /\ \A o \in todo[w] : o[1] # s
      /\ \A f \in Used : execution[f].at = w => f <= e
  BY <1>1 DEF Sound, ServesLatest, Used
<1>3. /\ serving'[w] = None
      /\ \A v \in Workers : v # w => serving'[v] = serving[v]
  BY <1>1 DEF TypeOK
<1>4. CASE ~Live(s)
  <2>1. UNCHANGED <<schedule, execution, task>>
    BY <1>4 DEF UpdateNext
  <2>2. TypeOK'
    BY <1>1, <2>1 DEF TypeOK
  <2> QED
    BY <1>1, <1>3, <2>1, <2>2, RowsKept DEF TypeOK
<1>5. CASE Live(s)
  <2>1. /\ schedule' = [schedule EXCEPT ![s].next = next]
        /\ execution' = [execution EXCEPT ![e].rescheduled = TRUE]
        /\ task' = [task EXCEPT ![e] = "start"]
    BY <1>5 DEF UpdateNext
  <2>2. schedule[s].frequency \in Frequencies /\ schedule[s] \in Schedule
    BY <1>1, <1>2, <1>5 DEF Sound, HasFrequency, TypeOK
  <2>3. next \in 0 .. MaxNext /\ next > now /\ now \in Int
    BY <1>1, <2>2, NextAfterIsLater DEF TypeOK
  <2> HIDE DEF e, s, next
  <2>4. /\ schedule'[s] = [schedule[s] EXCEPT !.next = next]
        /\ execution'[e] = [execution[e] EXCEPT !.rescheduled = TRUE]
        /\ \A r \in Schedules : r # s => schedule'[r] = schedule[r]
        /\ \A f \in Ids : f # e => execution'[f] = execution[f]
    BY <1>1, <1>2, <2>1 DEF TypeOK
  <2>5. /\ schedule'[s] \in Schedule /\ execution'[e] \in Execution
    <3>1. schedule'[s] \in Schedule
      BY <2>2, <2>3, <2>4 DEF Schedule
    <3>2. execution[e] \in Execution
      BY <1>1, <1>2 DEF TypeOK
    <3>3. execution'[e] \in Execution
      BY <2>4, <3>2 DEF Execution
    <3> QED
      BY <3>1, <3>3
  <2>6. TypeOK'
    BY <1>1, <1>2, <2>1, <2>4, <2>5 DEF TypeOK, Tasks
  <2>7. /\ execution'[e].rescheduled /\ schedule'[s].next = next
        /\ \A r \in Schedules : /\ schedule'[r].row = schedule[r].row
                                /\ schedule'[r].frequency = schedule[r].frequency
        /\ \A f \in Ids : /\ execution'[f].status = execution[f].status
                          /\ execution'[f].for = execution[f].for
                          /\ execution'[f].due = execution[f].due
                          /\ execution'[f].at = execution[f].at
                          /\ execution'[f].outputs = execution[f].outputs
                          /\ execution'[f].delivered = execution[f].delivered
    <3>1. execution[e] \in Execution
      BY <1>1, <1>2 DEF TypeOK
    <3> QED
      BY <2>2, <2>4, <3>1 DEF Schedule, Execution
  <2>8. Used' = Used
    BY <2>7 DEF Used
  <2>9. CompleteIsWhole' /\ Numbered' /\ HasFrequency' /\ WasCreated'
    BY <2>7, <2>8 DEF Sound, CompleteIsWhole, Numbered, HasFrequency, WasCreated, Exists, Live
  <2>10. OncePerWorker'
    <3> SUFFICES ASSUME NEW g \in Used, NEW f \in Used, g < f,
                        execution[g].due # Never, execution[g].for = execution[f].for,
                        execution[g].due = execution[f].due,
                        execution[g].at = execution[f].at
                 PROVE  ~execution'[g].rescheduled
      BY <2>7, <2>8 DEF OncePerWorker, Used
    <3>1. ~execution[g].rescheduled /\ g \in Ids /\ f \in Ids
      BY DEF Sound, OncePerWorker, Used
    <3>2. g # e
      <4>1. g = e => f <= e
        BY <1>2
      <4>2. g \in Int /\ f \in Int
        BY <3>1 DEF Ids
      <4> QED
        BY <4>1, <4>2
    <3> QED
      BY <2>4, <3>1, <3>2
  <2>11. MovedPast'
    <3> SUFFICES ASSUME NEW f \in Ids
                 PROVE  LET x == execution'[f]
                        IN  /\ x.status \in {"none", "deleted"} => x.due = Never
                            /\ x.due # Never =>
                                  /\ x.for \in Schedules
                                  /\ x.due <= now
                                  /\ schedule'[x.for].row = "live"
                                  /\ x.rescheduled => schedule'[x.for].next > x.due
      BY <1>1 DEF MovedPast, Live
    <3> DEFINE x == execution[f]
    <3>1. /\ x.status \in {"none", "deleted"} => x.due = Never
          /\ x.due # Never => /\ x.for \in Schedules
                              /\ x.due <= now
                              /\ schedule[x.for].row = "live"
                              /\ x.rescheduled => schedule[x.for].next > x.due
      BY DEF Sound, MovedPast, Live
    <3>2. x.due \in Int
      BY <1>1 DEF TypeOK, Execution, Never
    <3>3. CASE x.for = s
      BY <2>3, <2>7, <3>1, <3>2, <3>3
    <3>4. CASE x.for # s
      <4>1. x.due # Never => f # e /\ execution'[f].rescheduled = x.rescheduled
        BY <2>4, <3>4 DEF s
      <4> QED
        BY <2>4, <2>7, <3>1, <3>4, <4>1
    <3> QED
      BY <3>3, <3>4
  <2>12. TodoIsNew'
    <3> SUFFICES ASSUME NEW v \in Workers, NEW o \in todo[v]
                 PROVE  /\ o[2] <= now
                        /\ \A p \in todo[v] : p[1] = o[1] => p = o
                        /\ \A f \in Ids :
                              execution[f].at = v /\ execution[f].for = o[1]
                                /\ execution[f].due = o[2]
                              => ~execution'[f].rescheduled
      BY <1>1, <2>7 DEF TodoIsNew
    <3>1. ASSUME NEW f \in Ids, execution[f].at = v, execution[f].for = o[1]
          PROVE  f # e
      BY <1>2, <3>1 DEF s
    <3> QED
      BY <2>4, <3>1 DEF Sound, TodoIsNew
  <2>13. ServesLatest'
    <3> SUFFICES ASSUME NEW v \in Workers, serving'[v] # None
                 PROVE  LET g == serving'[v]
                            x == execution'[g]
                        IN  /\ g \in Used
                            /\ x.at = v /\ x.for \in Schedules /\ ~x.rescheduled
                            /\ schedule'[x.for].row = "live" => x.due # Never
                            /\ \A o \in todo[v] : o[1] # x.for
                            /\ \A f \in Used : execution'[f].at = v => f <= g
      BY <1>1, <2>8 DEF ServesLatest, Live
    <3>1. v # w /\ serving'[v] = serving[v] /\ serving[v] # None
      BY <1>3
    <3> DEFINE g == serving[v]
    <3>2. /\ g \in Used /\ g \in Ids
          /\ execution[g].at = v /\ execution[g].for \in Schedules /\ ~execution[g].rescheduled
          /\ schedule[execution[g].for].row = "live" => execution[g].due # Never
          /\ \A o \in todo[v] : o[1] # execution[g].for
          /\ \A f \in Used : execution[f].at = v => f <= g
      BY <3>1 DEF Sound, ServesLatest, Live, Used
    <3>3. g # e
      BY <1>2, <3>1, <3>2
    <3> HIDE DEF g
    <3>4. serving'[v] = g
      BY <3>1 DEF g
    <3> QED
      BY <2>4, <2>7, <3>2, <3>3, <3>4 DEF Used
  <2> QED
    BY <2>6, <2>9, <2>10, <2>11, <2>12, <2>13 DEF Sound
<1> QED
  BY <1>4, <1>5

------------------------------------------------------------------------------
\* A schedule that is created, or gets another frequency, is past every occurrence
\* of the past.
LEMMA NewFrequencySound ==
    ASSUME Sound, NEW s \in Schedules,
           Reschedule(s) \/ \E f \in Frequencies : CreateSchedule(s, f)
    PROVE  Sound'
<1>1. TypeOK /\ schedule[s] \in Schedule /\ now \in 0 .. MaxTime
  BY DEF Sound, TypeOK
<1>2. UNCHANGED <<template, execution, task, todo, serving, canceling, now, faults>>
  BY DEF Reschedule, CreateSchedule
<1>3. PICK f \in Frequencies :
         \/ /\ Reschedule(s)
            /\ schedule' = [schedule EXCEPT ![s].frequency = f, ![s].next = NextAfter(f, now)]
         \/ CreateSchedule(s, f)
  BY DEF Reschedule
<1> DEFINE next == NextAfter(f, now)
<1>4. next \in 0 .. MaxNext /\ next > now
  BY <1>1, NextAfterIsLater
<1> HIDE DEF next
<1>5. /\ schedule' \in [Schedules -> Schedule]
      /\ schedule'[s].row = "live" /\ schedule'[s].frequency = f /\ schedule'[s].next = next
      /\ \A r \in Schedules : r # s => schedule'[r] = schedule[r]
      /\ schedule[s].row # "live" => schedule[s].row = "none"
  <2>1. CASE Reschedule(s) /\ schedule' =
               [schedule EXCEPT ![s].frequency = f, ![s].next = NextAfter(f, now)]
    <3>1. schedule'[s] = [schedule[s] EXCEPT !.frequency = f, !.next = next]
      BY <1>1, <2>1 DEF TypeOK, next
    <3>2. schedule'[s] \in Schedule
      BY <1>1, <1>4, <3>1 DEF Schedule
    <3> QED
      BY <1>1, <2>1, <3>1, <3>2 DEF TypeOK, Schedule, Reschedule, Live
  <2>2. CASE CreateSchedule(s, f)
    <3>1. schedule'[s] = [row |-> "live", active |-> TRUE, frequency |-> f, next |-> next]
      BY <1>1, <2>2 DEF TypeOK, CreateSchedule, next
    <3>2. schedule'[s] \in Schedule
      BY <1>4, <3>1 DEF Schedule
    <3> QED
      BY <1>1, <2>2, <3>1, <3>2 DEF TypeOK, CreateSchedule
  <2> QED
    BY <1>3, <2>1, <2>2
<1>6. TypeOK'
  BY <1>1, <1>2, <1>5 DEF TypeOK
<1>7. Used' = Used
  BY <1>2 DEF Used
<1>8. /\ CompleteIsWhole' /\ OncePerWorker' /\ Numbered' /\ HasFrequency' /\ WasCreated'
  BY <1>2, <1>5, <1>7 DEF Sound, CompleteIsWhole, OncePerWorker, Numbered, HasFrequency,
                          WasCreated, Exists, Live
<1>9. MovedPast'
  <2> SUFFICES ASSUME NEW e \in Ids
               PROVE  LET x == execution[e]
                      IN  /\ x.status \in {"none", "deleted"} => x.due = Never
                          /\ x.due # Never => /\ x.for \in Schedules
                                              /\ x.due <= now
                                              /\ schedule'[x.for].row = "live"
                                              /\ x.rescheduled => schedule'[x.for].next > x.due
    BY <1>2 DEF MovedPast, Live
  <2> DEFINE x == execution[e]
  <2>1. /\ x.status \in {"none", "deleted"} => x.due = Never
        /\ x.due # Never => /\ x.for \in Schedules
                            /\ x.due <= now
                            /\ schedule[x.for].row = "live"
                            /\ x.rescheduled => schedule[x.for].next > x.due
    BY DEF Sound, MovedPast, Live
  <2>2. x.due \in Int /\ now \in Int /\ next \in Int
    BY <1>1, <1>4 DEF TypeOK, Execution, Never
  <2>3. CASE x.for = s
    BY <1>4, <1>5, <2>1, <2>2, <2>3
  <2>4. CASE x.for # s
    BY <1>5, <2>1, <2>4
  <2> QED
    BY <2>3, <2>4
<1>10. TodoIsNew'
  BY <1>2 DEF Sound, TodoIsNew
<1>11. ServesLatest'
  <2> SUFFICES ASSUME NEW w \in Workers, serving[w] # None, Live(execution[serving[w]].for)'
               PROVE  execution[serving[w]].due # Never
    BY <1>2, <1>7 DEF Sound, ServesLatest
  <2>1. serving[w] \in Ids /\ execution[serving[w]].for \in Schedules
        /\ schedule[execution[serving[w]].for].row # "none"
    BY DEF Sound, ServesLatest, WasCreated, Used
  <2>2. Live(execution[serving[w]].for)
    BY <1>2, <1>5, <2>1 DEF Live
  <2> QED
    BY <2>2 DEF Sound, ServesLatest
<1> QED
  BY <1>6, <1>8, <1>9, <1>10, <1>11 DEF Sound

\* Deleting schedules together with their executions: what is deleted is for no
\* occurrence any more.
LEMMA RowsDeleted ==
    ASSUME Sound, NEW gone \in SUBSET Schedules, NEW dropped \in SUBSET Ids,
           schedule' = [s \in Schedules |-> IF s \in gone THEN Gone ELSE schedule[s]],
           execution' = [e \in Ids |-> IF e \in dropped THEN Deleted(e) ELSE execution[e]],
           \A s \in gone : Live(s), \A e \in dropped : Exists(e),
           \A e \in Ids : Exists(e) /\ execution[e].for \in gone => e \in dropped,
           \A e \in dropped : execution[e].for \in Schedules /\ Live(execution[e].for)
                              => execution[e].for \in gone,
           template' \in BOOLEAN, UNCHANGED <<task, todo, serving, canceling, now, faults>>
    PROVE  Sound'
<1>1. TypeOK
  BY DEF Sound
<1>2. ASSUME NEW e \in dropped
      PROVE  /\ execution'[e] \in Execution
             /\ execution'[e].status = "deleted" /\ execution'[e].outputs = "none"
             /\ ~execution'[e].delivered /\ execution'[e].due = Never
             /\ ~execution'[e].rescheduled
             /\ execution'[e].for = execution[e].for /\ execution'[e].at = execution[e].at
  <2>1. execution[e] \in Execution
    BY <1>1 DEF TypeOK
  <2>2. execution'[e] = Deleted(e)
    OBVIOUS
  <2> QED
    BY <2>1, <2>2 DEF Deleted, Execution, Statuses
<1>3. \A e \in Ids : e \notin dropped => execution'[e] = execution[e]
  OBVIOUS
<1>4. /\ \A s \in gone : /\ schedule'[s] \in Schedule
                         /\ schedule'[s].row = "deleted" /\ schedule[s].row = "live"
      /\ \A s \in Schedules : s \notin gone => schedule'[s] = schedule[s]
  <2>1. Gone \in Schedule /\ Gone.row = "deleted"
    <3>1. MaxNext \in Nat
      BY <1>1, ReportsAssumption, NextAfterIsLater DEF TypeOK
    <3> QED
      BY <3>1 DEF Gone, Schedule
  <2> QED
    BY <2>1 DEF Live
<1>5. TypeOK'
  <2>1. execution' \in [Ids -> Execution]
    BY <1>1, <1>2, <1>3 DEF TypeOK
  <2>2. schedule' \in [Schedules -> Schedule]
    BY <1>1, <1>4 DEF TypeOK
  <2> QED
    BY <1>1, <2>1, <2>2 DEF TypeOK
<1>6. Used' = Used
  BY <1>2, <1>3 DEF Used, Exists
<1>7. CompleteIsWhole'
  BY <1>2, <1>3 DEF Sound, CompleteIsWhole, Exists
<1>8. OncePerWorker'
  <2> SUFFICES ASSUME NEW e \in Used, NEW f \in Used, e < f,
                      execution'[e].due # Never, execution'[e].for = execution'[f].for,
                      execution'[e].due = execution'[f].due,
                      execution'[e].at = execution'[f].at
               PROVE  ~execution'[e].rescheduled
    BY <1>6 DEF OncePerWorker
  <2>1. e \in Ids /\ f \in Ids /\ e \notin dropped /\ f \notin dropped
    BY <1>2 DEF Used
  <2> QED
    BY <1>3, <2>1 DEF Sound, OncePerWorker
<1>9. Numbered' /\ HasFrequency'
  BY <1>4, <1>6 DEF Sound, Numbered, HasFrequency, Live
<1>10. WasCreated'
  <2> SUFFICES ASSUME NEW e \in Ids, execution'[e].for \in Schedules
               PROVE  schedule'[execution'[e].for].row # "none"
    BY DEF WasCreated
  <2>1. execution'[e].for = execution[e].for
    BY <1>2, <1>3
  <2>2. schedule[execution[e].for].row # "none"
    BY <2>1 DEF Sound, WasCreated
  <2> QED
    BY <1>4, <2>1, <2>2
<1>11. MovedPast'
  <2> SUFFICES ASSUME NEW e \in Ids
               PROVE  LET x == execution'[e]
                      IN  /\ x.status \in {"none", "deleted"} => x.due = Never
                          /\ x.due # Never => /\ x.for \in Schedules
                                              /\ x.due <= now
                                              /\ schedule'[x.for].row = "live"
                                              /\ x.rescheduled => schedule'[x.for].next > x.due
    BY DEF MovedPast, Live
  <2>1. CASE e \in dropped
    BY <1>2, <2>1
  <2>2. CASE e \notin dropped
    <3>1. execution[e].due # Never => execution[e].for \notin gone
      BY <2>2 DEF Sound, MovedPast, Exists
    <3> QED
      BY <1>3, <1>4, <2>2, <3>1 DEF Sound, MovedPast, Live
  <2> QED
    BY <2>1, <2>2
<1>12. TodoIsNew'
  BY <1>2, <1>3 DEF Sound, TodoIsNew
<1>13. ServesLatest'
  <2> SUFFICES ASSUME NEW w \in Workers, serving[w] # None
               PROVE  LET e == serving[w]
                          x == execution'[e]
                      IN  /\ e \in Used
                          /\ x.at = w /\ x.for \in Schedules /\ ~x.rescheduled
                          /\ schedule'[x.for].row = "live" => x.due # Never
                          /\ \A o \in todo[w] : o[1] # x.for
                          /\ \A f \in Used : execution'[f].at = w => f <= e
    BY <1>6, SMTT(30) DEF ServesLatest, Live
  <2> DEFINE e == serving[w]
  <2>1. /\ e \in Used /\ e \in Ids
        /\ execution[e].at = w /\ execution[e].for \in Schedules /\ ~execution[e].rescheduled
        /\ schedule[execution[e].for].row = "live" => execution[e].due # Never
        /\ \A o \in todo[w] : o[1] # execution[e].for
        /\ \A f \in Used : execution[f].at = w => f <= e
    BY DEF Sound, ServesLatest, Live, Used
  <2>2. \A f \in Used : execution'[f].at = execution[f].at
    BY <1>2, <1>3 DEF Used
  <2>3. /\ execution'[e].for = execution[e].for /\ ~execution'[e].rescheduled
    BY <1>2, <1>3, <2>1
  <2>4. schedule'[execution[e].for].row = "live" => execution'[e].due # Never
    <3>1. CASE execution[e].for \in gone
      BY <1>4, <3>1
    <3>2. CASE execution[e].for \notin gone /\ e \notin dropped
      BY <1>3, <1>4, <2>1, <3>2
    <3>3. CASE execution[e].for \notin gone /\ e \in dropped
      BY <1>2, <1>4, <2>1, <3>3 DEF Live
    <3> QED
      BY <3>1, <3>2, <3>3
  <2> HIDE DEF e
  <2>5. serving[w] = e
    BY DEF e
  <2> QED
    BY <2>1, <2>2, <2>3, <2>4, <2>5
<1> QED
  BY <1>5, <1>7, <1>8, <1>9, <1>10, <1>11, <1>12, <1>13 DEF Sound

\* Deleting a schedule or the template.
LEMMA DeleteSound ==
    ASSUME Sound, DeleteTemplate \/ \E s \in Schedules : DeleteSchedule(s)
    PROVE  Sound'
<1>1. TypeOK
  BY DEF Sound
<1>2. CASE \E s \in Schedules : DeleteSchedule(s)
  <2>1. PICK s \in Schedules : DeleteSchedule(s)
    BY <1>2
  <2> DEFINE gone == {s}
             dropped == {e \in Ids : Exists(e) /\ execution[e].for = s}
  <2>2. schedule' = [r \in Schedules |-> IF r \in gone THEN Gone ELSE schedule[r]]
    BY <1>1, <2>1 DEF DeleteSchedule, TypeOK
  <2>3. execution' = [e \in Ids |-> IF e \in dropped THEN Deleted(e) ELSE execution[e]]
    BY <2>1 DEF DeleteSchedule
  <2>4. template' \in BOOLEAN /\ UNCHANGED <<task, todo, serving, canceling, now, faults>>
        /\ Live(s)
    BY <1>1, <2>1 DEF DeleteSchedule, TypeOK
  <2>5. /\ gone \in SUBSET Schedules /\ dropped \in SUBSET Ids
        /\ \A r \in gone : Live(r)
        /\ \A e \in dropped : Exists(e) /\ execution[e].for \in gone
        /\ \A e \in Ids : Exists(e) /\ execution[e].for \in gone => e \in dropped
    BY <2>4
  <2> HIDE DEF gone, dropped
  <2> QED
    BY <2>2, <2>3, <2>4, <2>5, RowsDeleted
<1>3. CASE DeleteTemplate
  <2> DEFINE gone == {s \in Schedules : Live(s)}
             dropped == {e \in Ids : Exists(e)}
  <2>1. schedule' = [r \in Schedules |-> IF r \in gone THEN Gone ELSE schedule[r]]
    BY <1>3 DEF DeleteTemplate
  <2>2. execution' = [e \in Ids |-> IF e \in dropped THEN Deleted(e) ELSE execution[e]]
    BY <1>3 DEF DeleteTemplate
  <2>3. template' \in BOOLEAN /\ UNCHANGED <<task, todo, serving, canceling, now, faults>>
    BY <1>3 DEF DeleteTemplate
  <2>4. /\ gone \in SUBSET Schedules /\ dropped \in SUBSET Ids
        /\ \A r \in gone : Live(r)
        /\ \A e \in dropped : Exists(e)
        /\ \A e \in Ids : Exists(e) /\ execution[e].for \in gone => e \in dropped
        /\ \A e \in dropped : execution[e].for \in Schedules /\ Live(execution[e].for)
                              => execution[e].for \in gone
    OBVIOUS
  <2> HIDE DEF gone, dropped
  <2> QED
    BY <2>1, <2>2, <2>3, <2>4, RowsDeleted
<1> QED
  BY <1>2, <1>3

------------------------------------------------------------------------------
\* The invariant holds initially.
LEMMA InitSound == Init => Sound
<1> SUFFICES ASSUME Init PROVE Sound
  OBVIOUS
<1>1. TypeOK
  <2>1. MaxNext \in Nat /\ 0 \in 0 .. MaxTime
    <3>1. 0 \in 0 .. MaxTime
      BY ReportsAssumption
    <3> QED
      BY <3>1, NextAfterIsLater, ReportsAssumption
  <2>2. [row |-> "none", active |-> FALSE, frequency |-> 0, next |-> 0] \in Schedule
    BY <2>1 DEF Schedule
  <2>3. [status |-> "none", for |-> NoSchedule, outputs |-> "none", delivered |-> FALSE,
         due |-> Never, at |-> NoWorker, rescheduled |-> FALSE] \in Execution
    BY DEF Execution, Statuses
  <2>4. 0 \in 0 .. MaxFaults
    BY ReportsAssumption
  <2> QED
    BY <2>1, <2>2, <2>3, <2>4 DEF Init, TypeOK, Tasks
<1>2. Used = {}
  BY DEF Init, Used
<1>3. Numbered
  <2>1. Cardinality(Used) = 0 /\ 1 .. 0 = {}
    BY <1>2, FS_EmptySet
  <2> QED
    BY <1>2, <2>1 DEF Numbered
<1>4. CompleteIsWhole /\ OncePerWorker /\ HasFrequency
  BY <1>2 DEF Init, CompleteIsWhole, OncePerWorker, HasFrequency, Live
<1>5. WasCreated /\ MovedPast /\ TodoIsNew /\ ServesLatest
  BY ReportsAssumption DEF Init, WasCreated, MovedPast, TodoIsNew, ServesLatest
<1> QED
  BY <1>1, <1>3, <1>4, <1>5 DEF Sound

\* Every step keeps it.
LEMMA NextSound == Sound /\ [Next]_vars => Sound'
<1> SUFFICES ASSUME Sound, [Next]_vars PROVE Sound'
  OBVIOUS
<1>1. CASE UNCHANGED vars
  <2>1. TypeOK'
    BY <1>1 DEF Sound, TypeOK, vars
  <2> QED
    BY <1>1, <2>1, RowsKept DEF Sound, TypeOK, vars
<1>2. ASSUME NEW w \in Workers, ExecuteReport(w) \/ Scheduler(w)
      PROVE  Sound'
  BY <1>2, ExecuteReportSound, ReadDueSound, CreateScheduledSound, SkipSound, UpdateNextSound
     DEF Scheduler
<1>3. ASSUME NEW e \in Ids, Step(e) \/ ReadCancelable(e) \/ Cancel(e)
      PROVE  Sound'
  BY <1>3, StepSound, CancelSound
<1>4. CASE (\E w \in Workers : Crash(w)) \/ (\E e \in Ids : CommitFails(e))
  BY <1>4, FaultSound
<1>5. ASSUME NEW s \in Schedules,
             \/ \E f \in Frequencies : CreateSchedule(s, f)
             \/ Reschedule(s) \/ SetActive(s) \/ DeleteSchedule(s)
      PROVE  Sound'
  BY <1>5, NewFrequencySound, SetActiveSound, DeleteSound
<1>6. CASE DeleteTemplate \/ Tick
  BY <1>6, DeleteSound, TickSound
<1> QED
  BY <1>1, <1>2, <1>3, <1>4, <1>5, <1>6 DEF Next

\* The inductive invariant holds in every state.
THEOREM Soundness == Spec => []Sound
BY InitSound, NextSound, PTL DEF Spec

\* Every variable keeps its type: in particular the ids, the clock and the next
\* execution times stay in their ranges.
THEOREM TypeCorrect == Spec => []TypeOK
<1>1. Sound => TypeOK
  BY DEF Sound
<1> QED
  BY <1>1, Soundness, PTL

\* A report that shows as completed, or that was delivered, has all its files,
\* whatever crashes, failed writes and cancellations happen in between.
THEOREM CompleteReportsWhole == Spec => []CompleteIsWhole
<1>1. Sound => CompleteIsWhole
  BY DEF Sound
<1> QED
  BY <1>1, Soundness, PTL

\* No worker executes an occurrence of a schedule a second time after it moved the
\* schedule on.
THEOREM ExecutedOncePerWorker == Spec => []OncePerWorker
<1>1. Sound => OncePerWorker
  BY DEF Sound
<1> QED
  BY <1>1, Soundness, PTL

=============================================================================
