-------------------------- MODULE RadiusSessionsProofs --------------------------
(***************************************************************************)
(* Proofs about RadiusSessions, for any sessions, handlers and bounds:     *)
(* type correctness, that a session that was stopped never counts as open  *)
(* again, and that a CoA log is pending only while its request is.         *)
(***************************************************************************)
EXTENDS RadiusSessions, TLAPS

\* Rows are never deleted: the one a report was loaded from is still there.
LoadedIsThere ==
    \A h \in Handlers :
        pc[h] \in {"interim", "stop"} => job[h].loaded \in Row /\ There(job[h].of)

\* The inductive invariant.
Sound ==
    /\ TypeOK
    /\ LoadedIsThere
    /\ PendingIsInFlight

------------------------------------------------------------------------------
\* A row that is there is a row of the table.
LEMMA ThereIsRow ==
    ASSUME TypeOK, NEW s \in Sessions
    PROVE  There(s) <=> rows[s] \in Row
<1>1. rows[s] \in Row \/ rows[s] = NoRow
  BY DEF TypeOK
<1>2. rows[s] \in Row => rows[s].there = TRUE
  BY DEF Row
<1>3. NoRow.there = FALSE
  BY DEF NoRow
<1> QED
  BY <1>1, <1>2, <1>3 DEF There

\* A job without work is a job.
LEMMA NoJobIsJob == NoJob \in Job
BY RadiusAssumption DEF NoJob, Job, CoaTypes, Requested, Usage

\* The merge of two rows is a row; it is closed if the row stored is, unless it
\* was loaded closed and is opened.
LEMMA WrittenIsRow ==
    ASSUME NEW s \in Sessions, rows[s] \in Row, NEW loaded \in Row, NEW new \in Row
    PROVE  /\ Written(loaded, new, s) \in Row
           /\ new.open = loaded.open => Written(loaded, new, s).open = rows[s].open
           /\ new.open = FALSE /\ rows[s].open = FALSE => Written(loaded, new, s).open = FALSE
BY DEF Written, Column, Row

\* Where a handler is and what it works on after it went to another place.
LEMMA AfterGoto ==
    ASSUME TypeOK, NEW h \in Handlers, NEW step \in Steps, Goto(h, step)
    PROVE  /\ pc' \in [Handlers -> Steps] /\ job' \in [Handlers -> Job]
           /\ pc'[h] = step
           /\ \A g \in Handlers \ {h} : pc'[g] = pc[g] /\ job'[g] = job[g]
<1>1. job' = job \/ job' = [job EXCEPT ![h] = NoJob]
  BY DEF Goto
<1> QED
  BY <1>1, NoJobIsJob DEF TypeOK, Goto

\* The table after a row was written, or was not.
LEMMA RowWritten ==
    ASSUME TypeOK, NEW s \in Sessions, NEW w \in Row,
           rows' = [rows EXCEPT ![s] = w] \/ rows' = rows
    PROVE  /\ rows' \in [Sessions -> Row \cup {NoRow}]
           /\ \A t \in Sessions : There(t) => There(t)'
           /\ \A t \in Sessions \ {s} : rows'[t] = rows[t]
<1>1. /\ rows' \in [Sessions -> Row \cup {NoRow}]
      /\ \A t \in Sessions \ {s} : rows'[t] = rows[t]
      /\ rows'[s] = w \/ rows'[s] = rows[s]
  BY DEF TypeOK
<1>2. w.there = TRUE
  BY DEF Row
<1> QED
  BY <1>1, <1>2 DEF There

\* A step after which every log has the handler it had.
LEMMA LogsKept ==
    ASSUME Sound, log' = log,
           \A g \in Handlers :
              pc[g] \in {"sent", "dead"} =>
              pc'[g] \in {"sent", "dead"} /\ job'[g].coa = job[g].coa
    PROVE  PendingIsInFlight'
BY DEF Sound, PendingIsInFlight

\* A step of handler h that leaves the others alone and keeps the rows.
LEMMA OthersLoaded ==
    ASSUME Sound, NEW h \in Handlers, pc'[h] \notin {"interim", "stop"},
           \A g \in Handlers \ {h} : pc'[g] = pc[g] /\ job'[g] = job[g],
           \A t \in Sessions : There(t) => There(t)'
    PROVE  LoadedIsThere'
<1>1. ASSUME NEW g \in Handlers
      PROVE  (pc[g] \in {"interim", "stop"} => job[g].loaded \in Row /\ There(job[g].of))'
  <2>1. CASE g = h
    BY <2>1
  <2>2. CASE g # h
    <3>1. job[g].of \in Sessions
      BY DEF Sound, TypeOK, Job
    <3> QED
      BY <2>2, <3>1 DEF Sound, LoadedIsThere
  <2> QED
    BY <2>1, <2>2
<1> QED
  BY <1>1 DEF LoadedIsThere

------------------------------------------------------------------------------
\* What ClosedForGood says of one step.
KeepsClosed == \A s \in Sessions : There(s) /\ ~Open(s) => There(s)' /\ ~Open(s)'

\* The NAS knows its sessions; it does not touch the tables.
LEMMA NasSound ==
    ASSUME Sound, NEW s \in Sessions, Authenticate(s) \/ Use(s) \/ End(s)
    PROVE  Sound'
<1>1. UNCHANGED <<rows, device, log, pc, job>>
  BY DEF Authenticate, Use, End
<1>2. session' \in [Sessions -> {"none", "live", "ended"}] /\ used' \in [Sessions -> Usage]
  BY DEF Sound, TypeOK, Authenticate, Use, End
<1>3. TypeOK'
  BY <1>1, <1>2 DEF Sound, TypeOK
<1>4. LoadedIsThere' /\ PendingIsInFlight'
  BY <1>1 DEF Sound, LoadedIsThere, PendingIsInFlight, There
<1> QED
  BY <1>3, <1>4 DEF Sound

\* A report that is taken has loaded its row, unless it is a start.
LEMMA TakeSound ==
    ASSUME Sound, NEW h \in Handlers, NEW step \in {"insert", "interim", "stop"},
           NEW s \in Sessions, NEW bytes \in Usage,
           step # "insert" => There(s), Take(h, step, s, bytes)
    PROVE  Sound'
<1> DEFINE new == [NoJob EXCEPT !.of = s, !.bytes = bytes, !.loaded = rows[s]]
<1>1. /\ pc[h] = "idle" /\ pc' = [pc EXCEPT ![h] = step] /\ job' = [job EXCEPT ![h] = new]
      /\ UNCHANGED <<session, used, rows, device, log>>
  BY DEF Take
<1>2. TypeOK
  BY DEF Sound
<1>3. rows[s] \in Row \cup {NoRow}
  BY <1>2 DEF TypeOK
<1>4. new \in Job /\ new.of = s /\ new.loaded = rows[s]
  BY <1>3, NoJobIsJob DEF Job
<1> HIDE DEF new
<1>5. TypeOK'
  BY <1>1, <1>2, <1>4 DEF TypeOK, Steps
<1>6. /\ pc'[h] = step /\ job'[h] = new
      /\ \A g \in Handlers \ {h} : pc'[g] = pc[g] /\ job'[g] = job[g]
  BY <1>1, <1>2 DEF TypeOK
<1>7. LoadedIsThere'
  <2>1. ASSUME NEW g \in Handlers
        PROVE  (pc[g] \in {"interim", "stop"} => job[g].loaded \in Row /\ There(job[g].of))'
    <3>1. CASE g = h
      BY <1>1, <1>2, <1>4, <1>6, <3>1, ThereIsRow DEF There
    <3>2. CASE g # h
      BY <1>1, <1>6, <3>2 DEF Sound, LoadedIsThere, There
    <3> QED
      BY <3>1, <3>2
  <2> QED
    BY <2>1 DEF LoadedIsThere
<1>8. PendingIsInFlight'
  BY <1>1, <1>6, LogsKept
<1> QED
  BY <1>5, <1>7, <1>8 DEF Sound

\* A step in which a handler writes at most the row of one session, and ends or
\* goes on to the cap.
LEMMA WriteSound ==
    ASSUME Sound, NEW h \in Handlers, NEW s \in Sessions, NEW w \in Row,
           rows' = [rows EXCEPT ![s] = w] \/ rows' = rows,
           There(s) /\ ~Open(s) => ~w.open,
           UNCHANGED <<session, used, device, log>>,
           pc[h] \notin {"sent", "dead"},
           \/ Goto(h, "idle")
           \/ /\ pc' = [pc EXCEPT ![h] = "cap"]
              /\ job' = [job EXCEPT ![h] = [NoJob EXCEPT !.of = s]]
    PROVE  Sound' /\ KeepsClosed
<1>1. TypeOK
  BY DEF Sound
<1>2. /\ rows' \in [Sessions -> Row \cup {NoRow}]
      /\ \A t \in Sessions : There(t) => There(t)'
      /\ \A t \in Sessions \ {s} : rows'[t] = rows[t]
  BY <1>1, RowWritten
<1>3. [NoJob EXCEPT !.of = s] \in Job
  BY NoJobIsJob DEF Job
<1>4. /\ pc' \in [Handlers -> Steps] /\ job' \in [Handlers -> Job]
      /\ pc'[h] \in {"idle", "cap"}
      /\ \A g \in Handlers \ {h} : pc'[g] = pc[g] /\ job'[g] = job[g]
  <2>1. "idle" \in Steps /\ "cap" \in Steps
    BY DEF Steps
  <2>2. CASE Goto(h, "idle")
    BY <1>1, <2>1, <2>2, AfterGoto
  <2>3. CASE /\ pc' = [pc EXCEPT ![h] = "cap"]
             /\ job' = [job EXCEPT ![h] = [NoJob EXCEPT !.of = s]]
    BY <1>1, <1>3, <2>1, <2>3 DEF TypeOK
  <2> QED
    BY <2>2, <2>3
<1>5. TypeOK'
  BY <1>1, <1>2, <1>4 DEF TypeOK
<1>6. LoadedIsThere'
  BY <1>2, <1>4, OthersLoaded
<1>7. PendingIsInFlight'
  BY <1>4, LogsKept
<1>8. ASSUME NEW t \in Sessions, There(t), ~Open(t)
      PROVE  There(t)' /\ ~Open(t)'
  <2>1. CASE t = s
    <3>1. ~w.open
      BY <1>8, <2>1
    <3>2. rows'[s] = w \/ rows'[s] = rows[s]
      BY <1>1 DEF TypeOK
    <3>3. ~rows'[s].open
      BY <1>8, <2>1, <3>1, <3>2 DEF Open
    <3> QED
      BY <1>2, <1>8, <2>1, <3>3 DEF Open
  <2>2. CASE t # s
    BY <1>2, <1>8, <2>2 DEF Open, There
  <2> QED
    BY <2>1, <2>2
<1> QED
  BY <1>5, <1>6, <1>7, <1>8 DEF Sound, KeepsClosed

\* A start is stored only where there is no row yet.
LEMMA InsertSound ==
    ASSUME Sound, NEW h \in Handlers, Insert(h)
    PROVE  Sound' /\ KeepsClosed
<1> DEFINE s == job[h].of
<1>1. TypeOK /\ s \in Sessions
  BY DEF Sound, TypeOK, Job
<1>2. NewRow \in Row
  BY RadiusAssumption DEF NewRow, Row
<1>3. /\ pc[h] = "insert" /\ Goto(h, "idle")
      /\ UNCHANGED <<session, used, device, log>>
  BY DEF Insert
<1>4. CASE There(s)
  <2>1. rows' = rows
    BY <1>4 DEF Insert
  <2>2. rows[s] \in Row
    BY <1>1, <1>4, ThereIsRow
  <2>3. There(s) /\ ~Open(s) => ~rows[s].open
    BY DEF Open
  <2> QED
    BY <1>1, <1>3, <2>1, <2>2, <2>3, WriteSound
<1>5. CASE ~There(s)
  <2>1. rows' = rows \/ rows' = [rows EXCEPT ![s] = NewRow]
    BY DEF Insert
  <2> QED
    BY <1>1, <1>2, <1>3, <1>5, <2>1, WriteSound
<1> QED
  BY <1>4, <1>5

\* A report is merged into the row: it does not write the columns it did not
\* change, so it opens nothing that was closed since it was loaded.
LEMMA ReportSound ==
    ASSUME Sound, NEW h \in Handlers, CommitInterim(h) \/ CommitStop(h)
    PROVE  Sound' /\ KeepsClosed
<1> DEFINE s == job[h].of
           loaded == job[h].loaded
<1>1. /\ pc[h] \in {"interim", "stop"}
      /\ UNCHANGED <<session, used, device, log>>
  BY DEF CommitInterim, CommitStop
<1>2. TypeOK /\ s \in Sessions /\ loaded \in Row /\ There(s) /\ job[h].bytes \in Usage
  BY <1>1 DEF Sound, TypeOK, LoadedIsThere, Job
<1>3. rows[s] \in Row
  BY <1>2, ThereIsRow
<1>4. Fits(job[h].bytes) => job[h].bytes \in 0 .. MaxInteger
  BY <1>2, RadiusAssumption DEF Fits, Usage
<1>5. Open(s) <=> rows[s].open
  BY <1>2 DEF Open
<1>6. rows[s].open \in BOOLEAN
  BY <1>3 DEF Row
<1>7. CASE rows' = rows /\ Goto(h, "idle")
  BY <1>1, <1>2, <1>3, <1>5, <1>7, WriteSound
<1>8. CASE Fits(job[h].bytes) /\ CommitInterim(h)
  <2> DEFINE new == [loaded EXCEPT !.bytes = job[h].bytes]
             w == Written(loaded, new, s)
  <2>1. /\ rows' = [rows EXCEPT ![s] = w]
        /\ pc' = [pc EXCEPT ![h] = "cap"]
        /\ job' = [job EXCEPT ![h] = [NoJob EXCEPT !.of = s]]
    BY <1>8 DEF CommitInterim
  <2>2. new \in Row /\ new.open = loaded.open
    BY <1>2, <1>4, <1>8 DEF Row
  <2>3. w \in Row /\ w.open = rows[s].open
    BY <1>2, <1>3, <2>2, WrittenIsRow
  <2> HIDE DEF w, new, s, loaded
  <2>4. There(s) /\ ~Open(s) => ~w.open
    BY <1>5, <2>3
  <2> QED
    BY <1>1, <1>2, <2>1, <2>3, <2>4, WriteSound
<1>9. CASE Fits(job[h].bytes) /\ CommitStop(h)
  <2> DEFINE new == [loaded EXCEPT !.bytes = job[h].bytes, !.open = FALSE]
             w == Written(loaded, new, s)
  <2>1. rows' = [rows EXCEPT ![s] = w] /\ Goto(h, "idle")
    BY <1>9 DEF CommitStop
  <2>2. new \in Row /\ new.open = FALSE
    BY <1>2, <1>4, <1>9 DEF Row
  <2>3. w \in Row /\ (rows[s].open = FALSE => w.open = FALSE)
    BY <1>2, <1>3, <2>2, WrittenIsRow
  <2> HIDE DEF w, new, s, loaded
  <2>4. There(s) /\ ~Open(s) => ~w.open
    BY <1>5, <1>6, <2>3
  <2> QED
    BY <1>1, <1>2, <2>1, <2>3, <2>4, WriteSound
<1>10. CASE ~Fits(job[h].bytes)
  <2>1. rows' = rows /\ Goto(h, "idle")
    BY <1>10 DEF CommitInterim, CommitStop
  <2> QED
    BY <1>7, <2>1
<1> QED
  BY <1>8, <1>9, <1>10

------------------------------------------------------------------------------
\* A step of one handler that writes neither the rows nor the log, and gives up
\* no pending request.
LEMMA StepAside ==
    ASSUME Sound, NEW h \in Handlers, UNCHANGED <<session, used, rows, log>>, device' \in BOOLEAN,
           pc' \in [Handlers -> Steps], job' \in [Handlers -> Job],
           pc'[h] \notin {"interim", "stop"},
           \/ pc[h] \notin {"sent", "dead"}
           \/ pc'[h] = "dead" /\ job'[h].coa = job[h].coa,
           \A g \in Handlers \ {h} : pc'[g] = pc[g] /\ job'[g] = job[g]
    PROVE  Sound'
<1>1. TypeOK'
  BY DEF Sound, TypeOK
<1>2. LoadedIsThere'
  BY OthersLoaded DEF There
<1>3. PendingIsInFlight'
  BY LogsKept
<1> QED
  BY <1>1, <1>2, <1>3 DEF Sound

\* The comparison with the cap, the start of CoA requests, both steps of deleting
\* the NAS device, and a death.
LEMMA AsideSound ==
    ASSUME Sound, NEW h \in Handlers,
           \/ CheckCap(h) \/ CheckNasUnused(h) \/ DeleteNas(h) \/ Crash(h)
           \/ \E type \in Requested : RequestCoa(h, type)
    PROVE  Sound'
<1>1. TypeOK /\ {"idle", "coa", "delete", "dead"} \subseteq Steps
  BY DEF Sound, Steps
<1>2. CASE CheckCap(h)
  <2> DEFINE new == [NoJob EXCEPT !.todo = {job[h].of}, !.type = "capped"]
  <2>1. pc[h] = "cap" /\ UNCHANGED <<session, used, rows, device, log>>
    BY <1>2 DEF CheckCap
  <2>2. new \in Job
    <3>1. job[h].of \in Sessions
      BY <1>1 DEF TypeOK, Job
    <3> QED
      BY <3>1, NoJobIsJob DEF Job, CoaTypes
  <2>3. \/ pc' = [pc EXCEPT ![h] = "coa"] /\ job' = [job EXCEPT ![h] = new]
        \/ Goto(h, "idle")
    BY <1>2 DEF CheckCap
  <2> HIDE DEF new
  <2>4. /\ pc' \in [Handlers -> Steps] /\ job' \in [Handlers -> Job]
        /\ pc'[h] \in {"idle", "coa"}
        /\ \A g \in Handlers \ {h} : pc'[g] = pc[g] /\ job'[g] = job[g]
    <3>1. CASE Goto(h, "idle")
      BY <1>1, <3>1, AfterGoto
    <3>2. CASE pc' = [pc EXCEPT ![h] = "coa"] /\ job' = [job EXCEPT ![h] = new]
      BY <1>1, <2>2, <3>2 DEF TypeOK
    <3> QED
      BY <2>3, <3>1, <3>2
  <2> QED
    BY <1>1, <2>1, <2>4, StepAside DEF TypeOK
<1>3. CASE CheckNasUnused(h) \/ DeleteNas(h)
  <2>1. /\ pc[h] \in {"idle", "delete"} /\ UNCHANGED <<session, used, rows, log>>
        /\ device' \in BOOLEAN
        /\ Goto(h, "delete") \/ Goto(h, "idle")
    BY <1>1, <1>3 DEF CheckNasUnused, DeleteNas, TypeOK
  <2>2. /\ pc' \in [Handlers -> Steps] /\ job' \in [Handlers -> Job]
        /\ pc'[h] \in {"idle", "delete"}
        /\ \A g \in Handlers \ {h} : pc'[g] = pc[g] /\ job'[g] = job[g]
    BY <1>1, <2>1, AfterGoto
  <2> QED
    BY <2>1, <2>2, StepAside
<1>4. CASE Crash(h)
  <2> DEFINE new == [NoJob EXCEPT !.coa = job[h].coa]
  <2>1. new \in Job /\ new.coa = job[h].coa
    <3>1. job[h].coa \in CoaIds \cup {NoCoa}
      BY <1>1 DEF TypeOK, Job
    <3> QED
      BY <3>1, NoJobIsJob DEF Job
  <2>2. /\ pc' = [pc EXCEPT ![h] = "dead"] /\ job' = [job EXCEPT ![h] = new]
        /\ UNCHANGED <<session, used, rows, device, log>>
    BY <1>4 DEF Crash
  <2> HIDE DEF new
  <2>3. /\ pc' \in [Handlers -> Steps] /\ job' \in [Handlers -> Job]
        /\ pc'[h] = "dead" /\ job'[h].coa = job[h].coa
        /\ \A g \in Handlers \ {h} : pc'[g] = pc[g] /\ job'[g] = job[g]
    BY <1>1, <2>1, <2>2 DEF TypeOK
  <2> QED
    BY <1>1, <2>2, <2>3, StepAside DEF TypeOK
<1>5. ASSUME NEW type \in Requested, RequestCoa(h, type)
      PROVE  Sound'
  <2>1. PICK todo \in SUBSET Sessions :
           job' = [job EXCEPT ![h] = [NoJob EXCEPT !.todo = todo, !.type = type]]
    BY <1>5 DEF RequestCoa, OpenSessions
  <2>2. /\ pc[h] = "idle" /\ pc' = [pc EXCEPT ![h] = "coa"]
        /\ UNCHANGED <<session, used, rows, device, log>>
    BY <1>5 DEF RequestCoa
  <2>3. [NoJob EXCEPT !.todo = todo, !.type = type] \in Job
    BY NoJobIsJob DEF Job, CoaTypes
  <2>4. /\ pc' \in [Handlers -> Steps] /\ job' \in [Handlers -> Job]
        /\ pc'[h] = "coa"
        /\ \A g \in Handlers \ {h} : pc'[g] = pc[g] /\ job'[g] = job[g]
    BY <1>1, <2>1, <2>2, <2>3 DEF TypeOK
  <2> QED
    BY <1>1, <2>2, <2>4, StepAside DEF TypeOK
<1> QED
  BY <1>2, <1>3, <1>4, <1>5

------------------------------------------------------------------------------
\* Logging a request: the new log is the handler's own.
LEMMA LogCoaSound ==
    ASSUME Sound, NEW h \in Handlers, LogCoa(h)
    PROVE  Sound'
<1>1. TypeOK /\ {"idle", "sent"} \subseteq Steps /\ job[h] \in Job
  BY DEF Sound, Steps, TypeOK
<1>2. pc[h] = "coa" /\ UNCHANGED <<session, used, rows, device>>
  BY DEF LogCoa
<1>3. PICK s \in job[h].todo :
         LET coa == Len(log) + 1
             possible == device /\ coa \in CoaIds
         IN  IF possible
             THEN /\ log' = Append(log, [session |-> s, type |-> job[h].type,
                                         result |-> "pending"])
                  /\ pc' = [pc EXCEPT ![h] = "sent"]
                  /\ job' = [job EXCEPT ![h].todo = @ \ {s}, ![h].coa = coa]
             ELSE /\ IF job[h].todo = {s} THEN Goto(h, "idle")
                     ELSE /\ job' = [job EXCEPT ![h].todo = @ \ {s}]
                          /\ UNCHANGED pc
                  /\ UNCHANGED log
  BY DEF LogCoa
<1>4. s \in Sessions /\ job[h].type \in CoaTypes
  BY <1>1, <1>3 DEF Job
<1>5. CASE device /\ Len(log) + 1 \in CoaIds
  <2> DEFINE coa == Len(log) + 1
             new == [session |-> s, type |-> job[h].type, result |-> "pending"]
             work == [job[h] EXCEPT !.todo = @ \ {s}, !.coa = coa]
  <2>1. /\ log' = Append(log, new) /\ pc' = [pc EXCEPT ![h] = "sent"]
        /\ job' = [job EXCEPT ![h] = work]
    BY <1>1, <1>3, <1>5 DEF TypeOK
  <2>2. new \in Coa
    BY <1>4 DEF Coa
  <2>3. work \in Job /\ work.coa = coa
    BY <1>1, <1>5 DEF Job
  <2>4. log \in Seq(Coa) /\ Len(log) \in Nat /\ coa <= MaxCoa
    BY <1>1, <1>5, RadiusAssumption DEF TypeOK, CoaIds
  <2> HIDE DEF new, work
  <2>5. /\ log' \in Seq(Coa) /\ Len(log') = coa
        /\ DOMAIN log' = DOMAIN log \cup {coa}
        /\ \A c \in DOMAIN log : log'[c] = log[c]
    BY <2>1, <2>2, <2>4
  <2>6. /\ pc' \in [Handlers -> Steps] /\ job' \in [Handlers -> Job]
        /\ pc'[h] = "sent" /\ job'[h].coa = coa
        /\ \A g \in Handlers \ {h} : pc'[g] = pc[g] /\ job'[g] = job[g]
    BY <1>1, <2>1, <2>3 DEF TypeOK
  <2> HIDE DEF coa
  <2>7. TypeOK'
    BY <1>1, <1>2, <2>4, <2>5, <2>6 DEF TypeOK
  <2>8. LoadedIsThere'
    BY <1>2, <2>6, OthersLoaded DEF There
  <2>9. PendingIsInFlight'
    <3>1. ASSUME NEW c \in DOMAIN log', log'[c].result = "pending"
          PROVE  \E g \in Handlers : pc'[g] \in {"sent", "dead"} /\ job'[g].coa = c
      <4>1. CASE c \in DOMAIN log
        <5>1. PICK g \in Handlers : pc[g] \in {"sent", "dead"} /\ job[g].coa = c
          BY <2>5, <3>1, <4>1 DEF Sound, PendingIsInFlight
        <5> QED
          BY <1>2, <2>6, <5>1
      <4>2. CASE c = coa
        BY <2>6, <4>2
      <4> QED
        BY <2>5, <3>1, <4>1, <4>2
    <3> QED
      BY <3>1 DEF PendingIsInFlight
  <2> QED
    BY <2>7, <2>8, <2>9 DEF Sound
<1>6. CASE ~(device /\ Len(log) + 1 \in CoaIds)
  <2> DEFINE work == [job[h] EXCEPT !.todo = @ \ {s}]
  <2>1. /\ UNCHANGED log
        /\ \/ Goto(h, "idle")
           \/ UNCHANGED pc /\ job' = [job EXCEPT ![h] = work]
    BY <1>1, <1>3, <1>6 DEF TypeOK
  <2>2. work \in Job
    BY <1>1 DEF Job
  <2> HIDE DEF work
  <2>3. /\ pc' \in [Handlers -> Steps] /\ job' \in [Handlers -> Job]
        /\ pc'[h] \in {"idle", "coa"}
        /\ \A g \in Handlers \ {h} : pc'[g] = pc[g] /\ job'[g] = job[g]
    <3>1. CASE Goto(h, "idle")
      BY <1>1, <3>1, AfterGoto
    <3>2. CASE UNCHANGED pc /\ job' = [job EXCEPT ![h] = work]
      BY <1>1, <1>2, <2>2, <3>2 DEF TypeOK
    <3> QED
      BY <2>1, <3>1, <3>2
  <2> QED
    BY <1>1, <1>2, <2>1, <2>3, StepAside DEF TypeOK
<1> QED
  BY <1>5, <1>6

\* Storing a result: the handler's own log is not pending any more, and no other
\* handler's is touched.
LEMMA CoaResultSound ==
    ASSUME Sound, NEW h \in Handlers, CoaResult(h)
    PROVE  Sound'
<1> DEFINE k == job[h].coa
<1>1. TypeOK /\ {"idle", "coa"} \subseteq Steps /\ job[h] \in Job
  BY DEF Sound, Steps, TypeOK
<1>2. /\ pc[h] = "sent" /\ UNCHANGED <<session, used, rows, device>>
      /\ log' = [log EXCEPT ![k].result = "success"]
  BY DEF CoaResult
<1>3. log \in Seq(Coa) /\ Len(log) \in Nat /\ DOMAIN log = 1 .. Len(log)
  BY <1>1 DEF TypeOK
<1>4. /\ log' \in Seq(Coa) /\ Len(log') = Len(log) /\ DOMAIN log' = DOMAIN log
      /\ \A c \in DOMAIN log \ {k} : log'[c] = log[c]
      /\ k \in DOMAIN log => log'[k].result = "success"
  <2>1. \A c \in DOMAIN log : log[c] \in Coa
    BY <1>3
  <2>2. \A x \in Coa : [x EXCEPT !.result = "success"] \in Coa
    BY DEF Coa
  <2>3. /\ DOMAIN log' = DOMAIN log
        /\ \A c \in DOMAIN log \ {k} : log'[c] = log[c]
        /\ k \in DOMAIN log => log'[k] = [log[k] EXCEPT !.result = "success"]
    BY <1>2
  <2>4. log' \in [1 .. Len(log) -> Coa]
    <3>1. \A c \in DOMAIN log : log'[c] \in Coa
      BY <2>1, <2>2, <2>3
    <3>2. log' = [c \in DOMAIN log |-> log'[c]]
      BY <1>2, <2>3
    <3> QED
      BY <1>3, <3>1, <3>2
  <2>5. log' \in Seq(Coa) /\ Len(log') = Len(log)
    BY <1>3, <2>4
  <2>6. k \in DOMAIN log => log'[k].result = "success"
    BY <2>1, <2>3 DEF Coa
  <2> QED
    BY <2>3, <2>5, <2>6
<1>5. /\ pc' \in [Handlers -> Steps] /\ job' \in [Handlers -> Job]
      /\ pc'[h] \in {"idle", "coa"}
      /\ \A g \in Handlers \ {h} : pc'[g] = pc[g] /\ job'[g] = job[g]
  <2>1. CASE Goto(h, "idle")
    BY <1>1, <2>1, AfterGoto
  <2>2. CASE pc' = [pc EXCEPT ![h] = "coa"] /\ job' = [job EXCEPT ![h].coa = NoCoa]
    <3>1. [job[h] EXCEPT !.coa = NoCoa] \in Job
      BY <1>1 DEF Job
    <3> QED
      BY <1>1, <2>2, <3>1 DEF TypeOK
  <2> QED
    BY <2>1, <2>2 DEF CoaResult
<1> HIDE DEF k
<1>6. TypeOK'
  BY <1>1, <1>2, <1>4, <1>5 DEF TypeOK
<1>7. LoadedIsThere'
  BY <1>2, <1>5, OthersLoaded DEF There
<1>8. PendingIsInFlight'
  <2>1. ASSUME NEW c \in DOMAIN log', log'[c].result = "pending"
        PROVE  \E g \in Handlers : pc'[g] \in {"sent", "dead"} /\ job'[g].coa = c
    <3>1. c # k /\ c \in DOMAIN log /\ log[c].result = "pending"
      BY <1>4, <2>1
    <3>2. PICK g \in Handlers : pc[g] \in {"sent", "dead"} /\ job[g].coa = c
      BY <3>1 DEF Sound, PendingIsInFlight
    <3>3. g # h
      BY <3>1, <3>2 DEF k
    <3> QED
      BY <1>5, <3>2, <3>3
  <2> QED
    BY <2>1 DEF PendingIsInFlight
<1> QED
  BY <1>6, <1>7, <1>8 DEF Sound

------------------------------------------------------------------------------
\* Nothing has happened yet.
LEMMA InitSound == Init => Sound
<1> SUFFICES ASSUME Init
             PROVE  Sound
  OBVIOUS
<1>1. TypeOK
  <2>1. log \in Seq(Coa) /\ Len(log) <= MaxCoa
    BY RadiusAssumption DEF Init
  <2>2. used \in [Sessions -> Usage]
    BY RadiusAssumption DEF Init, Usage
  <2> QED
    BY <2>1, <2>2, NoJobIsJob DEF Init, TypeOK, Steps
<1>2. LoadedIsThere /\ PendingIsInFlight
  BY DEF Init, LoadedIsThere, PendingIsInFlight
<1> QED
  BY <1>1, <1>2 DEF Sound

\* Every step keeps the invariant, and the closed rows closed.
LEMMA NextSound == Sound /\ [Next]_vars => Sound' /\ KeepsClosed
<1> SUFFICES ASSUME Sound, [Next]_vars
             PROVE  Sound' /\ KeepsClosed
  OBVIOUS
<1>1. UNCHANGED rows => KeepsClosed
  BY DEF KeepsClosed, Open, There
<1>2. ASSUME NEW s \in Sessions, Authenticate(s) \/ Use(s) \/ End(s)
      PROVE  Sound' /\ KeepsClosed
  BY <1>1, <1>2, NasSound DEF Authenticate, Use, End
<1>3. ASSUME NEW h \in Handlers, NEW s \in Sessions,
             TakeStart(h, s) \/ TakeInterim(h, s) \/ TakeStop(h, s)
      PROVE  Sound' /\ KeepsClosed
  <2>1. 0 \in Usage /\ used[s] \in Usage
    BY RadiusAssumption DEF Sound, TypeOK, Usage
  <2>2. PICK step \in {"insert", "interim", "stop"}, bytes \in Usage :
           Take(h, step, s, bytes) /\ (step # "insert" => There(s))
    BY <1>3, <2>1 DEF TakeStart, TakeInterim, TakeStop
  <2>3. UNCHANGED rows
    BY <2>2 DEF Take
  <2> QED
    BY <1>1, <2>2, <2>3, TakeSound
<1>4. ASSUME NEW h \in Handlers, CheckCap(h) \/ CheckNasUnused(h) \/ DeleteNas(h) \/ Crash(h)
      PROVE  Sound' /\ KeepsClosed
  BY <1>1, <1>4, AsideSound DEF CheckCap, CheckNasUnused, DeleteNas, Crash
<1>5. ASSUME NEW h \in Handlers, NEW type \in Requested, RequestCoa(h, type)
      PROVE  Sound' /\ KeepsClosed
  BY <1>1, <1>5, AsideSound DEF RequestCoa
<1>6. ASSUME NEW h \in Handlers, Insert(h) \/ CommitInterim(h) \/ CommitStop(h)
      PROVE  Sound' /\ KeepsClosed
  BY <1>6, InsertSound, ReportSound
<1>7. ASSUME NEW h \in Handlers, LogCoa(h) \/ CoaResult(h)
      PROVE  Sound' /\ KeepsClosed
  BY <1>1, <1>7, LogCoaSound, CoaResultSound DEF LogCoa, CoaResult
<1>8. CASE UNCHANGED vars
  BY <1>1, <1>8 DEF vars, Sound, TypeOK, LoadedIsThere, PendingIsInFlight, There
<1> QED
  BY <1>2, <1>3, <1>4, <1>5, <1>6, <1>7, <1>8 DEF Next, Proceed

\* The invariant holds, for any number of sessions, handlers and reports.
THEOREM Soundness == Spec => []Sound
<1> QED
  BY InitSound, NextSound, PTL DEF Spec

\* The tables and the handlers are well formed; the accounting rows hold no usage
\* their column cannot.
THEOREM TypeCorrect == Spec => []TypeOK
<1>1. Sound => TypeOK
  BY DEF Sound
<1> QED
  BY <1>1, Soundness, PTL

\* send_coa_request commits "pending" before it sends and the result after: a log
\* that says pending is one a handler is at work on, or has died over.
THEOREM PendingLogsAreInFlight == Spec => []PendingIsInFlight
<1>1. Sound => PendingIsInFlight
  BY DEF Sound
<1> QED
  BY <1>1, Soundness, PTL

\* stop_accounting_session closes a session for good, whatever start and usage
\* reports are under way.
THEOREM StoppedStaysClosed == Spec => ClosedForGood
<1>1. Sound /\ [Next]_vars => [KeepsClosed]_vars
  BY NextSound
<1>2. KeepsClosed <=> \A s \in Sessions : There(s) /\ ~Open(s) => There(s)' /\ ~Open(s)'
  BY DEF KeepsClosed
<1> QED
  BY <1>1, <1>2, Soundness, PTL DEF Spec, ClosedForGood

==============================================================================
