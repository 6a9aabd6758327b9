------------------------- MODULE CircuitBreakerProofs -------------------------
(***************************************************************************)
(* Proofs about CircuitBreaker.  For any number of workers and restarts:   *)
(* type correctness, and that a copy that says "open" says since when.     *)
(* For one worker, whose breaker methods exclude each other: that an open  *)
(* circuit lets no request through before its time, and, until the worker  *)
(* is restarted, that a closed circuit has fewer failures on record than   *)
(* the threshold.                                                          *)
(***************************************************************************)
EXTENDS CircuitBreaker, TLAPS

\* The deployment the two last results are about; with several workers they fail.
OneWorker == \A v, w \in Workers : v = w

\* A request in the gateway has a worker.
Placed == \A r \in Requests : pc[r] # "none" => at[r] \in Workers

\* A request that has gone past Stamp.
Stamped == {"setReopened", "count", "setOpen"}

\* record_failure stores the time before it stores "open".
StampedFirst ==
    \A r \in Requests : pc[r] \in Stamped =>
       /\ mem[at[r]].last # Never
       /\ outages = 0 => redis.last # Never

\* Redis has not missed a write: every worker has reached it so far.
Intact == outages = 0 => redisUp /\ client = Workers

\* What holds of any number of workers and restarts.
Sound == TypeOK /\ Placed /\ StampedFirst /\ OpenHasStamp /\ Intact

\* The breaker methods of a worker exclude each other.
Exclusive ==
    \A r, q \in Requests :
       at[r] = at[q] /\ pc[r] \in BreakerSteps /\ pc[q] \in BreakerSteps => r = q

\* A worker has stored in Redis what it has in its own copy.
Mirrored ==
    \A w \in Workers : /\ mem[w].state # "unset" => redis.state # "unset"
                       /\ mem[w].last # Never => redis.last # Never

Closed == redis.state \in {"unset", "closed"}

\* What a breaker method knows of the circuit, while no other one runs.
KnowsCircuit(r) ==
    /\ pc[r] \in {"checkTime", "setHalfOpen"} => redis.state = "open"
    /\ pc[r] = "setHalfOpen" => Elapsed(redis.last)
    /\ pc[r] \in {"stamp", "count"} =>
          seen[r] = IF redis.state = "unset" THEN "closed" ELSE redis.state

\* A closed circuit with too many failures on record is about to be opened, or
\* about to forget them.
Counted ==
    restarts = 0 /\ Closed /\ redis.count >= Threshold
    => \E r \in Requests : pc[r] \in {"resetCount", "setOpen"}

\* What a single worker and Redis agree on while Redis is intact.
Agrees == Mirrored /\ Counted /\ \A r \in Requests : KnowsCircuit(r)

\* The inductive invariant of a single worker.
Single == Sound /\ Exclusive /\ (outages = 0 => Agrees)

------------------------------------------------------------------------------
\* What the breaker reads is a state and a count.
LEMMA ReadsTyped ==
    ASSUME TypeOK, NEW w \in Workers
    PROVE  /\ StateAt(w) \in CircuitState
           /\ NextCount(w) \in 0 .. Threshold
           /\ LastAt(w) \in Ages \cup {Never}
<1>1. redis \in Copies /\ mem[w] \in Copies
  BY DEF TypeOK
<1>2. StateAt(w) \in CircuitState
  BY <1>1 DEF StateAt, Copies, CircuitState
<1>3. LastAt(w) \in Ages \cup {Never}
  BY <1>1 DEF LastAt, Copies
<1>4. NextCount(w) \in 0 .. Threshold
  BY <1>1, BreakerAssumption DEF NextCount, Copies
<1> QED
  BY <1>2, <1>3, <1>4

\* A write of the state, of the count and of the time: to Redis if it answers,
\* and to the worker's copy.
LEMMA StoreStateWrites ==
    ASSUME TypeOK, NEW w \in Workers, NEW state \in CircuitState, StoreState(w, state)
    PROVE  /\ redis' \in Copies /\ mem' \in [Workers -> Copies]
           /\ redis' = IF Reaches(w) THEN [state |-> state, count |-> redis.count, last |-> redis.last]
                       ELSE redis
           /\ mem'[w] = [state |-> state, count |-> mem[w].count, last |-> mem[w].last]
           /\ \A v \in Workers \ {w} : mem'[v] = mem[v]
<1>1. Reaches(w) => redis' = [state |-> state, count |-> redis.count, last |-> redis.last]
  BY DEF TypeOK, StoreState, Store, Copies
<1>2. ~Reaches(w) => redis' = redis
  BY DEF StoreState, Store
<1>3. redis' \in Copies
  BY <1>1, <1>2, BreakerAssumption DEF TypeOK, Copies, Ages
<1>4. mem'[w] = [state |-> state, count |-> mem[w].count, last |-> mem[w].last]
  BY DEF TypeOK, StoreState, Store, Copies
<1>5. mem' \in [Workers -> Copies] /\ \A v \in Workers \ {w} : mem'[v] = mem[v]
  BY <1>4, BreakerAssumption DEF TypeOK, StoreState, Store, Copies, Ages
<1> QED
  BY <1>1, <1>2, <1>3, <1>4, <1>5

\* The count.
LEMMA StoreCountWrites ==
    ASSUME TypeOK, NEW w \in Workers, NEW n \in 0 .. Threshold, Store(w, "count", n)
    PROVE  /\ redis' \in Copies /\ mem' \in [Workers -> Copies]
           /\ redis' = IF Reaches(w) THEN [state |-> redis.state, count |-> n, last |-> redis.last]
                       ELSE redis
           /\ mem'[w] = [state |-> mem[w].state, count |-> n, last |-> mem[w].last]
           /\ \A v \in Workers \ {w} : mem'[v] = mem[v]
<1>1. Reaches(w) => redis' = [state |-> redis.state, count |-> n, last |-> redis.last]
  BY DEF TypeOK, Store, Copies
<1>2. ~Reaches(w) => redis' = redis
  BY DEF Store
<1>3. redis' \in Copies
  BY <1>1, <1>2, BreakerAssumption DEF TypeOK, Copies, Ages
<1>4. mem'[w] = [state |-> mem[w].state, count |-> n, last |-> mem[w].last]
  BY DEF TypeOK, Store, Copies
<1>5. mem' \in [Workers -> Copies] /\ \A v \in Workers \ {w} : mem'[v] = mem[v]
  BY <1>4, BreakerAssumption DEF TypeOK, Store, Copies, Ages
<1> QED
  BY <1>1, <1>2, <1>3, <1>4, <1>5

\* The time.
LEMMA StoreLastWrites ==
    ASSUME TypeOK, NEW w \in Workers, StoreLast(w)
    PROVE  /\ redis' \in Copies /\ mem' \in [Workers -> Copies]
           /\ redis' = IF Reaches(w) THEN [state |-> redis.state, count |-> redis.count, last |-> 0]
                       ELSE redis
           /\ mem'[w] = [state |-> mem[w].state, count |-> mem[w].count, last |-> 0]
           /\ \A v \in Workers \ {w} : mem'[v] = mem[v]
<1>1. Reaches(w) => redis' = [state |-> redis.state, count |-> redis.count, last |-> 0]
  BY DEF TypeOK, StoreLast, Store, Copies
<1>2. ~Reaches(w) => redis' = redis
  BY DEF StoreLast, Store
<1>3. redis' \in Copies
  BY <1>1, <1>2, BreakerAssumption DEF TypeOK, Copies, Ages
<1>4. mem'[w] = [state |-> mem[w].state, count |-> mem[w].count, last |-> 0]
  BY DEF TypeOK, StoreLast, Store, Copies
<1>5. mem' \in [Workers -> Copies] /\ \A v \in Workers \ {w} : mem'[v] = mem[v]
  BY <1>4, BreakerAssumption DEF TypeOK, StoreLast, Store, Copies, Ages
<1> QED
  BY <1>1, <1>2, <1>3, <1>4, <1>5


LEMMA AfterGoto ==
    ASSUME TypeOK, NEW r \in Requests, NEW step \in Steps, Goto(r, step)
    PROVE  /\ pc' \in [Requests -> Steps] /\ at' \in [Requests -> Workers \cup {NoWorker}]
           /\ seen' \in [Requests -> CircuitState]
           /\ pc'[r] = step
           /\ step # "none" => at' = at /\ seen' = seen
           /\ step = "none" => at'[r] = NoWorker
           /\ \A q \in Requests \ {r} : pc'[q] = pc[q] /\ at'[q] = at[q] /\ seen'[q] = seen[q]
BY DEF TypeOK, Goto, CircuitState

\* A step of a request: the others stay where they are, no time of a failure is
\* lost, and who has gone past Stamp finds it.
LEMMA OthersSound ==
    ASSUME Sound, TypeOK', NEW r \in Requests, UNCHANGED Env,
           \A q \in Requests \ {r} : pc'[q] = pc[q] /\ at'[q] = at[q],
           pc'[r] # "none" => at'[r] \in Workers,
           redis.last # Never => redis'.last # Never,
           \A w \in Workers : mem[w].last # Never => mem'[w].last # Never,
           pc'[r] \in Stamped => /\ mem'[at'[r]].last # Never
                                 /\ outages = 0 => redis'.last # Never
    PROVE  Placed' /\ StampedFirst' /\ Intact'
<1>1. Placed' /\ Intact'
  BY DEF Sound, Placed, Intact, Env
<1>2. ASSUME NEW q \in Requests, pc'[q] \in Stamped
      PROVE  /\ mem'[at'[q]].last # Never
             /\ outages' = 0 => redis'.last # Never
  BY <1>2 DEF Sound, StampedFirst, Placed, Stamped, Env
<1> QED
  BY <1>1, <1>2 DEF StampedFirst

\* A step of a request that writes nothing.
LEMMA MoveSound ==
    ASSUME Sound, NEW r \in Requests, NEW step \in Steps \ Stamped, pc[r] # "none",
           Goto(r, step), UNCHANGED <<redis, mem, Env>>
    PROVE  Sound'
<1>1. TypeOK'
  BY AfterGoto DEF Sound, TypeOK, Env
<1>2. Placed' /\ StampedFirst' /\ Intact'
  BY <1>1, AfterGoto, OthersSound DEF Sound, Placed
<1>3. OpenHasStamp'
  BY DEF Sound, OpenHasStamp, Env
<1> QED
  BY <1>1, <1>2, <1>3 DEF Sound

\* A step of a request that writes nothing but where the request is.
LEMMA MovesSound ==
    ASSUME Sound, NEW r \in Requests,
           CheckState(r) \/ CheckTime(r) \/ Serve(r) \/ Leave(r) \/ Respond(r) \/ SuccessReads(r)
    PROVE  Sound'
<1> DEFINE Reached == {"checkTime", "serving", "setHalfOpen", "none", "success", "failure",
                       "setClosed", "responding"}
<1>1. PICK step \in Reached : Goto(r, step)
  BY DEF CheckState, CheckTime, Serve, Leave, Respond, SuccessReads
<1>2. step \in Steps \ Stamped
  BY DEF Steps, Stamped, BreakerSteps, CheckSteps, SuccessSteps, FailureSteps
<1>3. pc[r] # "none" /\ UNCHANGED <<redis, mem, Env>>
  BY DEF CheckState, CheckTime, Serve, Leave, Respond, SuccessReads
<1> QED
  BY <1>1, <1>2, <1>3, MoveSound

\* Half-opening and closing store no "open".
LEMMA SetSound ==
    ASSUME Sound, NEW r \in Requests, SetHalfOpen(r) \/ SetClosed(r)
    PROVE  Sound'
<1>1. PICK state \in CircuitState \ {"open"}, step \in {"serving", "resetCount"} :
         /\ StoreState(at[r], state) /\ Goto(r, step)
         /\ UNCHANGED Env /\ pc[r] # "none"
  BY DEF SetHalfOpen, SetClosed, CircuitState
<1>2. step \in Steps \ Stamped
  BY DEF Steps, Stamped, BreakerSteps, CheckSteps, SuccessSteps, FailureSteps
<1>3. at[r] \in Workers
  BY <1>1 DEF Sound, Placed
<1>4. /\ redis' \in Copies /\ mem' \in [Workers -> Copies]
      /\ redis' = IF Reaches(at[r]) THEN [state |-> state, count |-> redis.count, last |-> redis.last]
                  ELSE redis
      /\ mem'[at[r]] = [state |-> state, count |-> mem[at[r]].count, last |-> mem[at[r]].last]
      /\ \A v \in Workers \ {at[r]} : mem'[v] = mem[v]
  BY <1>1, <1>3, StoreStateWrites DEF Sound
<1>5. TypeOK'
  BY <1>1, <1>2, <1>4, AfterGoto DEF Sound, TypeOK, Env
<1>6. /\ redis'.last = redis.last
      /\ redis'.state # redis.state => redis'.state # "open"
      /\ \A w \in Workers : /\ mem'[w].last = mem[w].last
                            /\ mem'[w].state # mem[w].state => mem'[w].state # "open"
  BY <1>4
<1>7. Placed' /\ StampedFirst' /\ Intact'
  BY <1>1, <1>2, <1>3, <1>5, <1>6, AfterGoto, OthersSound DEF Sound
<1>8. OpenHasStamp'
  BY <1>1, <1>6 DEF Sound, OpenHasStamp, Env
<1> QED
  BY <1>5, <1>7, <1>8 DEF Sound

\* Opening finds the time stored before.
LEMMA OpenSound ==
    ASSUME Sound, NEW r \in Requests, SetReopened(r) \/ SetOpen(r)
    PROVE  Sound'
<1>1. /\ StoreState(at[r], "open") /\ Goto(r, "none")
      /\ UNCHANGED Env /\ pc[r] \in Stamped
  BY DEF SetReopened, SetOpen, Stamped
<1>2. "none" \in Steps \ Stamped /\ pc[r] # "none"
  BY <1>1 DEF Steps, Stamped
<1>3. at[r] \in Workers
  BY <1>2 DEF Sound, Placed
<1>4. /\ redis' \in Copies /\ mem' \in [Workers -> Copies]
      /\ redis' = IF Reaches(at[r]) THEN [state |-> "open", count |-> redis.count, last |-> redis.last]
                  ELSE redis
      /\ mem'[at[r]] = [state |-> "open", count |-> mem[at[r]].count, last |-> mem[at[r]].last]
      /\ \A v \in Workers \ {at[r]} : mem'[v] = mem[v]
  BY <1>1, <1>3, StoreStateWrites DEF Sound, CircuitState
<1>5. TypeOK'
  BY <1>1, <1>2, <1>4, AfterGoto DEF Sound, TypeOK, Env
<1>6. /\ redis'.last = redis.last
      /\ \A w \in Workers : mem'[w].last = mem[w].last
      /\ \A w \in Workers \ {at[r]} : mem'[w].state = mem[w].state
  BY <1>4
<1>7. Placed' /\ StampedFirst' /\ Intact'
  BY <1>1, <1>2, <1>3, <1>5, <1>6, AfterGoto, OthersSound DEF Sound
<1>8. mem[at[r]].last # Never /\ (outages = 0 => redis.last # Never)
  BY <1>1 DEF Sound, StampedFirst
<1>9. OpenHasStamp'
  BY <1>1, <1>6, <1>8 DEF Sound, OpenHasStamp, Env
<1> QED
  BY <1>5, <1>7, <1>9 DEF Sound

\* The count of failures stays within its bound.
LEMMA CountSound ==
    ASSUME Sound, NEW r \in Requests, ResetCount(r) \/ CountFailure(r)
    PROVE  Sound'
<1>1. at[r] \in Workers
  BY DEF ResetCount, CountFailure, Sound, Placed
<1>2. PICK n \in 0 .. Threshold, step \in {"responding", "setOpen", "none"} :
         /\ Store(at[r], "count", n) /\ Goto(r, step)
         /\ UNCHANGED Env
         /\ step = "setOpen" => pc[r] = "count"
  <2>1. CASE ResetCount(r)
    BY <2>1, BreakerAssumption DEF ResetCount
  <2>2. CASE CountFailure(r)
    BY <1>1, <2>2, ReadsTyped DEF CountFailure, Sound
  <2> QED
    BY <2>1, <2>2
<1>3. step \in Steps
  BY DEF Steps, BreakerSteps, FailureSteps
<1>4. /\ redis' \in Copies /\ mem' \in [Workers -> Copies]
      /\ redis' = IF Reaches(at[r]) THEN [state |-> redis.state, count |-> n, last |-> redis.last]
                  ELSE redis
      /\ mem'[at[r]] = [state |-> mem[at[r]].state, count |-> n, last |-> mem[at[r]].last]
      /\ \A v \in Workers \ {at[r]} : mem'[v] = mem[v]
  BY <1>1, <1>2, StoreCountWrites DEF Sound
<1>5. TypeOK'
  BY <1>2, <1>3, <1>4, AfterGoto DEF Sound, TypeOK, Env
<1>6. /\ redis'.last = redis.last /\ redis'.state = redis.state
      /\ \A w \in Workers : mem'[w].last = mem[w].last /\ mem'[w].state = mem[w].state
  BY <1>4
<1>7. pc'[r] \in Stamped => mem'[at'[r]].last # Never /\ (outages = 0 => redis'.last # Never)
  <2> SUFFICES ASSUME pc'[r] \in Stamped
               PROVE  mem'[at'[r]].last # Never /\ (outages = 0 => redis'.last # Never)
    OBVIOUS
  <2>1. pc[r] = "count" /\ at'[r] = at[r]
    BY <1>2, <1>3, AfterGoto DEF Sound, Stamped
  <2> QED
    BY <1>1, <1>6, <2>1 DEF Sound, StampedFirst, Stamped
<1>8. Placed' /\ StampedFirst' /\ Intact'
  BY <1>1, <1>2, <1>3, <1>5, <1>6, <1>7, AfterGoto, OthersSound DEF Sound
<1>9. OpenHasStamp'
  BY <1>2, <1>6 DEF Sound, OpenHasStamp, Env
<1> QED
  BY <1>5, <1>8, <1>9 DEF Sound

\* Storing the time of a failure loses no earlier one.
LEMMA StampSound ==
    ASSUME Sound, NEW r \in Requests, Stamp(r)
    PROVE  Sound'
<1>1. at[r] \in Workers
  BY DEF Stamp, Sound, Placed
<1>2. PICK step \in {"setReopened", "count"} :
         StoreLast(at[r]) /\ Goto(r, step) /\ UNCHANGED Env
  BY DEF Stamp
<1>3. step \in Steps \ {"none"}
  BY DEF Steps, BreakerSteps, FailureSteps
<1>4. /\ redis' \in Copies /\ mem' \in [Workers -> Copies]
      /\ redis' = IF Reaches(at[r]) THEN [state |-> redis.state, count |-> redis.count, last |-> 0]
                  ELSE redis
      /\ mem'[at[r]] = [state |-> mem[at[r]].state, count |-> mem[at[r]].count, last |-> 0]
      /\ \A v \in Workers \ {at[r]} : mem'[v] = mem[v]
  BY <1>1, <1>2, StoreLastWrites DEF Sound
<1>5. TypeOK'
  BY <1>2, <1>3, <1>4, AfterGoto DEF Sound, TypeOK, Env
<1>6. /\ redis.last # Never => redis'.last # Never
      /\ redis'.state = redis.state
      /\ outages = 0 => redis'.last # Never
      /\ \A w \in Workers : mem[w].last # Never => mem'[w].last # Never
      /\ \A w \in Workers : mem'[w].state = mem[w].state
      /\ mem'[at[r]].last # Never
  BY <1>1, <1>4 DEF Sound, Intact, Reaches, Never
<1>7. Placed' /\ StampedFirst' /\ Intact'
  BY <1>1, <1>2, <1>3, <1>5, <1>6, AfterGoto, OthersSound DEF Sound
<1>8. OpenHasStamp'
  BY <1>2, <1>6 DEF Sound, OpenHasStamp, Env
<1> QED
  BY <1>5, <1>7, <1>8 DEF Sound

\* record_failure reads the state before it writes anything.
LEMMA FailureReadsSound ==
    ASSUME Sound, NEW r \in Requests, FailureReads(r)
    PROVE  Sound'
<1>1. at[r] \in Workers
  BY DEF FailureReads, Sound, Placed
<1>2. pc' \in [Requests -> Steps] /\ seen' \in [Requests -> CircuitState]
  BY <1>1, ReadsTyped DEF FailureReads, Sound, TypeOK, Steps, BreakerSteps, FailureSteps
<1>3. TypeOK'
  BY <1>2 DEF FailureReads, Sound, TypeOK, Env
<1>4. Placed' /\ StampedFirst' /\ Intact'
  BY <1>1, <1>3, OthersSound DEF FailureReads, Sound, TypeOK, Stamped
<1>5. OpenHasStamp'
  BY DEF FailureReads, Sound, OpenHasStamp, Env
<1> QED
  BY <1>3, <1>4, <1>5 DEF Sound

\* A request arrives at a worker.
LEMMA ArriveSound ==
    ASSUME Sound, NEW r \in Requests, NEW w \in Workers, Arrive(r, w)
    PROVE  Sound'
<1>1. pc' \in [Requests -> Steps] /\ at' \in [Requests -> Workers \cup {NoWorker}]
  BY DEF Arrive, Sound, TypeOK, Steps, BreakerSteps, CheckSteps
<1>2. TypeOK'
  BY <1>1 DEF Arrive, Sound, TypeOK, Env
<1>3. Placed' /\ StampedFirst' /\ Intact'
  BY <1>2, OthersSound DEF Arrive, Sound, TypeOK, Stamped
<1>4. OpenHasStamp'
  BY DEF Arrive, Sound, OpenHasStamp, Env
<1> QED
  BY <1>2, <1>3, <1>4 DEF Sound

\* A time grows older, never unset, and stays elapsed.
LEMMA OlderIsAge ==
    ASSUME NEW age \in Ages \cup {Never}
    PROVE  /\ Older(age) \in Ages \cup {Never}
           /\ Older(age) = Never <=> age = Never
           /\ Elapsed(age) => Elapsed(Older(age))
BY BreakerAssumption DEF Older, Ages, Never, Elapsed

\* Time passes.
LEMMA TickSound ==
    ASSUME Sound, Tick
    PROVE  Sound'
<1>1. /\ redis' = [state |-> redis.state, count |-> redis.count, last |-> Older(redis.last)]
      /\ Older(redis.last) \in Ages \cup {Never}
      /\ Older(redis.last) = Never <=> redis.last = Never
  BY OlderIsAge DEF Tick, Sound, TypeOK, Copies
<1>2. ASSUME NEW w \in Workers
      PROVE  /\ mem'[w] = [state |-> mem[w].state, count |-> mem[w].count,
                           last |-> Older(mem[w].last)]
             /\ Older(mem[w].last) \in Ages \cup {Never}
             /\ Older(mem[w].last) = Never <=> mem[w].last = Never
  BY OlderIsAge DEF Tick, Sound, TypeOK, Copies
<1>3. TypeOK'
  <2>1. redis' \in Copies
    BY <1>1 DEF Sound, TypeOK, Copies
  <2>2. ASSUME NEW w \in Workers
        PROVE  mem'[w] \in Copies
    <3>1. mem[w] \in Copies
      BY DEF Sound, TypeOK
    <3>2. /\ mem[w].state \in CircuitState \cup {"unset"} /\ mem[w].count \in 0 .. Threshold
          /\ Older(mem[w].last) \in Ages \cup {Never}
      BY <1>2, <3>1 DEF Copies
    <3>3. [state |-> mem[w].state, count |-> mem[w].count, last |-> Older(mem[w].last)] \in Copies
      BY <3>2 DEF Copies
    <3> QED
      BY <1>2, <3>3
  <2>3. mem' \in [Workers -> Copies]
    BY <2>2 DEF Tick
  <2> QED
    BY <2>1, <2>3 DEF Tick, Sound, TypeOK, Env
<1>4. Placed' /\ Intact'
  <2>1. Placed'
    BY DEF Tick, Sound, Placed
  <2>2. Intact'
    BY DEF Tick, Sound, Intact, Env
  <2> QED
    BY <2>1, <2>2
<1>7. /\ redis'.state = redis.state /\ (redis.last # Never => redis'.last # Never)
      /\ \A w \in Workers : /\ mem'[w].state = mem[w].state
                            /\ mem[w].last # Never => mem'[w].last # Never
  <2>1. redis'.state = redis.state /\ redis'.last = Older(redis.last)
    BY <1>1
  <2>2. ASSUME NEW w \in Workers
        PROVE  mem'[w].state = mem[w].state /\ mem'[w].last = Older(mem[w].last)
    BY DEF Tick, Sound, TypeOK, Copies
  <2> QED
    BY <1>1, <1>2, <2>1, <2>2
<1>5. StampedFirst'
  <2> SUFFICES ASSUME NEW r \in Requests, pc'[r] \in Stamped
               PROVE  /\ mem'[at'[r]].last # Never
                      /\ outages' = 0 => redis'.last # Never
    BY DEF StampedFirst
  <2>1. pc[r] \in Stamped /\ at'[r] = at[r] /\ outages' = outages
    BY DEF Tick, Env
  <2>2. at[r] \in Workers
    BY <2>1 DEF Sound, Placed, Stamped
  <2>3. mem[at[r]].last # Never /\ (outages = 0 => redis.last # Never)
    BY <2>1 DEF Sound, StampedFirst
  <2> QED
    BY <1>7, <2>1, <2>2, <2>3
<1>6. OpenHasStamp'
  BY <1>7 DEF Tick, Sound, OpenHasStamp, Env
<1> QED
  BY <1>3, <1>4, <1>5, <1>6 DEF Sound

\* The service and Redis come and go; only a failure of Redis makes it miss a write.
LEMMA EnvironmentSound ==
    ASSUME Sound, HealthChanges \/ RedisGoesDown \/ RedisComesBack \/ UNCHANGED vars
    PROVE  Sound'
<1>1. /\ UNCHANGED <<redis, mem, pc, at, seen, restarts>>
      /\ outages' \in 0 .. MaxOutages /\ (outages' = 0 => outages = 0)
  BY BreakerAssumption DEF HealthChanges, RedisGoesDown, RedisComesBack, vars, Sound, TypeOK
<1>5. redisUp' \in BOOLEAN /\ client' \in SUBSET Workers /\ healthy' \in BOOLEAN
  BY DEF HealthChanges, RedisGoesDown, RedisComesBack, vars, Sound, TypeOK
<1>4. Intact'
  <2>1. CASE RedisGoesDown
    BY <2>1 DEF RedisGoesDown, Intact, Sound, TypeOK
  <2>2. CASE ~RedisGoesDown
    BY <2>2 DEF HealthChanges, RedisComesBack, vars, Sound, Intact
  <2> QED
    BY <2>1, <2>2
<1>2. TypeOK' /\ Placed'
  BY <1>1, <1>5 DEF Sound, TypeOK, Placed
<1>3. StampedFirst' /\ OpenHasStamp'
  BY <1>1 DEF Sound, StampedFirst, OpenHasStamp
<1> QED
  BY <1>2, <1>3, <1>4 DEF Sound

\* A restarted worker has an empty copy, which says nothing.
LEMMA RestartSound ==
    ASSUME Sound, NEW w \in Workers, Restart(w)
    PROVE  Sound'
<1>1. NoCopy \in Copies
  BY BreakerAssumption DEF NoCopy, Copies
<1>2. TypeOK'
  <2>1. mem' \in [Workers -> Copies] /\ restarts' \in 0 .. MaxRestarts
    BY <1>1, BreakerAssumption DEF Restart, Sound, TypeOK
  <2>3. client' \in SUBSET Workers
    BY DEF Restart, Sound, TypeOK
  <2>2. /\ pc' \in [Requests -> Steps] /\ at' \in [Requests -> Workers \cup {NoWorker}]
        /\ seen' \in [Requests -> CircuitState]
    BY DEF Restart, Sound, TypeOK, Steps, CircuitState
  <2> QED
    BY <2>1, <2>2, <2>3 DEF Restart, Sound, TypeOK
<1>3. \A v \in Workers : mem'[v] = IF v = w THEN NoCopy ELSE mem[v]
  BY DEF Restart, Sound, TypeOK
<1>4. Placed' /\ Intact'
  BY DEF Restart, Sound, Placed, Intact, Reaches
<1>5. ASSUME NEW r \in Requests, pc'[r] \in Stamped
      PROVE  pc[r] \in Stamped /\ at'[r] = at[r] /\ at[r] \in Workers \ {w}
  BY <1>5 DEF Restart, Sound, Placed, Stamped
<1>6. StampedFirst'
  BY <1>3, <1>5 DEF Restart, Sound, StampedFirst
<1>7. OpenHasStamp'
  BY <1>3 DEF Restart, Sound, OpenHasStamp, NoCopy
<1> QED
  BY <1>2, <1>4, <1>6, <1>7 DEF Sound

\* It holds initially.
LEMMA InitSound == Init => Sound
<1> SUFFICES ASSUME Init
             PROVE  Sound
  OBVIOUS
<1>1. NoCopy \in Copies
  BY BreakerAssumption DEF NoCopy, Copies
<1>2. TypeOK
  BY <1>1, BreakerAssumption DEF Init, TypeOK, Steps, CircuitState
<1>3. Placed /\ StampedFirst /\ Intact
  BY DEF Init, Placed, StampedFirst, Stamped, Intact
<1>4. OpenHasStamp
  BY DEF Init, OpenHasStamp, NoCopy
<1> QED
  BY <1>2, <1>3, <1>4 DEF Sound

\* Every step keeps what holds of any number of workers.
LEMMA NextSound == Sound /\ [Next]_vars => Sound'
<1> SUFFICES ASSUME Sound, [Next]_vars
             PROVE  Sound'
  OBVIOUS
<1>1. ASSUME NEW r \in Requests, Progress(r)
      PROVE  Sound'
  BY <1>1, MovesSound, SetSound, OpenSound, CountSound, StampSound, FailureReadsSound
     DEF Progress, CheckCircuit, RecordSuccess, RecordFailure
<1>2. ASSUME NEW r \in Requests, NEW w \in Workers, Arrive(r, w)
      PROVE  Sound'
  BY <1>2, ArriveSound
<1>3. CASE Tick
  BY <1>3, TickSound
<1>4. ASSUME NEW w \in Workers, Restart(w)
      PROVE  Sound'
  BY <1>4, RestartSound
<1>5. CASE HealthChanges \/ RedisGoesDown \/ RedisComesBack \/ UNCHANGED vars
  BY <1>5, EnvironmentSound
<1> QED
  BY <1>1, <1>2, <1>3, <1>4, <1>5 DEF Next

\* The inductive invariant holds for any number of workers, restarts and outages.
THEOREM Soundness == Spec => []Sound
BY InitSound, NextSound, PTL DEF Spec

\* Every variable keeps its type: in particular the count never exceeds the threshold.
THEOREM TypeCorrect == Spec => []TypeOK
<1>1. Sound => TypeOK
  BY DEF Sound
<1> QED
  BY <1>1, Soundness, PTL

\* Whoever stores "open" has stored the time before it, in Redis and in its own
\* copy: no reader finds an open circuit without the time it may be probed.
THEOREM OpenStamped == Spec => []OpenHasStamp
<1>1. Sound => OpenHasStamp
  BY DEF Sound
<1> QED
  BY <1>1, Soundness, PTL

------------------------------------------------------------------------------
\* A step of a request: it holds its worker's event loop, or takes it while no
\* one else does, and no other request moves.
LEMMA ProgressMoves ==
    ASSUME Sound, NEW r \in Requests, Progress(r)
    PROVE  /\ at[r] \in Workers
           /\ pc[r] \in BreakerSteps \/ Idle(at[r])
           /\ pc'[r] = "none" \/ at'[r] = at[r]
           /\ \A q \in Requests \ {r} : pc'[q] = pc[q] /\ at'[q] = at[q] /\ seen'[q] = seen[q]
           /\ UNCHANGED Env
<1>1. at[r] \in Workers
  BY DEF Sound, Placed, Progress, CheckCircuit, RecordSuccess, RecordFailure, CheckState, CheckTime,
     SetHalfOpen, Serve, Leave, Respond, SuccessReads, SetClosed, ResetCount, FailureReads, Stamp,
     SetReopened, CountFailure, SetOpen
<1>2. pc[r] \in BreakerSteps \/ Idle(at[r])
  BY DEF Progress, CheckCircuit, RecordSuccess, RecordFailure, CheckState, CheckTime,
     SetHalfOpen, Serve, Leave, Respond, SuccessReads, SetClosed, ResetCount, FailureReads, Stamp,
     SetReopened, CountFailure, SetOpen, BreakerSteps, CheckSteps, SuccessSteps, FailureSteps
<1>3. (\E step : Goto(r, step)) \/ FailureReads(r)
  BY DEF Progress, CheckCircuit, RecordSuccess, RecordFailure, CheckState, CheckTime,
     SetHalfOpen, Serve, Leave, Respond, SuccessReads, SetClosed, ResetCount, Stamp,
     SetReopened, CountFailure, SetOpen
<1>4. /\ pc'[r] = "none" \/ at'[r] = at[r]
      /\ \A q \in Requests \ {r} : pc'[q] = pc[q] /\ at'[q] = at[q] /\ seen'[q] = seen[q]
  BY <1>3 DEF Sound, TypeOK, Goto, FailureReads
<1>5. UNCHANGED Env
  BY DEF Progress, CheckCircuit, RecordSuccess, RecordFailure, CheckState, CheckTime,
     SetHalfOpen, Serve, Leave, Respond, SuccessReads, SetClosed, ResetCount, FailureReads, Stamp,
     SetReopened, CountFailure, SetOpen
<1> QED
  BY <1>1, <1>2, <1>4, <1>5

\* The methods of a worker keep excluding each other.
LEMMA NextExclusive == Sound /\ Exclusive /\ [Next]_vars => Exclusive'
<1> SUFFICES ASSUME Sound, Exclusive, [Next]_vars
             PROVE  Exclusive'
  OBVIOUS
<1>1. ASSUME NEW r \in Requests, Progress(r)
      PROVE  Exclusive'
  <2>1. "none" \notin BreakerSteps
    BY DEF BreakerSteps, CheckSteps, SuccessSteps, FailureSteps
  <2> QED
    BY <1>1, <2>1, ProgressMoves DEF Exclusive, Idle
<1>2. ASSUME NEW r \in Requests, NEW w \in Workers, Arrive(r, w)
      PROVE  Exclusive'
  <2>1. /\ Idle(w) /\ at'[r] = w
        /\ \A q \in Requests \ {r} : pc'[q] = pc[q] /\ at'[q] = at[q]
    BY <1>2 DEF Sound, TypeOK, Arrive
  <2> QED
    BY <2>1 DEF Exclusive, Idle
<1>3. ASSUME NEW w \in Workers, Restart(w)
      PROVE  Exclusive'
  <2>1. "none" \notin BreakerSteps
    BY DEF BreakerSteps, CheckSteps, SuccessSteps, FailureSteps
  <2>2. \A r \in Requests : pc'[r] = "none" \/ (pc'[r] = pc[r] /\ at'[r] = at[r])
    BY <1>3 DEF Restart
  <2> QED
    BY <2>1, <2>2 DEF Exclusive
<1>4. CASE UNCHANGED <<pc, at>>
  BY <1>4 DEF Exclusive
<1> QED
  BY <1>1, <1>2, <1>3, <1>4 DEF Next, Tick, HealthChanges, RedisGoesDown, RedisComesBack, vars

\* With one worker, whoever takes a step runs no breaker method beside another.
LEMMA StepsAlone ==
    ASSUME OneWorker, Sound, Exclusive, NEW r \in Requests, Progress(r)
    PROVE  \A q \in Requests \ {r} : pc'[q] \notin BreakerSteps
<1>1. ASSUME NEW q \in Requests \ {r}, pc[q] \in BreakerSteps
      PROVE  FALSE
  <2>1. pc[q] # "none"
    BY <1>1 DEF BreakerSteps, CheckSteps, SuccessSteps, FailureSteps
  <2>2. at[q] = at[r]
    BY <2>1, ProgressMoves DEF Sound, Placed, OneWorker
  <2> QED
    BY <1>1, <2>2, ProgressMoves DEF Exclusive, Idle
<1> QED
  BY <1>1, ProgressMoves

\* With Redis intact a read is a read of Redis.
LEMMA ReadsRedis ==
    ASSUME Sound, outages = 0, Mirrored, NEW w \in Workers
    PROVE  /\ StateAt(w) = IF redis.state = "unset" THEN "closed" ELSE redis.state
           /\ LastAt(w) = redis.last
           /\ NextCount(w) = IF redis.count < Threshold THEN redis.count + 1 ELSE redis.count
<1>1. Reaches(w)
  BY DEF Sound, Intact, Reaches
<1> QED
  BY <1>1 DEF Mirrored, StateAt, LastAt, NextCount

\* The steps of a request, one by one: what it knows of the circuit afterwards,
\* and that the failures are counted.  First those that write nothing.
LEMMA MovesAgree ==
    ASSUME Sound, outages = 0, Agrees, NEW r \in Requests,
           CheckState(r) \/ CheckTime(r) \/ Serve(r) \/ Leave(r) \/ Respond(r) \/ SuccessReads(r)
    PROVE  /\ redis' = redis /\ mem' = mem
           /\ KnowsCircuit(r)'
           /\ pc[r] \notin {"resetCount", "setOpen"}
<1>1. /\ redis' = redis /\ mem' = mem
      /\ pc[r] \notin {"resetCount", "setOpen"}
      /\ pc[r] # "none"
  BY DEF CheckState, CheckTime, Serve, Leave, Respond, SuccessReads
<1>2. at[r] \in Workers
  BY <1>1 DEF Sound, Placed
<1>3. CASE CheckState(r)
  <2>1. StateAt(at[r]) = "open" <=> redis.state = "open"
    BY <1>2, ReadsRedis DEF Agrees
  <2>2. pc'[r] = IF redis.state = "open" THEN "checkTime" ELSE "serving"
    BY <1>3, <2>1 DEF Sound, TypeOK, CheckState, Goto
  <2> QED
    BY <1>1, <2>2 DEF KnowsCircuit
<1>4. CASE CheckTime(r)
  <2>1. LastAt(at[r]) = redis.last /\ redis.state = "open"
    BY <1>2, <1>4, ReadsRedis DEF Agrees, KnowsCircuit, CheckTime
  <2>2. pc'[r] = "none" \/ (pc'[r] = "setHalfOpen" /\ Elapsed(redis.last))
    BY <1>4, <2>1 DEF Sound, TypeOK, CheckTime, Goto
  <2> QED
    BY <1>1, <2>1, <2>2 DEF KnowsCircuit
<1>5. CASE Serve(r) \/ Leave(r) \/ Respond(r) \/ SuccessReads(r)
  <2>1. pc'[r] \in {"success", "failure", "none", "setClosed", "responding"}
    BY <1>5 DEF Sound, TypeOK, Serve, Leave, Respond, SuccessReads, Goto
  <2> QED
    BY <1>1, <2>1 DEF KnowsCircuit
<1> QED
  BY <1>1, <1>3, <1>4, <1>5

\* Those that write the state: only closing leaves the circuit closed, and it goes
\* on to reset the count.
LEMMA SetsAgree ==
    ASSUME Sound, outages = 0, Agrees, NEW r \in Requests,
           SetHalfOpen(r) \/ SetClosed(r) \/ SetReopened(r) \/ SetOpen(r)
    PROVE  Mirrored' /\ KnowsCircuit(r)' /\ (Closed' => pc'[r] = "resetCount")
<1>1. PICK state \in CircuitState, step \in {"serving", "resetCount", "none"} :
         /\ StoreState(at[r], state) /\ Goto(r, step)
         /\ state = "closed" => step = "resetCount"
         /\ pc[r] # "none"
  BY DEF SetHalfOpen, SetClosed, SetReopened, SetOpen, CircuitState
<1>2. at[r] \in Workers /\ Reaches(at[r])
  BY <1>1 DEF Sound, Placed, Intact, Reaches
<1>3. /\ redis' = [state |-> state, count |-> redis.count, last |-> redis.last]
      /\ mem'[at[r]] = [state |-> state, count |-> mem[at[r]].count, last |-> mem[at[r]].last]
      /\ \A v \in Workers \ {at[r]} : mem'[v] = mem[v]
  BY <1>1, <1>2, StoreStateWrites DEF Sound
<1>4. /\ redis'.state = state /\ redis'.last = redis.last
      /\ \A w \in Workers : mem'[w].last = mem[w].last
  BY <1>3
<1>5. pc'[r] = step
  BY <1>1 DEF Sound, TypeOK, Goto
<1>6. Mirrored'
  BY <1>4 DEF Agrees, Mirrored, CircuitState
<1>7. KnowsCircuit(r)'
  BY <1>5 DEF KnowsCircuit
<1>8. Closed' => pc'[r] = "resetCount"
  BY <1>1, <1>4, <1>5 DEF Closed, CircuitState
<1> QED
  BY <1>6, <1>7, <1>8

\* Those that write the count: at the threshold a closed circuit goes on to open.
LEMMA CountsAgree ==
    ASSUME Sound, outages = 0, Agrees, NEW r \in Requests, ResetCount(r) \/ CountFailure(r)
    PROVE  /\ Mirrored' /\ KnowsCircuit(r)'
           /\ Closed' => redis'.count < Threshold \/ pc'[r] = "setOpen"
<1>1. at[r] \in Workers /\ Reaches(at[r])
  BY DEF ResetCount, CountFailure, Sound, Placed, Intact, Reaches
<1>2. PICK n \in 0 .. Threshold, step \in {"responding", "setOpen", "none"} :
         /\ Store(at[r], "count", n) /\ Goto(r, step)
         /\ Closed => n < Threshold \/ step = "setOpen"
  <2>1. CASE ResetCount(r)
    BY <2>1, BreakerAssumption DEF ResetCount
  <2>2. CASE CountFailure(r)
    <3>1. NextCount(at[r]) \in 0 .. Threshold
      BY <1>1, ReadsTyped DEF Sound
    <3>2. Closed => seen[r] = "closed"
      BY <2>2 DEF CountFailure, Agrees, KnowsCircuit, Closed
    <3>3. ~(NextCount(at[r]) >= Threshold) => NextCount(at[r]) < Threshold
      BY <3>1, BreakerAssumption
    <3> QED
      BY <2>2, <3>1, <3>2, <3>3 DEF CountFailure
  <2> QED
    BY <2>1, <2>2
<1>3. /\ redis' = [state |-> redis.state, count |-> n, last |-> redis.last]
      /\ mem'[at[r]] = [state |-> mem[at[r]].state, count |-> n, last |-> mem[at[r]].last]
      /\ \A v \in Workers \ {at[r]} : mem'[v] = mem[v]
  BY <1>1, <1>2, StoreCountWrites DEF Sound
<1>4. /\ redis'.state = redis.state /\ redis'.last = redis.last /\ redis'.count = n
      /\ \A w \in Workers : mem'[w].last = mem[w].last /\ mem'[w].state = mem[w].state
  BY <1>3
<1>5. pc'[r] = step
  BY <1>2 DEF Sound, TypeOK, Goto
<1>6. Mirrored'
  BY <1>4 DEF Agrees, Mirrored
<1>7. KnowsCircuit(r)'
  BY <1>5 DEF KnowsCircuit
<1>8. Closed' => redis'.count < Threshold \/ pc'[r] = "setOpen"
  BY <1>2, <1>4, <1>5 DEF Closed
<1> QED
  BY <1>6, <1>7, <1>8

\* The one that writes the time.
LEMMA StampAgrees ==
    ASSUME Sound, outages = 0, Agrees, NEW r \in Requests, Stamp(r)
    PROVE  /\ Mirrored' /\ KnowsCircuit(r)'
           /\ redis'.state = redis.state /\ redis'.count = redis.count
<1>1. at[r] \in Workers /\ Reaches(at[r])
  BY DEF Stamp, Sound, Placed, Intact, Reaches
<1>2. PICK step \in {"setReopened", "count"} : StoreLast(at[r]) /\ Goto(r, step)
  BY DEF Stamp
<1>3. /\ redis' = [state |-> redis.state, count |-> redis.count, last |-> 0]
      /\ mem'[at[r]] = [state |-> mem[at[r]].state, count |-> mem[at[r]].count, last |-> 0]
      /\ \A v \in Workers \ {at[r]} : mem'[v] = mem[v]
  BY <1>1, <1>2, StoreLastWrites DEF Sound
<1>4. /\ redis'.state = redis.state /\ redis'.last = 0 /\ redis'.count = redis.count
      /\ \A w \in Workers : mem'[w].state = mem[w].state
  BY <1>3
<1>5. pc'[r] = step /\ seen'[r] = seen[r]
  BY <1>2 DEF Sound, TypeOK, Goto
<1>6. Mirrored'
  BY <1>4 DEF Agrees, Mirrored, Never
<1>7. KnowsCircuit(r)'
  BY <1>4, <1>5 DEF Stamp, Agrees, KnowsCircuit
<1> QED
  BY <1>4, <1>6, <1>7

\* The one that reads the state for record_failure.
LEMMA FailureReadsAgrees ==
    ASSUME Sound, outages = 0, Agrees, NEW r \in Requests, FailureReads(r)
    PROVE  redis' = redis /\ mem' = mem /\ KnowsCircuit(r)'
<1>1. at[r] \in Workers
  BY DEF FailureReads, Sound, Placed
<1>2. /\ pc'[r] = "stamp"
      /\ seen'[r] = IF redis.state = "unset" THEN "closed" ELSE redis.state
  BY <1>1, ReadsRedis DEF FailureReads, Agrees, Sound, TypeOK
<1> QED
  BY <1>2 DEF FailureReads, KnowsCircuit

\* So every step of a request keeps what the single worker and Redis agree on.
LEMMA ProgressAgrees ==
    ASSUME OneWorker, Sound, Exclusive, outages = 0, Agrees, NEW r \in Requests, Progress(r)
    PROVE  Agrees'
<1>1. \A q \in Requests \ {r} : pc'[q] = pc[q] /\ pc'[q] \notin BreakerSteps
  BY ProgressMoves, StepsAlone
<1>2. ASSUME NEW q \in Requests \ {r}
      PROVE  KnowsCircuit(q)'
  BY <1>1 DEF KnowsCircuit, BreakerSteps, CheckSteps, FailureSteps
<1>3. restarts' = restarts
  BY ProgressMoves DEF Env
<1>4. CASE CheckState(r) \/ CheckTime(r) \/ Serve(r) \/ Leave(r) \/ Respond(r) \/ SuccessReads(r)
  <2>1. /\ redis' = redis /\ mem' = mem /\ KnowsCircuit(r)'
        /\ pc[r] \notin {"resetCount", "setOpen"}
    BY <1>4, MovesAgree
  <2>2. Mirrored'
    BY <2>1 DEF Agrees, Mirrored
  <2>3. Counted'
    BY <1>1, <1>3, <2>1 DEF Agrees, Counted, Closed
  <2> QED
    BY <1>2, <2>1, <2>2, <2>3 DEF Agrees
<1>5. CASE SetHalfOpen(r) \/ SetClosed(r) \/ SetReopened(r) \/ SetOpen(r)
  <2>1. Mirrored' /\ KnowsCircuit(r)' /\ (Closed' => pc'[r] = "resetCount")
    BY <1>5, SetsAgree
  <2>2. Counted'
    BY <2>1 DEF Counted
  <2> QED
    BY <1>2, <2>1, <2>2 DEF Agrees
<1>6. CASE ResetCount(r) \/ CountFailure(r)
  <2>1. /\ Mirrored' /\ KnowsCircuit(r)'
        /\ Closed' => redis'.count < Threshold \/ pc'[r] = "setOpen"
    BY <1>6, CountsAgree
  <2>2. redis'.count \in 0 .. Threshold
    BY <1>6, CountSound DEF Sound, TypeOK, Copies
  <2>3. Counted'
    BY <2>1, <2>2, BreakerAssumption DEF Counted
  <2> QED
    BY <1>2, <2>1, <2>3 DEF Agrees
<1>7. CASE Stamp(r)
  <2>1. /\ Mirrored' /\ KnowsCircuit(r)'
        /\ redis'.state = redis.state /\ redis'.count = redis.count
    BY <1>7, StampAgrees
  <2>2. pc[r] = "stamp"
    BY <1>7 DEF Stamp
  <2>3. Counted'
    BY <1>1, <1>3, <2>1, <2>2 DEF Agrees, Counted, Closed
  <2> QED
    BY <1>2, <2>1, <2>3 DEF Agrees
<1>8. CASE FailureReads(r)
  <2>1. redis' = redis /\ mem' = mem /\ KnowsCircuit(r)'
    BY <1>8, FailureReadsAgrees
  <2>2. pc[r] = "failure"
    BY <1>8 DEF FailureReads
  <2>3. Mirrored' /\ Counted'
    BY <1>1, <1>3, <2>1, <2>2 DEF Agrees, Mirrored, Counted, Closed
  <2> QED
    BY <1>2, <2>1, <2>3 DEF Agrees
<1> QED
  BY <1>4, <1>5, <1>6, <1>7, <1>8 DEF Progress, CheckCircuit, RecordSuccess, RecordFailure

\* A request that arrives knows nothing yet.
LEMMA ArriveAgrees ==
    ASSUME Sound, Agrees, NEW r \in Requests, NEW w \in Workers, Arrive(r, w)
    PROVE  Agrees'
<1>1. /\ redis' = redis /\ mem' = mem /\ seen' = seen /\ restarts' = restarts
      /\ pc[r] = "none" /\ pc'[r] = "check"
      /\ \A q \in Requests \ {r} : pc'[q] = pc[q]
  BY DEF Arrive, Env, Sound, TypeOK
<1>2. Mirrored' /\ Counted'
  BY <1>1 DEF Agrees, Mirrored, Counted, Closed
<1>3. ASSUME NEW q \in Requests
      PROVE  KnowsCircuit(q)'
  BY <1>1 DEF Agrees, KnowsCircuit
<1> QED
  BY <1>2, <1>3 DEF Agrees

\* Time passes for both copies alike, and what has elapsed stays elapsed.
LEMMA TickAgrees ==
    ASSUME Sound, Agrees, Tick
    PROVE  Agrees'
<1>1. /\ redis'.state = redis.state /\ redis'.count = redis.count
      /\ redis'.last = Older(redis.last) /\ redis.last \in Ages \cup {Never}
  BY DEF Tick, Sound, TypeOK, Copies
<1>2. ASSUME NEW w \in Workers
      PROVE  /\ mem'[w].state = mem[w].state
             /\ mem'[w].last = Older(mem[w].last) /\ mem[w].last \in Ages \cup {Never}
  BY DEF Tick, Sound, TypeOK, Copies
<1>3. Mirrored'
  BY <1>1, <1>2, OlderIsAge DEF Agrees, Mirrored
<1>4. Counted'
  BY <1>1 DEF Tick, Env, Agrees, Counted, Closed
<1>5. ASSUME NEW r \in Requests
      PROVE  KnowsCircuit(r)'
  BY <1>1, OlderIsAge DEF Tick, Agrees, KnowsCircuit
<1> QED
  BY <1>3, <1>4, <1>5 DEF Agrees

\* A restart takes the worker's copy and its methods along, and ends what is
\* claimed of the count.
LEMMA RestartAgrees ==
    ASSUME Sound, Agrees, NEW w \in Workers, Restart(w)
    PROVE  Agrees'
<1>1. Mirrored'
  <2>1. redis' = redis /\ \A v \in Workers : mem'[v] = IF v = w THEN NoCopy ELSE mem[v]
    BY DEF Restart, Sound, TypeOK
  <2> QED
    BY <2>1 DEF Agrees, Mirrored, NoCopy
<1>2. restarts' # 0
  BY DEF Restart, Sound, TypeOK
<1>3. ASSUME NEW r \in Requests
      PROVE  KnowsCircuit(r)'
  <2>1. redis' = redis /\ (pc'[r] = "none" \/ (pc'[r] = pc[r] /\ seen'[r] = seen[r]))
    BY DEF Restart
  <2> QED
    BY <2>1 DEF Agrees, KnowsCircuit
<1> QED
  BY <1>1, <1>2, <1>3 DEF Agrees, Counted

\* A step that changes neither a copy nor a request.
LEMMA QuietAgrees ==
    ASSUME Agrees, UNCHANGED <<redis, mem, pc, seen, restarts>>
    PROVE  Agrees'
BY DEF Agrees, Mirrored, Counted, Closed, KnowsCircuit

\* With one worker, every step keeps the inductive invariant.
LEMMA NextSingle ==
    ASSUME OneWorker
    PROVE  Single /\ [Next]_vars => Single'
<1> SUFFICES ASSUME Single, [Next]_vars, outages' = 0
             PROVE  Agrees'
  BY NextSound, NextExclusive DEF Single
<1>1. ASSUME NEW r \in Requests, Progress(r)
      PROVE  Agrees'
  BY <1>1, ProgressMoves, ProgressAgrees DEF Single, Env
<1>2. ASSUME NEW r \in Requests, NEW w \in Workers, Arrive(r, w)
      PROVE  Agrees'
  BY <1>2, ArriveAgrees DEF Single, Arrive, Env
<1>3. CASE Tick
  BY <1>3, TickAgrees DEF Single, Tick, Env
<1>4. ASSUME NEW w \in Workers, Restart(w)
      PROVE  Agrees'
  BY <1>4, RestartAgrees DEF Single, Restart
<1>5. CASE HealthChanges \/ RedisComesBack \/ UNCHANGED vars
  BY <1>5, QuietAgrees DEF Single, HealthChanges, RedisComesBack, vars
<1>6. ~RedisGoesDown
  BY DEF RedisGoesDown, Single, Sound, TypeOK
<1> QED
  BY <1>1, <1>2, <1>3, <1>4, <1>5, <1>6 DEF Next

\* It holds initially.
LEMMA InitSingle == Init => Single
<1> SUFFICES ASSUME Init
             PROVE  Single
  OBVIOUS
<1>1. \A r \in Requests : pc[r] = "none"
  BY DEF Init
<1>2. Exclusive
  BY <1>1 DEF Exclusive, BreakerSteps, CheckSteps, SuccessSteps, FailureSteps
<1>3. Mirrored
  BY DEF Init, Mirrored, NoCopy
<1>4. Counted
  BY BreakerAssumption DEF Init, Counted, NoCopy
<1>5. \A r \in Requests : KnowsCircuit(r)
  BY <1>1 DEF KnowsCircuit
<1> QED
  BY <1>2, <1>3, <1>4, <1>5, InitSound DEF Single, Agrees

\* The inductive invariant of a single worker holds, restarts and outages included.
THEOREM SingleSoundness ==
    ASSUME OneWorker
    PROVE  Spec => []Single
BY InitSingle, NextSingle, PTL DEF Spec

\* Until its worker is restarted, a closed circuit has fewer failures on record
\* than the threshold whenever no breaker method is running.  (A worker that dies
\* after storing the count and before storing "open" leaves it closed.)
THEOREM FailuresCounted ==
    ASSUME OneWorker
    PROVE  Spec => [](restarts = 0 => BelowThreshold)
<1>1. Single /\ restarts = 0 => BelowThreshold
  <2> SUFFICES ASSUME Single, restarts = 0, NEW w \in Workers,
                      outages = 0, Idle(w), StateAt(w) = "closed"
               PROVE  redis.count < Threshold
    BY DEF BelowThreshold
  <2>1. Closed
    BY ReadsRedis DEF Single, Agrees, Closed
  <2>2. \A r \in Requests : pc[r] \notin {"resetCount", "setOpen"}
    BY DEF Idle, OneWorker, Single, Sound, Placed, BreakerSteps, SuccessSteps, FailureSteps
  <2>3. redis.count \in 0 .. Threshold
    BY DEF Single, Sound, TypeOK, Copies
  <2> QED
    BY <2>1, <2>2, <2>3, BreakerAssumption DEF Single, Agrees, Counted
<1> QED
  BY <1>1, SingleSoundness, PTL

\* No step lets a request through an open circuit before its time.
KeepsBlocked ==
    \A r \in Requests, w \in Workers :
       outages = 0 /\ at[r] = w /\ StateAt(w) = "open" /\ ~Elapsed(LastAt(w))
         /\ pc[r] \in CheckSteps
       => pc'[r] # "serving"

\* Only check_circuit could, and what it read of the circuit still holds.
LEMMA NextBlocked == Single /\ [Next]_vars => [KeepsBlocked]_vars
<1> SUFFICES ASSUME Single, Next, NEW r \in Requests, NEW w \in Workers, outages = 0,
                    at[r] = w, StateAt(w) = "open", ~Elapsed(LastAt(w)), pc[r] \in CheckSteps,
                    pc'[r] = "serving"
             PROVE  FALSE
  BY DEF KeepsBlocked
<1>1. pc'[r] # pc[r]
  BY DEF CheckSteps
<1>2. Progress(r)
  <2>1. ASSUME NEW q \in Requests, Progress(q), q # r
        PROVE  FALSE
    BY <1>1, <2>1, ProgressMoves DEF Single
  <2>2. ASSUME NEW q \in Requests, NEW v \in Workers, Arrive(q, v)
        PROVE  FALSE
    BY <1>1, <2>2 DEF Arrive, Single, Sound, TypeOK, CheckSteps
  <2>3. ASSUME NEW v \in Workers, Restart(v)
        PROVE  FALSE
    BY <1>1, <2>3 DEF Restart
  <2> QED
    BY <1>1, <2>1, <2>2, <2>3 DEF Next, Tick, HealthChanges, RedisGoesDown, RedisComesBack
<1>3. CheckState(r) \/ CheckTime(r) \/ SetHalfOpen(r)
  BY <1>2 DEF Progress, CheckCircuit, RecordSuccess, RecordFailure, CheckSteps, Serve, Leave, Respond,
     SuccessReads, SetClosed, ResetCount, FailureReads, Stamp, SetReopened, CountFailure, SetOpen
<1>4. CASE CheckState(r) \/ CheckTime(r)
  BY <1>4 DEF CheckState, CheckTime, Goto, Single, Sound, TypeOK
<1>5. CASE SetHalfOpen(r)
  <2>1. Elapsed(redis.last)
    BY <1>5 DEF SetHalfOpen, Single, Agrees, KnowsCircuit
  <2> QED
    BY <2>1, ReadsRedis DEF Single, Agrees
<1> QED
  BY <1>3, <1>4, <1>5

\* An open circuit lets no request of a single worker through before its recovery
\* time has passed.
THEOREM OpenBlocks ==
    ASSUME OneWorker
    PROVE  Spec => BlockedWhileOpen
<1>1. Single /\ [Next]_vars => [KeepsBlocked]_vars
  BY NextBlocked
<1> QED
  BY <1>1, SingleSoundness, PTL DEF Spec, BlockedWhileOpen, KeepsBlocked

=============================================================================
