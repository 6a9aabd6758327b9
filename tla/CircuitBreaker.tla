---------------------------- MODULE CircuitBreaker ----------------------------
(***************************************************************************)
(* The circuit breaker of the API gateway for one path, and the part of    *)
(* the gateway middleware that consults it and reports to it.              *)
(*                                                                         *)
(* Every worker process keeps its own copy of the breaker's state and all  *)
(* share a copy in Redis: a read prefers Redis and falls back to the       *)
(* worker's own copy, a write goes to both.  The breaker's methods are     *)
(* synchronous, so within a worker they exclude each other; between        *)
(* workers each Redis access is a step of its own, and a request is        *)
(* suspended while the application handles it.                             *)
(***************************************************************************)
EXTENDS Integers

CONSTANTS Requests,      \* requests that may be in the gateway at once
          Workers,       \* worker processes
          Threshold,     \* failure_threshold
          RecoveryTime,  \* recovery_time, in ticks
          MaxOutages,    \* bound: how often Redis goes away
          MaxRestarts,   \* bound: how often a worker process is restarted
          NoWorker       \* the worker of a request that is not in the gateway

ASSUME BreakerAssumption ==
    /\ Threshold \in Nat \ {0}
    /\ RecoveryTime \in Nat
    /\ MaxOutages \in Nat /\ MaxRestarts \in Nat
    /\ NoWorker \notin Workers

VARIABLES redis,     \* the copy in Redis
          redisUp,   \* Redis answers (otherwise every access is a RedisError)
          client,    \* the workers that found Redis when they started: redis_client
          mem,       \* the memory_* dictionaries of each worker
          pc,        \* where each request is
          at,        \* the worker that serves each request
          seen,      \* the state record_failure read
          healthy,   \* the application behind the gateway raises no exception
          outages, restarts

vars == <<redis, redisUp, client, mem, pc, at, seen, healthy, outages, restarts>>

CircuitState == {"closed", "open", "half_open"}

\* How long ago last_failure_time was: only "more than recovery_time" matters,
\* so the age stops growing there.
Never == -1
Ages == 0 .. (RecoveryTime + 1)
Elapsed(age) == age > RecoveryTime

\* "unset" is a key Redis does not have.  A failure count is only compared with
\* the threshold, so it stops growing there.
Copies == [state : CircuitState \cup {"unset"}, count : 0 .. Threshold,
           last : Ages \cup {Never}]

NoCopy == [state |-> "unset", count |-> 0, last |-> Never]

\* The steps of check_circuit, of handling the request, of record_success and of
\* record_failure.  "serving" and "responding" are the awaits between them.
CheckSteps == {"check", "checkTime", "setHalfOpen"}
SuccessSteps == {"success", "setClosed", "resetCount"}
FailureSteps == {"failure", "stamp", "setReopened", "count", "setOpen"}
BreakerSteps == CheckSteps \cup SuccessSteps \cup FailureSteps
Steps == {"none", "serving", "responding"} \cup BreakerSteps

TypeOK ==
    /\ redis \in Copies
    /\ redisUp \in BOOLEAN
    /\ client \in SUBSET Workers
    /\ mem \in [Workers -> Copies]
    /\ pc \in [Requests -> Steps]
    /\ at \in [Requests -> Workers \cup {NoWorker}]
    /\ seen \in [Requests -> CircuitState]
    /\ healthy \in BOOLEAN
    /\ outages \in 0 .. MaxOutages
    /\ restarts \in 0 .. MaxRestarts

Init ==
    /\ redis = NoCopy
    /\ redisUp = TRUE
    /\ client = Workers
    /\ mem = [w \in Workers |-> NoCopy]
    /\ pc = [r \in Requests |-> "none"]
    /\ at = [r \in Requests |-> NoWorker]
    /\ seen = [r \in Requests |-> "closed"]
    /\ healthy \in BOOLEAN
    /\ outages = 0
    /\ restarts = 0

------------------------------------------------------------------------------
\* A worker's access to Redis succeeds.
Reaches(w) == redisUp /\ w \in client

\* Mutant of StateAt: an unknown path has no default.
StateAtUnknown(w) == IF Reaches(w) /\ redis.state # "unset" THEN redis.state ELSE mem[w].state

\* _get_circuit_state: Redis if it answers and has the key, else the worker's
\* own copy, else CLOSED.
StateAt(w) ==
    IF Reaches(w) /\ redis.state # "unset" THEN redis.state
    ELSE IF mem[w].state # "unset" THEN mem[w].state
    ELSE "closed"

\* _get_last_failure_time, likewise, else None.
LastAt(w) == IF Reaches(w) /\ redis.last # Never THEN redis.last ELSE mem[w].last

\* The _set_* methods: Redis if it answers, and the worker's copy always.
Store(w, field, value) ==
    /\ redis' = IF Reaches(w) THEN [redis EXCEPT ![field] = value] ELSE redis
    /\ mem' = [mem EXCEPT ![w][field] = value]

StoreState(w, state) == Store(w, "state", state)
\* Mutant of StoreLast: Redis is left out.
StoreLastLocally(w) ==
    /\ mem' = [mem EXCEPT ![w].last = 0]
    /\ UNCHANGED redis

StoreLast(w) == Store(w, "last", 0)

\* _increment_failure_count: the next count of the copy that is there.
NextCount(w) ==
    LET n == IF Reaches(w) THEN redis.count ELSE mem[w].count
    IN  IF n < Threshold THEN n + 1 ELSE n

\* The event loop of a worker runs one breaker method at a time.
Idle(w) == \A r \in Requests : at[r] = w => pc[r] \notin BreakerSteps

Goto(r, step) ==
    /\ pc' = [pc EXCEPT ![r] = step]
    /\ at' = IF step = "none" THEN [at EXCEPT ![r] = NoWorker] ELSE at
    /\ seen' = IF step = "none" THEN [seen EXCEPT ![r] = "closed"] ELSE seen

Env == <<redisUp, client, healthy, outages, restarts>>

------------------------------------------------------------------------------
\* A request for the path reaches a worker, which calls check_circuit.
Arrive(r, w) ==
    /\ pc[r] = "none" /\ Idle(w)
    /\ pc' = [pc EXCEPT ![r] = "check"]
    /\ at' = [at EXCEPT ![r] = w]
    /\ UNCHANGED <<redis, mem, seen, Env>>

\* Mutant of CheckState: once half-open, the circuit waits for its first request.
CheckStateOneProbe(r) ==
    /\ pc[r] = "check"
    /\ Goto(r, IF StateAt(at[r]) = "open" THEN "checkTime"
               ELSE IF StateAt(at[r]) = "half_open" THEN "none" ELSE "serving")
    /\ UNCHANGED <<redis, mem, Env>>

CheckState(r) ==
    /\ pc[r] = "check"
    /\ Goto(r, IF StateAt(at[r]) = "open" THEN "checkTime" ELSE "serving")
    /\ UNCHANGED <<redis, mem, Env>>

\* Mutant of CheckTime: a known failure time is enough.
CheckTimeKnown(r) ==
    /\ pc[r] = "checkTime"
    /\ Goto(r, IF LastAt(at[r]) # Never THEN "setHalfOpen" ELSE "none")
    /\ UNCHANGED <<redis, mem, Env>>

\* "none" answers 503.
CheckTime(r) ==
    /\ pc[r] = "checkTime"
    /\ LET last == LastAt(at[r])
       IN  Goto(r, IF last # Never /\ Elapsed(last) THEN "setHalfOpen" ELSE "none")
    /\ UNCHANGED <<redis, mem, Env>>

SetHalfOpen(r) ==
    /\ pc[r] = "setHalfOpen"
    /\ StoreState(at[r], "half_open")
    /\ Goto(r, "serving")
    /\ UNCHANGED Env

\* The application returns a response, or (only if unhealthy) raises.
Serve(r) ==
    /\ pc[r] = "serving" /\ Idle(at[r])
    /\ \/ Goto(r, "success")
       \/ ~healthy /\ Goto(r, "failure")
    /\ UNCHANGED <<redis, mem, Env>>

\* The request transformer, outside the try, raises (it does for a path without
\* a transformation of its own), or the request is cancelled: a request that was
\* let in leaves, and neither a success nor a failure is recorded.
Leave(r) ==
    /\ pc[r] = "serving" /\ Idle(at[r])
    /\ Goto(r, "none")
    /\ UNCHANGED <<redis, mem, Env>>

\* The response is transformed and sent; an exception there, after
\* record_success, is recorded as a failure as well.
Respond(r) ==
    /\ pc[r] = "responding" /\ Idle(at[r])
    /\ \/ Goto(r, "none")
       \/ ~healthy /\ Goto(r, "failure")
    /\ UNCHANGED <<redis, mem, Env>>

\* Mutant of SuccessReads: a success in HALF_OPEN is only counted.
SuccessIgnored(r) ==
    /\ pc[r] = "success"
    /\ Goto(r, "responding")
    /\ UNCHANGED <<redis, mem, Env>>

SuccessReads(r) ==
    /\ pc[r] = "success"
    /\ Goto(r, IF StateAt(at[r]) = "half_open" THEN "setClosed" ELSE "responding")
    /\ UNCHANGED <<redis, mem, Env>>

SetClosed(r) ==
    /\ pc[r] = "setClosed"
    /\ StoreState(at[r], "closed")
    /\ Goto(r, "resetCount")
    /\ UNCHANGED Env

\* Mutant of ResetCount: the failure count survives the closing.
ResetCountSkipped(r) ==
    /\ pc[r] = "resetCount"
    /\ Goto(r, "responding")
    /\ UNCHANGED <<redis, mem, Env>>

ResetCount(r) ==
    /\ pc[r] = "resetCount"
    /\ Store(at[r], "count", 0)
    /\ Goto(r, "responding")
    /\ UNCHANGED Env

FailureReads(r) ==
    /\ pc[r] = "failure"
    /\ seen' = [seen EXCEPT ![r] = StateAt(at[r])]
    /\ pc' = [pc EXCEPT ![r] = "stamp"]
    /\ UNCHANGED <<redis, mem, at, Env>>

Stamp(r) ==
    /\ pc[r] = "stamp"
    /\ StoreLast(at[r])
    /\ Goto(r, IF seen[r] = "half_open" THEN "setReopened" ELSE "count")
    /\ UNCHANGED Env

SetReopened(r) ==
    /\ pc[r] = "setReopened"
    /\ StoreState(at[r], "open")
    /\ Goto(r, "none")
    /\ UNCHANGED Env

CountFailure(r) ==
    /\ pc[r] = "count"
    /\ Store(at[r], "count", NextCount(at[r]))
    /\ Goto(r, IF seen[r] = "closed" /\ NextCount(at[r]) >= Threshold
               THEN "setOpen" ELSE "none")
    /\ UNCHANGED Env

SetOpen(r) ==
    /\ pc[r] = "setOpen"
    /\ StoreState(at[r], "open")
    /\ Goto(r, "none")
    /\ UNCHANGED Env

------------------------------------------------------------------------------
Older(age) == IF age \in Ages /\ ~Elapsed(age) THEN age + 1 ELSE age

Tick ==
    /\ redis' = [redis EXCEPT !.last = Older(redis.last)]
    /\ mem' = [w \in Workers |-> [mem[w] EXCEPT !.last = Older(mem[w].last)]]
    /\ UNCHANGED <<pc, at, seen, Env>>

HealthChanges ==
    /\ healthy' = ~healthy
    /\ UNCHANGED <<redis, redisUp, client, mem, pc, at, seen, outages, restarts>>

RedisGoesDown ==
    /\ redisUp /\ outages < MaxOutages
    /\ redisUp' = FALSE
    /\ outages' = outages + 1
    /\ UNCHANGED <<redis, client, mem, pc, at, seen, healthy, restarts>>

RedisComesBack ==
    /\ ~redisUp
    /\ redisUp' = TRUE
    /\ UNCHANGED <<redis, client, mem, pc, at, seen, healthy, outages, restarts>>

\* A worker process is restarted: its requests and its copy are gone.  If Redis
\* does not answer its first ping it does without Redis for as long as it lives.
Restart(w) ==
    /\ restarts < MaxRestarts
    /\ restarts' = restarts + 1
    /\ client' = IF redisUp THEN client \cup {w} ELSE client \ {w}
    /\ mem' = [mem EXCEPT ![w] = NoCopy]
    /\ pc' = [r \in Requests |-> IF at[r] = w THEN "none" ELSE pc[r]]
    /\ at' = [r \in Requests |-> IF at[r] = w THEN NoWorker ELSE at[r]]
    /\ seen' = [r \in Requests |-> IF at[r] = w THEN "closed" ELSE seen[r]]
    /\ UNCHANGED <<redis, redisUp, healthy, outages>>

CheckCircuit(r) == CheckState(r) \/ CheckTime(r) \/ SetHalfOpen(r)
RecordSuccess(r) == SuccessReads(r) \/ SetClosed(r) \/ ResetCount(r)
RecordFailure(r) ==
    FailureReads(r) \/ Stamp(r) \/ SetReopened(r) \/ CountFailure(r) \/ SetOpen(r)

Progress(r) ==
    \/ CheckCircuit(r) \/ RecordSuccess(r) \/ RecordFailure(r)
    \/ Serve(r) \/ Leave(r) \/ Respond(r)

Next ==
    \/ \E r \in Requests : Progress(r) \/ \E w \in Workers : Arrive(r, w)
    \/ Tick
    \/ HealthChanges
    \/ RedisGoesDown
    \/ RedisComesBack
    \/ \E w \in Workers : Restart(w)

Spec == Init /\ [][Next]_vars

\* The workers and the clock keep running, Redis is brought back after an outage,
\* requests keep reaching every worker, and of the requests a worker lets in again
\* and again some get past the request transformer and reach the application: not
\* any given one, and not the first after an outage.  The last two wait for the
\* worker's event loop, which other requests keep using (SF).
Fairness ==
    /\ \A r \in Requests : WF_vars(Progress(r))
    /\ \A w \in Workers : /\ SF_vars(\E r \in Requests : Arrive(r, w))
                          /\ SF_vars(\E r \in Requests : at[r] = w /\ Serve(r))
    /\ WF_vars(Tick)
    /\ WF_vars(RedisComesBack)

FairSpec == Spec /\ Fairness

------------------------------------------------------------------------------
\* A copy that says "open" also says since when: record_failure stores the time
\* before the state.  Without it is_service_available refuses every request and
\* nothing would ever close the circuit.  For Redis this needs Redis not to have
\* missed a write.
OpenHasStamp ==
    /\ outages = 0 /\ redis.state = "open" => redis.last # Never
    /\ \A w \in Workers : mem[w].state = "open" => mem[w].last # Never

\* While the circuit is open and its last failure is at most recovery_time old,
\* no request is let through ("Service unavailable, requests blocked").  This is
\* for one worker and a Redis that has not missed a write.
BlockedWhileOpen ==
    [][\A r \in Requests, w \in Workers :
          outages = 0 /\ at[r] = w /\ StateAt(w) = "open" /\ ~Elapsed(LastAt(w)) /\ pc[r] \in CheckSteps
          => pc'[r] # "serving"]_vars

\* Between the breaker's operations a closed circuit has fewer failures on
\* record than the threshold: none is lost, and closing forgets them all.  This
\* too is for one worker and a Redis that has not missed a write.
BelowThreshold ==
    \A w \in Workers :
       outages = 0 /\ Idle(w) /\ StateAt(w) = "closed" => redis.count < Threshold

\* Once the application stays healthy the circuit is eventually closed for good
\* on every worker: calls are disabled only "temporarily" (circuit_breaker.py:49).
\* Requests that were let in as probes and left unrecorded do not prevent it.
Recovers ==
    <>[]healthy => <>[](\A w \in Workers : StateAt(w) = "closed")

==============================================================================
