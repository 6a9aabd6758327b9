----------------------------- MODULE RadiusSessions -----------------------------
(***************************************************************************)
(* The RADIUS sessions of one subscriber on one NAS device: the accounting *)
(* rows, and the change-of-authorization (CoA) requests sent for them.     *)
(*                                                                         *)
(* The NAS reports the start of a session, its usage from time to time and *)
(* its end.  Reports may be delayed, overtake each other and arrive again, *)
(* and a start or stop that is not answered is sent again.  Every report   *)
(* and every administrator's request is handled by a thread with a         *)
(* database session of its own, which writes the columns whose value       *)
(* differs from the one it loaded.                                         *)
(***************************************************************************)
EXTENDS Integers, Sequences, FiniteSets

CONSTANTS Sessions,    \* session ids
          Handlers,    \* requests handled at the same time
          Limit,       \* simultaneous_use of the profile, 0 for none
          Cap,         \* largest usage within data_cap (MaxUsage for no cap)
          MaxInteger,  \* largest value of the column bytes_in
          MaxUsage,    \* bound: usage of a session
          MaxCoa,      \* bound: CoA requests
          MaxCrashes   \* bound: handlers that die

ASSUME RadiusAssumption ==
    /\ Sessions # {}
    /\ Limit \in Nat /\ Cap \in Nat
    /\ MaxInteger \in Nat /\ MaxUsage \in Nat
    /\ MaxCoa \in Nat /\ MaxCrashes \in Nat

VARIABLES session,  \* the sessions, as the NAS sees them
          used,     \* what each of them has used
          rows,     \* the radius_accounting table
          device,   \* the nas_devices row is there
          log,      \* the radius_coa_logs table
          pc, job   \* where each handler is, and what it works on

vars == <<session, used, rows, device, log, pc, job>>

Usage == 0 .. MaxUsage
NoRow == [there |-> FALSE]
\* open: stop_time is null.  nas_id is null exactly when the device is gone.
Row == [there : {TRUE}, bytes : 0 .. MaxInteger, open : BOOLEAN]
NewRow == [there |-> TRUE, bytes |-> 0, open |-> TRUE]

\* capped: a disconnect whose Terminate-Cause is Data-Cap-Exceeded.
Requested == {"update", "disconnect"}
CoaTypes == Requested \cup {"capped"}
CoaIds == 1 .. MaxCoa
NoCoa == 0
Coa == [session : Sessions, type : CoaTypes, result : {"pending", "success"}]

\* of, bytes and loaded: the report and the row its handler loaded.
\* todo and type: the sessions a CoA request is still to be sent for.
Job == [of : Sessions, bytes : Usage, loaded : Row \cup {NoRow},
        todo : SUBSET Sessions, type : CoaTypes, coa : CoaIds \cup {NoCoa}]
NoJob == [of |-> CHOOSE s \in Sessions : TRUE, bytes |-> 0, loaded |-> NoRow,
          todo |-> {}, type |-> "update", coa |-> NoCoa]

Steps == {"idle", "insert", "interim", "cap", "stop", "coa", "sent", "delete", "dead"}
Dead == {h \in Handlers : pc[h] = "dead"}

TypeOK ==
    /\ session \in [Sessions -> {"none", "live", "ended"}]
    /\ used \in [Sessions -> Usage]
    /\ rows \in [Sessions -> Row \cup {NoRow}]
    /\ device \in BOOLEAN
    /\ log \in Seq(Coa) /\ Len(log) <= MaxCoa
    /\ pc \in [Handlers -> Steps]
    /\ job \in [Handlers -> Job]

Init ==
    /\ session = [s \in Sessions |-> "none"]
    /\ used = [s \in Sessions |-> 0]
    /\ rows = [s \in Sessions |-> NoRow]
    /\ device = TRUE
    /\ log = << >>
    /\ pc = [h \in Handlers |-> "idle"]
    /\ job = [h \in Handlers |-> NoJob]

------------------------------------------------------------------------------
There(s) == rows[s].there
Open(s) == There(s) /\ rows[s].open
OpenSessions == {s \in Sessions : Open(s)}

\* There is a data_cap and it is exceeded.
OverCap(bytes) == bytes > Cap

\* Mutant of Written: the session writes every column of the row it loaded.
WrittenBack(loaded, new, s) == new

\* What the UPDATE of a session leaves in the row.
Column(loaded, new, stored) == IF new # loaded THEN new ELSE stored
Written(loaded, new, s) ==
    [there |-> TRUE,
     bytes |-> Column(loaded.bytes, new.bytes, rows[s].bytes),
     open  |-> Column(loaded.open, new.open, rows[s].open)]

\* An INTEGER column refuses a larger value: the commit fails.
Fits(bytes) == bytes <= MaxInteger

Goto(h, step) ==
    /\ pc' = [pc EXCEPT ![h] = step]
    /\ job' = IF step = "idle" THEN [job EXCEPT ![h] = NoJob] ELSE job

Take(h, step, s, bytes) ==
    /\ pc[h] = "idle"
    /\ pc' = [pc EXCEPT ![h] = step]
    /\ job' = [job EXCEPT ![h] = [NoJob EXCEPT !.of = s, !.bytes = bytes, !.loaded = rows[s]]]
    /\ UNCHANGED <<session, used, rows, device, log>>

------------------------------------------------------------------------------
\* authenticate_user accepts: fewer sessions have an open row than allowed.
Authenticate(s) ==
    /\ session[s] = "none"
    /\ Limit > 0 => Cardinality(OpenSessions) < Limit
    /\ session' = [session EXCEPT ![s] = "live"]
    /\ UNCHANGED <<used, rows, device, log, pc, job>>

\* Bound: what a session has used grows once.
Use(s) ==
    /\ session[s] = "live" /\ used[s] = 0
    /\ \E bytes \in Usage \ {0} : used' = [used EXCEPT ![s] = bytes]
    /\ UNCHANGED <<session, rows, device, log, pc, job>>

End(s) ==
    /\ session[s] = "live"
    /\ session' = [session EXCEPT ![s] = "ended"]
    /\ UNCHANGED <<used, rows, device, log, pc, job>>

------------------------------------------------------------------------------
\* start_accounting_session up to its check (400 if the session exists) ...
TakeStart(h, s) ==
    /\ session[s] # "none" /\ ~There(s)
    /\ Take(h, "insert", s, 0)

\* ... and its commit, which fails if the row exists by now (session_id is
\* unique) or the NAS device it names does not (a foreign key).
Insert(h) ==
    /\ pc[h] = "insert"
    /\ rows' = IF There(job[h].of) \/ ~device THEN rows
               ELSE [rows EXCEPT ![job[h].of] = NewRow]
    /\ Goto(h, "idle")
    /\ UNCHANGED <<session, used, device, log>>

\* update_accounting_session: any usage the session has reported, in any order.
TakeInterim(h, s) ==
    /\ There(s)
    /\ \E bytes \in {0, used[s]} : Take(h, "interim", s, bytes)

\* Mutant of CommitInterim: the usage is compared with the cap before the
\* report is stored.
CommitInterimChecked(h) ==
    /\ pc[h] = "interim"
    /\ LET s == job[h].of
           new == [job[h].loaded EXCEPT !.bytes = job[h].bytes]
       IN  /\ rows' = IF Fits(job[h].bytes)
                      THEN [rows EXCEPT ![s] = Written(job[h].loaded, new, s)] ELSE rows
           /\ IF Fits(job[h].bytes) /\ OverCap(job[h].loaded.bytes)
              THEN /\ pc' = [pc EXCEPT ![h] = "coa"]
                   /\ job' = [job EXCEPT ![h] = [NoJob EXCEPT !.todo = {s}, !.type = "capped"]]
              ELSE Goto(h, "idle")
    /\ UNCHANGED <<session, used, device, log>>

CommitInterim(h) ==
    /\ pc[h] = "interim"
    /\ LET s == job[h].of
           new == [job[h].loaded EXCEPT !.bytes = job[h].bytes]
       IN  IF Fits(job[h].bytes)
           THEN /\ rows' = [rows EXCEPT ![s] = Written(job[h].loaded, new, s)]
                /\ pc' = [pc EXCEPT ![h] = "cap"]
                /\ job' = [job EXCEPT ![h] = [NoJob EXCEPT !.of = s]]
           ELSE /\ Goto(h, "idle")
                /\ UNCHANGED rows
    /\ UNCHANGED <<session, used, device, log>>

\* After the commit the row is read again and compared with the cap.
CheckCap(h) ==
    /\ pc[h] = "cap"
    /\ IF OverCap(rows[job[h].of].bytes)
       THEN /\ pc' = [pc EXCEPT ![h] = "coa"]
            /\ job' = [job EXCEPT ![h] =
                         [NoJob EXCEPT !.todo = {job[h].of}, !.type = "capped"]]
       ELSE Goto(h, "idle")
    /\ UNCHANGED <<session, used, rows, device, log>>

\* stop_accounting_session: 404 if the start has not been stored yet.
TakeStop(h, s) ==
    /\ session[s] = "ended" /\ There(s)
    /\ Take(h, "stop", s, used[s])

\* Mutant of CommitStop: only a session that is within its cap is closed.
CommitStopWithinCap(h) ==
    /\ pc[h] = "stop"
    /\ LET s == job[h].of
           new == [job[h].loaded EXCEPT !.bytes = job[h].bytes, !.open = OverCap(job[h].bytes)]
       IN  rows' = IF Fits(job[h].bytes)
                   THEN [rows EXCEPT ![s] = Written(job[h].loaded, new, s)] ELSE rows
    /\ Goto(h, "idle")
    /\ UNCHANGED <<session, used, device, log>>

CommitStop(h) ==
    /\ pc[h] = "stop"
    /\ LET s == job[h].of
           new == [job[h].loaded EXCEPT !.bytes = job[h].bytes, !.open = FALSE]
       IN  rows' = IF Fits(job[h].bytes)
                   THEN [rows EXCEPT ![s] = Written(job[h].loaded, new, s)] ELSE rows
    /\ Goto(h, "idle")
    /\ UNCHANGED <<session, used, device, log>>

------------------------------------------------------------------------------
\* disconnect_user, and update_radius_profile after its commit: a CoA request
\* for every session that is open and has a NAS.  disconnect_user_session does
\* the same for one.
RequestCoa(h, type) ==
    /\ pc[h] = "idle"
    /\ device /\ OpenSessions # {}
    /\ pc' = [pc EXCEPT ![h] = "coa"]
    /\ \E todo \in {OpenSessions} \cup {{s} : s \in OpenSessions} :
          /\ type = "update" => todo = OpenSessions
          /\ job' = [job EXCEPT ![h] = [NoJob EXCEPT !.todo = todo, !.type = type]]
    /\ UNCHANGED <<session, used, rows, device, log>>

\* send_coa_request up to its first commit.  A device that is gone is an error,
\* which is logged.  (No more requests than the bound.)
LogCoa(h) ==
    /\ pc[h] = "coa"
    /\ \E s \in job[h].todo :
          LET coa == Len(log) + 1
              possible == device /\ coa \in CoaIds
          IN  IF possible
              THEN /\ log' = Append(log, [session |-> s, type |-> job[h].type,
                                          result |-> "pending"])
                   /\ pc' = [pc EXCEPT ![h] = "sent"]
                   /\ job' = [job EXCEPT ![h].todo = @ \ {s}, ![h].coa = coa]
              ELSE /\ IF job[h].todo = {s} THEN Goto(h, "idle")
                      ELSE /\ job' = [job EXCEPT ![h].todo = @ \ {s}]
                           /\ UNCHANGED pc
                   /\ UNCHANGED log
    /\ UNCHANGED <<session, used, rows, device>>

\* Mutant of CoaResult: the result is written to a new row of the log.
CoaResultAppended(h) ==
    /\ pc[h] = "sent"
    /\ log' = Append(log, [log[job[h].coa] EXCEPT !.result = "success"])
    /\ IF job[h].todo = {} THEN Goto(h, "idle")
       ELSE /\ pc' = [pc EXCEPT ![h] = "coa"]
            /\ job' = [job EXCEPT ![h].coa = NoCoa]
    /\ UNCHANGED <<session, used, rows, device>>

\* ... and its second, once the request is sent.
CoaResult(h) ==
    /\ pc[h] = "sent"
    /\ log' = [log EXCEPT ![job[h].coa].result = "success"]
    /\ IF job[h].todo = {} THEN Goto(h, "idle")
       ELSE /\ pc' = [pc EXCEPT ![h] = "coa"]
            /\ job' = [job EXCEPT ![h].coa = NoCoa]
    /\ UNCHANGED <<session, used, rows, device>>

\* delete_nas_device up to its check ...
CheckNasUnused(h) ==
    /\ pc[h] = "idle" /\ device
    /\ OpenSessions = {}
    /\ Goto(h, "delete")
    /\ UNCHANGED <<session, used, rows, device, log>>

\* ... and its commit: the rows of the device lose it (nas_id is set to null),
\* and a device that has CoA logs cannot be deleted.
DeleteNas(h) ==
    /\ pc[h] = "delete"
    /\ device' = (device /\ log # << >>)
    /\ Goto(h, "idle")
    /\ UNCHANGED <<session, used, rows, log>>

\* The worker of a handler dies and is not replaced; or the commit of its step
\* fails, as does the one that would say so, and the request ends there.
Crash(h) ==
    /\ pc[h] \notin {"idle", "dead"} /\ Cardinality(Dead) < MaxCrashes
    /\ pc' = [pc EXCEPT ![h] = "dead"]
    /\ job' = [job EXCEPT ![h] = [NoJob EXCEPT !.coa = job[h].coa]]
    /\ UNCHANGED <<session, used, rows, device, log>>

Proceed(h) ==
    \/ Insert(h) \/ CommitInterim(h) \/ CheckCap(h) \/ CommitStop(h)
    \/ LogCoa(h) \/ CoaResult(h) \/ DeleteNas(h)

Next ==
    \/ \E s \in Sessions : Authenticate(s) \/ Use(s) \/ End(s)
    \/ \E h \in Handlers :
          \/ \E s \in Sessions : TakeStart(h, s) \/ TakeInterim(h, s) \/ TakeStop(h, s)
          \/ \E type \in Requested : RequestCoa(h, type)
          \/ CheckNasUnused(h) \/ Proceed(h) \/ Crash(h)

Spec == Init /\ [][Next]_vars

\* A handler runs to its end.  A NAS sends a stop report until it is answered,
\* and the server takes requests in the order they come: one that is sent again
\* and again is taken in the end.
Fairness ==
    /\ \A h \in Handlers : WF_vars(Proceed(h))
    /\ \A s \in Sessions : SF_vars(\E h \in Handlers : TakeStop(h, s))

FairSpec == Spec /\ Fairness

------------------------------------------------------------------------------
\* A session that was stopped never counts as open again, although start and
\* usage reports may come again or be committed after the stop.
ClosedForGood ==
    [][\A s \in Sessions : There(s) /\ ~Open(s) => There(s)' /\ ~Open(s)']_vars

\* A CoA log says pending while its request is on its way, and for ever only if
\* the handler died (or could not commit the result).
PendingIsInFlight ==
    \A c \in DOMAIN log :
        log[c].result = "pending" =>
        \E h \in Handlers : pc[h] \in {"sent", "dead"} /\ job[h].coa = c

\* A session that stays open over the data cap is asked to disconnect: reports
\* handled at the same time cannot hide it, and a disconnect for a session that
\* used nothing above the cap does not excuse that.  (Unless a handler died, the
\* device is gone or the log is full.)
CapIsEnforced ==
    \A s \in Sessions :
        Open(s) /\ OverCap(rows[s].bytes)
        ~> \/ ~Open(s) \/ ~OverCap(rows[s].bytes)
           \/ \E c \in DOMAIN log : log[c].session = s /\ log[c].type # "update"
           \/ Dead # {} \/ ~device
           \/ /\ Len(log) = MaxCoa
              /\ \A c \in DOMAIN log :
                    log[c].type = "capped" => OverCap(used[log[c].session])

\* A session that has ended is closed, and no longer keeps its subscriber from
\* a new one, as long as its usage fits into the column.
EndedSessionCloses ==
    \A s \in Sessions :
        session[s] = "ended" /\ Open(s) /\ Fits(used[s]) ~> ~Open(s)

==============================================================================
