--------------------------- MODULE OLTConnectionPool ---------------------------
(***************************************************************************)
(* The pool of SSH connections to OLT devices: get_connection,             *)
(* release_connection, close_all_connections and the cleanup timer of      *)
(* connection_pool.py, called by concurrent threads, over the connect,     *)
(* disconnect and is_connected of the Huawei adapter and its SSH client.   *)
(*                                                                         *)
(* Every section under self.lock is one action, except the cleanup, which  *)
(* is a loop: while timer = "sweeping" the cleanup thread holds the lock.  *)
(* Clocks are abstracted: an item is "aged" once it has gone unused for    *)
(* longer than max_idle_time, and a thread that finds the pool full either *)
(* has run past connection_timeout or has not.                             *)
(***************************************************************************)
EXTENDS Integers, Sequences, FiniteSets

CONSTANTS Clients,        \* threads that borrow connections
          Adapters,       \* adapter objects; unreferenced ones are created anew
          MaxConnections, \* max_connections
          NoAdapter       \* "holds no adapter"

ASSUME PoolAssumption ==
    /\ MaxConnections \in Nat \ {0}
    /\ NoAdapter \notin Adapters

VARIABLES pool,   \* self.pool, a list of ConnectionPoolItem
          link,   \* the SSH client of each adapter
          pc,     \* where each thread is in get_connection
          held,   \* the adapter each thread has been given and not released
          timer   \* the cleanup timer and its callback

vars == <<pool, link, pc, held, timer>>

\* "closed": _connected is False.  "open": _connected and the device answers.
\* "silent": _connected, but nothing to read half a second after a newline.
Links == {"closed", "open", "silent"}

\* "out": not in get_connection.  "trying": about to take the lock.
\* "full": has just found every connection in use and the pool full.
Places == {"out", "trying", "full"}

\* "fired": the callback waits for the lock.  "swept": it has given the lock
\* back and not yet started the next timer.  "none": cancelled.
Timers == {"armed", "fired", "sweeping", "swept", "none"}

Items == [adapter : Adapters, in_use : BOOLEAN, aged : BOOLEAN]

TypeOK ==
    /\ pool \in Seq(Items)
    /\ link \in [Adapters -> Links]
    /\ pc \in [Clients -> Places]
    /\ held \in [Clients -> Adapters \cup {NoAdapter}]
    /\ timer \in Timers

Init ==
    /\ pool = <<>>
    /\ link = [a \in Adapters |-> "closed"]
    /\ pc = [c \in Clients |-> "out"]
    /\ held = [c \in Clients |-> NoAdapter]
    /\ timer = "armed"

------------------------------------------------------------------------------
LockFree == timer # "sweeping"

Pooled == {pool[i].adapter : i \in DOMAIN pool}

HeldAdapters == {held[c] : c \in Clients} \ {NoAdapter}

\* The factory makes a new object; all that matters of its identity is that
\* neither the pool nor a thread refers to it yet.
NewAdapter == CHOOSE a \in Adapters : a \notin Pooled \cup HeldAdapters

CanCreate == \E a \in Adapters : a \notin Pooled \cup HeldAdapters

\* Mutant of FirstIdle: the scan forgets to look at in_use.
FirstOfAny(i) == i = 1 /\ i \in DOMAIN pool

\* The scan of self.pool stops at the first connection not in use.
FirstIdle(i) ==
    /\ i \in DOMAIN pool
    /\ ~pool[i].in_use
    /\ \A j \in 1 .. (i - 1) : pool[j].in_use

NoIdle == \A i \in DOMAIN pool : pool[i].in_use

\* Mutant of Acquire: the item is handed out without being marked.
AcquireUnmarked(i, a) == [pool EXCEPT ![i] = [adapter |-> a, in_use |-> FALSE, aged |-> FALSE]]

\* ConnectionPoolItem.acquire and release, which both set last_used.
Acquire(i, a) == [pool EXCEPT ![i] = [adapter |-> a, in_use |-> TRUE, aged |-> FALSE]]
Release(i, a) == [pool EXCEPT ![i] = [adapter |-> a, in_use |-> FALSE, aged |-> FALSE]]

\* is_connected answered False: nothing to read (the flag stays) or the send
\* raised (the flag is cleared).  l is the adapter's link afterwards.
FoundDead(a, l) ==
    \/ link[a] = "closed" /\ l = "closed"
    \/ link[a] = "silent" /\ l \in {"silent", "closed"}

\* Mutant of HandOut: get_connection returns the pool item, not its adapter.
HandOutItem(c, a) ==
    /\ pc' = [pc EXCEPT ![c] = "out"]
    /\ held' = [held EXCEPT ![c] = <<a>>]
    /\ UNCHANGED timer

HandOut(c, a) ==
    /\ pc' = [pc EXCEPT ![c] = "out"]
    /\ held' = [held EXCEPT ![c] = a]
    /\ UNCHANGED timer

RaiseError(c) ==
    /\ pc' = [pc EXCEPT ![c] = "out"]
    /\ UNCHANGED <<held, timer>>

------------------------------------------------------------------------------
\* A thread that holds nothing calls get_connection.
CallGet(c) ==
    /\ pc[c] = "out"
    /\ held[c] = NoAdapter
    /\ pc' = [pc EXCEPT ![c] = "trying"]
    /\ UNCHANGED <<pool, link, held, timer>>

\* The first idle connection answers, and is handed out.
GetIdle(c) ==
    /\ pc[c] = "trying" /\ LockFree
    /\ \E i \in DOMAIN pool :
          /\ FirstIdle(i)
          /\ link[pool[i].adapter] = "open"
          /\ pool' = Acquire(i, pool[i].adapter)
          /\ HandOut(c, pool[i].adapter)
    /\ UNCHANGED link

\* It does not answer, and connect() returns.  With _connected still set,
\* connect() returns True at once; otherwise it opens a session, or logs an
\* OLTConnectionError and returns False.  The result is not looked at.
GetReconnect(c) ==
    /\ pc[c] = "trying" /\ LockFree
    /\ \E i \in DOMAIN pool, found \in Links, l \in Links :
          LET a == pool[i].adapter IN
          /\ FirstIdle(i)
          /\ FoundDead(a, found)
          /\ IF found = "closed" THEN l \in {"open", "closed"} ELSE l = found
          /\ link' = [link EXCEPT ![a] = l]
          /\ pool' = Acquire(i, a)
          /\ HandOut(c, a)

\* connect() raises (no prompt: an OLTCommandError), so the item gets a new
\* adapter, whose connect() returns True or False.  Neither result is looked at.
GetReplace(c) ==
    /\ pc[c] = "trying" /\ LockFree /\ CanCreate
    /\ \E i \in DOMAIN pool, l \in {"open", "closed"} :
          LET a == pool[i].adapter IN
          /\ FirstIdle(i)
          /\ FoundDead(a, "closed")
          /\ link' = [link EXCEPT ![a] = "closed", ![NewAdapter] = l]
          /\ pool' = Acquire(i, NewAdapter)
          /\ HandOut(c, NewAdapter)

\* As above, but the replacement fails too: the factory raises (n is the old
\* adapter) or the new adapter's connect() does.  The item is released.
GetReplaceFails(c) ==
    /\ pc[c] = "trying" /\ LockFree /\ CanCreate
    /\ \E i \in DOMAIN pool :
          LET a == pool[i].adapter IN
          /\ FirstIdle(i)
          /\ FoundDead(a, "closed")
          /\ \E n \in {a, NewAdapter} :
                /\ link' = [link EXCEPT ![a] = "closed", ![n] = "closed"]
                /\ pool' = Release(i, n)
    /\ RaiseError(c)

\* Mutant of GetNew: <= for < in the comparison with max_connections.
GetNewOverLimit(c) ==
    /\ pc[c] = "trying" /\ LockFree /\ CanCreate
    /\ NoIdle
    /\ Len(pool) <= MaxConnections
    /\ pool' = Append(pool, [adapter |-> NewAdapter, in_use |-> TRUE, aged |-> FALSE])
    /\ link' = [link EXCEPT ![NewAdapter] = "open"]
    /\ HandOut(c, NewAdapter)

\* No idle connection and room for one more.
GetNew(c) ==
    /\ pc[c] = "trying" /\ LockFree /\ CanCreate
    /\ NoIdle
    /\ Len(pool) < MaxConnections
    /\ pool' = Append(pool, [adapter |-> NewAdapter, in_use |-> TRUE, aged |-> FALSE])
    /\ link' = [link EXCEPT ![NewAdapter] = "open"]
    /\ HandOut(c, NewAdapter)

\* The factory raises, or the new adapter's connect() raises or returns False.
GetNewFails(c) ==
    /\ pc[c] = "trying" /\ LockFree
    /\ NoIdle
    /\ Len(pool) < MaxConnections
    /\ RaiseError(c)
    /\ UNCHANGED <<pool, link>>

\* Every connection is in use and the pool is full: the lock is given back.
GetFull(c) ==
    /\ pc[c] = "trying" /\ LockFree
    /\ NoIdle
    /\ Len(pool) >= MaxConnections
    /\ pc' = [pc EXCEPT ![c] = "full"]
    /\ UNCHANGED <<pool, link, held, timer>>

\* Within connection_timeout: sleep and try again.
Retry(c) ==
    /\ pc[c] = "full"
    /\ pc' = [pc EXCEPT ![c] = "trying"]
    /\ UNCHANGED <<pool, link, held, timer>>

\* Mutant of TimeOut: start_time is taken again on every round of the loop.
TimeOutNever(c) == pc[c] = "full" /\ FALSE

\* Past connection_timeout: PoolExhaustedError.
TimeOut(c) ==
    /\ pc[c] = "full"
    /\ RaiseError(c)
    /\ UNCHANGED <<pool, link>>

\* release_connection by the thread that holds the adapter; the adapter is in
\* the pool unless close_all_connections has emptied it.
ReleaseConnection(c) ==
    /\ held[c] # NoAdapter /\ LockFree
    /\ \/ /\ held[c] \notin Pooled
          /\ UNCHANGED pool
       \/ \E i \in DOMAIN pool :
             /\ pool[i].adapter = held[c]
             /\ pool' = Release(i, held[c])
    /\ held' = [held EXCEPT ![c] = NoAdapter]
    /\ UNCHANGED <<link, pc, timer>>

\* close_all_connections.  A disconnect() may raise, which is only logged; the
\* link of an adapter nobody refers to any more does not matter.
\* cancel() stops a timer that has not fired; a callback already started runs on.
CloseAll ==
    /\ LockFree
    /\ \E failed \in SUBSET (Pooled \cap HeldAdapters) :
          link' = [a \in Adapters |-> IF a \in Pooled \ failed THEN "closed" ELSE link[a]]
    /\ pool' = <<>>
    /\ timer' = IF timer = "armed" THEN "none" ELSE timer
    /\ UNCHANGED <<pc, held>>

------------------------------------------------------------------------------
\* Mutant of Reapable: age alone decides.
ReapableByAge(item) == item.aged

\* The cleanup timer: it fires, the callback takes the lock, closes and removes
\* every idle aged item, gives the lock back and starts the next timer.
Reapable(item) == ~item.in_use /\ item.aged

TimerFires ==
    /\ timer = "armed"
    /\ timer' = "fired"
    /\ UNCHANGED <<pool, link, pc, held>>

SweepBegin ==
    /\ timer = "fired"
    /\ timer' = "sweeping"
    /\ UNCHANGED <<pool, link, pc, held>>

Without(i) == [j \in 1 .. (Len(pool) - 1) |-> IF j < i THEN pool[j] ELSE pool[j + 1]]

SweepItem ==
    /\ timer = "sweeping"
    /\ \E i \in DOMAIN pool :
          /\ Reapable(pool[i])
          /\ link' = [link EXCEPT ![pool[i].adapter] = "closed"]
          /\ pool' = Without(i)
    /\ UNCHANGED <<pc, held, timer>>

SweepEnd ==
    /\ timer = "sweeping"
    /\ \A i \in DOMAIN pool : ~Reapable(pool[i])
    /\ timer' = "swept"
    /\ UNCHANGED <<pool, link, pc, held>>

\* Mutant of Rearm: no finally clause, and the sweep ended in an exception.
RearmSkipped == timer = "swept" /\ FALSE

\* The finally clause.
Rearm ==
    /\ timer = "swept"
    /\ timer' = "armed"
    /\ UNCHANGED <<pool, link, pc, held>>

\* last_used falls more than max_idle_time behind, in use or not.  A sweep
\* reads the clock once, at its start.
Age(i) ==
    /\ LockFree
    /\ i \in DOMAIN pool
    /\ ~pool[i].aged
    /\ pool' = [pool EXCEPT ![i].aged = TRUE]
    /\ UNCHANGED <<link, pc, held, timer>>

\* A device stops answering, or a slow one answers again.
LinkChanges(a) ==
    /\ a \in Pooled \cup HeldAdapters
    /\ \/ link[a] = "open" /\ link' = [link EXCEPT ![a] = "silent"]
       \/ link[a] = "silent" /\ link' = [link EXCEPT ![a] = "open"]
    /\ UNCHANGED <<pool, pc, held, timer>>

------------------------------------------------------------------------------
Attempt(c) ==
    \/ GetIdle(c) \/ GetReconnect(c) \/ GetReplace(c) \/ GetReplaceFails(c)
    \/ GetNew(c) \/ GetNewFails(c) \/ GetFull(c)

Cleanup == TimerFires \/ SweepBegin \/ SweepItem \/ SweepEnd \/ Rearm

Next ==
    \/ \E c \in Clients :
          \/ CallGet(c) \/ Attempt(c) \/ Retry(c) \/ TimeOut(c) \/ ReleaseConnection(c)
    \/ CloseAll
    \/ Cleanup
    \/ \E i \in 1 .. MaxConnections : Age(i)
    \/ \E a \in Adapters : LinkChanges(a)

Spec == Init /\ [][Next]_vars

\* A thread in get_connection keeps running; it keeps finding the clock further
\* on, so it does not find itself within connection_timeout for ever (SF).  The
\* timer thread keeps running.  Nothing obliges a thread to release.
Fairness ==
    /\ \A c \in Clients :
          /\ SF_vars(Attempt(c))
          /\ WF_vars(Retry(c) \/ TimeOut(c))
          /\ SF_vars(TimeOut(c))
    /\ WF_vars(Cleanup)

FairSpec == Spec /\ Fairness

------------------------------------------------------------------------------
\* Two threads never hold the same adapter (get_connection marks an item
\* in_use under the lock and every hand-out goes through such an item).
ExclusiveLease ==
    \A c, d \in Clients : c # d /\ held[c] # NoAdapter => held[c] # held[d]

\* An item is in use exactly when some thread holds its adapter: no error path
\* of get_connection leaves a slot marked in_use that nobody will release,
\* and no item of a held adapter is offered to someone else.
NoLeakedSlot ==
    \A i \in DOMAIN pool : pool[i].in_use <=> pool[i].adapter \in HeldAdapters

\* The pool has at most max_connections items, one per adapter.
PoolBounded ==
    /\ Len(pool) <= MaxConnections
    /\ \A i, j \in DOMAIN pool : pool[i].adapter = pool[j].adapter => i = j

\* A connection a thread is using is closed under it only by
\* close_all_connections: never by the idle cleanup or another thread's call.
NoForeignDisconnect ==
    [][\A c \in Clients :
          /\ held[c] # NoAdapter /\ held'[c] = held[c]
          /\ link[held[c]] # "closed" /\ link'[held[c]] = "closed"
          => CloseAll]_vars

\* Every call of get_connection returns an adapter or raises, even when the
\* pool stays full for ever.
GetReturns == \A c \in Clients : (pc[c] # "out") ~> (pc[c] = "out")

\* A connection nobody has used for max_idle_time is closed or used again, as
\* long as the pool has not been closed.
IdleReaped ==
    \A a \in Adapters :
       LET overdue == \E i \in DOMAIN pool : pool[i].adapter = a /\ Reapable(pool[i])
       IN  overdue ~> (~overdue \/ timer = "none")

\* Every step of the pool is one the lease specification allows.
Abstract == INSTANCE LeasePool WITH lease <- held, slots <- Pooled
ImplementsLeasePool == Abstract!LeaseSpec

\* "Ensure the connection is still valid" (connection_pool.py:136): an adapter
\* that get_connection returns is one it knows to be connected.
HandsOutConnected ==
    [][\A c \in Clients :
          held[c] = NoAdapter /\ held'[c] # NoAdapter => link'[held'[c]] = "open"]_vars

==============================================================================
