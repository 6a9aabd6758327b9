------------------------ MODULE OLTConnectionPoolProofs ------------------------
(***************************************************************************)
(* Proofs about OLTConnectionPool, for any set of threads, any set of      *)
(* adapters and any max_connections: type correctness, the inductive       *)
(* invariant behind exclusive leases, and that the pool implements         *)
(* LeasePool.                                                              *)
(***************************************************************************)
EXTENDS OLTConnectionPool, FiniteSetTheorems, TLAPS

\* A thread inside get_connection holds no adapter.
SeekersHoldNothing == \A c \in Clients : pc[c] # "out" => held[c] = NoAdapter

\* The three invariants lean on each other: an item that is not in use may be
\* handed out because nobody holds its adapter (NoLeakedSlot), which stays true
\* of the other items because their adapters differ (PoolBounded), and a release
\* frees the adapter because nobody else holds it (ExclusiveLease).
Safe ==
    /\ ExclusiveLease
    /\ NoLeakedSlot
    /\ PoolBounded
    /\ SeekersHoldNothing

------------------------------------------------------------------------------
\* The factory's object is one neither the pool nor a thread refers to.
LEMMA NewAdapterIsFresh ==
    ASSUME CanCreate
    PROVE  NewAdapter \in Adapters /\ NewAdapter \notin Pooled \cup HeldAdapters
BY DEF CanCreate, NewAdapter

\* What the pool is after an item was acquired, released or replaced in place.
LEMMA ItemWritten ==
    ASSUME pool \in Seq(Items), NEW i \in DOMAIN pool,
           NEW a \in Adapters, NEW b \in BOOLEAN,
           pool' = [pool EXCEPT ![i] = [adapter |-> a, in_use |-> b, aged |-> FALSE]]
    PROVE  /\ pool' \in Seq(Items)
           /\ Len(pool') = Len(pool)
           /\ DOMAIN pool' = DOMAIN pool
           /\ pool'[i].adapter = a /\ pool'[i].in_use = b
           /\ \A j \in DOMAIN pool : j # i => pool'[j] = pool[j]
BY DEF Items

\* An adapter in the pool is an adapter.
LEMMA PooledIsAdapter ==
    ASSUME pool \in Seq(Items), NEW i \in DOMAIN pool
    PROVE  pool[i] \in Items /\ pool[i].adapter \in Adapters
<1>1. pool[i] \in Items
  OBVIOUS
<1> QED
  BY <1>1 DEF Items

\* What the pool is after one item was removed.
LEMMA ItemRemoved ==
    ASSUME pool \in Seq(Items), NEW i \in DOMAIN pool, pool' = Without(i)
    PROVE  /\ pool' \in Seq(Items)
           /\ Len(pool') = Len(pool) - 1
           /\ \A j \in DOMAIN pool' : \E k \in DOMAIN pool : 
                 pool'[j] = pool[k] /\ k = IF j < i THEN j ELSE j + 1
<1>1. Len(pool) \in Nat /\ DOMAIN pool = 1 .. Len(pool) /\ i \in 1 .. Len(pool)
  OBVIOUS
<1>2. \A j \in 1 .. (Len(pool) - 1) : j \in DOMAIN pool /\ j + 1 \in DOMAIN pool
  BY <1>1
<1>3. \A j \in 1 .. (Len(pool) - 1) : pool[j] \in Items /\ pool[j + 1] \in Items
  BY <1>2
<1>4. Len(pool) - 1 \in Nat
  BY <1>1
<1>5. pool' \in [1 .. (Len(pool) - 1) -> Items]
  BY <1>3 DEF Without
<1>6. pool' \in Seq(Items) /\ DOMAIN pool' = 1 .. (Len(pool) - 1)
  BY <1>4, <1>5
<1>7. Len(pool') = Len(pool) - 1
  BY <1>4, <1>5
<1>8. ASSUME NEW j \in DOMAIN pool'
      PROVE  \E k \in DOMAIN pool :
                pool'[j] = pool[k] /\ k = IF j < i THEN j ELSE j + 1
  BY <1>2, <1>6, <1>8 DEF Without
<1> QED
  BY <1>6, <1>7, <1>8

------------------------------------------------------------------------------
\* Handing an adapter out keeps the types.
LEMMA HandOutTypes ==
    ASSUME TypeOK, NEW c \in Clients, NEW i \in DOMAIN pool, NEW a \in Adapters,
           pool' = Acquire(i, a), link' \in [Adapters -> Links], HandOut(c, a)
    PROVE  TypeOK'
<1>1. pool' \in Seq(Items)
  BY ItemWritten DEF Acquire, TypeOK
<1> QED
  BY <1>1 DEF TypeOK, HandOut, Places

\* An empty pool, no adapter held and an armed timer are well formed.
LEMMA InitTypes == Init => TypeOK
BY DEF Init, TypeOK, Links, Places, Timers

\* Every action of get_connection, release_connection, close_all_connections
\* and the cleanup keeps the types, whatever the other invariants.
LEMMA NextTypes == TypeOK /\ [Next]_vars => TypeOK'
<1> SUFFICES ASSUME TypeOK, [Next]_vars
             PROVE  TypeOK'
  OBVIOUS
<1> USE DEF Links
<1>1. ASSUME NEW c \in Clients, CallGet(c) \/ GetFull(c) \/ Retry(c)
      PROVE  TypeOK'
  BY <1>1 DEF CallGet, GetFull, Retry, TypeOK, Places
<1>2. ASSUME NEW c \in Clients, GetIdle(c)
      PROVE  TypeOK'
  <2>1. PICK i \in DOMAIN pool : pool' = Acquire(i, pool[i].adapter) /\ HandOut(c, pool[i].adapter)
    BY <1>2 DEF GetIdle
  <2>2. pool[i].adapter \in Adapters
    BY PooledIsAdapter DEF TypeOK
  <2>3. link' \in [Adapters -> Links]
    BY <1>2 DEF GetIdle, TypeOK
  <2> QED
    BY <2>1, <2>2, <2>3, HandOutTypes
<1>3. ASSUME NEW c \in Clients, GetReconnect(c)
      PROVE  TypeOK'
  <2>1. PICK i \in DOMAIN pool, found \in Links, l \in Links :
           /\ link' = [link EXCEPT ![pool[i].adapter] = l]
           /\ pool' = Acquire(i, pool[i].adapter)
           /\ HandOut(c, pool[i].adapter)
    BY <1>3 DEF GetReconnect
  <2>2. pool[i].adapter \in Adapters
    BY PooledIsAdapter DEF TypeOK
  <2>3. link' \in [Adapters -> Links]
    BY <2>1, <2>2 DEF TypeOK
  <2> QED
    BY <2>1, <2>2, <2>3, HandOutTypes
<1>4. ASSUME NEW c \in Clients, GetReplace(c)
      PROVE  TypeOK'
  <2>1. NewAdapter \in Adapters
    BY <1>4, NewAdapterIsFresh DEF GetReplace
  <2>2. PICK i \in DOMAIN pool, l \in {"open", "closed"} :
           /\ link' = [link EXCEPT ![pool[i].adapter] = "closed", ![NewAdapter] = l]
           /\ pool' = Acquire(i, NewAdapter)
           /\ HandOut(c, NewAdapter)
    BY <1>4 DEF GetReplace
  <2>3. link' \in [Adapters -> Links]
    BY <2>1, <2>2 DEF TypeOK
  <2> QED
    BY <2>1, <2>2, <2>3, HandOutTypes
<1>5. ASSUME NEW c \in Clients, GetReplaceFails(c)
      PROVE  TypeOK'
  <2>1. NewAdapter \in Adapters
    BY <1>5, NewAdapterIsFresh DEF GetReplaceFails
  <2>2. \A i \in DOMAIN pool : pool[i].adapter \in Adapters
    BY PooledIsAdapter DEF TypeOK
  <2>3. PICK i \in DOMAIN pool, n \in Adapters :
           /\ link' = [link EXCEPT ![pool[i].adapter] = "closed", ![n] = "closed"]
           /\ pool' = Release(i, n)
    BY <1>5, <2>1, <2>2 DEF GetReplaceFails
  <2>4. link' \in [Adapters -> Links]
    BY <2>3 DEF TypeOK
  <2>5. pool' \in Seq(Items)
    BY <2>3, ItemWritten DEF Release, TypeOK
  <2> QED
    BY <1>5, <2>4, <2>5 DEF GetReplaceFails, RaiseError, TypeOK, Places
<1>6. ASSUME NEW c \in Clients, GetNew(c)
      PROVE  TypeOK'
  <2>1. NewAdapter \in Adapters
    BY <1>6, NewAdapterIsFresh DEF GetNew
  <2>2. [adapter |-> NewAdapter, in_use |-> TRUE, aged |-> FALSE] \in Items
    BY <2>1 DEF Items
  <2>3. pool' \in Seq(Items)
    BY <1>6, <2>2 DEF GetNew, TypeOK
  <2> QED
    BY <1>6, <2>1, <2>3 DEF GetNew, HandOut, TypeOK, Places
<1>7. ASSUME NEW c \in Clients, GetNewFails(c) \/ TimeOut(c)
      PROVE  TypeOK'
  BY <1>7 DEF GetNewFails, TimeOut, RaiseError, TypeOK, Places
<1>8. ASSUME NEW c \in Clients, ReleaseConnection(c)
      PROVE  TypeOK'
  <2>1. pool' \in Seq(Items)
    <3>1. CASE UNCHANGED pool
      BY <3>1 DEF TypeOK
    <3>2. ASSUME NEW i \in DOMAIN pool, pool[i].adapter = held[c], pool' = Release(i, held[c])
          PROVE  pool' \in Seq(Items)
      BY <3>2, PooledIsAdapter, ItemWritten DEF Release, TypeOK
    <3> QED
      BY <1>8, <3>1, <3>2 DEF ReleaseConnection
  <2> QED
    BY <1>8, <2>1 DEF ReleaseConnection, TypeOK
<1>9. CASE CloseAll
  <2>1. link' \in [Adapters -> Links]
    BY <1>9 DEF CloseAll, TypeOK
  <2> QED
    BY <1>9, <2>1 DEF CloseAll, TypeOK, Timers
<1>10. CASE TimerFires \/ SweepBegin \/ SweepEnd \/ Rearm
  BY <1>10 DEF TimerFires, SweepBegin, SweepEnd, Rearm, TypeOK, Timers
<1>11. CASE SweepItem
  <2>1. PICK i \in DOMAIN pool :
           link' = [link EXCEPT ![pool[i].adapter] = "closed"] /\ pool' = Without(i)
    BY <1>11 DEF SweepItem
  <2>2. pool' \in Seq(Items)
    BY <2>1, ItemRemoved DEF TypeOK
  <2>3. link' \in [Adapters -> Links]
    BY <2>1 DEF TypeOK
  <2> QED
    BY <1>11, <2>2, <2>3 DEF SweepItem, TypeOK
<1>12. ASSUME NEW i \in 1 .. MaxConnections, Age(i)
       PROVE  TypeOK'
  <2>1. i \in DOMAIN pool /\ pool' = [pool EXCEPT ![i].aged = TRUE]
    BY <1>12 DEF Age
  <2>2. [pool[i] EXCEPT !.aged = TRUE] \in Items
    BY <2>1, PooledIsAdapter DEF TypeOK, Items
  <2>3. pool' \in Seq(Items)
    BY <2>1, <2>2 DEF TypeOK
  <2> QED
    BY <1>12, <2>3 DEF Age, TypeOK
<1>13. ASSUME NEW a \in Adapters, LinkChanges(a)
       PROVE  TypeOK'
  BY <1>13 DEF LinkChanges, TypeOK
<1>14. CASE UNCHANGED vars
  BY <1>14 DEF vars, TypeOK
<1> QED
  BY <1>1, <1>2, <1>3, <1>4, <1>5, <1>6, <1>7, <1>8, <1>9, <1>10, <1>11, <1>12, <1>13, <1>14
     DEF Next, Attempt, Cleanup

\* The state of the pool is well formed in every reachable state.
THEOREM TypeCorrect == Spec => []TypeOK
<1>1. Init => TypeOK
  BY InitTypes
<1>2. TypeOK /\ [Next]_vars => TypeOK'
  BY NextTypes
<1> QED
  BY <1>1, <1>2, PTL DEF Spec

------------------------------------------------------------------------------
\* Only held, pool and pc matter to Safe, and of the pool only who owns which
\* adapter.
LEMMA SafeFrame ==
    ASSUME TypeOK, TypeOK', Safe, UNCHANGED held,
           \A c \in Clients : pc'[c] # "out" => held[c] = NoAdapter,
           Len(pool') = Len(pool),
           \A j \in DOMAIN pool : /\ pool'[j].adapter = pool[j].adapter
                                  /\ pool'[j].in_use = pool[j].in_use
    PROVE  Safe'
<1>1. DOMAIN pool = 1 .. Len(pool) /\ DOMAIN pool' = 1 .. Len(pool')
  BY DEF TypeOK
<1>2. HeldAdapters' = HeldAdapters
  BY DEF HeldAdapters
<1>3. NoLeakedSlot'
  BY <1>1, <1>2 DEF Safe, NoLeakedSlot
<1>4. PoolBounded'
  BY <1>1 DEF Safe, PoolBounded
<1>5. ExclusiveLease' /\ SeekersHoldNothing'
  BY DEF Safe, ExclusiveLease, SeekersHoldNothing
<1> QED
  BY <1>3, <1>4, <1>5 DEF Safe

\* A thread that was in get_connection is given an adapter nobody holds.
LEMMA HandOutExclusive ==
    ASSUME TypeOK, Safe, NEW c \in Clients, pc[c] # "out",
           NEW a \in Adapters, a \notin HeldAdapters, HandOut(c, a)
    PROVE  /\ ExclusiveLease' /\ SeekersHoldNothing'
           /\ HeldAdapters' = HeldAdapters \cup {a}
<1>1. held[c] = NoAdapter
  BY DEF Safe, SeekersHoldNothing
<1>2. /\ held'[c] = a /\ pc'[c] = "out"
      /\ \A d \in Clients : d # c => held'[d] = held[d] /\ pc'[d] = pc[d]
  BY DEF HandOut, TypeOK
<1>3. ExclusiveLease'
  BY <1>2 DEF Safe, ExclusiveLease, HeldAdapters
<1>4. SeekersHoldNothing'
  BY <1>2 DEF Safe, SeekersHoldNothing
<1>5. HeldAdapters' = HeldAdapters \cup {a}
  BY <1>1, <1>2, PoolAssumption DEF HeldAdapters
<1> QED
  BY <1>3, <1>4, <1>5

\* An idle item is handed out, with its own adapter or with a fresh one.
LEMMA HandOutIdleSafe ==
    ASSUME TypeOK, Safe, NEW c \in Clients, pc[c] # "out",
           NEW i \in DOMAIN pool, ~pool[i].in_use,
           NEW a \in Adapters, a = pool[i].adapter \/ a \notin Pooled \cup HeldAdapters,
           pool' = Acquire(i, a), HandOut(c, a)
    PROVE  Safe'
<1>1. a \notin HeldAdapters
  BY DEF Safe, NoLeakedSlot
<1>2. /\ ExclusiveLease' /\ SeekersHoldNothing'
      /\ HeldAdapters' = HeldAdapters \cup {a}
  BY <1>1, HandOutExclusive
<1>3. /\ Len(pool') = Len(pool) /\ DOMAIN pool' = DOMAIN pool
      /\ pool'[i].adapter = a /\ pool'[i].in_use = TRUE
      /\ \A j \in DOMAIN pool : j # i => pool'[j] = pool[j]
  BY ItemWritten DEF Acquire, TypeOK
<1>4. \A j \in DOMAIN pool : j # i => pool[j].adapter # a
  BY DEF Safe, PoolBounded, Pooled
<1>5. PoolBounded'
  BY <1>3, <1>4 DEF Safe, PoolBounded
<1>6. NoLeakedSlot'
  BY <1>2, <1>3, <1>4 DEF Safe, NoLeakedSlot
<1> QED
  BY <1>2, <1>5, <1>6 DEF Safe

\* get_connection gives up on an item and leaves it idle, with its own adapter
\* or with a fresh one.
LEMMA GiveUpSafe ==
    ASSUME TypeOK, Safe, NEW c \in Clients, RaiseError(c),
           NEW i \in DOMAIN pool, ~pool[i].in_use,
           NEW a \in Adapters, a = pool[i].adapter \/ a \notin Pooled \cup HeldAdapters,
           pool' = Release(i, a)
    PROVE  Safe'
<1>1. a \notin HeldAdapters
  BY DEF Safe, NoLeakedSlot
<1>2. HeldAdapters' = HeldAdapters
  BY DEF RaiseError, HeldAdapters
<1>3. /\ Len(pool') = Len(pool) /\ DOMAIN pool' = DOMAIN pool
      /\ pool'[i].adapter = a /\ pool'[i].in_use = FALSE
      /\ \A j \in DOMAIN pool : j # i => pool'[j] = pool[j]
  BY ItemWritten DEF Release, TypeOK
<1>4. \A j \in DOMAIN pool : j # i => pool[j].adapter # a
  BY DEF Safe, PoolBounded, Pooled
<1>5. PoolBounded'
  BY <1>3, <1>4 DEF Safe, PoolBounded
<1>6. NoLeakedSlot'
  BY <1>1, <1>2, <1>3 DEF Safe, NoLeakedSlot
<1>7. ExclusiveLease'
  BY DEF RaiseError, Safe, ExclusiveLease
<1>8. SeekersHoldNothing'
  BY DEF RaiseError, Safe, SeekersHoldNothing, TypeOK
<1> QED
  BY <1>5, <1>6, <1>7, <1>8 DEF Safe

\* A new connection is appended and handed out while there is room.
LEMMA GetNewSafe ==
    ASSUME TypeOK, Safe, NEW c \in Clients, GetNew(c)
    PROVE  Safe'
<1>1. NewAdapter \in Adapters /\ NewAdapter \notin Pooled \cup HeldAdapters
  BY NewAdapterIsFresh DEF GetNew
<1>2. pc[c] # "out" /\ HandOut(c, NewAdapter)
  BY DEF GetNew
<1>3. /\ ExclusiveLease' /\ SeekersHoldNothing'
      /\ HeldAdapters' = HeldAdapters \cup {NewAdapter}
  BY <1>1, <1>2, HandOutExclusive
<1>4. [adapter |-> NewAdapter, in_use |-> TRUE, aged |-> FALSE] \in Items
  BY <1>1 DEF Items
<1>5. /\ Len(pool') = Len(pool) + 1
      /\ DOMAIN pool = 1 .. Len(pool) /\ DOMAIN pool' = 1 .. (Len(pool) + 1)
      /\ \A j \in DOMAIN pool : pool'[j] = pool[j]
      /\ pool'[Len(pool) + 1].adapter = NewAdapter
      /\ pool'[Len(pool) + 1].in_use = TRUE
  BY <1>4 DEF GetNew, TypeOK
<1>6. Len(pool) \in Nat /\ Len(pool) < MaxConnections
  BY DEF GetNew, TypeOK
<1>7. \A j \in DOMAIN pool : pool[j].adapter # NewAdapter
  BY <1>1 DEF Pooled
<1>8. \A j \in DOMAIN pool' : j \in DOMAIN pool \/ j = Len(pool) + 1
  BY <1>5, <1>6
<1>9. PoolBounded'
  BY <1>5, <1>6, <1>7, <1>8, PoolAssumption DEF Safe, PoolBounded
<1>10. NoLeakedSlot'
  BY <1>3, <1>5, <1>7, <1>8 DEF Safe, NoLeakedSlot
<1> QED
  BY <1>3, <1>9, <1>10 DEF Safe

\* A release frees the adapter for good: no other thread has it.
LEMMA ReleaseSafe ==
    ASSUME TypeOK, Safe, NEW c \in Clients, ReleaseConnection(c)
    PROVE  Safe'
<1>1. held[c] # NoAdapter /\ held[c] \in Adapters
  BY DEF ReleaseConnection, TypeOK
<1>2. /\ held'[c] = NoAdapter
      /\ \A d \in Clients : d # c => held'[d] = held[d]
  BY DEF ReleaseConnection, TypeOK
<1>3. HeldAdapters' = HeldAdapters \ {held[c]}
  BY <1>1, <1>2 DEF Safe, ExclusiveLease, HeldAdapters
<1>4. ExclusiveLease'
  BY <1>2 DEF Safe, ExclusiveLease
<1>5. SeekersHoldNothing'
  BY <1>2 DEF ReleaseConnection, Safe, SeekersHoldNothing
<1>6. CASE UNCHANGED pool /\ held[c] \notin Pooled
  <2>1. \A i \in DOMAIN pool : pool[i].adapter # held[c]
    BY <1>6 DEF Pooled
  <2>2. NoLeakedSlot' /\ PoolBounded'
    BY <1>3, <1>6, <2>1 DEF Safe, NoLeakedSlot, PoolBounded
  <2> QED
    BY <1>4, <1>5, <2>2 DEF Safe
<1>7. ASSUME NEW i \in DOMAIN pool, pool[i].adapter = held[c], pool' = Release(i, held[c])
      PROVE  Safe'
  <2>1. /\ Len(pool') = Len(pool) /\ DOMAIN pool' = DOMAIN pool
        /\ pool'[i].adapter = held[c] /\ pool'[i].in_use = FALSE
        /\ \A j \in DOMAIN pool : j # i => pool'[j] = pool[j]
    BY <1>1, <1>7, ItemWritten DEF Release, TypeOK
  <2>2. \A j \in DOMAIN pool : j # i => pool[j].adapter # held[c]
    BY <1>7 DEF Safe, PoolBounded
  <2>3. NoLeakedSlot'
    BY <1>3, <2>1, <2>2 DEF Safe, NoLeakedSlot
  <2>4. PoolBounded'
    BY <2>1, <2>2 DEF Safe, PoolBounded
  <2> QED
    BY <1>4, <1>5, <2>3, <2>4 DEF Safe
<1> QED
  BY <1>6, <1>7 DEF ReleaseConnection

\* The sweep removes an item; the others keep their adapters.
LEMMA SweepItemSafe ==
    ASSUME TypeOK, Safe, SweepItem
    PROVE  Safe'
<1>1. PICK i \in DOMAIN pool : pool' = Without(i)
  BY DEF SweepItem
<1>2. /\ pool' \in Seq(Items)
      /\ Len(pool') = Len(pool) - 1
      /\ \A j \in DOMAIN pool' : \E k \in DOMAIN pool :
            pool'[j] = pool[k] /\ k = IF j < i THEN j ELSE j + 1
  BY <1>1, ItemRemoved DEF TypeOK
<1>3. DOMAIN pool = 1 .. Len(pool) /\ DOMAIN pool' = 1 .. Len(pool') /\ Len(pool) \in Nat
  BY <1>2 DEF TypeOK
<1>4. UNCHANGED <<held, pc>>
  BY DEF SweepItem
<1>5. HeldAdapters' = HeldAdapters
  BY <1>4 DEF HeldAdapters
<1>6. NoLeakedSlot'
  BY <1>2, <1>5 DEF Safe, NoLeakedSlot
<1>7. ASSUME NEW j \in DOMAIN pool', NEW m \in DOMAIN pool',
             pool'[j].adapter = pool'[m].adapter
      PROVE  j = m
  <2>1. PICK k \in DOMAIN pool : pool'[j] = pool[k] /\ k = IF j < i THEN j ELSE j + 1
    BY <1>2
  <2>2. PICK n \in DOMAIN pool : pool'[m] = pool[n] /\ n = IF m < i THEN m ELSE m + 1
    BY <1>2
  <2>3. k = n
    BY <1>7, <2>1, <2>2 DEF Safe, PoolBounded
  <2> QED
    BY <1>1, <1>3, <2>1, <2>2, <2>3
<1>8. PoolBounded'
  BY <1>2, <1>3, <1>7, PoolAssumption DEF Safe, PoolBounded
<1>9. ExclusiveLease' /\ SeekersHoldNothing'
  BY <1>4 DEF Safe, ExclusiveLease, SeekersHoldNothing
<1> QED
  BY <1>6, <1>8, <1>9 DEF Safe

\* A pool that has just been constructed satisfies the invariant.
LEMMA InitSafe == Init => Safe
<1> SUFFICES ASSUME Init
             PROVE  Safe
  OBVIOUS
<1>1. ExclusiveLease /\ SeekersHoldNothing
  BY DEF Init, ExclusiveLease, SeekersHoldNothing
<1>2. pool = <<>> /\ Len(pool) = 0 /\ DOMAIN pool = {}
  BY DEF Init
<1>3. NoLeakedSlot /\ PoolBounded
  BY <1>2, PoolAssumption DEF NoLeakedSlot, PoolBounded
<1> QED
  BY <1>1, <1>3 DEF Safe

\* No operation of the pool breaks any of the three, in whatever order the
\* threads and the cleanup take the lock.
LEMMA NextSafe == TypeOK /\ Safe /\ [Next]_vars => Safe'
<1> SUFFICES ASSUME TypeOK, Safe, [Next]_vars
             PROVE  Safe'
  OBVIOUS
<1>0. TypeOK'
  BY NextTypes
<1>1. ASSUME NEW c \in Clients, CallGet(c) \/ GetFull(c) \/ Retry(c)
      PROVE  Safe'
  <2>1. UNCHANGED <<pool, held>>
    BY <1>1 DEF CallGet, GetFull, Retry
  <2>2. \A d \in Clients : pc'[d] # "out" => held[d] = NoAdapter
    BY <1>1 DEF CallGet, GetFull, Retry, Safe, SeekersHoldNothing, TypeOK
  <2> QED
    BY <1>0, <2>1, <2>2, SafeFrame
<1>2. ASSUME NEW c \in Clients, GetIdle(c)
      PROVE  Safe'
  <2>1. PICK i \in DOMAIN pool :
           /\ ~pool[i].in_use
           /\ pool' = Acquire(i, pool[i].adapter)
           /\ HandOut(c, pool[i].adapter)
    BY <1>2 DEF GetIdle, FirstIdle
  <2>2. pool[i].adapter \in Adapters /\ pc[c] # "out"
    BY <1>2, PooledIsAdapter DEF GetIdle, TypeOK
  <2> QED
    BY <2>1, <2>2, HandOutIdleSafe
<1>3. ASSUME NEW c \in Clients, GetReconnect(c)
      PROVE  Safe'
  <2>1. PICK i \in DOMAIN pool :
           /\ ~pool[i].in_use
           /\ pool' = Acquire(i, pool[i].adapter)
           /\ HandOut(c, pool[i].adapter)
    BY <1>3 DEF GetReconnect, FirstIdle
  <2>2. pool[i].adapter \in Adapters /\ pc[c] # "out"
    BY <1>3, PooledIsAdapter DEF GetReconnect, TypeOK
  <2> QED
    BY <2>1, <2>2, HandOutIdleSafe
<1>4. ASSUME NEW c \in Clients, GetReplace(c)
      PROVE  Safe'
  <2>1. PICK i \in DOMAIN pool :
           /\ ~pool[i].in_use
           /\ pool' = Acquire(i, NewAdapter)
           /\ HandOut(c, NewAdapter)
    BY <1>4 DEF GetReplace, FirstIdle
  <2>2. NewAdapter \in Adapters /\ NewAdapter \notin Pooled \cup HeldAdapters
    BY <1>4, NewAdapterIsFresh DEF GetReplace
  <2>3. pc[c] # "out"
    BY <1>4 DEF GetReplace
  <2> QED
    BY <2>1, <2>2, <2>3, HandOutIdleSafe
<1>5. ASSUME NEW c \in Clients, GetReplaceFails(c)
      PROVE  Safe'
  <2>1. NewAdapter \in Adapters /\ NewAdapter \notin Pooled \cup HeldAdapters
    BY <1>5, NewAdapterIsFresh DEF GetReplaceFails
  <2>2. \A i \in DOMAIN pool : pool[i].adapter \in Adapters
    BY PooledIsAdapter DEF TypeOK
  <2>3. PICK i \in DOMAIN pool, n \in Adapters :
           /\ n = pool[i].adapter \/ n = NewAdapter
           /\ ~pool[i].in_use
           /\ pool' = Release(i, n)
    BY <1>5, <2>1, <2>2 DEF GetReplaceFails, FirstIdle
  <2>4. RaiseError(c)
    BY <1>5 DEF GetReplaceFails
  <2> QED
    BY <2>1, <2>3, <2>4, GiveUpSafe
<1>6. ASSUME NEW c \in Clients, GetNew(c)
      PROVE  Safe'
  BY <1>6, GetNewSafe
<1>7. ASSUME NEW c \in Clients, GetNewFails(c) \/ TimeOut(c)
      PROVE  Safe'
  <2>1. UNCHANGED <<pool, held>>
    BY <1>7 DEF GetNewFails, TimeOut, RaiseError
  <2>2. \A d \in Clients : pc'[d] # "out" => held[d] = NoAdapter
    BY <1>7 DEF GetNewFails, TimeOut, RaiseError, Safe, SeekersHoldNothing, TypeOK
  <2> QED
    BY <1>0, <2>1, <2>2, SafeFrame
<1>8. ASSUME NEW c \in Clients, ReleaseConnection(c)
      PROVE  Safe'
  BY <1>8, ReleaseSafe
<1>9. CASE CloseAll
  <2>1. pool' = <<>> /\ Len(pool') = 0 /\ DOMAIN pool' = {}
    BY <1>9 DEF CloseAll
  <2>2. NoLeakedSlot' /\ PoolBounded'
    BY <2>1, PoolAssumption DEF NoLeakedSlot, PoolBounded
  <2>3. ExclusiveLease' /\ SeekersHoldNothing'
    BY <1>9 DEF CloseAll, Safe, ExclusiveLease, SeekersHoldNothing
  <2> QED
    BY <2>2, <2>3 DEF Safe
<1>10. CASE TimerFires \/ SweepBegin \/ SweepEnd \/ Rearm
  <2>1. UNCHANGED <<pool, held, pc>>
    BY <1>10 DEF TimerFires, SweepBegin, SweepEnd, Rearm
  <2> QED
    BY <1>0, <2>1, SafeFrame DEF Safe, SeekersHoldNothing
<1>11. CASE SweepItem
  BY <1>11, SweepItemSafe
<1>12. ASSUME NEW i \in 1 .. MaxConnections, Age(i)
       PROVE  Safe'
  <2>1. i \in DOMAIN pool /\ pool' = [pool EXCEPT ![i].aged = TRUE] /\ UNCHANGED <<held, pc>>
    BY <1>12 DEF Age
  <2>2. \A j \in DOMAIN pool : pool[j] \in Items
    BY PooledIsAdapter DEF TypeOK
  <2>3. Len(pool') = Len(pool)
    BY <2>1 DEF TypeOK
  <2>4. \A j \in DOMAIN pool : /\ pool'[j].adapter = pool[j].adapter
                               /\ pool'[j].in_use = pool[j].in_use
    BY <2>1, <2>2 DEF Items
  <2> QED
    BY <1>0, <2>1, <2>3, <2>4, SafeFrame DEF Safe, SeekersHoldNothing
<1>13. ASSUME NEW a \in Adapters, LinkChanges(a)
       PROVE  Safe'
  <2>1. UNCHANGED <<pool, held, pc>>
    BY <1>13 DEF LinkChanges
  <2> QED
    BY <1>0, <2>1, SafeFrame DEF Safe, SeekersHoldNothing
<1>14. CASE UNCHANGED vars
  <2>1. UNCHANGED <<pool, held, pc>>
    BY <1>14 DEF vars
  <2> QED
    BY <1>0, <2>1, SafeFrame DEF Safe, SeekersHoldNothing
<1> QED
  BY <1>1, <1>2, <1>3, <1>4, <1>5, <1>6, <1>7, <1>8, <1>9, <1>10, <1>11, <1>12, <1>13, <1>14
     DEF Next, Attempt, Cleanup

\* The inductive invariant holds in every reachable state.
THEOREM Safety == Spec => []Safe
<1>1. Init => TypeOK /\ Safe
  BY InitTypes, InitSafe
<1>2. TypeOK /\ Safe /\ [Next]_vars => TypeOK' /\ Safe'
  BY NextTypes, NextSafe
<1> QED
  BY <1>1, <1>2, PTL DEF Spec

\* No two threads ever hold the same connection (get_connection).
THEOREM LeasesAreExclusive == Spec => []ExclusiveLease
<1>1. Safe => ExclusiveLease
  BY DEF Safe
<1> QED
  BY <1>1, Safety, PTL

\* No error path of get_connection, and no release, leaves an item marked in_use
\* that nobody holds, or offers an item somebody holds.
THEOREM SlotsAreNotLeaked == Spec => []NoLeakedSlot
<1>1. Safe => NoLeakedSlot
  BY DEF Safe
<1> QED
  BY <1>1, Safety, PTL

\* The pool never has more than max_connections items, nor one adapter twice.
THEOREM PoolIsBounded == Spec => []PoolBounded
<1>1. Safe => PoolBounded
  BY DEF Safe
<1> QED
  BY <1>1, Safety, PTL

------------------------------------------------------------------------------
\* A list of at most n items has at most n adapters.
LEMMA AdaptersBounded ==
    ASSUME NEW q \in Seq(Items), NEW n \in Nat, Len(q) <= n
    PROVE  Cardinality({q[i].adapter : i \in DOMAIN q}) <= n
<1> DEFINE A == {q[i].adapter : i \in DOMAIN q}
           f == [i \in 1 .. Len(q) |-> q[i].adapter]
<1>1. Len(q) \in Nat /\ DOMAIN q = 1 .. Len(q)
  OBVIOUS
<1>2. f \in Surjection(1 .. Len(q), A)
  BY <1>1 DEF Surjection
<1>3. IsFiniteSet(1 .. Len(q)) /\ Cardinality(1 .. Len(q)) = Len(q)
  <2>1. 1 \in Int /\ Len(q) \in Int
    BY <1>1
  <2>2. /\ IsFiniteSet(1 .. Len(q))
        /\ Cardinality(1 .. Len(q)) = IF 1 > Len(q) THEN 0 ELSE Len(q) - 1 + 1
    BY <2>1, FS_Interval, Zenon
  <2> QED
    BY <1>1, <2>2
<1>4. IsFiniteSet(A) /\ Cardinality(A) <= Len(q)
  BY <1>2, <1>3, FS_Surjection
<1>5. Cardinality(A) \in Nat
  BY <1>4, FS_CardinalityType
<1> QED
  BY <1>1, <1>4, <1>5

\* The pool's adapters after one item was written in place: its old adapter is
\* gone unless it was written back.
LEMMA PooledAfterWrite ==
    ASSUME TypeOK, Safe, NEW i \in DOMAIN pool, NEW a \in Adapters, NEW b \in BOOLEAN,
           pool' = [pool EXCEPT ![i] = [adapter |-> a, in_use |-> b, aged |-> FALSE]]
    PROVE  Pooled' = (Pooled \ {pool[i].adapter}) \cup {a}
<1>1. /\ DOMAIN pool' = DOMAIN pool
      /\ pool'[i].adapter = a
      /\ \A j \in DOMAIN pool : j # i => pool'[j] = pool[j]
  BY ItemWritten DEF TypeOK
<1>2. \A j \in DOMAIN pool : j # i => pool[j].adapter # pool[i].adapter
  BY DEF Safe, PoolBounded
<1> QED
  BY <1>1, <1>2 DEF Pooled

\* The pool keeps within what the lease specification lets it turn over.
LEMMA TurnsOver ==
    ASSUME TypeOK', Safe',
           Pooled \cap HeldAdapters \subseteq Pooled',
           Pooled' \cap HeldAdapters \subseteq Pooled
    PROVE  Abstract!Turnover
<1>1. pool' \in Seq(Items) /\ Len(pool') <= MaxConnections
  BY DEF TypeOK, Safe, PoolBounded
<1>2. Cardinality(Pooled') <= MaxConnections
  BY <1>1, AdaptersBounded, PoolAssumption DEF Pooled
<1>3. \A j \in DOMAIN pool' : pool'[j].adapter \in Adapters
  <2>1. \A j \in DOMAIN pool' : pool'[j] \in Items
    BY <1>1
  <2> QED
    BY <2>1 DEF Items
<1>4. Pooled' \subseteq Adapters
  BY <1>3 DEF Pooled
<1> QED
  BY <1>2, <1>4
     DEF Abstract!Turnover, Abstract!Leased, Abstract!Cardinality, Cardinality, HeldAdapters

\* Handing out an idle item's adapter, or a fresh one in its place, is a Grant.
LEMMA HandOutGrants ==
    ASSUME TypeOK, Safe, TypeOK', Safe', NEW c \in Clients, pc[c] # "out",
           NEW i \in DOMAIN pool, ~pool[i].in_use,
           NEW a \in Adapters, a = pool[i].adapter \/ a \notin Pooled \cup HeldAdapters,
           pool' = Acquire(i, a), HandOut(c, a)
    PROVE  Abstract!Grant(c, a)
<1>1. pool[i].adapter \notin HeldAdapters /\ a \notin HeldAdapters
  BY DEF Safe, NoLeakedSlot
<1>2. Pooled' = (Pooled \ {pool[i].adapter}) \cup {a}
  BY PooledAfterWrite DEF Acquire
<1>3. Abstract!Turnover
  BY <1>1, <1>2, TurnsOver
<1>4. held[c] = NoAdapter /\ held' = [held EXCEPT ![c] = a]
  BY DEF Safe, SeekersHoldNothing, HandOut
<1> QED
  BY <1>1, <1>2, <1>3, <1>4 DEF Abstract!Grant, Abstract!Leased, HeldAdapters

\* A step that changes neither leases nor the pool's adapters is a stutter.
LEMMA KeepsLeases ==
    ASSUME UNCHANGED <<pool, held>>
    PROVE  UNCHANGED Abstract!leaseVars
BY DEF Abstract!leaseVars, Pooled

\* Every step of the pool is a step of the lease specification or a stutter.
LEMMA StepRefines ==
    TypeOK /\ Safe /\ [Next]_vars => [Abstract!LeaseNext]_(Abstract!leaseVars)
<1> SUFFICES ASSUME TypeOK, Safe, [Next]_vars
             PROVE  [Abstract!LeaseNext]_(Abstract!leaseVars)
  OBVIOUS
<1>0. TypeOK' /\ Safe'
  BY NextTypes, NextSafe
<1>1. ASSUME NEW c \in Clients,
             CallGet(c) \/ GetFull(c) \/ Retry(c) \/ GetNewFails(c) \/ TimeOut(c)
      PROVE  UNCHANGED Abstract!leaseVars
  BY <1>1, KeepsLeases DEF CallGet, GetFull, Retry, GetNewFails, TimeOut, RaiseError
<1>2. ASSUME NEW c \in Clients, GetIdle(c) \/ GetReconnect(c)
      PROVE  Abstract!LeaseNext
  <2>1. PICK i \in DOMAIN pool :
           /\ ~pool[i].in_use
           /\ pool' = Acquire(i, pool[i].adapter)
           /\ HandOut(c, pool[i].adapter)
    BY <1>2 DEF GetIdle, GetReconnect, FirstIdle
  <2>2. pool[i].adapter \in Adapters /\ pc[c] # "out"
    BY <1>2, PooledIsAdapter DEF GetIdle, GetReconnect, TypeOK
  <2>3. Abstract!Grant(c, pool[i].adapter)
    BY <1>0, <2>1, <2>2, HandOutGrants
  <2> QED
    BY <2>2, <2>3 DEF Abstract!LeaseNext
<1>3. ASSUME NEW c \in Clients, GetReplace(c)
      PROVE  Abstract!LeaseNext
  <2>1. PICK i \in DOMAIN pool :
           /\ ~pool[i].in_use
           /\ pool' = Acquire(i, NewAdapter)
           /\ HandOut(c, NewAdapter)
    BY <1>3 DEF GetReplace, FirstIdle
  <2>2. /\ NewAdapter \in Adapters /\ NewAdapter \notin Pooled \cup HeldAdapters
        /\ pc[c] # "out"
    BY <1>3, NewAdapterIsFresh DEF GetReplace
  <2>3. Abstract!Grant(c, NewAdapter)
    BY <1>0, <2>1, <2>2, HandOutGrants
  <2> QED
    BY <2>2, <2>3 DEF Abstract!LeaseNext
<1>4. ASSUME NEW c \in Clients, GetReplaceFails(c)
      PROVE  Abstract!LeaseNext
  <2>1. NewAdapter \in Adapters /\ NewAdapter \notin Pooled \cup HeldAdapters
    BY <1>4, NewAdapterIsFresh DEF GetReplaceFails
  <2>2. \A i \in DOMAIN pool : pool[i].adapter \in Adapters
    BY PooledIsAdapter DEF TypeOK
  <2>3. PICK i \in DOMAIN pool, n \in Adapters :
           /\ n = pool[i].adapter \/ n = NewAdapter
           /\ ~pool[i].in_use
           /\ pool' = Release(i, n)
    BY <1>4, <2>1, <2>2 DEF GetReplaceFails, FirstIdle
  <2>4. Pooled' = (Pooled \ {pool[i].adapter}) \cup {n}
    BY <2>3, PooledAfterWrite DEF Release
  <2>5. pool[i].adapter \notin HeldAdapters /\ n \notin HeldAdapters
    BY <2>1, <2>3 DEF Safe, NoLeakedSlot
  <2>6. Abstract!Turnover
    BY <1>0, <2>4, <2>5, TurnsOver
  <2>7. UNCHANGED held
    BY <1>4 DEF GetReplaceFails, RaiseError
  <2> QED
    BY <2>6, <2>7 DEF Abstract!Maintain, Abstract!LeaseNext
<1>5. ASSUME NEW c \in Clients, GetNew(c)
      PROVE  Abstract!LeaseNext
  <2>1. NewAdapter \in Adapters /\ NewAdapter \notin Pooled \cup HeldAdapters
    BY <1>5, NewAdapterIsFresh DEF GetNew
  <2>2. /\ held[c] = NoAdapter
        /\ held' = [held EXCEPT ![c] = NewAdapter]
        /\ pool' = Append(pool, [adapter |-> NewAdapter, in_use |-> TRUE, aged |-> FALSE])
    BY <1>5 DEF GetNew, HandOut, Safe, SeekersHoldNothing
  <2>3. /\ DOMAIN pool = 1 .. Len(pool) /\ DOMAIN pool' = 1 .. (Len(pool) + 1)
        /\ Len(pool) \in Nat
        /\ \A j \in DOMAIN pool : pool'[j] = pool[j]
        /\ pool'[Len(pool) + 1].adapter = NewAdapter
    <3>1. [adapter |-> NewAdapter, in_use |-> TRUE, aged |-> FALSE] \in Items
      BY <2>1 DEF Items
    <3> QED
      BY <2>2, <3>1 DEF TypeOK
  <2>4. Pooled' = Pooled \cup {NewAdapter}
    BY <2>3 DEF Pooled
  <2>5. Abstract!Turnover
    BY <1>0, <2>1, <2>4, TurnsOver
  <2>6. Abstract!Grant(c, NewAdapter)
    BY <2>1, <2>2, <2>4, <2>5 DEF Abstract!Grant, Abstract!Leased, HeldAdapters
  <2> QED
    BY <2>1, <2>6 DEF Abstract!LeaseNext
<1>6. ASSUME NEW c \in Clients, ReleaseConnection(c)
      PROVE  Abstract!LeaseNext
  <2>1. held' = [held EXCEPT ![c] = NoAdapter]
    BY <1>6 DEF ReleaseConnection
  <2>2. Pooled' = Pooled
    <3>1. CASE UNCHANGED pool
      BY <3>1 DEF Pooled
    <3>2. ASSUME NEW i \in DOMAIN pool, pool[i].adapter = held[c], pool' = Release(i, held[c])
          PROVE  Pooled' = Pooled
      <4>1. held[c] \in Adapters
        BY <3>2, PooledIsAdapter DEF TypeOK
      <4>2. Pooled' = (Pooled \ {pool[i].adapter}) \cup {held[c]}
        BY <3>2, <4>1, PooledAfterWrite DEF Release
      <4> QED
        BY <3>2, <4>2 DEF Pooled
    <3> QED
      BY <1>6, <3>1, <3>2 DEF ReleaseConnection
  <2> QED
    BY <2>1, <2>2 DEF Abstract!Return, Abstract!LeaseNext
<1>7. CASE CloseAll
  <2>1. pool' = <<>> /\ held' = held
    BY <1>7 DEF CloseAll
  <2>2. Pooled' = {}
    BY <2>1 DEF Pooled
  <2> QED
    BY <2>1, <2>2 DEF Abstract!Shutdown, Abstract!LeaseNext
<1>8. CASE SweepItem
  <2>1. PICK i \in DOMAIN pool : Reapable(pool[i]) /\ pool' = Without(i)
    BY <1>8 DEF SweepItem
  <2>2. pool[i].adapter \notin HeldAdapters
    BY <2>1 DEF Reapable, Safe, NoLeakedSlot
  <2>3. /\ Len(pool) \in Nat /\ DOMAIN pool = 1 .. Len(pool)
        /\ DOMAIN pool' = 1 .. (Len(pool) - 1)
        /\ \A j \in 1 .. (Len(pool) - 1) : pool'[j] = IF j < i THEN pool[j] ELSE pool[j + 1]
    BY <2>1 DEF Without, TypeOK
  <2>4. Pooled' \subseteq Pooled
    <3>1. ASSUME NEW j \in DOMAIN pool'
          PROVE  pool'[j].adapter \in Pooled
      <4>1. \E k \in DOMAIN pool : pool'[j] = pool[k]
        BY <2>1, ItemRemoved DEF TypeOK
      <4> QED
        BY <4>1 DEF Pooled
    <3> QED
      BY <3>1 DEF Pooled
  <2>5. Pooled \subseteq Pooled' \cup {pool[i].adapter}
    <3>1. ASSUME NEW j \in DOMAIN pool, j # i
          PROVE  pool[j].adapter \in Pooled'
      <4>1. CASE j < i
        BY <2>1, <2>3, <3>1, <4>1 DEF Pooled
      <4>2. CASE j > i
        <5>1. j - 1 \in DOMAIN pool' /\ pool'[j - 1] = pool[j]
          BY <2>1, <2>3, <3>1, <4>2
        <5> QED
          BY <5>1 DEF Pooled
      <4> QED
        BY <2>3, <3>1, <4>1, <4>2
    <3> QED
      BY <3>1 DEF Pooled
  <2>6. Abstract!Turnover
    BY <1>0, <2>2, <2>4, <2>5, TurnsOver
  <2>7. UNCHANGED held
    BY <1>8 DEF SweepItem
  <2> QED
    BY <2>6, <2>7 DEF Abstract!Maintain, Abstract!LeaseNext
<1>9. CASE TimerFires \/ SweepBegin \/ SweepEnd \/ Rearm
  BY <1>9, KeepsLeases DEF TimerFires, SweepBegin, SweepEnd, Rearm
<1>10. ASSUME NEW i \in 1 .. MaxConnections, Age(i)
       PROVE  UNCHANGED Abstract!leaseVars
  <2>1. i \in DOMAIN pool /\ pool' = [pool EXCEPT ![i].aged = TRUE] /\ UNCHANGED held
    BY <1>10 DEF Age
  <2>2. \A j \in DOMAIN pool : pool[j] \in Items
    BY PooledIsAdapter DEF TypeOK
  <2>3. DOMAIN pool' = DOMAIN pool /\ \A j \in DOMAIN pool : pool'[j].adapter = pool[j].adapter
    BY <2>1, <2>2 DEF Items
  <2>4. Pooled' = Pooled
    BY <2>3 DEF Pooled
  <2> QED
    BY <2>1, <2>4 DEF Abstract!leaseVars
<1>11. ASSUME NEW a \in Adapters, LinkChanges(a)
       PROVE  UNCHANGED Abstract!leaseVars
  BY <1>11, KeepsLeases DEF LinkChanges
<1>12. CASE UNCHANGED vars
  BY <1>12, KeepsLeases DEF vars
<1> QED
  BY <1>1, <1>2, <1>3, <1>4, <1>5, <1>6, <1>7, <1>8, <1>9, <1>10, <1>11, <1>12
     DEF Next, Attempt, Cleanup

\* The pool implements the lease specification, whatever the adapters, their
\* devices and the cleanup do.
THEOREM PoolImplementsLeases == Spec => ImplementsLeasePool
<1>1. Init => Abstract!LeaseInit
  BY DEF Init, Abstract!LeaseInit, Pooled
<1>2. TypeOK /\ Safe /\ [Next]_vars => [Abstract!LeaseNext]_(Abstract!leaseVars)
  BY StepRefines
<1> QED
  BY <1>1, <1>2, TypeCorrect, Safety, PTL DEF Spec, ImplementsLeasePool, Abstract!LeaseSpec


------------------------------------------------------------------------------
\* A step closes no connection that stays with a thread, unless it closes all.
DisconnectsNone ==
    \A c \in Clients :
       /\ held[c] # NoAdapter /\ held'[c] = held[c]
       /\ link[held[c]] # "closed" /\ link'[held[c]] = "closed"
       => CloseAll

\* What is closed belongs to an item that is not in use, which no thread holds, or
\* is an object just made.
LEMMA StepDisconnectsNone == TypeOK /\ Safe /\ [Next]_vars => DisconnectsNone
<1> SUFFICES ASSUME TypeOK, Safe, [Next]_vars, NEW d \in Clients, held[d] # NoAdapter,
                    link[held[d]] # "closed", link'[held[d]] = "closed", ~CloseAll
             PROVE  FALSE
  BY DEF DisconnectsNone
<1> DEFINE mine == held[d]
<1>1. mine \in Adapters /\ mine \in HeldAdapters
  BY DEF TypeOK, HeldAdapters
<1>2. link' # link /\ link'[mine] # link[mine]
  OBVIOUS
<1>3. \A i \in DOMAIN pool : ~pool[i].in_use => pool[i].adapter # mine
  BY <1>1 DEF Safe, NoLeakedSlot
<1>4. CanCreate => NewAdapter # mine
  BY <1>1, NewAdapterIsFresh
<1> HIDE DEF mine
<1>5. ASSUME NEW c \in Clients, GetReconnect(c)
      PROVE  FALSE
  BY <1>2, <1>3, <1>5 DEF GetReconnect, FirstIdle, TypeOK
<1>6. ASSUME NEW c \in Clients, GetReplace(c)
      PROVE  FALSE
  <2>1. CanCreate /\ NewAdapter # mine
    BY <1>4, <1>6 DEF GetReplace
  <2>2. PICK i \in DOMAIN pool, l \in {"open", "closed"} :
           /\ ~pool[i].in_use
           /\ link' = [link EXCEPT ![pool[i].adapter] = "closed", ![NewAdapter] = l]
    BY <1>6 DEF GetReplace, FirstIdle
  <2> QED
    BY <1>1, <1>2, <1>3, <2>1, <2>2 DEF TypeOK
<1>7. ASSUME NEW c \in Clients, GetReplaceFails(c)
      PROVE  FALSE
  <2>1. CanCreate /\ NewAdapter # mine
    BY <1>4, <1>7 DEF GetReplaceFails
  <2>2. PICK i \in DOMAIN pool :
           /\ ~pool[i].in_use
           /\ \E n \in {pool[i].adapter, NewAdapter} :
                link' = [link EXCEPT ![pool[i].adapter] = "closed", ![n] = "closed"]
    BY <1>7 DEF GetReplaceFails, FirstIdle
  <2> QED
    BY <1>1, <1>2, <1>3, <2>1, <2>2 DEF TypeOK
<1>8. ASSUME NEW c \in Clients, GetNew(c)
      PROVE  FALSE
  BY <1>2, <1>4, <1>8 DEF GetNew, TypeOK
<1>9. CASE SweepItem
  BY <1>2, <1>3, <1>9 DEF SweepItem, Reapable, TypeOK
<1>10. ASSUME NEW a \in Adapters, LinkChanges(a)
       PROVE  FALSE
  <2>1. link' = [link EXCEPT ![a] = "silent"] \/ link' = [link EXCEPT ![a] = "open"]
    BY <1>10 DEF LinkChanges
  <2>2. link'[mine] = "closed"
    BY DEF mine
  <2> QED
    BY <1>1, <1>2, <2>1, <2>2 DEF TypeOK
<1>11. \A c \in Clients : /\ ~CallGet(c) /\ ~GetIdle(c) /\ ~GetNewFails(c) /\ ~GetFull(c)
                          /\ ~Retry(c) /\ ~TimeOut(c) /\ ~ReleaseConnection(c)
  BY <1>2 DEF CallGet, GetIdle, GetNewFails, GetFull, Retry, TimeOut, ReleaseConnection
<1>12. /\ ~TimerFires /\ ~SweepBegin /\ ~SweepEnd /\ ~Rearm /\ ~UNCHANGED vars
       /\ \A i \in 1 .. MaxConnections : ~Age(i)
  BY <1>2 DEF TimerFires, SweepBegin, SweepEnd, Rearm, Age, vars
<1> QED
  BY <1>5, <1>6, <1>7, <1>8, <1>9, <1>10, <1>11, <1>12 DEF Next, Attempt, Cleanup

\* A connection a thread is using is closed under it by close_all_connections
\* only: never by the idle cleanup, nor by another thread's get_connection.
THEOREM NothingClosedInUse == Spec => NoForeignDisconnect
<1>1. TypeOK /\ Safe /\ [Next]_vars => [DisconnectsNone]_vars
  BY StepDisconnectsNone
<1> QED
  BY <1>1, TypeCorrect, Safety, PTL DEF Spec, NoForeignDisconnect, DisconnectsNone
=============================================================================
