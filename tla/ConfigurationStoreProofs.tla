------------------------ MODULE ConfigurationStoreProofs ------------------------
(***************************************************************************)
(* Proofs about ConfigurationStore, for any workers, values, environments  *)
(* and bounds: type correctness, one active row per environment, a history *)
(* entry for every value, and that the table and its history are those of  *)
(* an audited key.                                                         *)
(***************************************************************************)
EXTENDS ConfigurationStore, FiniteSetTheorems, TLAPS

\* Rows are never taken out of the table: the one a request has loaded is still
\* there.  It was active when it was loaded.
RequestsHoldRows ==
    \A w \in Workers :
        pc[w] \in {"update", "deactivate"} =>
        /\ req[w].row \in Rows /\ There(req[w].row)
        /\ req[w].loaded \in Row /\ req[w].loaded.active = TRUE

\* Two rows are active in one environment only if they are one.
OnlyActive == \A r, s \in Active : rows[r].env = rows[s].env => r = s

\* The history of a row has a value.
Traced(r, v) == \E h \in history : h.row = r /\ h.value = v

\* The value a request loaded before it writes is in the history of its row.
LoadedInHistory ==
    \A w \in Workers :
        pc[w] \in {"update", "deactivate"} => Traced(req[w].row, req[w].loaded.value)

\* A version counts requests that have begun: an active row's at most all of
\* them, and the row an update has loaded not the update itself.
VersionsCounted ==
    /\ \A r \in Active : rows[r].version <= ops
    /\ \A w \in Workers :
          /\ pc[w] = "insert" => ops > 0
          /\ pc[w] = "update" => req[w].loaded.version < ops

\* The inductive invariant.
Sound ==
    /\ TypeOK
    /\ RequestsHoldRows
    /\ OnlyActive
    /\ ValueInHistory
    /\ LoadedInHistory
    /\ VersionsCounted

\* What a request may commit: a new row with the value it traces, or a row that is
\* there, not brought back to life, which takes the traced value or keeps its own.
Fits(r, row, value) ==
    \/ ~There(r) /\ row.value = value
    \/ /\ There(r)
       /\ row.active => r \in Active
       /\ row.value = value \/ (row.value = rows[r].value /\ Traced(r, value))

------------------------------------------------------------------------------
\* A row that is there is a row of the table, not the mark of an unused one.
LEMMA ThereIsRow ==
    ASSUME TypeOK, NEW r \in Rows
    PROVE  There(r) <=> rows[r] \in Row
<1>1. rows[r] \in Row \/ rows[r] = NoRow
  BY DEF TypeOK
<1>2. rows[r] \in Row => rows[r].there = TRUE
  BY DEF Row
<1>3. NoRow.there = FALSE
  BY DEF NoRow
<1> QED
  BY <1>1, <1>2, <1>3 DEF There

\* The session merges columns of rows, and the result is a row.
LEMMA WrittenIsRow ==
    ASSUME NEW r \in Rows, rows[r] \in Row, NEW loaded \in Row, NEW new \in Row
    PROVE  /\ Written(loaded, new, r) \in Row
           /\ new.value = loaded.value => Written(loaded, new, r).value = rows[r].value
           /\ new.value # loaded.value => Written(loaded, new, r).value = new.value
           /\ new.active = loaded.active => Written(loaded, new, r).active = rows[r].active
           /\ new.active # loaded.active => Written(loaded, new, r).active = new.active
           /\ new.version = loaded.version => Written(loaded, new, r).version = rows[r].version
           /\ new.version # loaded.version => Written(loaded, new, r).version = new.version
BY DEF Written, Column, Row

\* Versions are numbers.
LEMMA VersionIsNat ==
    ASSUME NEW row \in Row
    PROVE  row.version \in Nat
<1> USE StoreAssumption
<1>1. row.version \in Versions
  BY DEF Row
<1> QED
  BY <1>1 DEF Versions

\* Something can be asked for.
LEMMA NoRequestIsRequest == NoRequest \in Request
<1> USE StoreAssumption
<1>1. PICK v \in Values : TRUE
  OBVIOUS
<1>2. [value |-> v, env |-> ALL, active |-> TRUE] \in Data
  BY DEF Data
<1>3. (CHOOSE d \in Data : TRUE) \in Data
  BY <1>2
<1> QED
  BY <1>3 DEF NoRequest, Request

\* An empty key, or one deleted before, satisfies the invariant.
LEMMA InitSound == Init => Sound
<1> SUFFICES ASSUME Init PROVE Sound
  OBVIOUS
<1> USE StoreAssumption
<1>1. PICK v \in Values, e \in Environments, old \in {{}, Rows \cap {1}} :
          /\ rows = [r \in Rows |-> IF r \in old THEN OldRow(v, e) ELSE NoRow]
          /\ history = {[row |-> r, value |-> v, version |-> 1] : r \in old}
  BY DEF Init
<1>2. old \subseteq Rows
  BY <1>1
<1>3. 1 \in Versions /\ OldRow(v, e) \in Row /\ OldRow(v, e).there
  BY DEF Versions, OldRow, Row
<1>4. \A r \in Rows : (There(r) => r \in old) /\ (r \in old => rows[r] = OldRow(v, e))
  BY <1>1 DEF There, NoRow
<1>5. TypeOK
  <2>1. rows \in [Rows -> Row \cup {NoRow}]
    BY <1>1, <1>3
  <2>2. history \subseteq [row : Rows, value : Values, version : Versions]
    BY <1>1, <1>2, <1>3
  <2>3. pc \in [Workers -> Steps] /\ ops \in 0 .. MaxOps
    BY DEF Init, Steps
  <2>4. req \in [Workers -> Request]
    BY NoRequestIsRequest DEF Init
  <2> QED
    BY <2>1, <2>2, <2>3, <2>4 DEF TypeOK
<1>6. Active = {}
  BY <1>4 DEF Active, OldRow
<1>7. ValueInHistory
  <2>1. ASSUME NEW r \in Rows, There(r)
        PROVE  \E h \in history : h.row = r /\ h.value = rows[r].value
    <3>1. [row |-> r, value |-> v, version |-> 1] \in history /\ rows[r].value = v
      BY <1>1, <1>4, <2>1 DEF OldRow
    <3> QED
      BY <3>1
  <2> QED
    BY <2>1 DEF ValueInHistory
<1>8. RequestsHoldRows /\ LoadedInHistory
  BY DEF Init, RequestsHoldRows, LoadedInHistory
<1>9. OnlyActive /\ VersionsCounted
  BY <1>6 DEF Init, OnlyActive, VersionsCounted
<1> QED
  BY <1>5, <1>7, <1>8, <1>9 DEF Sound

------------------------------------------------------------------------------
\* A request that begins has loaded an active row, or is about to insert one.
LEMMA BeginSound ==
    ASSUME Sound, NEW w \in Workers, NEW step, NEW r, NEW d \in Data, Begin(w, step, r, d),
           \/ step = "insert" /\ r = 0
           \/ step \in {"update", "deactivate"} /\ r \in Active
    PROVE  Sound'
<1> USE StoreAssumption
<1>1. /\ ops < MaxOps /\ ops' = ops + 1
      /\ pc' = [pc EXCEPT ![w] = step]
      /\ req' = [req EXCEPT ![w] = [row |-> r, set |-> d,
                                    loaded |-> IF r = 0 THEN NoRow ELSE rows[r]]]
      /\ rows' = rows /\ history' = history
  BY DEF Begin
<1>2. r \in Active => /\ r \in Rows /\ r # 0 /\ There(r)
                      /\ rows[r] \in Row /\ rows[r].active = TRUE
  <2>1. r \in Active => r \in Rows /\ r # 0 /\ There(r) /\ rows[r].active /\ rows[r] \in Row
    BY ThereIsRow DEF Active, Sound, Rows
  <2> QED
    BY <2>1 DEF Row
<1>3. TypeOK
  BY DEF Sound
<1>4. /\ pc'[w] = step /\ req'[w].row = r
      /\ req'[w].loaded = IF r = 0 THEN NoRow ELSE rows[r]
  BY <1>1, <1>3 DEF TypeOK
<1>5. TypeOK'
  <2>1. pc' \in [Workers -> Steps]
    BY <1>1, <1>3 DEF TypeOK, Steps
  <2>2. [row |-> r, set |-> d, loaded |-> IF r = 0 THEN NoRow ELSE rows[r]] \in Request
    BY <1>2 DEF Request
  <2>3. req' \in [Workers -> Request]
    BY <1>1, <1>3, <2>2 DEF TypeOK
  <2>4. ops' \in 0 .. MaxOps
    BY <1>1, <1>3 DEF TypeOK
  <2> QED
    BY <1>1, <1>3, <2>1, <2>3, <2>4 DEF TypeOK
<1>6. \A p \in Workers \ {w} : pc'[p] = pc[p] /\ req'[p] = req[p]
  BY <1>1, <1>3 DEF TypeOK
<1>7. (\A t \in Rows : There(t)' <=> There(t)) /\ Active' = Active
  BY <1>1 DEF There, Active
<1>8. RequestsHoldRows'
  <2>1. ASSUME NEW p \in Workers, pc'[p] \in {"update", "deactivate"}
        PROVE  (/\ req[p].row \in Rows /\ There(req[p].row)
                /\ req[p].loaded \in Row /\ req[p].loaded.active = TRUE)'
    <3>1. CASE p = w
      BY <1>1, <1>2, <1>4, <1>7, <2>1, <3>1
    <3>2. CASE p # w
      BY <1>6, <1>7, <2>1, <3>2 DEF Sound, RequestsHoldRows
    <3> QED
      BY <3>1, <3>2
  <2> QED
    BY <2>1 DEF RequestsHoldRows
<1>9. OnlyActive' /\ ValueInHistory'
  BY <1>1, <1>7 DEF Sound, OnlyActive, ValueInHistory
<1>10. LoadedInHistory'
  <2>1. ASSUME NEW p \in Workers, pc'[p] \in {"update", "deactivate"}
        PROVE  \E h \in history' : h.row = req'[p].row /\ h.value = req'[p].loaded.value
    <3>1. CASE p = w
      BY <1>1, <1>2, <1>4, <2>1, <3>1 DEF Sound, ValueInHistory
    <3>2. CASE p # w
      BY <1>1, <1>6, <2>1, <3>2 DEF Sound, LoadedInHistory, Traced
    <3> QED
      BY <3>1, <3>2
  <2> QED
    BY <2>1 DEF LoadedInHistory, Traced
<1>11. VersionsCounted'
  <2>1. ops \in Nat /\ ops' \in Nat /\ ops' > ops /\ ops' > 0
    BY <1>1, <1>3 DEF TypeOK
  <2>2. ASSUME NEW s \in Active' PROVE rows'[s].version <= ops'
    <3>1. rows[s] \in Row /\ rows[s].version <= ops
      BY <1>3, <1>7, <2>2, ThereIsRow DEF Sound, VersionsCounted, Active
    <3> QED
      BY <1>1, <2>1, <3>1, VersionIsNat
  <2>3. ASSUME NEW p \in Workers, pc'[p] = "update"
        PROVE  req'[p].loaded.version < ops'
    <3>1. CASE p = w
      <4>1. rows[r] \in Row /\ rows[r].version <= ops
        BY <1>2, <1>4, <2>3, <3>1 DEF Sound, VersionsCounted
      <4> QED
        BY <1>2, <1>4, <2>1, <2>3, <3>1, <4>1, VersionIsNat
    <3>2. CASE p # w
      <4>1. req[p].loaded \in Row /\ req[p].loaded.version < ops
        BY <1>6, <2>3, <3>2 DEF Sound, VersionsCounted, RequestsHoldRows
      <4> QED
        BY <1>6, <2>1, <3>2, <4>1, VersionIsNat
    <3> QED
      BY <3>1, <3>2
  <2> QED
    BY <2>1, <2>2, <2>3 DEF VersionsCounted
<1> QED
  BY <1>5, <1>8, <1>9, <1>10, <1>11 DEF Sound

------------------------------------------------------------------------------
\* What a request that ends leaves to the others.
LEMMA AfterFinish ==
    ASSUME TypeOK, NEW w \in Workers, Finish(w)
    PROVE  /\ pc' \in [Workers -> Steps] /\ req' \in [Workers -> Request]
           /\ ops' = ops /\ pc'[w] = "idle"
           /\ \A p \in Workers \ {w} : pc'[p] = pc[p] /\ req'[p] = req[p]
BY NoRequestIsRequest DEF TypeOK, Finish, Steps

\* The part of the invariant that is about requests yet to commit, after one of
\* them ended and nothing was taken from the table and the history.
LEMMA PendingKept ==
    ASSUME Sound, NEW w \in Workers, Finish(w), history \subseteq history',
           \A r \in Rows : There(r) => There(r)',
           \A r \in Active' : rows'[r].version <= ops
    PROVE  RequestsHoldRows' /\ LoadedInHistory' /\ VersionsCounted'
<1>1. /\ ops' = ops
      /\ \A p \in Workers : pc'[p] # "idle" => pc'[p] = pc[p] /\ req'[p] = req[p]
  BY AfterFinish DEF Sound
<1>2. RequestsHoldRows'
  BY <1>1 DEF Sound, RequestsHoldRows
<1>3. LoadedInHistory'
  BY <1>1 DEF Sound, LoadedInHistory, Traced
<1>4. VersionsCounted'
  BY <1>1 DEF Sound, VersionsCounted
<1> QED
  BY <1>2, <1>3, <1>4

\* A request that ends and leaves the tables alone.
LEMMA QuietSound ==
    ASSUME Sound, NEW w \in Workers, Finish(w), UNCHANGED <<rows, history>>
    PROVE  Sound'
<1>1. Active' = Active /\ \A r \in Rows : There(r)' <=> There(r)
  BY DEF Active, There
<1>2. TypeOK'
  BY AfterFinish DEF Sound, TypeOK
<1>3. OnlyActive' /\ ValueInHistory'
  BY <1>1 DEF Sound, OnlyActive, ValueInHistory
<1>4. \A r \in Active' : rows'[r].version <= ops
  BY <1>1 DEF Sound, VersionsCounted
<1> QED
  BY <1>1, <1>2, <1>3, <1>4, PendingKept DEF Sound

\* The table after one row of it was written.
LEMMA RowWritten ==
    ASSUME TypeOK, NEW r \in Rows, NEW row \in Row, rows' = [rows EXCEPT ![r] = row]
    PROVE  /\ rows'[r] = row /\ There(r)'
           /\ \A s \in Rows \ {r} : rows'[s] = rows[s] /\ (There(s)' <=> There(s))
           /\ r \in Active' <=> row.active
           /\ \A s \in Rows \ {r} : s \in Active' <=> s \in Active
<1>1. rows'[r] = row /\ \A s \in Rows \ {r} : rows'[s] = rows[s]
  BY DEF TypeOK
<1>2. row.there
  BY DEF Row
<1> QED
  BY <1>1, <1>2 DEF There, Active

\* A commit of a fitting row keeps the invariant.
LEMMA CommitSound ==
    ASSUME Sound, NEW w \in Workers, NEW r \in Rows, NEW row \in Row,
           NEW value \in Values, NEW version \in Versions,
           Commit(w, r, row, value, version), Fits(r, row, value),
           row.active => row.version <= ops
    PROVE  Sound'
<1>1. CASE ~Unique(r, row)
  BY <1>1, QuietSound DEF Commit
<1>2. CASE Unique(r, row)
  <2>1. /\ rows' = [rows EXCEPT ![r] = row]
        /\ history' = history \cup {[row |-> r, value |-> value, version |-> version]}
        /\ Finish(w)
    BY <1>2 DEF Commit, Record
  <2>2. TypeOK
    BY DEF Sound
  <2>3. /\ rows'[r] = row /\ There(r)'
        /\ \A s \in Rows \ {r} : rows'[s] = rows[s] /\ (There(s)' <=> There(s))
        /\ r \in Active' <=> row.active
        /\ \A s \in Rows \ {r} : s \in Active' <=> s \in Active
    BY <2>1, <2>2, RowWritten
  <2>4. TypeOK'
    <3>1. rows' \in [Rows -> Row \cup {NoRow}]
      BY <2>1, <2>2 DEF TypeOK
    <3>2. history' \subseteq [row : Rows, value : Values, version : Versions]
      BY <2>1, <2>2 DEF TypeOK
    <3> QED
      BY <2>1, <2>2, <3>1, <3>2, AfterFinish DEF TypeOK
  <2>5. OnlyActive'
    <3> SUFFICES ASSUME NEW s \in Active', NEW t \in Active', rows'[s].env = rows'[t].env, s # t
                 PROVE  FALSE
      BY DEF OnlyActive
    <3>1. s \in Rows /\ t \in Rows
      BY DEF Active
    <3>2. ASSUME NEW u \in Active \ {r}, row.active, rows[u].env = row.env
          PROVE  FALSE
      <4>1. u \in Rows \ {r} /\ There(u) /\ rows[u].active /\ rows[u] \in Row
        BY <2>2, ThereIsRow DEF Active
      <4>2. rows[u].active = row.active
        BY <3>2, <4>1 DEF Row
      <4> QED
        BY <1>2, <3>2, <4>1, <4>2 DEF Unique
    <3>3. CASE s = r
      BY <2>3, <3>1, <3>2, <3>3
    <3>4. CASE t = r
      BY <2>3, <3>1, <3>2, <3>4
    <3>5. CASE s # r /\ t # r
      BY <2>3, <3>1, <3>5 DEF Sound, OnlyActive
    <3> QED
      BY <3>3, <3>4, <3>5
  <2>6. ValueInHistory'
    <3>1. ASSUME NEW s \in Rows, There(s)'
          PROVE  \E h \in history' : h.row = s /\ h.value = rows'[s].value
      <4>1. CASE s # r
        BY <2>1, <2>3, <3>1, <4>1 DEF Sound, ValueInHistory
      <4>2. CASE s = r /\ row.value = value
        <5>1. [row |-> r, value |-> value, version |-> version] \in history'
          BY <2>1
        <5> QED
          BY <2>3, <4>2, <5>1
      <4>3. CASE s = r /\ There(r) /\ row.value = rows[r].value
        BY <2>1, <2>3, <4>3 DEF Sound, ValueInHistory
      <4> QED
        BY <4>1, <4>2, <4>3 DEF Fits
    <3> QED
      BY <3>1 DEF ValueInHistory
  <2>7. \A s \in Active' : rows'[s].version <= ops
    <3>1. \A s \in Active' : s \in Rows
      BY DEF Active
    <3> QED
      BY <2>3, <3>1 DEF Sound, VersionsCounted
  <2> QED
    BY <2>1, <2>3, <2>4, <2>5, <2>6, <2>7, PendingKept DEF Sound
<1> QED
  BY <1>1, <1>2

\* The three commits write a fitting row.  An insertion writes a new one.
LEMMA InsertCommits ==
    ASSUME Sound, NEW w \in Workers, Insert(w)
    PROVE  \E r \in Rows, row \in Row, value \in Values, version \in Versions :
              /\ Commit(w, r, row, value, version)
              /\ Fits(r, row, value)
              /\ row.active => row.version <= ops
<1> USE StoreAssumption
<1> DEFINE r == NextRow
           d == req[w].set
           new == [there |-> TRUE, value |-> d.value, env |-> d.env, active |-> d.active,
                   version |-> 1]
<1>1. pc[w] = "insert" /\ Unused # {} /\ Commit(w, r, new, d.value, 1)
  BY DEF Insert
<1>2. r \in Rows /\ ~There(r)
  BY <1>1 DEF NextRow, Unused
<1>3. d \in Data
  BY DEF Sound, TypeOK, Request
<1>4. 1 \in Versions /\ ops > 0 /\ ops \in Nat
  BY <1>1 DEF Sound, TypeOK, VersionsCounted, Versions
<1>5. new \in Row /\ d.value \in Values
  BY <1>3, <1>4 DEF Data, Row
<1>6. Fits(r, new, d.value) /\ (new.active => new.version <= ops)
  BY <1>2, <1>4 DEF Fits
<1> QED
  BY <1>1, <1>2, <1>4, <1>5, <1>6

\* An update merges what it changes into the row.
LEMMA UpdateCommits ==
    ASSUME Sound, NEW w \in Workers, CommitUpdate(w)
    PROVE  \E r \in Rows, row \in Row, value \in Values, version \in Versions :
              /\ Commit(w, r, row, value, version)
              /\ Fits(r, row, value)
              /\ row.active => row.version <= ops
<1> USE StoreAssumption
<1> DEFINE r == req[w].row
           loaded == req[w].loaded
           d == req[w].set
           new == Changed(loaded, d)
           row == Written(loaded, new, r)
<1>1. pc[w] = "update" /\ Commit(w, r, row, new.value, new.version)
  BY DEF CommitUpdate
<1>2. /\ r \in Rows /\ There(r) /\ loaded \in Row /\ loaded.active = TRUE
      /\ Traced(r, loaded.value) /\ loaded.version < ops
  BY <1>1 DEF Sound, RequestsHoldRows, LoadedInHistory, VersionsCounted
<1>3. rows[r] \in Row /\ d \in Data
  BY <1>2, ThereIsRow DEF Sound, TypeOK, Request
<1>4. loaded.version + 1 \in Versions /\ loaded.version + 1 <= ops
  <2>1. loaded.version \in Nat /\ ops \in 0 .. MaxOps
    BY <1>2, VersionIsNat DEF Sound, TypeOK
  <2> QED
    BY <1>2, <2>1 DEF Versions
<1>5. /\ new \in Row /\ new.value = d.value /\ new.active = d.active
      /\ new.version = loaded.version + 1
  BY <1>2, <1>3, <1>4 DEF Changed, Data, Row
<1>6. new.value \in Values /\ new.version \in Versions /\ new.active \in BOOLEAN
  BY <1>5 DEF Row
<1>7. new.version # loaded.version
  BY <1>2, <1>5, VersionIsNat
<1> HIDE DEF new
<1>8. /\ row \in Row
      /\ new.value = loaded.value => row.value = rows[r].value
      /\ new.value # loaded.value => row.value = new.value
      /\ new.active = loaded.active => row.active = rows[r].active
      /\ new.active # loaded.active => row.active = new.active
      /\ row.version = new.version
  BY <1>2, <1>3, <1>5, <1>7, WrittenIsRow
<1> HIDE DEF row
<1>9. row.active => r \in Active
  BY <1>2, <1>6, <1>8 DEF Active
<1>10. row.value = new.value \/ (row.value = rows[r].value /\ Traced(r, new.value))
  BY <1>2, <1>8
<1>11. Fits(r, row, new.value)
  BY <1>2, <1>9, <1>10 DEF Fits
<1>12. row.version <= ops
  BY <1>4, <1>5, <1>8
<1> QED
  BY <1>1, <1>2, <1>6, <1>8, <1>11, <1>12

\* A deletion keeps the row's value and traces the one it has loaded.
LEMMA DeactivateCommits ==
    ASSUME Sound, NEW w \in Workers, Deactivate(w)
    PROVE  \E r \in Rows, row \in Row, value \in Values, version \in Versions :
              /\ Commit(w, r, row, value, version)
              /\ Fits(r, row, value)
              /\ row.active => row.version <= ops
<1> DEFINE r == req[w].row
           loaded == req[w].loaded
           new == [loaded EXCEPT !.active = FALSE]
           row == Written(loaded, new, r)
<1>1. pc[w] = "deactivate" /\ Commit(w, r, row, loaded.value, loaded.version)
  BY DEF Deactivate
<1>2. /\ r \in Rows /\ There(r) /\ loaded \in Row /\ loaded.active = TRUE
      /\ Traced(r, loaded.value)
  BY <1>1 DEF Sound, RequestsHoldRows, LoadedInHistory
<1>3. rows[r] \in Row
  BY <1>2, ThereIsRow DEF Sound
<1>4. /\ new \in Row /\ new.value = loaded.value /\ new.active = FALSE
      /\ new.version = loaded.version
      /\ loaded.value \in Values /\ loaded.version \in Versions
  BY <1>2 DEF Row
<1> HIDE DEF new
<1>5. row \in Row /\ row.value = rows[r].value /\ row.active = FALSE
  BY <1>2, <1>3, <1>4, WrittenIsRow
<1> HIDE DEF row
<1>6. Fits(r, row, loaded.value)
  BY <1>2, <1>5 DEF Fits
<1> QED
  BY <1>1, <1>2, <1>4, <1>5, <1>6

------------------------------------------------------------------------------
\* Every step keeps the invariant.
LEMMA NextSound == Sound /\ [Next]_vars => Sound'
<1> SUFFICES ASSUME Sound, [Next]_vars
             PROVE  Sound'
  OBVIOUS
<1>1. ASSUME NEW w \in Workers, Create(w)
      PROVE  Sound'
  BY <1>1, BeginSound DEF Create
<1>2. ASSUME NEW w \in Workers, Update(w)
      PROVE  Sound'
  BY <1>2, BeginSound DEF Update, Found
<1>3. ASSUME NEW w \in Workers, Delete(w)
      PROVE  Sound'
  <2>1. PICK r \in Active : Begin(w, "deactivate", r,
              [value |-> rows[r].value, env |-> rows[r].env, active |-> FALSE])
    BY <1>3 DEF Delete, Found
  <2>2. rows[r] \in Row
    BY <2>1, ThereIsRow DEF Active, Sound
  <2>3. [value |-> rows[r].value, env |-> rows[r].env, active |-> FALSE] \in Data
    BY <2>2 DEF Row, Data
  <2> QED
    BY <2>1, <2>3, BeginSound
<1>4. ASSUME NEW w \in Workers, Insert(w) \/ CommitUpdate(w) \/ Deactivate(w)
      PROVE  Sound'
  BY <1>4, InsertCommits, UpdateCommits, DeactivateCommits, CommitSound
<1>5. ASSUME NEW w \in Workers, Abort(w)
      PROVE  Sound'
  BY <1>5, QuietSound DEF Abort
<1>6. CASE UNCHANGED vars
  BY <1>6 DEF vars, Sound, TypeOK, RequestsHoldRows, OnlyActive, ValueInHistory,
              LoadedInHistory, Traced, VersionsCounted, Active, There
<1> QED
  BY <1>1, <1>2, <1>3, <1>4, <1>5, <1>6 DEF Next

\* Every row, history entry and request is well formed, and the strengthening
\* that makes it so holds too, for any workers and bounds.
THEOREM Soundness == Spec => []Sound
<1> QED
  BY InitSound, NextSound, PTL DEF Spec

\* The tables and the requests are well formed: no version runs ahead of the
\* requests, whatever overlaps (update_configuration).
THEOREM TypeCorrect == Spec => []TypeOK
<1>1. Sound => TypeOK
  BY DEF Sound
<1> QED
  BY <1>1, Soundness, PTL

\* create_configuration looks for an active row and inserts later, and
\* update_configuration may move one; no environment ever has two, however many
\* requests do so at once.
THEOREM AtMostOneActive == Spec => []OneActive
<1>1. Sound => OneActive
  <2> SUFFICES ASSUME Sound, NEW e \in Environments
               PROVE  Cardinality({r \in Active : rows[r].env = e}) <= 1
    BY DEF OneActive
  <2> DEFINE S == {r \in Active : rows[r].env = e}
  <2>1. CASE S = {}
    BY <2>1, FS_EmptySet
  <2>2. CASE S # {}
    <3>1. PICK r : r \in S
      BY <2>2
    <3>2. S = {r}
      BY <3>1 DEF Sound, OnlyActive
    <3>3. Cardinality({r}) = 1
      BY FS_Singleton
    <3> HIDE DEF S
    <3>4. Cardinality(S) <= 1
      BY <3>2, <3>3
    <3> QED
      BY <3>4 DEF S
  <2> QED
    BY <2>1, <2>2
<1> QED
  BY <1>1, Soundness, PTL

\* Whatever value a row has, some request has traced it in the history.
THEOREM EveryValueTraced == Spec => []ValueInHistory
<1>1. Sound => ValueInHistory
  BY DEF Sound
<1> QED
  BY <1>1, Soundness, PTL

------------------------------------------------------------------------------
\* The audited key is a view of the table and the history alone.

\* A history that gains an entry shows one more pair.
LEMMA TrailGrows ==
    ASSUME NEW r, NEW v, NEW n,
           history' = history \cup {[row |-> r, value |-> v, version |-> n]}
    PROVE  Trail' = Trail \cup {<<r, v>>}
<1> DEFINE entry == [row |-> r, value |-> v, version |-> n]
<1>1. entry \in history' /\ <<entry.row, entry.value>> = <<r, v>>
  OBVIOUS
<1>2. <<r, v>> \in Trail'
  BY <1>1 DEF Trail
<1>3. Trail \subseteq Trail'
  BY DEF Trail
<1>4. ASSUME NEW h \in history'
      PROVE  <<h.row, h.value>> \in Trail \cup {<<r, v>>}
  BY <1>1, <1>4 DEF Trail
<1>5. Trail' \subseteq Trail \cup {<<r, v>>}
  BY <1>4 DEF Trail
<1> QED
  BY <1>2, <1>3, <1>5

\* A step that leaves the tables alone.
LEMMA KeepsKey ==
    ASSUME UNCHANGED <<rows, history>>
    PROVE  UNCHANGED Audited!keyVars
BY DEF Audited!keyVars, Entries, Trail, Active, There

\* What writing one row, new or old, does to the entries.
LEMMA EntriesWritten ==
    ASSUME TypeOK, NEW r \in Rows, NEW row \in Row, rows' = [rows EXCEPT ![r] = row]
    PROVE  /\ DOMAIN Entries = {s \in Rows : There(s)}
           /\ Entries' = [s \in DOMAIN Entries \cup {r} |->
                            IF s = r THEN [value |-> row.value, env |-> row.env]
                                     ELSE Entries[s]]
<1>1. /\ rows'[r] = row /\ There(r)'
      /\ \A s \in Rows \ {r} : rows'[s] = rows[s] /\ (There(s)' <=> There(s))
  BY RowWritten
<1>2. {s \in Rows : There(s)}' = {s \in Rows : There(s)} \cup {r}
  BY <1>1
<1> QED
  BY <1>1, <1>2 DEF Entries

\* The constraint on a row that is written active leaves its environment free.
LEMMA UniqueIsFree ==
    ASSUME TypeOK, NEW r \in Rows, NEW row \in Row, Unique(r, row), row.active
    PROVE  Audited!Free(r, row.env)
<1> SUFFICES ASSUME NEW s \in Active \ {r}
             PROVE  Entries[s].env # row.env
  BY DEF Audited!Free
<1>1. s \in Rows /\ There(s) /\ rows[s].active /\ rows[s] \in Row
  BY ThereIsRow DEF Active
<1>2. rows[s].active = row.active
  BY <1>1 DEF Row
<1>3. Entries[s].env = rows[s].env
  BY <1>1 DEF Entries
<1> QED
  BY <1>1, <1>2, <1>3 DEF Unique

\* A commit of a fitting row is a birth, in force or not, a change, which may also
\* put the entry out of force, or refused.
LEMMA CommitRefines ==
    ASSUME Sound, NEW w \in Workers, NEW r \in Rows, NEW row \in Row,
           NEW value \in Values, NEW version \in Versions,
           Commit(w, r, row, value, version), Fits(r, row, value)
    PROVE  [Audited!KeyNext]_(Audited!keyVars)
<1>1. CASE ~Unique(r, row)
  BY <1>1, KeepsKey DEF Commit
<1>2. CASE Unique(r, row)
  <2>1. /\ rows' = [rows EXCEPT ![r] = row]
        /\ history' = history \cup {[row |-> r, value |-> value, version |-> version]}
        /\ TypeOK
    BY <1>2 DEF Commit, Record, Sound
  <2>2. row.value \in Values /\ row.env \in Environments
    BY DEF Row
  <2>3. Trail' = Trail \cup {<<r, value>>}
    BY <2>1, TrailGrows
  <2>4. Trail' = Trail \cup {<<r, row.value>>}
    <3>1. CASE row.value = value
      BY <2>3, <3>1
    <3>2. CASE There(r) /\ row.value = rows[r].value /\ Traced(r, value)
      <4>1. <<r, value>> \in Trail
        BY <3>2 DEF Traced, Trail
      <4>2. <<r, row.value>> \in Trail
        BY <3>2 DEF Sound, ValueInHistory, Trail
      <4> QED
        BY <2>3, <4>1, <4>2
    <3> QED
      BY <3>1, <3>2 DEF Fits
  <2>5. Audited!Assign(r, row.value, row.env)
    BY <2>1, <2>4, EntriesWritten DEF Audited!Assign
  <2>6. r \in DOMAIN Entries <=> There(r)
    BY DEF Entries
  <2>7. Active' = IF row.active THEN Active \cup {r} ELSE Active \ {r}
    <3>1. /\ r \in Active' <=> row.active
          /\ \A s \in Rows \ {r} : s \in Active' <=> s \in Active
      BY <2>1, RowWritten
    <3>2. Active \subseteq Rows /\ Active' \subseteq Rows
      BY DEF Active
    <3> QED
      BY <3>1, <3>2
  <2>8. row.active => Audited!Free(r, row.env)
    BY <1>2, <2>1, UniqueIsFree
  <2>9. CASE ~There(r)
    <3>1. r \notin Active
      BY <2>9 DEF Active
    <3>2. Audited!Birth(r, row.value, row.env)
      BY <2>5, <2>6, <2>7, <2>8, <2>9, <3>1 DEF Audited!Birth
    <3> QED
      BY <2>2, <3>2 DEF Audited!KeyNext
  <2>10. CASE There(r) /\ (row.active => r \in Active)
    <3>1. Audited!Change(r, row.value, row.env)
      BY <2>5, <2>6, <2>7, <2>8, <2>10 DEF Audited!Change
    <3> QED
      BY <2>2, <3>1 DEF Audited!KeyNext
  <2> QED
    BY <2>9, <2>10 DEF Fits
<1> QED
  BY <1>1, <1>2

\* Every step is one of an audited key, or invisible to it.
LEMMA StepRefines ==
    Sound /\ [Next]_vars => [Audited!KeyNext]_(Audited!keyVars)
<1> SUFFICES ASSUME Sound, [Next]_vars
             PROVE  [Audited!KeyNext]_(Audited!keyVars)
  OBVIOUS
<1>1. ASSUME NEW w \in Workers, Insert(w) \/ CommitUpdate(w) \/ Deactivate(w)
      PROVE  [Audited!KeyNext]_(Audited!keyVars)
  BY <1>1, InsertCommits, UpdateCommits, DeactivateCommits, CommitRefines
<1>2. ASSUME NEW w \in Workers, Create(w) \/ Update(w) \/ Delete(w) \/ Abort(w)
      PROVE  UNCHANGED Audited!keyVars
  <2>1. UNCHANGED <<rows, history>>
    BY <1>2 DEF Create, Update, Delete, Begin, Abort
  <2> QED
    BY <2>1, KeepsKey
<1>3. CASE UNCHANGED vars
  BY <1>3, KeepsKey DEF vars
<1> QED
  BY <1>1, <1>2, <1>3 DEF Next

\* The key starts as an audited key does.
LEMMA InitRefines == Init => Audited!KeyInit
<1> SUFFICES ASSUME Init
             PROVE  Audited!KeyInit
  OBVIOUS
<1>1. PICK v \in Values, e \in Environments, old \in {{}, Rows \cap {1}} :
          /\ rows = [r \in Rows |-> IF r \in old THEN OldRow(v, e) ELSE NoRow]
          /\ history = {[row |-> r, value |-> v, version |-> 1] : r \in old}
  BY DEF Init
<1>2. old \subseteq Rows /\ \A r \in Rows : There(r) <=> r \in old
  BY <1>1 DEF There, OldRow, NoRow
<1>3. Entries = [r \in old |-> [value |-> v, env |-> e]]
  BY <1>1, <1>2 DEF Entries, OldRow
<1>4. Active = {}
  BY <1>1, <1>2 DEF Active, OldRow
<1>5. Trail = {<<r, v>> : r \in old}
  <2>1. ASSUME NEW r \in old
        PROVE  <<r, v>> \in Trail
    <3>1. [row |-> r, value |-> v, version |-> 1] \in history
      BY <1>1
    <3> QED
      BY <3>1 DEF Trail
  <2>2. ASSUME NEW h \in history
        PROVE  <<h.row, h.value>> \in {<<r, v>> : r \in old}
    BY <1>1
  <2> QED
    BY <2>1, <2>2 DEF Trail
<1>6. Entries \in [old -> [value : Values, env : Environments]] /\ DOMAIN Entries = old
  BY <1>3
<1>7. Trail = {<<r, Entries[r].value>> : r \in DOMAIN Entries}
  BY <1>3, <1>5
<1> QED
  BY <1>2, <1>4, <1>6, <1>7 DEF Audited!KeyInit

\* create, update and delete_configuration keep the key as AuditedKey says, however
\* they overlap or fail, and whatever fields an update sets at once.
THEOREM StoreIsAudited == Spec => ImplementsAuditedKey
<1> QED
  BY InitRefines, StepRefines, Soundness, PTL DEF Spec, ImplementsAuditedKey, Audited!KeySpec

==============================================================================
