--------------------------- MODULE ConfigurationStore ---------------------------
(***************************************************************************)
(* The rows of one configuration key, in every environment, and their      *)
(* history.                                                                *)
(*                                                                         *)
(* A request looks for the key, and commits later what it makes of the row *)
(* it has loaded.  The routes are coroutines that never wait between the   *)
(* two, so the requests of one worker process exclude each other; those of *)
(* different processes interleave, each with a database session of its     *)
(* own.  A session writes the columns whose value differs from the one it  *)
(* loaded and leaves the others alone.  The database is PostgreSQL.        *)
(***************************************************************************)
EXTENDS Integers, FiniteSets

CONSTANTS Workers,       \* processes; each serves one request at a time
          Values,        \* values of the configuration
          Environments,
          ALL,           \* the environment that stands for all of them
          MaxRows,       \* bound: rows ever created
          MaxOps         \* bound: requests

ASSUME StoreAssumption ==
    /\ Values # {}
    /\ ALL \in Environments
    /\ MaxRows \in Nat /\ MaxOps \in Nat \ {0}

VARIABLES rows,     \* the configurations table
          history,  \* the configuration_history table
          pc, req,  \* the step of each worker's request and what its session holds
          ops       \* requests so far

vars == <<rows, history, pc, req, ops>>

Rows == 1 .. MaxRows
Versions == 0 .. MaxOps

\* What a request may set.
Data == [value : Values, env : Environments, active : BOOLEAN]

Row == [there : {TRUE}, value : Values, env : Environments, active : BOOLEAN,
        version : Versions]
NoRow == [there |-> FALSE]

Steps == {"idle", "insert", "update", "deactivate"}
Request == [row : Rows \cup {0}, set : Data, loaded : Row \cup {NoRow}]
NoRequest == [row |-> 0, set |-> CHOOSE d \in Data : TRUE, loaded |-> NoRow]

TypeOK ==
    /\ rows \in [Rows -> Row \cup {NoRow}]
    /\ history \subseteq [row : Rows, value : Values, version : Versions]
    /\ pc \in [Workers -> Steps]
    /\ req \in [Workers -> Request]
    /\ ops \in 0 .. MaxOps

\* A configuration that was created and deleted before.
OldRow(v, e) == [there |-> TRUE, value |-> v, env |-> e, active |-> FALSE, version |-> 1]

Init ==
    /\ \E v \in Values, e \in Environments, old \in {{}, Rows \cap {1}} :
          /\ rows = [r \in Rows |-> IF r \in old THEN OldRow(v, e) ELSE NoRow]
          /\ history = {[row |-> r, value |-> v, version |-> 1] : r \in old}
    /\ pc = [w \in Workers |-> "idle"]
    /\ req = [w \in Workers |-> NoRequest]
    /\ ops = 0

------------------------------------------------------------------------------
There(r) == rows[r].there
Active == {r \in Rows : There(r) /\ rows[r].active}

\* The rows get_configuration may return for an environment: it takes the first
\* one the database gives it, in no order.
Found(e) == {r \in Active : rows[r].env \in {e, ALL}}

\* The row an INSERT makes is a new one.
Unused == {r \in Rows : ~There(r)}
NextRow == CHOOSE r \in Unused : TRUE

\* Mutant of Unique: the constraint is missing.
NotUnique(r, row) == TRUE

\* uix_config_key_env_active lets row r be written: it is meant for active rows
\* and covers the inactive ones as well.
Unique(r, row) ==
    \A s \in Rows \ {r} :
        There(s) => ~(rows[s].env = row.env /\ rows[s].active = row.active)

\* Mutant of Record: the version is counted up twice.
RecordNextVersion(r, value, version) ==
    history' = history \cup {[row |-> r, value |-> value, version |-> version + 1]}

\* A history entry, added to the session and committed with the row.
Record(r, value, version) ==
    history' = history \cup {[row |-> r, value |-> value, version |-> version]}

\* Mutant of Written: the session writes every column it loaded.
WrittenBack(loaded, new, r) == new

\* What the UPDATE of a session leaves in the row: a column whose value differs
\* from the loaded one is written.
Column(loaded, new, stored) == IF new # loaded THEN new ELSE stored
Written(loaded, new, r) ==
    [there   |-> TRUE,
     value   |-> Column(loaded.value, new.value, rows[r].value),
     env     |-> Column(loaded.env, new.env, rows[r].env),
     active  |-> Column(loaded.active, new.active, rows[r].active),
     version |-> Column(loaded.version, new.version, rows[r].version)]

\* A request has looked for the key, and goes on with row r, or with none.
Begin(w, step, r, d) ==
    /\ pc[w] = "idle" /\ ops < MaxOps
    /\ ops' = ops + 1
    /\ pc' = [pc EXCEPT ![w] = step]
    /\ req' = [req EXCEPT ![w] = [row |-> r, set |-> d,
                                  loaded |-> IF r = 0 THEN NoRow ELSE rows[r]]]
    /\ UNCHANGED <<rows, history>>

Finish(w) ==
    /\ pc' = [pc EXCEPT ![w] = "idle"]
    /\ req' = [req EXCEPT ![w] = NoRequest]
    /\ UNCHANGED ops

\* The commit of a request: the row and its history entry, or neither of them if
\* the constraint refuses the row (rollback, and 500).
Commit(w, r, row, value, version) ==
    /\ IF Unique(r, row)
       THEN /\ rows' = [rows EXCEPT ![r] = row]
            /\ Record(r, value, version)
       ELSE UNCHANGED <<rows, history>>
    /\ Finish(w)

------------------------------------------------------------------------------
\* create_configuration up to its check (409 if the key is found) ...
Create(w) ==
    /\ Unused # {}
    /\ \E d \in Data : Found(d.env) = {} /\ Begin(w, "insert", 0, d)

\* ... and its commit.
Insert(w) ==
    /\ pc[w] = "insert" /\ Unused # {}
    /\ LET d == req[w].set
           new == [there |-> TRUE, value |-> d.value, env |-> d.env, active |-> d.active,
                   version |-> 1]
       IN  Commit(w, NextRow, new, d.value, 1)

\* update_configuration up to its check (404 if nothing is found).  The request
\* gives some of the fields; one that it leaves out is as good as one with the
\* loaded value.
Update(w) ==
    \E e \in Environments : \E r \in Found(e), d \in Data : Begin(w, "update", r, d)

Changed(loaded, d) ==
    [loaded EXCEPT !.value = d.value, !.env = d.env, !.active = d.active,
                   !.version = @ + 1]

\* Mutant of CommitUpdate: the history entry is made before the new value is set.
CommitUpdateOldValue(w) ==
    /\ pc[w] = "update"
    /\ LET loaded == req[w].loaded
           r == req[w].row
           new == Changed(loaded, req[w].set)
       IN  Commit(w, r, Written(loaded, new, r), loaded.value, new.version)

\* ... and its commit.
CommitUpdate(w) ==
    /\ pc[w] = "update"
    /\ LET loaded == req[w].loaded
           r == req[w].row
           new == Changed(loaded, req[w].set)
       IN  Commit(w, r, Written(loaded, new, r), new.value, new.version)

\* delete_configuration up to its check (404) ...
Delete(w) ==
    \E e \in Environments : \E r \in Found(e) :
        Begin(w, "deactivate", r,
              [value |-> rows[r].value, env |-> rows[r].env, active |-> FALSE])

\* ... and its commit.
Deactivate(w) ==
    /\ pc[w] = "deactivate"
    /\ LET loaded == req[w].loaded
           r == req[w].row
           new == [loaded EXCEPT !.active = FALSE]
       IN  Commit(w, r, Written(loaded, new, r), loaded.value, loaded.version)

\* The request is refused later on (400), the database fails or the worker dies:
\* nothing is committed.
Abort(w) ==
    /\ pc[w] # "idle"
    /\ Finish(w)
    /\ UNCHANGED <<rows, history>>

Next ==
    \E w \in Workers :
        \/ Create(w) \/ Insert(w)
        \/ Update(w) \/ CommitUpdate(w)
        \/ Delete(w) \/ Deactivate(w)
        \/ Abort(w)

Spec == Init /\ [][Next]_vars

------------------------------------------------------------------------------
\* A key never has two active rows in one environment, although requests that
\* create one, or move one there by an update, look long before they commit.
OneActive ==
    \A e \in Environments : Cardinality({r \in Active : rows[r].env = e}) <= 1

\* A row's value is in its history: no request, however its commit interleaves
\* with those of others, leaves a value nobody can trace.  (Its version number
\* may be another one when two updates overlap.)
ValueInHistory ==
    \A r \in Rows :
        There(r) => \E h \in history : h.row = r /\ h.value = rows[r].value

\* The table and its history are those of an audited key, although a request
\* commits long after it looked and may set value, environment and is_active at
\* once: no row put or moved beside an active one, no deletion undone by an update
\* that loaded the row before it, no value written that the same commit does not
\* trace and no value traced that the row never took.
Entries == [r \in {s \in Rows : There(s)} |-> [value |-> rows[r].value, env |-> rows[r].env]]
Trail == {<<h.row, h.value>> : h \in history}
Audited == INSTANCE AuditedKey WITH
    Ids <- Rows, entry <- Entries, live <- Active, trail <- Trail
ImplementsAuditedKey == Audited!KeySpec

==============================================================================
