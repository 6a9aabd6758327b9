------------------------------ MODULE AuditedKey ------------------------------
(***************************************************************************)
(* What a store with an audit trail promises for one key, whatever happens *)
(* inside: an environment has at most one live entry of the key; an entry  *)
(* has its id for good, is live or dead from birth, and once dead never    *)
(* lives again, though its value and environment may still change; and in  *)
(* the step in which an entry takes a value, the trail has that value for  *)
(* it and gains no other.  ConfigurationStore implements this              *)
(* specification.                                                          *)
(***************************************************************************)
CONSTANTS Ids, Values, Environments

VARIABLES entry,  \* the entries of the key, each with its value and environment
          live,   \* those in force
          trail   \* the pairs of an entry and a value it has had

keyVars == <<entry, live, trail>>

\* The key may have had entries before; they are dead.
KeyInit ==
    /\ \E past \in SUBSET Ids : entry \in [past -> [value : Values, env : Environments]]
    /\ live = {}
    /\ trail = {<<i, entry[i].value>> : i \in DOMAIN entry}

\* Entry i, old or new, takes the value v in the environment e; the others are
\* left alone.
Assign(i, v, e) ==
    /\ entry' = [j \in DOMAIN entry \cup {i} |->
                    IF j = i THEN [value |-> v, env |-> e] ELSE entry[j]]
    /\ trail' = trail \cup {<<i, v>>}

\* Entry i may be in force in e: no other one is.
Free(i, e) == \A j \in live \ {i} : entry[j].env # e

\* A new entry is put in force or kept in store.
Birth(i, v, e) ==
    /\ i \notin DOMAIN entry
    /\ \/ live' = live
       \/ live' = live \cup {i} /\ Free(i, e)
    /\ Assign(i, v, e)

\* An entry stays what it is, in force or not, or is put out of force.  A change
\* that was under way when the entry died may still reach it.
Change(i, v, e) ==
    /\ i \in DOMAIN entry
    /\ \/ live' = live \ {i}
       \/ live' = live /\ (i \in live => Free(i, e))
    /\ Assign(i, v, e)

KeyNext ==
    \E i \in Ids, v \in Values, e \in Environments : Birth(i, v, e) \/ Change(i, v, e)

KeySpec == KeyInit /\ [][KeyNext]_keyVars

==============================================================================
