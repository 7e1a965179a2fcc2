------------------------------ MODULE Registry ------------------------------
(***************************************************************************)
(* The server's list of sources (internal/server/registry.go): entries are *)
(* appended and never taken away, a source's id is its place in the list.  *)
(*                                                                         *)
(* A display name is a sequence: <<"app.log">> is the name itself, and     *)
(* <<"app.log", 2>> is "app.log #2".                                       *)
(***************************************************************************)
EXTENDS Naturals, Sequences, FiniteSets

CONSTANTS
  Paths,      \* keys of the sources
  BaseName    \* BaseName[p]: the name p is registered under

VARIABLES
  keys,       \* keys[i]: the source with id i - 1 (idByPath, pathByID)
  bases,      \* the names sources were registered under
  names,      \* entries[i].Name: the names they are shown under
  removed     \* sources hidden from snapshots (removedByID)

registryVars == <<keys, bases, names, removed>>

Known == {keys[i] : i \in DOMAIN keys}

(* The sources a snapshot lists.                                           *)
Listed == Known \ removed

(* dedupeNames: names that occur more than once are numbered.              *)
DedupeNames(b) ==
  LET Same(i, upTo) == {j \in 1 .. upTo : b[j] = b[i]} IN
  [i \in DOMAIN b |-> IF Cardinality(Same(i, Len(b))) > 1
                      THEN Append(b[i], Cardinality(Same(i, i)))
                      ELSE b[i]]

(* server.New registers the sources of start-up under names that are       *)
(* deduplicated already.                                                   *)
RegistryInit(sources) ==
  /\ keys = sources
  /\ bases = DedupeNames([i \in DOMAIN sources |-> BaseName[sources[i]]])
  /\ names = DedupeNames(bases)
  /\ removed = {}

(* A slip: only the new entry gets a name that takes the others into       *)
(* account.                                                                *)
RegisterNamesLast(p) ==
  \/ /\ p \in Known
     /\ removed' = removed \ {p}
     /\ UNCHANGED <<keys, bases, names>>
  \/ /\ p \notin Known
     /\ keys' = Append(keys, p)
     /\ bases' = Append(bases, BaseName[p])
     /\ names' = Append(names, BaseName[p])
     /\ UNCHANGED removed

(* A slip: a source that comes back gets a new entry.                      *)
RegisterAgain(p) ==
  /\ keys' = Append(keys, p)
  /\ bases' = Append(bases, BaseName[p])
  /\ names' = DedupeNames(bases')
  /\ removed' = removed \ {p}

(* register: a known source is revived under its old id, a new one appended*)
(* and every name deduplicated again.                                      *)
Register(p) ==
  \/ /\ p \in Known
     /\ removed' = removed \ {p}
     /\ UNCHANGED <<keys, bases, names>>
  \/ /\ p \notin Known
     /\ keys' = Append(keys, p)
     /\ bases' = Append(bases, BaseName[p])
     /\ names' = DedupeNames(bases')
     /\ UNCHANGED removed

(* remove: the entry is hidden, its id stays.                              *)
Remove(p) ==
  /\ removed' = IF p \in Known THEN removed \cup {p} ELSE removed
  /\ UNCHANGED <<keys, bases, names>>
=============================================================================
