-------------------------- MODULE DiscoveryProofs ---------------------------
(***************************************************************************)
(* Every line published is of a registered source, nobody sends on the     *)
(* closed channel, a file has one reader, and names stay distinct, for any *)
(* files, limits, changes and failed scans.                                *)
(***************************************************************************)
EXTENDS Discovery, FiniteSetTheorems, WellFoundedInduction, TLAPS

Own(w) == IF w = "docker" THEN DockerPaths ELSE WatchPaths

(* The watchers keep to their own paths.                                   *)
OwnPaths ==
  /\ \A w \in Watchers : found[w] \cup prev[w] \cup running[w] \subseteq Own(w)
  /\ \A w \in Watchers : todo[w] \subseteq (IF step[w] = "drop" THEN prev[w] \ found[w] ELSE Own(w))

(* What a watcher has been through by now is registered, listed and named: *)
(* all of the previous scan until the next one's drops begin, and of the   *)
(* present one what has been added.                                        *)
Named(S) == S \subseteq namer /\ S \subseteq Listed

ScansNamed ==
  \A w \in Watchers :
    /\ step[w] = "add" => Named(found[w] \ todo[w])
    /\ step[w] = "drop" => Named(found[w])
    /\ step[w] # "drop" => Named(prev[w])

(* The tailers of a group that are not cancelled are one for each path of  *)
(* its map.                                                                *)
Active(w) == {t \in tailers : t.group = w /\ ~t.cancelled}

Readers ==
  \A w \in Watchers :
    /\ \A t \in Active(w) : t.path \in running[w]
    /\ \A t, u \in Active(w) : t.path = u.path => t = u
    /\ ~CtxDone => \A p \in running[w] : \E t \in Active(w) : t.path = p

(* Who has ended by the time the channel is closed.                        *)
Ended ==
  /\ closed <=> main \in {"draining", "exited"}
  /\ \A w \in Watchers : step[w] = "done" => \A t \in tailers : t.group # w
  /\ closed => \A w \in Watchers : step[w] = "done"
  /\ closed => tailers = {}
  /\ publisher = "done" => closed /\ lines = <<>>
  /\ main = "exited" => publisher = "done"

(* A list of names.                                                        *)
BasesAreNames == bases \in Seq({bases[i] : i \in DOMAIN bases})

Inductive ==
  /\ TypeOK /\ IsFiniteSet(tailers) /\ BasesAreNames
  /\ OwnPaths /\ ScansNamed /\ KnownWhenPublished /\ Readers /\ Ended

USE DEF Watchers

-----------------------------------------------------------------------------
(* The registry.                                                           *)

LEMMA SameInterval ==
  ASSUME NEW m \in Nat, NEW n \in Nat, 1 .. m = 1 .. n
  PROVE  m = n
<1>1. ~ (m < n)
  <2> SUFFICES ASSUME m < n PROVE FALSE
    OBVIOUS
  <2>1. n \in 1 .. n /\ n \notin 1 .. m
    OBVIOUS
  <2> QED BY <2>1
<1>2. ~ (n < m)
  <2> SUFFICES ASSUME n < m PROVE FALSE
    OBVIOUS
  <2>1. m \in 1 .. m /\ m \notin 1 .. n
    OBVIOUS
  <2> QED BY <2>1
<1> QED BY <1>1, <1>2

LEMMA DedupeDomain ==
  ASSUME NEW b
  PROVE  DOMAIN DedupeNames(b) = DOMAIN b
BY DEF DedupeNames

(* What is known stays known.                                              *)
LEMMA RegisterGrows ==
  ASSUME TypeOK, NEW p \in Paths, Register(p)
  PROVE  /\ Known \subseteq Known' /\ p \in Known'
         /\ keys' \in Seq(Paths)
         /\ removed' = removed \ {p} /\ removed' \subseteq Known'
         /\ \A i, j \in DOMAIN keys' : keys'[i] = keys'[j] => i = j
<1>1. CASE p \in Known /\ UNCHANGED <<keys, bases, names>> /\ removed' = removed \ {p}
  BY <1>1 DEF TypeOK, Known
<1>2. CASE p \notin Known /\ keys' = Append(keys, p) /\ UNCHANGED removed
  <2>1. keys \in Seq(Paths) /\ keys' \in Seq(Paths) /\ Len(keys') = Len(keys) + 1
    BY <1>2 DEF TypeOK
  <2>2. /\ \A i \in 1 .. Len(keys) : keys'[i] = keys[i]
        /\ keys'[Len(keys) + 1] = p
    BY <1>2, <2>1
  <2>3. DOMAIN keys = 1 .. Len(keys) /\ DOMAIN keys' = 1 .. (Len(keys) + 1) /\ Len(keys) \in Nat
    BY <2>1
  <2>4. Known \subseteq Known' /\ p \in Known'
    BY <2>2, <2>3 DEF Known
  <2>5. \A i \in 1 .. Len(keys) : keys[i] # p
    BY <1>2, <2>3 DEF Known
  <2>6. \A i, j \in 1 .. Len(keys) : keys[i] = keys[j] => i = j
    BY <2>3 DEF TypeOK
  <2>7. \A i, j \in DOMAIN keys' : keys'[i] = keys'[j] => i = j
    <3> SUFFICES ASSUME NEW i \in 1 .. (Len(keys) + 1), NEW j \in 1 .. (Len(keys) + 1),
                        keys'[i] = keys'[j]
                 PROVE  i = j
      BY <2>3
    <3>1. CASE i = Len(keys) + 1 /\ j = Len(keys) + 1
      BY <3>1
    <3>2. CASE i = Len(keys) + 1 /\ j # Len(keys) + 1
      <4>1. j \in 1 .. Len(keys)
        BY <3>2, <2>3
      <4> QED BY <4>1, <3>2, <2>2, <2>5
    <3>3. CASE i # Len(keys) + 1 /\ j = Len(keys) + 1
      <4>1. i \in 1 .. Len(keys)
        BY <3>3, <2>3
      <4> QED BY <4>1, <3>3, <2>2, <2>5
    <3>4. CASE i # Len(keys) + 1 /\ j # Len(keys) + 1
      <4>1. i \in 1 .. Len(keys) /\ j \in 1 .. Len(keys)
        BY <3>4, <2>3
      <4> QED BY <4>1, <2>2, <2>6
    <3> QED BY <3>1, <3>2, <3>3, <3>4
  <2>8. p \notin removed /\ removed \subseteq Known
    BY <1>2 DEF TypeOK
  <2> QED BY <1>2, <2>1, <2>4, <2>7, <2>8
<1> QED BY <1>1, <1>2 DEF Register

LEMMA RegisterNames ==
  ASSUME TypeOK, BasesAreNames, NEW p \in Paths, Register(p)
  PROVE  DOMAIN bases' = DOMAIN keys' /\ DOMAIN names' = DOMAIN keys' /\ BasesAreNames'
<1>1. CASE UNCHANGED <<keys, bases, names>>
  BY <1>1 DEF TypeOK, BasesAreNames
<1>2. CASE /\ keys' = Append(keys, p)
           /\ bases' = Append(bases, BaseName[p])
           /\ names' = DedupeNames(bases')
  <2> DEFINE B == {bases[i] : i \in DOMAIN bases} \cup {BaseName[p]}
  <2>1. bases \in Seq(B)
    BY DEF BasesAreNames
  <2>2. bases' \in Seq(B) /\ Len(bases') = Len(bases) + 1
    BY <2>1, <1>2
  <2>3. keys \in Seq(Paths) /\ keys' \in Seq(Paths) /\ Len(keys') = Len(keys) + 1
    BY <1>2 DEF TypeOK
  <2>4. Len(bases) = Len(keys)
    <3>1. DOMAIN bases = 1 .. Len(bases) /\ DOMAIN keys = 1 .. Len(keys)
          /\ Len(bases) \in Nat /\ Len(keys) \in Nat
      BY <2>1, <2>3
    <3>2. 1 .. Len(bases) = 1 .. Len(keys)
      BY <3>1 DEF TypeOK
    <3> QED BY <3>1, <3>2, SameInterval
  <2>5. DOMAIN bases' = DOMAIN keys'
    BY <2>2, <2>3, <2>4
  <2>6. bases' \in Seq({bases'[i] : i \in DOMAIN bases'})
    <3>1. DOMAIN bases' = 1 .. Len(bases') /\ Len(bases') \in Nat
          /\ bases' = [i \in 1 .. Len(bases') |-> bases'[i]]
      BY <2>2
    <3> QED BY <3>1
  <2> QED BY <1>2, <2>5, <2>6, DedupeDomain DEF BasesAreNames
<1> QED BY <1>1, <1>2 DEF Register

LEMMA RegisterTypes ==
  ASSUME TypeOK, BasesAreNames, NEW p \in Paths, Register(p)
  PROVE  /\ keys' \in Seq(Paths) /\ removed' \subseteq Known'
         /\ \A i, j \in DOMAIN keys' : keys'[i] = keys'[j] => i = j
         /\ DOMAIN bases' = DOMAIN keys' /\ DOMAIN names' = DOMAIN keys'
         /\ BasesAreNames'
BY RegisterGrows, RegisterNames

LEMMA RemoveTypes ==
  ASSUME TypeOK, BasesAreNames, NEW p \in Paths, Remove(p)
  PROVE  /\ UNCHANGED <<keys, bases, names, Known, BasesAreNames>>
         /\ removed' \subseteq Known'
BY DEF TypeOK, BasesAreNames, Remove, Known

LEMMA LowestIn ==
  ASSUME NEW S \in SUBSET Nat, S # {}
  PROVE  LowestPath(S) \in S
<1>1. \E x \in S : \A y \in S : ~ (<<y, x>> \in OpToRel(<, Nat))
  BY WFMin, NatLessThanWellFounded, Zenon
<1>2. PICK x \in S : \A y \in S : ~ (<<y, x>> \in OpToRel(<, Nat))
  BY <1>1
<1>3. \A y \in S : <<y, x>> \in OpToRel(<, Nat) <=> y < x
  BY DEF OpToRel
<1>4. \A y \in S : x <= y
  <2> SUFFICES ASSUME NEW y \in S PROVE x <= y
    OBVIOUS
  <2>1. ~ (y < x)
    BY <1>2, <1>3
  <2>2. x \in Nat /\ y \in Nat
    OBVIOUS
  <2> QED BY <2>1, <2>2
<1> QED BY <1>4 DEF LowestPath

(* A tailer that starts is numbered apart from those of the same path.     *)
LEMMA NewTailerType ==
  ASSUME IsFiniteSet(tailers), tailers \subseteq Tailers,
         NEW g \in Watchers \cup {"main"}, NEW p \in Paths
  PROVE  NewTailer(g, p) \in Tailers
<1> DEFINE mine == {u \in tailers : u.path = p}
           used == {t.no : t \in mine}
           f == [t \in mine |-> t.no]
<1>1. IsFiniteSet(mine)
  BY FS_Subset
<1>2. f \in Surjection(mine, used)
  BY DEF Surjection
<1>3. IsFiniteSet(used) /\ Cardinality(used) \in Nat
  BY <1>1, <1>2, FS_Surjection, FS_CardinalityType
<1>4. \E n \in 0 .. Cardinality(used) : n \notin used
  <2> SUFFICES ASSUME 0 .. Cardinality(used) \subseteq used
               PROVE  FALSE
    OBVIOUS
  <2>1. Cardinality(0 .. Cardinality(used)) <= Cardinality(used)
    BY <1>3, FS_Subset
  <2>2. Cardinality(0 .. Cardinality(used)) = Cardinality(used) + 1
    BY <1>3, FS_Interval
  <2> QED BY <1>3, <2>1, <2>2
<1> DEFINE n == CHOOSE n \in 0 .. Cardinality(used) : n \notin used
<1>5. n \in 0 .. Cardinality(used)
  BY <1>4
<1>6. n \in Nat
  BY <1>3, <1>5
<1>7. NewTailer(g, p) = [group |-> g, path |-> p, cancelled |-> FALSE, no |-> n]
  BY DEF NewTailer
<1> HIDE DEF n
<1> QED BY <1>6, <1>7 DEF Tailers

LEMMA CancelledType ==
  ASSUME IsFiniteSet(tailers), tailers \subseteq Tailers, NEW w, NEW S
  PROVE  Cancelled(w, S) \subseteq Tailers /\ IsFiniteSet(Cancelled(w, S))
<1> DEFINE c(t) == IF t.group = w /\ t.path \in S THEN [t EXCEPT !.cancelled = TRUE] ELSE t
           f == [t \in tailers |-> c(t)]
<1>1. f \in Surjection(tailers, Cancelled(w, S))
  BY DEF Surjection, Cancelled
<1>2. \A t \in tailers : c(t) \in Tailers
  BY DEF Tailers
<1> QED BY <1>1, <1>2, FS_Surjection DEF Cancelled

LEMMA CancelledPath ==
  ASSUME tailers \subseteq Tailers, NEW w, NEW S, NEW t \in Cancelled(w, S)
  PROVE  \E u \in tailers : /\ t = (IF u.group = w /\ u.path \in S THEN [u EXCEPT !.cancelled = TRUE] ELSE u)
                            /\ t.path = u.path /\ t.group = u.group /\ (u.cancelled => t.cancelled)
BY DEF Cancelled, Tailers

LEMMA StartedType ==
  ASSUME TypeOK, IsFiniteSet(tailers), NEW w \in Watchers, NEW S \in SUBSET Paths
  PROVE  {NewTailer(w, p) : p \in S} \subseteq Tailers /\ IsFiniteSet({NewTailer(w, p) : p \in S})
<1>1. [p \in S |-> NewTailer(w, p)] \in Surjection(S, {NewTailer(w, p) : p \in S})
  BY DEF Surjection
<1>2. IsFiniteSet(S)
  BY FS_Subset, PathsAssumption
<1> QED BY <1>1, <1>2, FS_Surjection, NewTailerType DEF TypeOK

-----------------------------------------------------------------------------
(* Types.                                                                  *)

Core == TypeOK /\ IsFiniteSet(tailers) /\ BasesAreNames /\ OwnPaths

LEMMA OwnType == \A w \in Watchers : Own(w) \subseteq Paths /\ Wanted(w) \subseteq Own(w)
BY PathsAssumption DEF Own, Wanted

LEMMA CoreChange == Core /\ Change => Core'
BY DEF Core, Change, TypeOK, OwnPaths, BasesAreNames, Known, watchVars, mainVars, registryVars

LEMMA CoreScan == \A w \in Watchers : Core /\ (Scan(w) \/ ScanFails(w)) => Core'
<1> SUFFICES ASSUME NEW w \in Watchers, Core, Scan(w) \/ ScanFails(w)
             PROVE  Core'
  OBVIOUS
<1>1. PICK S \in {Wanted(w), {}} :
        /\ found' = [found EXCEPT ![w] = S]
        /\ todo' = [todo EXCEPT ![w] = S]
        /\ step' = [step EXCEPT ![w] = "add"]
        /\ UNCHANGED <<exists, prev, running, namer, tailers, lines, closed, mainVars, registryVars>>
  BY DEF Scan, ScanFails, boundVars
<1>2. S \subseteq Own(w) /\ S \subseteq Paths
  BY OwnType
<1>3. TypeOK'
  BY <1>1, <1>2 DEF Core, TypeOK, Known, mainVars, registryVars
<1>4. OwnPaths'
  BY <1>1, <1>2 DEF Core, TypeOK, OwnPaths
<1>5. IsFiniteSet(tailers)' /\ BasesAreNames'
  BY <1>1 DEF Core, BasesAreNames, registryVars
<1> QED BY <1>3, <1>4, <1>5 DEF Core

LEMMA CoreAddSource == \A w \in Watchers : Core /\ AddSource(w) => Core'
<1> SUFFICES ASSUME NEW w \in Watchers, Core, AddSource(w)
             PROVE  Core'
  OBVIOUS
<1> DEFINE p == LowestPath(todo[w])
<1>1. p \in todo[w] /\ p \in Paths
  BY LowestIn, PathsAssumption DEF Core, TypeOK, AddSource
<1> HIDE DEF p
<1>2. Register(p) /\ namer' = namer \cup {p} /\ todo' = [todo EXCEPT ![w] = @ \ {p}]
      /\ UNCHANGED <<exists, step, found, prev, running, tailers, lines, closed, mainVars, boundVars>>
  BY DEF AddSource, p
<1>3. /\ keys' \in Seq(Paths) /\ removed' \subseteq Known'
      /\ \A i, j \in DOMAIN keys' : keys'[i] = keys'[j] => i = j
      /\ DOMAIN bases' = DOMAIN keys' /\ DOMAIN names' = DOMAIN keys'
      /\ BasesAreNames'
  BY <1>1, <1>2, RegisterTypes DEF Core
<1>4. TypeOK'
  BY <1>1, <1>2, <1>3 DEF Core, TypeOK, mainVars
<1>5. OwnPaths'
  BY <1>2 DEF Core, TypeOK, OwnPaths
<1> QED BY <1>2, <1>3, <1>4, <1>5 DEF Core

LEMMA CoreBeginDrops == \A w \in Watchers : Core /\ BeginDrops(w) => Core'
<1> SUFFICES ASSUME NEW w \in Watchers, Core, BeginDrops(w)
             PROVE  Core'
  OBVIOUS
<1>1. TypeOK'
  BY DEF Core, BeginDrops, TypeOK, Known, mainVars, registryVars
<1>2. OwnPaths'
  BY DEF Core, BeginDrops, TypeOK, OwnPaths
<1>3. IsFiniteSet(tailers)' /\ BasesAreNames'
  BY DEF Core, BeginDrops, BasesAreNames, registryVars
<1> QED BY <1>1, <1>2, <1>3 DEF Core

LEMMA CoreDropSource == \A w \in Watchers : Core /\ DropSource(w) => Core'
<1> SUFFICES ASSUME NEW w \in Watchers, Core, DropSource(w)
             PROVE  Core'
  OBVIOUS
<1>1. PICK p \in todo[w] :
        /\ namer' = namer \ {p}
        /\ todo' = [todo EXCEPT ![w] = @ \ {p}]
        /\ Remove(p) \/ UNCHANGED registryVars
  BY DEF DropSource
<1>2. p \in Paths
  BY DEF Core, TypeOK
<1>3. UNCHANGED <<keys, bases, names, Known, BasesAreNames>> /\ removed' \subseteq Known'
  <2>1. CASE Remove(p)
    BY <1>2, <2>1, RemoveTypes DEF Core
  <2>2. CASE UNCHANGED registryVars
    BY <2>2 DEF Core, TypeOK, registryVars, Known, BasesAreNames
  <2> QED BY <1>1, <2>1, <2>2
<1>4. UNCHANGED <<exists, step, found, prev, running, tailers, lines, closed, mainVars, boundVars>>
  BY DEF DropSource
<1>5. TypeOK'
  BY <1>1, <1>2, <1>3, <1>4 DEF Core, TypeOK, mainVars
<1>6. OwnPaths'
  BY <1>1, <1>4 DEF Core, TypeOK, OwnPaths
<1> QED BY <1>3, <1>4, <1>5, <1>6 DEF Core

LEMMA CoreReconcile == \A w \in Watchers : Core /\ Reconcile(w) => Core'
<1> SUFFICES ASSUME NEW w \in Watchers, Core, Reconcile(w)
             PROVE  Core'
  OBVIOUS
<1> DEFINE old == Cancelled(w, running[w] \ found[w])
           new == {NewTailer(w, p) : p \in found[w] \ running[w]}
<1>1. tailers' = old \cup new
  BY DEF Reconcile
<1>2. old \subseteq Tailers /\ IsFiniteSet(old)
  BY CancelledType DEF Core, TypeOK
<1>3. new \subseteq Tailers /\ IsFiniteSet(new)
  <2>1. found[w] \ running[w] \in SUBSET Paths
    BY DEF Core, TypeOK
  <2> QED BY <2>1, StartedType DEF Core
<1> HIDE DEF old, new
<1>4. tailers' \subseteq Tailers /\ IsFiniteSet(tailers')
  BY <1>1, <1>2, <1>3, FS_Union
<1>5. TypeOK'
  <2>1. /\ step' = [step EXCEPT ![w] = "wait"]
        /\ prev' = [prev EXCEPT ![w] = found[w]]
        /\ running' = [running EXCEPT ![w] = found[w]]
        /\ UNCHANGED <<exists, found, todo, namer, lines, closed, mainVars, registryVars>>
    BY DEF Reconcile
  <2>2. /\ step' \in [Watchers -> {"scan", "add", "drop", "wait", "stop", "done"}]
        /\ prev' \in [Watchers -> SUBSET Paths]
        /\ running' \in [Watchers -> SUBSET Paths]
    BY <2>1 DEF Core, TypeOK
  <2> QED BY <1>4, <2>1, <2>2 DEF Core, TypeOK, Known, mainVars, registryVars
<1>6. OwnPaths'
  BY DEF Core, Reconcile, TypeOK, OwnPaths
<1>7. BasesAreNames'
  BY DEF Core, Reconcile, BasesAreNames, registryVars
<1> QED BY <1>4, <1>5, <1>6, <1>7 DEF Core

LEMMA CoreStop == \A w \in Watchers : Core /\ (Tick(w) \/ Stop(w) \/ WatcherDone(w)) => Core'
<1> SUFFICES ASSUME NEW w \in Watchers, Core, Tick(w) \/ Stop(w) \/ WatcherDone(w)
             PROVE  Core'
  OBVIOUS
<1>1. tailers' \subseteq Tailers /\ IsFiniteSet(tailers')
  <2>1. CASE UNCHANGED tailers
    BY <2>1 DEF Core, TypeOK
  <2>2. CASE tailers' = Cancelled(w, running[w])
    BY <2>2, CancelledType DEF Core, TypeOK
  <2> QED BY <2>1, <2>2 DEF Tick, Stop, WatcherDone
<1>2. PICK s \in {"scan", "stop", "done"} :
        /\ step[w] \in {"wait", "stop"}
        /\ step' = [step EXCEPT ![w] = s]
        /\ running' = running \/ running' = [running EXCEPT ![w] = {}]
        /\ UNCHANGED <<exists, found, prev, todo, namer, lines, closed, mainVars, registryVars>>
  BY DEF Tick, Stop, WatcherDone
<1>3. TypeOK'
  <2>1. step' \in [Watchers -> {"scan", "add", "drop", "wait", "stop", "done"}]
    BY <1>2 DEF Core, TypeOK
  <2>2. running' \in [Watchers -> SUBSET Paths]
    BY <1>2 DEF Core, TypeOK
  <2> QED BY <1>1, <1>2, <2>1, <2>2 DEF Core, TypeOK, Known, mainVars, registryVars
<1>4. OwnPaths'
  BY <1>2 DEF Core, TypeOK, OwnPaths
<1> QED BY <1>1, <1>2, <1>3, <1>4 DEF Core, BasesAreNames, registryVars

(* Tailers, publisher and main.                                            *)
Rest ==
  \/ \E t \in tailers : Emit(t) \/ TailerExits(t)
  \/ PublishLine \/ PublisherDone \/ Shutdown \/ CloseLines \/ Exit

LEMMA CoreRest == Core /\ Rest => Core'
<1> SUFFICES ASSUME Core, Rest
             PROVE  Core'
  OBVIOUS
<1>1. /\ lines' \in Seq(Paths) /\ Len(lines') <= LineBuffer
      /\ tailers' \subseteq tailers
      /\ closed' \in BOOLEAN /\ publisher' \in {"range", "done"}
      /\ main' \in {"run", "stopping", "draining", "exited"}
      /\ UNCHANGED <<exists, watchVars, running, namer, registryVars>>
  <2>1. ASSUME NEW t \in tailers, Emit(t) PROVE <1>1!:
    <3>1. t.path \in Paths
      BY DEF Core, TypeOK, Tailers
    <3>2. lines \in Seq(Paths) /\ Len(lines) < LineBuffer /\ lines' = Append(lines, t.path)
      BY <2>1 DEF Core, TypeOK, Emit
    <3>3. lines' \in Seq(Paths) /\ Len(lines') <= LineBuffer
      BY <3>1, <3>2, SizesAssumption
    <3> QED BY <2>1, <3>3 DEF Core, TypeOK, Emit, mainVars
  <2>2. ASSUME NEW t \in tailers, TailerExits(t) PROVE <1>1!:
    BY <2>2 DEF Core, TypeOK, TailerExits, mainVars
  <2>3. CASE PublishLine
    <3>1. lines \in Seq(Paths) /\ lines # <<>> /\ lines' = Tail(lines) /\ Len(lines) <= LineBuffer
      BY <2>3 DEF Core, TypeOK, PublishLine
    <3>2. lines' \in Seq(Paths) /\ Len(lines') <= LineBuffer
      BY <3>1, SizesAssumption
    <3> QED BY <2>3, <3>2 DEF Core, TypeOK, PublishLine, mainVars
  <2>4. CASE PublisherDone
    BY <2>4 DEF Core, TypeOK, PublisherDone
  <2>5. CASE Shutdown \/ CloseLines \/ Exit
    BY <2>5 DEF Core, TypeOK, Shutdown, CloseLines, Exit
  <2> QED BY <2>1, <2>2, <2>3, <2>4, <2>5 DEF Rest
<1>2. TypeOK'
  BY <1>1 DEF Core, TypeOK, Known, watchVars, registryVars
<1>3. OwnPaths'
  BY <1>1 DEF Core, OwnPaths, watchVars
<1>4. IsFiniteSet(tailers')
  BY <1>1, FS_Subset DEF Core
<1> QED BY <1>1, <1>2, <1>3, <1>4 DEF Core, BasesAreNames, registryVars

LEMMA CoreNext == Core /\ [Next]_vars => Core'
<1> SUFFICES ASSUME Core, [Next]_vars
             PROVE  Core'
  OBVIOUS
<1>1. CASE UNCHANGED vars
  BY <1>1 DEF Core, TypeOK, OwnPaths, BasesAreNames, Known, vars, watchVars, mainVars, registryVars
<1>2. CASE Next
  BY <1>1, <1>2, CoreChange, CoreScan, CoreAddSource, CoreBeginDrops, CoreDropSource, CoreReconcile,
     CoreStop, CoreRest DEF Next, WatcherStep, Rest
<1> QED BY <1>1, <1>2

-----------------------------------------------------------------------------
(* Names.                                                                  *)

(* The other watcher's paths are none of w's.                              *)
LEMMA OwnDisjoint ==
  \A w, u \in Watchers : w # u => Own(w) \cap Own(u) = {}
BY PathsAssumption DEF Own

Naming == ScansNamed /\ KnownWhenPublished

LEMMA CancelledKnown ==
  ASSUME Core, Naming, NEW w, NEW S
  PROVE  \A t \in Cancelled(w, S) : t.path \in Known
<1> SUFFICES ASSUME NEW t \in Cancelled(w, S)
             PROVE  t.path \in Known
  OBVIOUS
<1>1. PICK u \in tailers : t.path = u.path
  BY CancelledPath DEF Core, TypeOK
<1> QED BY <1>1 DEF Naming, KnownWhenPublished

LEMMA NamingScan ==
  \A w \in Watchers : Core /\ Naming /\ (Scan(w) \/ ScanFails(w) \/ BeginDrops(w)) => Naming'
<1> SUFFICES ASSUME NEW w \in Watchers, Core, Naming, Scan(w) \/ ScanFails(w) \/ BeginDrops(w)
             PROVE  Naming'
  OBVIOUS
<1>1. UNCHANGED <<prev, namer, tailers, lines, registryVars, Known, Listed>>
  BY DEF Scan, ScanFails, BeginDrops, registryVars, Known, Listed
<1>2. KnownWhenPublished'
  BY <1>1 DEF Naming, KnownWhenPublished
<1>3. CASE Scan(w) \/ ScanFails(w)
  <2>1. step[w] = "scan" /\ step' = [step EXCEPT ![w] = "add"]
        /\ found'[w] \ todo'[w] = {}
        /\ \A u \in Watchers \ {w} : found'[u] = found[u] /\ todo'[u] = todo[u]
    BY <1>3 DEF Scan, ScanFails, Core, TypeOK
  <2> QED BY <1>1, <1>2, <2>1 DEF Naming, ScansNamed, Named, Core, TypeOK
<1>4. CASE BeginDrops(w)
  <2>1. step[w] = "add" /\ step' = [step EXCEPT ![w] = "drop"] /\ todo[w] = {} /\ found' = found
        /\ \A u \in Watchers \ {w} : todo'[u] = todo[u]
    BY <1>4 DEF BeginDrops, Core, TypeOK
  <2> QED BY <1>1, <1>2, <2>1 DEF Naming, ScansNamed, Named, Core, TypeOK
<1> QED BY <1>3, <1>4

LEMMA NamingAdd == \A w \in Watchers : Core /\ Naming /\ AddSource(w) => Naming'
<1> SUFFICES ASSUME NEW w \in Watchers, Core, Naming, AddSource(w)
             PROVE  Naming'
  OBVIOUS
<1> DEFINE p == LowestPath(todo[w])
<1>1. p \in todo[w] /\ p \in Paths
  BY LowestIn, PathsAssumption DEF Core, TypeOK, AddSource
<1> HIDE DEF p
<1>2. /\ Register(p) /\ namer' = namer \cup {p} /\ todo' = [todo EXCEPT ![w] = @ \ {p}]
      /\ step[w] = "add" /\ UNCHANGED <<step, found, prev, tailers, lines>>
  BY DEF AddSource, p
<1>3. Known \subseteq Known' /\ p \in Known' /\ removed' = removed \ {p}
  BY <1>1, <1>2, RegisterGrows DEF Core
<1>4. KnownWhenPublished'
  BY <1>2, <1>3 DEF Naming, KnownWhenPublished
<1>6. found'[w] \ todo'[w] \subseteq (found[w] \ todo[w]) \cup {p}
  BY <1>2 DEF Core, TypeOK
<1>7. \A u \in Watchers \ {w} : todo'[u] = todo[u]
  BY <1>2 DEF Core, TypeOK
<1> QED BY <1>2, <1>3, <1>4, <1>6, <1>7 DEF Naming, ScansNamed, Named, Listed

LEMMA NamingDrop == \A w \in Watchers : Core /\ Naming /\ DropSource(w) => Naming'
<1> SUFFICES ASSUME NEW w \in Watchers, Core, Naming, DropSource(w)
             PROVE  Naming'
  OBVIOUS
<1>1. PICK p \in todo[w] :
        /\ namer' = namer \ {p}
        /\ todo' = [todo EXCEPT ![w] = @ \ {p}]
        /\ Remove(p) \/ UNCHANGED registryVars
  BY DEF DropSource
<1>2. step[w] = "drop" /\ UNCHANGED <<step, found, prev, tailers, lines>>
  BY DEF DropSource
<1>3. Known' = Known /\ removed' \subseteq removed \cup {p}
  BY <1>1 DEF Remove, registryVars, Known
<1>4. KnownWhenPublished'
  BY <1>2, <1>3 DEF Naming, KnownWhenPublished
<1>5. p \in Own(w) /\ p \notin found[w]
  BY <1>1, <1>2 DEF Core, OwnPaths
<1>6. \A u \in Watchers \ {w} : p \notin found[u] \cup prev[u] /\ todo'[u] = todo[u]
  BY <1>1, <1>5, OwnDisjoint DEF Core, OwnPaths, TypeOK
<1> QED BY <1>1, <1>2, <1>3, <1>4, <1>5, <1>6 DEF Naming, ScansNamed, Named, Listed

LEMMA NamingReconcile == \A w \in Watchers : Core /\ Naming /\ Reconcile(w) => Naming'
<1> SUFFICES ASSUME NEW w \in Watchers, Core, Naming, Reconcile(w)
             PROVE  Naming'
  OBVIOUS
<1>1. /\ step[w] = "drop" /\ step' = [step EXCEPT ![w] = "wait"]
      /\ prev' = [prev EXCEPT ![w] = found[w]]
      /\ UNCHANGED <<found, todo, namer, lines, registryVars, Known, Listed>>
  BY DEF Reconcile, registryVars, Known, Listed
<1>2. ScansNamed'
  BY <1>1 DEF Naming, ScansNamed, Named, Core, TypeOK
<1>3. \A t \in Cancelled(w, running[w] \ found[w]) : t.path \in Known
  BY CancelledKnown
<1>4. \A p \in found[w] : p \in Known /\ NewTailer(w, p).path = p
  BY <1>1 DEF Naming, ScansNamed, Named, Listed, NewTailer
<1>5. \A t \in tailers' : t.path \in Known
  BY <1>3, <1>4 DEF Reconcile
<1> QED BY <1>1, <1>2, <1>5 DEF Naming, KnownWhenPublished

LEMMA NamingStop ==
  \A w \in Watchers : Core /\ Naming /\ (Tick(w) \/ Stop(w) \/ WatcherDone(w)) => Naming'
<1> SUFFICES ASSUME NEW w \in Watchers, Core, Naming, Tick(w) \/ Stop(w) \/ WatcherDone(w)
             PROVE  Naming'
  OBVIOUS
<1>1. \A t \in tailers' : t.path \in Known
  <2>1. CASE UNCHANGED tailers
    BY <2>1 DEF Naming, KnownWhenPublished
  <2>2. CASE tailers' = Cancelled(w, running[w])
    BY <2>2, CancelledKnown
  <2> QED BY <2>1, <2>2 DEF Tick, Stop, WatcherDone
<1>2. PICK s \in {"scan", "stop", "done"} :
        /\ step[w] \in {"wait", "stop"}
        /\ step' = [step EXCEPT ![w] = s]
        /\ UNCHANGED <<found, prev, todo, namer, lines, registryVars, Known, Listed>>
  BY DEF Tick, Stop, WatcherDone, registryVars, Known, Listed
<1>3. ScansNamed'
  BY <1>2 DEF Naming, ScansNamed, Named, Core, TypeOK
<1> QED BY <1>1, <1>2, <1>3 DEF Naming, KnownWhenPublished

LEMMA NamingRest == Core /\ Naming /\ (Change \/ Rest) => Naming'
<1> SUFFICES ASSUME Core, Naming, Change \/ Rest
             PROVE  Naming'
  OBVIOUS
<1>1. /\ tailers' \subseteq tailers
      /\ UNCHANGED <<step, found, prev, todo, namer, registryVars, Known, Listed>>
  BY DEF Change, Rest, Emit, TailerExits, PublishLine, PublisherDone, Shutdown, CloseLines, Exit,
     watchVars, registryVars, Known, Listed
<1>2. \A i \in DOMAIN lines' : lines'[i] \in Known
  <2>1. CASE UNCHANGED lines
    BY <2>1 DEF Naming, KnownWhenPublished
  <2>2. ASSUME NEW t \in tailers, lines' = Append(lines, t.path) PROVE <1>2!:
    <3>1. lines \in Seq(Known) /\ t.path \in Known
      BY DEF Naming, KnownWhenPublished, Core, TypeOK
    <3> QED BY <2>2, <3>1
  <2>3. CASE lines # <<>> /\ lines' = Tail(lines)
    <3>1. lines \in Seq(Known)
      BY DEF Naming, KnownWhenPublished, Core, TypeOK
    <3> QED BY <2>3, <3>1
  <2> QED BY <2>1, <2>2, <2>3
       DEF Change, Rest, Emit, TailerExits, PublishLine, PublisherDone, Shutdown, CloseLines, Exit
<1>3. ScansNamed'
  BY <1>1 DEF Naming, ScansNamed, Named
<1> QED BY <1>1, <1>2, <1>3 DEF Naming, KnownWhenPublished

LEMMA NamingNext == Core /\ Naming /\ [Next]_vars => Naming'
<1> SUFFICES ASSUME Core, Naming, [Next]_vars
             PROVE  Naming'
  OBVIOUS
<1>1. CASE UNCHANGED vars
  BY <1>1 DEF Naming, ScansNamed, Named, KnownWhenPublished, Known, Listed, vars, watchVars, registryVars
<1>2. CASE Next
  BY <1>1, <1>2, NamingScan, NamingAdd, NamingDrop, NamingReconcile, NamingStop, NamingRest
     DEF Next, WatcherStep, Rest
<1> QED BY <1>1, <1>2

-----------------------------------------------------------------------------
(* Readers.                                                                *)

(* A step that leaves running and the active tailers alone.                *)
LEMMA ReadersStutter ==
  ASSUME Readers, CtxDone => CtxDone', UNCHANGED running,
         \A w \in Watchers : Active(w)' \subseteq Active(w),
         ~CtxDone' => \A w \in Watchers : Active(w) \subseteq Active(w)'
  PROVE  Readers'
<1> SUFFICES ASSUME NEW w \in Watchers
             PROVE  /\ \A t \in Active(w)' : t.path \in running'[w]
                    /\ \A t, u \in Active(w)' : t.path = u.path => t = u
                    /\ ~CtxDone' => \A p \in running'[w] : \E t \in Active(w)' : t.path = p
  BY DEF Readers
<1>1. /\ \A t \in Active(w) : t.path \in running[w]
      /\ \A t, u \in Active(w) : t.path = u.path => t = u
      /\ ~CtxDone => \A p \in running[w] : \E t \in Active(w) : t.path = p
  BY DEF Readers
<1>2. Active(w)' \subseteq Active(w) /\ (~CtxDone' => Active(w) \subseteq Active(w)')
  OBVIOUS
<1> HIDE DEF Active
<1>3. ~CtxDone' => \A p \in running'[w] : \E t \in Active(w)' : t.path = p
  BY <1>1, <1>2
<1> QED BY <1>1, <1>2, <1>3

(* What is active in w after its tailers for S were cancelled.             *)
LEMMA CancelledActive ==
  ASSUME Core, NEW w \in Watchers, NEW S, NEW v \in Watchers
  PROVE  {t \in Cancelled(w, S) : t.group = v /\ ~t.cancelled}
           = {t \in Active(v) : v = w => t.path \notin S}
<1> DEFINE A == {t \in Cancelled(w, S) : t.group = v /\ ~t.cancelled}
           B == {t \in Active(v) : v = w => t.path \notin S}
<1>1. ASSUME NEW t \in A PROVE t \in B
  <2>1. PICK u \in tailers : t = (IF u.group = w /\ u.path \in S THEN [u EXCEPT !.cancelled = TRUE] ELSE u)
    BY DEF Cancelled
  <2>2. u \in Tailers
    BY DEF Core, TypeOK
  <2>3. ~ (u.group = w /\ u.path \in S)
    BY <2>1, <2>2 DEF Tailers
  <2> QED BY <2>1, <2>3 DEF Active
<1>2. ASSUME NEW t \in B PROVE t \in A
  <2>1. t \in tailers /\ ~ (t.group = w /\ t.path \in S)
    BY DEF Active
  <2>2. t \in Cancelled(w, S)
    BY <2>1 DEF Cancelled
  <2> QED BY <2>2 DEF Active
<1> QED BY <1>1, <1>2

LEMMA ReadersReconcile == \A w \in Watchers : Core /\ Readers /\ Reconcile(w) => Readers'
<1> SUFFICES ASSUME NEW w \in Watchers, Core, Readers, Reconcile(w)
             PROVE  Readers'
  OBVIOUS
<1> DEFINE new == {NewTailer(w, p) : p \in found[w] \ running[w]}
           kept == {t \in Active(w) : t.path \notin running[w] \ found[w]}
<1>1. \A t \in new : t.group = w /\ ~t.cancelled
  <2>1. \A p : NewTailer(w, p).group = w /\ NewTailer(w, p).cancelled = FALSE
    BY DEF NewTailer
  <2> QED BY <2>1
<1>2. \A v \in Watchers : {t \in Cancelled(w, running[w] \ found[w]) : t.group = v /\ ~t.cancelled}
                            = {t \in Active(v) : v = w => t.path \notin running[w] \ found[w]}
  BY CancelledActive
<1>3. tailers' = Cancelled(w, running[w] \ found[w]) \cup new
  BY DEF Reconcile
<1>4. Active(w)' = kept \cup new /\ \A v \in Watchers \ {w} : Active(v)' = Active(v)
  <2>1. \A v : Active(v)' = {t \in Cancelled(w, running[w] \ found[w]) : t.group = v /\ ~t.cancelled}
                              \cup {t \in new : t.group = v /\ ~t.cancelled}
    BY <1>3 DEF Active
  <2> HIDE DEF new
  <2> QED BY <1>1, <1>2, <2>1
<1>5. running' = [running EXCEPT ![w] = found[w]] /\ CtxDone' = CtxDone
  BY DEF Reconcile, mainVars, CtxDone
<1>6. /\ \A t \in kept : t \in Active(w) /\ t.path \in running[w] \cap found[w]
      /\ \A t, u \in kept : t.path = u.path => t = u
      /\ ~CtxDone => \A p \in running[w] \cap found[w] : \E t \in kept : t.path = p
  BY DEF Readers
<1>7. /\ \A t \in new : t.path \in found[w] \ running[w]
      /\ \A t, u \in new : t.path = u.path => t = u
      /\ \A p \in found[w] \ running[w] : \E t \in new : t.path = p
  <2>1. \A p \in found[w] \ running[w] : NewTailer(w, p).path = p
    BY DEF NewTailer
  <2> QED BY <2>1
<1> HIDE DEF new, kept
<1>8. /\ \A t \in Active(w)' : t.path \in running'[w]
      /\ \A t, u \in Active(w)' : t.path = u.path => t = u
      /\ ~CtxDone' => \A p \in running'[w] : \E t \in Active(w)' : t.path = p
  <2>1. running'[w] = found[w]
    BY <1>5 DEF Core, TypeOK
  <2>2. \A t \in Active(w)' : t.path \in running'[w]
    BY <1>4, <1>6, <1>7, <2>1
  <2>3. \A t, u \in Active(w)' : t.path = u.path => t = u
    BY <1>4, <1>6, <1>7
  <2>4. ASSUME ~CtxDone', NEW p \in running'[w] PROVE \E t \in Active(w)' : t.path = p
    <3>1. CASE p \in running[w]
      BY <1>4, <1>5, <1>6, <2>1, <2>4, <3>1
    <3>2. CASE p \notin running[w]
      BY <1>4, <1>7, <2>1, <2>4, <3>2
    <3> QED BY <3>1, <3>2
  <2> QED BY <2>2, <2>3, <2>4
<1>9. ASSUME NEW v \in Watchers \ {w}
      PROVE  /\ \A t \in Active(v)' : t.path \in running'[v]
             /\ \A t, u \in Active(v)' : t.path = u.path => t = u
             /\ ~CtxDone' => \A p \in running'[v] : \E t \in Active(v)' : t.path = p
  <2>1. running'[v] = running[v] /\ Active(v)' = Active(v)
    BY <1>4, <1>5 DEF Core, TypeOK
  <2> QED BY <1>5, <2>1 DEF Readers
<1> QED BY <1>8, <1>9 DEF Readers

LEMMA ReadersStop == \A w \in Watchers : Core /\ Readers /\ Stop(w) => Readers'
<1> SUFFICES ASSUME NEW w \in Watchers, Core, Readers, Stop(w)
             PROVE  Readers'
  OBVIOUS
<1>1. tailers' = Cancelled(w, running[w]) /\ running' = [running EXCEPT ![w] = {}] /\ CtxDone'
  BY DEF Stop, CtxDone, mainVars
<1>2. \A v \in Watchers : Active(v)' = {t \in Active(v) : v = w => t.path \notin running[w]}
  BY <1>1, CancelledActive DEF Active
<1>3. \A t \in Active(w) : t.path \in running[w]
  BY DEF Readers
<1>4. Active(w)' = {} /\ \A v \in Watchers \ {w} : Active(v)' = Active(v) /\ running'[v] = running[v]
  BY <1>1, <1>2, <1>3 DEF Core, TypeOK
<1> HIDE DEF Active
<1> QED BY <1>1, <1>4 DEF Readers

LEMMA ReadersNext == Core /\ Readers /\ [Next]_vars => Readers'
<1> SUFFICES ASSUME Core, Readers, [Next]_vars
             PROVE  Readers'
  OBVIOUS
<1>1. ASSUME UNCHANGED <<tailers, running>>, CtxDone => CtxDone' PROVE Readers'
  BY <1>1, ReadersStutter DEF Active
<1>2. ASSUME NEW t \in tailers, TailerExits(t) PROVE Readers'
  <2>1. UNCHANGED <<running, main>> /\ tailers' = tailers \ {t} /\ (t.cancelled \/ CtxDone)
    BY <1>2 DEF TailerExits, mainVars
  <2>2. \A w \in Watchers : Active(w)' \subseteq Active(w)
    BY <2>1 DEF Active
  <2>3. ~CtxDone' => \A w \in Watchers : Active(w) \subseteq Active(w)'
    BY <2>1 DEF Active, CtxDone
  <2> QED BY <2>1, <2>2, <2>3, ReadersStutter DEF CtxDone
<1>3. CASE \E w \in Watchers : Reconcile(w) \/ Stop(w)
  BY <1>3, ReadersReconcile, ReadersStop
<1>4. ASSUME NEW w \in Watchers,
             \/ Scan(w) \/ ScanFails(w) \/ AddSource(w) \/ BeginDrops(w) \/ DropSource(w)
             \/ Tick(w) \/ WatcherDone(w)
      PROVE  UNCHANGED <<tailers, running, main>>
  BY <1>4 DEF Scan, ScanFails, AddSource, BeginDrops, DropSource, Tick, WatcherDone, mainVars
<1>5. ASSUME \/ Change \/ (\E t \in tailers : Emit(t)) \/ PublishLine \/ PublisherDone
             \/ Shutdown \/ CloseLines \/ Exit \/ UNCHANGED vars
      PROVE  UNCHANGED <<tailers, running>> /\ (CtxDone => CtxDone')
  BY <1>5 DEF Change, Emit, PublishLine, PublisherDone, Shutdown, CloseLines, Exit, mainVars, CtxDone, vars
<1> QED BY <1>1, <1>2, <1>3, <1>4, <1>5 DEF Next, WatcherStep, CtxDone

-----------------------------------------------------------------------------
(* The end of the process.                                                 *)

LEMMA EndedWatcher == \A w \in Watchers : Core /\ Ended /\ WatcherStep(w) => Ended'
<1> SUFFICES ASSUME NEW w \in Watchers, Core, Ended, WatcherStep(w)
             PROVE  Ended'
  OBVIOUS
<1>1. step[w] # "done" /\ UNCHANGED <<closed, publisher, main, lines>>
  BY DEF WatcherStep, Scan, ScanFails, AddSource, BeginDrops, DropSource, Reconcile, Tick, Stop,
         WatcherDone, mainVars
<1>2. ~closed
  BY <1>1 DEF Ended
<1>3. \A v \in Watchers \ {w} : step'[v] = step[v]
  BY DEF Core, TypeOK, WatcherStep, Scan, ScanFails, AddSource, BeginDrops, DropSource, Reconcile,
         Tick, Stop, WatcherDone
<1>4. ASSUME NEW v \in Watchers, step'[v] = "done" PROVE \A t \in tailers' : t.group # v
  <2>1. CASE WatcherDone(w)
    BY <1>3, <1>4, <2>1 DEF WatcherDone, Ended
  <2>2. CASE ~WatcherDone(w)
    <3>1. step'[w] # "done" /\ v # w /\ step[v] = "done"
      BY <1>1, <1>3, <1>4, <2>2 DEF Core, TypeOK, WatcherStep, Scan, ScanFails, AddSource, BeginDrops,
                               DropSource, Reconcile, Tick, Stop
    <3>2. \A t \in tailers : t.group # v
      BY <3>1 DEF Ended
    <3>3. ASSUME NEW S, NEW t \in Cancelled(w, S) PROVE t.group # v
      <4>1. PICK u \in tailers : t.group = u.group
        BY CancelledPath DEF Core, TypeOK
      <4> QED BY <4>1, <3>2
    <3>4. \A p : NewTailer(w, p).group = w
      BY DEF NewTailer
    <3>5. \/ tailers' = tailers
          \/ tailers' = Cancelled(w, running[w])
          \/ tailers' = Cancelled(w, running[w] \ found[w]) \cup {NewTailer(w, p) : p \in found[w] \ running[w]}
      BY DEF WatcherStep, Scan, ScanFails, AddSource, BeginDrops, DropSource, Reconcile, Tick, Stop,
             WatcherDone
    <3> QED BY <3>1, <3>2, <3>3, <3>4, <3>5
  <2> QED BY <2>1, <2>2
<1> QED BY <1>1, <1>2, <1>4 DEF Ended

LEMMA EndedRest == Core /\ Ended /\ (Change \/ Rest) => Ended'
<1> SUFFICES ASSUME Core, Ended, Change \/ Rest
             PROVE  Ended'
  OBVIOUS
<1>1. CASE CloseLines
  <2>1. \A t \in tailers : t.group \in Watchers \cup {"main"}
    BY DEF Core, TypeOK, Tailers
  <2>2. tailers = {}
    BY <1>1, <2>1 DEF CloseLines, Ended
  <2> QED BY <1>1, <2>2 DEF CloseLines, Ended, watchVars
<1>2. ASSUME NEW t \in tailers, Emit(t) \/ TailerExits(t) PROVE Ended'
  BY <1>2 DEF Emit, TailerExits, Ended, watchVars, mainVars
<1>3. CASE PublishLine \/ PublisherDone
  BY <1>3 DEF PublishLine, PublisherDone, Ended, watchVars, mainVars, Core, TypeOK
<1>4. CASE Shutdown \/ Exit \/ Change
  BY <1>4 DEF Shutdown, Exit, Change, Ended, watchVars, mainVars
<1> QED BY <1>1, <1>2, <1>3, <1>4 DEF Rest

LEMMA EndedNext == Core /\ Ended /\ [Next]_vars => Ended'
<1> SUFFICES ASSUME Core, Ended, [Next]_vars
             PROVE  Ended'
  OBVIOUS
<1>1. CASE UNCHANGED vars
  BY <1>1 DEF Ended, vars, watchVars, mainVars
<1>2. CASE Next
  BY <1>1, <1>2, EndedWatcher, EndedRest DEF Next, Rest
<1> QED BY <1>1, <1>2

-----------------------------------------------------------------------------
(* The beginning.                                                          *)

LEMMA InOrderLists ==
  ASSUME NEW S \in SUBSET Paths, NEW s \in InOrder(S)
  PROVE  /\ s \in Seq(Paths) /\ Len(s) \in Nat /\ DOMAIN s = 1 .. Len(s)
         /\ {s[i] : i \in DOMAIN s} = S
         /\ \A i, j \in DOMAIN s : s[i] = s[j] => i = j
<1>1. Cardinality(S) \in Nat
  BY FS_Subset, FS_CardinalityType, PathsAssumption
<1>2. /\ s \in [1 .. Cardinality(S) -> S]
      /\ \A i, j \in DOMAIN s : i < j => s[i] < s[j]
      /\ \A p \in S : \E i \in DOMAIN s : s[i] = p
  BY DEF InOrder
<1>3. s \in Seq(S) /\ Len(s) = Cardinality(S) /\ DOMAIN s = 1 .. Cardinality(S)
  BY <1>1, <1>2
<1>4. s \in Seq(Paths)
  BY <1>3
<1>5. ASSUME NEW i \in DOMAIN s, NEW j \in DOMAIN s, s[i] = s[j] PROVE i = j
  <2>1. s[i] \in Nat /\ s[j] \in Nat /\ i \in Nat /\ j \in Nat
    <3>1. s[i] \in S /\ s[j] \in S /\ i \in 1 .. Cardinality(S) /\ j \in 1 .. Cardinality(S)
      BY <1>2, <1>3
    <3>2. S \subseteq Nat
      BY PathsAssumption
    <3>3. s[i] \in Nat /\ s[j] \in Nat
      BY <3>1, <3>2
    <3>4. i \in Nat /\ j \in Nat
      BY <1>1, <3>1
    <3> QED BY <3>3, <3>4
  <2>2. ~ (s[i] < s[j]) /\ ~ (s[j] < s[i])
    BY <1>5, <2>1
  <2>3. ~ (i < j) /\ ~ (j < i)
    BY <1>2, <2>2
  <2> QED BY <2>1, <2>3
<1> QED BY <1>1, <1>2, <1>3, <1>4, <1>5

LEMMA AllOf ==
  ASSUME NEW s \in Seq(Paths), NEW t \in Seq(Paths),
         \A i, j \in DOMAIN s : s[i] = s[j] => i = j,
         \A i, j \in DOMAIN t : t[i] = t[j] => i = j,
         \A i \in DOMAIN s : \A j \in DOMAIN t : s[i] # t[j]
  PROVE  /\ s \o t \in Seq(Paths)
         /\ \A i, j \in DOMAIN (s \o t) : (s \o t)[i] = (s \o t)[j] => i = j
         /\ {(s \o t)[i] : i \in DOMAIN (s \o t)} = {s[i] : i \in DOMAIN s} \cup {t[i] : i \in DOMAIN t}
<1> DEFINE u == s \o t
<1>1. /\ u \in Seq(Paths) /\ Len(u) = Len(s) + Len(t) /\ DOMAIN u = 1 .. (Len(s) + Len(t))
      /\ Len(s) \in Nat /\ Len(t) \in Nat /\ DOMAIN s = 1 .. Len(s) /\ DOMAIN t = 1 .. Len(t)
  OBVIOUS
<1>2. \A i \in 1 .. Len(s) : u[i] = s[i]
  OBVIOUS
<1>3. \A i \in (Len(s) + 1) .. (Len(s) + Len(t)) : u[i] = t[i - Len(s)] /\ i - Len(s) \in 1 .. Len(t)
  OBVIOUS
<1>4. \A i \in 1 .. Len(t) : u[i + Len(s)] = t[i] /\ i + Len(s) \in DOMAIN u
  BY <1>1, <1>3
<1> HIDE DEF u
<1>5. \A i \in DOMAIN u : i \in 1 .. Len(s) \/ i \in (Len(s) + 1) .. (Len(s) + Len(t))
  BY <1>1
<1>6. ASSUME NEW i \in DOMAIN u, NEW j \in DOMAIN u, u[i] = u[j] PROVE i = j
  <2>1. CASE i \in 1 .. Len(s) /\ j \in 1 .. Len(s)
    BY <1>1, <1>2, <1>6, <2>1
  <2>2. CASE i \in 1 .. Len(s) /\ j \in (Len(s) + 1) .. (Len(s) + Len(t))
    <3>1. i \in DOMAIN s /\ j - Len(s) \in DOMAIN t /\ s[i] = t[j - Len(s)]
      BY <1>1, <1>2, <1>3, <1>6, <2>2
    <3> QED BY <3>1
  <2>3. CASE i \in (Len(s) + 1) .. (Len(s) + Len(t)) /\ j \in 1 .. Len(s)
    <3>1. j \in DOMAIN s /\ i - Len(s) \in DOMAIN t /\ s[j] = t[i - Len(s)]
      BY <1>1, <1>2, <1>3, <1>6, <2>3
    <3> QED BY <3>1
  <2>4. CASE i \in (Len(s) + 1) .. (Len(s) + Len(t)) /\ j \in (Len(s) + 1) .. (Len(s) + Len(t))
    <3>1. i - Len(s) = j - Len(s)
      BY <1>1, <1>3, <1>6, <2>4
    <3>2. i \in Nat /\ j \in Nat
      BY <1>1
    <3> QED BY <1>1, <3>1, <3>2
  <2> QED BY <1>5, <2>1, <2>2, <2>3, <2>4
<1>7. {u[i] : i \in DOMAIN u} = {s[i] : i \in DOMAIN s} \cup {t[i] : i \in DOMAIN t}
  <2>1. \A i \in DOMAIN s : i \in DOMAIN u
    BY <1>1
  <2>2. ASSUME NEW i \in DOMAIN u PROVE u[i] \in {s[k] : k \in DOMAIN s} \cup {t[k] : k \in DOMAIN t}
    BY <1>1, <1>2, <1>3, <1>5
  <2>3. ASSUME NEW k \in DOMAIN s PROVE s[k] \in {u[i] : i \in DOMAIN u}
    <3>1. k \in DOMAIN u /\ u[k] = s[k]
      BY <1>1, <1>2, <2>1
    <3> QED BY <3>1
  <2>4. ASSUME NEW k \in DOMAIN t PROVE t[k] \in {u[i] : i \in DOMAIN u}
    <3>1. k + Len(s) \in DOMAIN u /\ u[k + Len(s)] = t[k]
      BY <1>1, <1>4
    <3> QED BY <3>1
  <2> QED BY <2>2, <2>3, <2>4
<1> QED BY <1>1, <1>6, <1>7 DEF u

(* What is registered when main has started.                               *)
LEMMA InitRegistry ==
  Init => /\ Known = StaticPaths \cup Wanted("watch") /\ removed = {}
          /\ keys \in Seq(Paths) /\ \A i, j \in DOMAIN keys : keys[i] = keys[j] => i = j
          /\ DOMAIN bases = DOMAIN keys /\ DOMAIN names = DOMAIN keys /\ BasesAreNames
<1> SUFFICES ASSUME Init
             PROVE  /\ Known = StaticPaths \cup Wanted("watch") /\ removed = {}
                    /\ keys \in Seq(Paths) /\ \A i, j \in DOMAIN keys : keys[i] = keys[j] => i = j
                    /\ DOMAIN bases = DOMAIN keys /\ DOMAIN names = DOMAIN keys /\ BasesAreNames
  OBVIOUS
<1>1. StaticPaths \in SUBSET Paths /\ Wanted("watch") \in SUBSET Paths
      /\ StaticPaths \cap Wanted("watch") = {}
  BY PathsAssumption DEF Wanted
<1>2. PICK static \in InOrder(StaticPaths), watched \in InOrder(Wanted("watch")) :
        RegistryInit(static \o watched)
  BY DEF Init
<1>3. /\ static \in Seq(Paths)
      /\ {static[i] : i \in DOMAIN static} = StaticPaths
      /\ \A i, j \in DOMAIN static : static[i] = static[j] => i = j
  BY <1>1, InOrderLists
<1>4. /\ watched \in Seq(Paths)
      /\ {watched[i] : i \in DOMAIN watched} = Wanted("watch")
      /\ \A i, j \in DOMAIN watched : watched[i] = watched[j] => i = j
  BY <1>1, InOrderLists
<1>5. \A i \in DOMAIN static : \A j \in DOMAIN watched : static[i] # watched[j]
  BY <1>1, <1>3, <1>4
<1>6. /\ keys = static \o watched /\ removed = {}
      /\ bases = DedupeNames([i \in DOMAIN keys |-> BaseName[keys[i]]])
      /\ names = DedupeNames(bases)
  BY <1>2 DEF RegistryInit
<1>7. /\ keys \in Seq(Paths)
      /\ \A i, j \in DOMAIN keys : keys[i] = keys[j] => i = j
      /\ Known = StaticPaths \cup Wanted("watch")
  <2> DEFINE all == static \o watched
  <2>1. /\ all \in Seq(Paths)
        /\ \A i, j \in DOMAIN all : all[i] = all[j] => i = j
        /\ {all[i] : i \in DOMAIN all} = {static[i] : i \in DOMAIN static} \cup {watched[i] : i \in DOMAIN watched}
    BY <1>3, <1>4, <1>5, AllOf
  <2> HIDE DEF all
  <2>2. keys = all
    BY <1>6 DEF all
  <2>3. Known = {all[i] : i \in DOMAIN all}
    BY <2>2 DEF Known
  <2>4. {all[i] : i \in DOMAIN all} = StaticPaths \cup Wanted("watch")
    BY <1>3, <1>4, <2>1, Zenon
  <2>5. Known = StaticPaths \cup Wanted("watch")
    BY <2>3, <2>4
  <2> QED BY <2>1, <2>2, <2>5
<1>8. DOMAIN bases = DOMAIN keys /\ DOMAIN names = DOMAIN bases
  <2>1. DOMAIN [i \in DOMAIN keys |-> BaseName[keys[i]]] = DOMAIN keys
    OBVIOUS
  <2> QED BY <1>6, <2>1, DedupeDomain
<1>9. BasesAreNames
  <2>1. DOMAIN bases = 1 .. Len(keys) /\ Len(keys) \in Nat
    BY <1>7, <1>8
  <2>2. bases = [i \in 1 .. Len(keys) |-> bases[i]]
    BY <1>6, <2>1 DEF DedupeNames
  <2> QED BY <2>1, <2>2 DEF BasesAreNames
<1> QED BY <1>6, <1>7, <1>8, <1>9

LEMMA InductiveInit == Init => Inductive
<1> SUFFICES ASSUME Init
             PROVE  Inductive
  OBVIOUS
<1>1. /\ Known = StaticPaths \cup Wanted("watch") /\ removed = {}
      /\ keys \in Seq(Paths) /\ \A i, j \in DOMAIN keys : keys[i] = keys[j] => i = j
      /\ DOMAIN bases = DOMAIN keys /\ DOMAIN names = DOMAIN keys /\ BasesAreNames
  BY InitRegistry
<1>2. /\ step = [w \in Watchers |-> IF w = "docker" THEN "scan" ELSE "add"]
      /\ found = [w \in Watchers |-> IF w = "docker" THEN {} ELSE Wanted(w)] /\ todo = found
      /\ prev = [w \in Watchers |-> {}] /\ running = [w \in Watchers |-> {}]
      /\ exists \subseteq DockerPaths \cup WatchPaths /\ namer = StaticPaths
      /\ lines = <<>> /\ closed = FALSE /\ publisher = "range" /\ main = "run"
  BY DEF Init
<1>3. Wanted("watch") \subseteq Own("watch") /\ Own("watch") \subseteq Paths /\ StaticPaths \subseteq Paths
  BY OwnType, PathsAssumption
<1> DEFINE first(p) == [group |-> "main", path |-> p, no |-> 0, cancelled |-> FALSE]
<1>4. tailers = {first(p) : p \in StaticPaths}
  BY DEF Init
<1>5. \A t \in tailers : t \in Tailers /\ t.path \in StaticPaths /\ t.group = "main"
  <2>1. \A p \in Paths : first(p) \in Tailers /\ first(p).path = p /\ first(p).group = "main"
    BY DEF Tailers
  <2> HIDE DEF first
  <2> QED BY <1>3, <1>4, <2>1
<1>6. IsFiniteSet(tailers)
  <2>1. [p \in StaticPaths |-> first(p)] \in Surjection(StaticPaths, tailers)
    BY <1>4 DEF Surjection
  <2>2. IsFiniteSet(StaticPaths)
    BY <1>3, FS_Subset, PathsAssumption
  <2> QED BY <2>1, <2>2, FS_Surjection
<1> HIDE DEF first
<1>7. TypeOK
  <2>1. /\ step \in [Watchers -> {"scan", "add", "drop", "wait", "stop", "done"}]
        /\ found \in [Watchers -> SUBSET Paths] /\ prev \in [Watchers -> SUBSET Paths]
        /\ todo \in [Watchers -> SUBSET Paths] /\ running \in [Watchers -> SUBSET Paths]
    BY <1>2, <1>3
  <2>2. lines \in Seq(Paths) /\ Len(lines) <= LineBuffer
    BY <1>2, SizesAssumption
  <2> QED BY <1>1, <1>2, <1>3, <1>5, <2>1, <2>2 DEF TypeOK
<1>8. OwnPaths
  BY <1>2, <1>3 DEF OwnPaths, Own
<1>9. ScansNamed
  BY <1>2 DEF ScansNamed, Named
<1>10. KnownWhenPublished
  BY <1>1, <1>2, <1>5 DEF KnownWhenPublished
<1>11. Readers
  BY <1>2, <1>5 DEF Readers, Active
<1>12. Ended
  BY <1>2 DEF Ended
<1> QED BY <1>1, <1>6, <1>7, <1>8, <1>9, <1>10, <1>11, <1>12 DEF Inductive

-----------------------------------------------------------------------------
(* Every state of every behaviour, for any finite sets of paths, limits,   *)
(* changes of the files and failures of the scans: the watchers keep to    *)
(* their own paths, what they have gone through is registered and named,   *)
(* each group has one live tailer for each path of its map, and whoever    *)
(* could send has ended before the channel is closed (main.go, namer.go,   *)
(* tailgroup.go, dockerwatch.go).                                          *)
THEOREM DiscoveryInductive == Spec => []Inductive
<1>1. Inductive /\ [Next]_vars => Inductive'
  BY CoreNext, NamingNext, ReadersNext, EndedNext DEF Inductive, Core, Naming
<1> QED BY InductiveInit, <1>1, PTL DEF Spec

(* The state of the watchers, the groups, the channel and the registry     *)
(* keeps its type; in particular a path has one id (register's lookup).    *)
THEOREM DiscoveryTypes == Spec => []TypeOK
<1>1. Inductive => TypeOK
  BY DEF Inductive
<1> QED BY <1>1, DiscoveryInductive, PTL

(* A tailer's source, and that of a line on its way, has an id: reconcile  *)
(* registers before it tails, and remove only hides.                       *)
THEOREM SourcesKnown == Spec => []KnownWhenPublished
<1>1. Inductive => KnownWhenPublished
  BY DEF Inductive
<1> QED BY <1>1, DiscoveryInductive, PTL

(* A file that is found and tailed is listed and has its own name, for all *)
(* that the drops of either watcher do.                                    *)
THEOREM FilesNamed == Spec => []NamedWhileThere
<1>1. Inductive => NamedWhileThere
  BY DEF Inductive, ScansNamed, Named, NamedWhileThere
<1> QED BY <1>1, DiscoveryInductive, PTL

(* close(lines) comes when no tailer is left to send, and main returns     *)
(* when the publisher has taken every line.                                *)
THEOREM NothingSentAfterClose == Spec => []NoSendAfterClose
<1>1. Inductive => NoSendAfterClose
  BY DEF Inductive, Ended, NoSendAfterClose
<1> QED BY <1>1, DiscoveryInductive, PTL

(* A group has at most one tailer for a file that is not cancelled, and    *)
(* one while it counts the file as running and the process goes on: the    *)
(* map and the goroutines of Reconcile and Stop agree.                     *)
THEOREM SingleReader == Spec => []OneReader
<1>1. Inductive => OneReader
  <2> SUFFICES ASSUME Inductive, NEW w \in Watchers, NEW p \in Paths
               PROVE  LET readers == {t \in tailers : t.group = w /\ t.path = p /\ ~t.cancelled} IN
                      /\ Cardinality(readers) <= 1
                      /\ readers # {} => p \in running[w]
                      /\ p \in running[w] /\ ~CtxDone => readers # {}
    BY DEF OneReader
  <2> DEFINE readers == {t \in tailers : t.group = w /\ t.path = p /\ ~t.cancelled}
  <2>1. readers = {t \in Active(w) : t.path = p}
    BY DEF Active
  <2>2. /\ \A t \in Active(w) : t.path \in running[w]
        /\ \A t, u \in Active(w) : t.path = u.path => t = u
        /\ ~CtxDone => \A q \in running[w] : \E t \in Active(w) : t.path = q
    BY DEF Inductive, Readers
  <2> HIDE DEF readers
  <2>3. Cardinality(readers) <= 1
    <3>1. CASE readers = {}
      BY <3>1, FS_EmptySet
    <3>2. CASE readers # {}
      <4>1. PICK t \in readers : readers = {t}
        BY <2>1, <2>2, <3>2
      <4> QED BY <4>1, FS_Singleton
    <3> QED BY <3>1, <3>2
  <2>4. /\ readers # {} => p \in running[w]
        /\ p \in running[w] /\ ~CtxDone => readers # {}
    BY <2>1, <2>2
  <2> QED BY <2>3, <2>4 DEF readers
<1> QED BY <1>1, DiscoveryInductive, PTL

-----------------------------------------------------------------------------
(* Names on show.                                                          *)

(* Base names are names: no file, container or forwarded source is itself  *)
(* called by another's name with a number, as a file "app.log #2" would be.*)
PlainName(b) == b \in Seq(STRING) /\ Len(b) = 1
PlainNames == \A p \in Paths : PlainName(BaseName[p])

Class(b, i, upTo) == {j \in 1 .. upTo : b[j] = b[i]}

LEMMA DedupeOf ==
  ASSUME NEW b, NEW i \in DOMAIN b
  PROVE  DedupeNames(b)[i] = IF Cardinality(Class(b, i, Len(b))) > 1
                             THEN Append(b[i], Cardinality(Class(b, i, i))) ELSE b[i]
BY DEF DedupeNames, Class

LEMMA ClassFinite ==
  ASSUME NEW b, NEW i \in Nat, NEW n \in Nat
  PROVE  IsFiniteSet(Class(b, i, n)) /\ Cardinality(Class(b, i, n)) \in Nat
<1>1. IsFiniteSet(1 .. n)
  BY FS_Interval
<1>2. Class(b, i, n) \subseteq 1 .. n
  BY DEF Class
<1> QED BY <1>1, <1>2, FS_Subset, FS_CardinalityType

(* The numbers of those who share a name differ.                           *)
LEMMA ClassGrows ==
  ASSUME NEW b, NEW i \in Nat \ {0}, NEW j \in Nat, i < j, b[i] = b[j]
  PROVE  Cardinality(Class(b, i, i)) # Cardinality(Class(b, j, j))
<1>1. Class(b, i, i) \subseteq Class(b, j, j) /\ j \in Class(b, j, j) /\ j \notin Class(b, i, i)
  BY DEF Class
<1>2. IsFiniteSet(Class(b, j, j))
  BY ClassFinite
<1> QED BY <1>1, <1>2, FS_Subset

LEMMA ClassOfOne ==
  ASSUME NEW b, NEW n \in Nat, NEW i \in 1 .. n
  PROVE  /\ Cardinality(Class(b, i, n)) > 1 => \E j \in 1 .. n : j # i /\ b[j] = b[i]
         /\ ~ (Cardinality(Class(b, i, n)) > 1) => \A j \in 1 .. n : b[j] = b[i] => j = i
<1>1. i \in Class(b, i, n) /\ IsFiniteSet(Class(b, i, n)) /\ Cardinality(Class(b, i, n)) \in Nat
  <2>1. i \in Class(b, i, n)
    BY DEF Class
  <2> QED BY <2>1, ClassFinite
<1>2. Cardinality({i}) = 1
  BY FS_Singleton
<1>3. ASSUME \A j \in 1 .. n : b[j] = b[i] => j = i PROVE Cardinality(Class(b, i, n)) = 1
  <2>1. Class(b, i, n) = {i}
    BY <1>3 DEF Class
  <2> QED BY <1>2, <2>1
<1>4. ASSUME NEW j \in 1 .. n, b[j] = b[i], j # i PROVE Cardinality(Class(b, i, n)) > 1
  <2>1. {i} \subseteq Class(b, i, n) /\ {i} # Class(b, i, n)
    <3>1. j \in Class(b, i, n)
      BY <1>4 DEF Class
    <3> QED BY <1>1, <1>4, <3>1
  <2>2. Cardinality({i}) <= Cardinality(Class(b, i, n)) /\ Cardinality({i}) # Cardinality(Class(b, i, n))
    BY <1>1, <2>1, FS_Subset
  <2> QED BY <1>1, <1>2, <2>2
<1> QED BY <1>3, <1>4

(* The first of them is number one.                                        *)
LEMMA ClassFirst ==
  ASSUME NEW b, NEW n \in Nat, NEW i \in 1 .. n
  PROVE  \E k \in 1 .. n : b[k] = b[i] /\ Cardinality(Class(b, k, k)) = 1
<1> DEFINE S == Class(b, i, n)
<1>1. S \in SUBSET Nat /\ i \in S
  BY DEF Class
<1>2. PICK k \in S : \A j \in S : k <= j
  <2>1. \E x \in S : \A y \in S : ~ (<<y, x>> \in OpToRel(<, Nat))
    BY <1>1, WFMin, NatLessThanWellFounded, Zenon
  <2>2. PICK x \in S : \A y \in S : ~ (<<y, x>> \in OpToRel(<, Nat))
    BY <2>1
  <2> HIDE DEF S
  <2>3. \A y \in S : <<y, x>> \in OpToRel(<, Nat) <=> y < x
    BY <1>1 DEF OpToRel
  <2>4. \A y \in S : x <= y
    <3> SUFFICES ASSUME NEW y \in S PROVE x <= y
      OBVIOUS
    <3>1. ~ (y < x) /\ x \in Nat /\ y \in Nat
      BY <1>1, <2>2, <2>3
    <3> QED BY <3>1
  <2> QED BY <2>4
<1>3. k \in 1 .. n /\ b[k] = b[i]
  BY DEF Class
<1>4. Class(b, k, k) = {k}
  <2>1. ASSUME NEW j \in 1 .. k, b[j] = b[k] PROVE j = k
    <3>1. j \in S
      BY <1>3, <2>1 DEF Class
    <3>2. k <= j
      BY <1>2, <3>1
    <3> QED BY <1>3, <3>2
  <2> QED BY <1>3, <2>1 DEF Class
<1>5. Cardinality(Class(b, k, k)) = 1
  BY <1>4, FS_Singleton
<1> QED BY <1>3, <1>5

LEMMA AppendGrows ==
  ASSUME NEW T, NEW s \in Seq(T), NEW x \in T
  PROVE  Append(s, x) \in Seq(T) /\ Len(Append(s, x)) = Len(s) + 1
OBVIOUS

LEMMA AppendOne ==
  ASSUME NEW T, NEW s \in Seq(T), NEW t \in Seq(T), NEW x \in T, NEW y \in T,
         Append(s, x) = Append(t, y)
  PROVE  s = t /\ x = y
<1>1. /\ Len(Append(s, x)) = Len(s) + 1 /\ Len(Append(t, y)) = Len(t) + 1
      /\ Len(s) \in Nat /\ Len(t) \in Nat
  OBVIOUS
<1>2. Len(s) = Len(t)
  BY <1>1
<1>3. /\ \A i \in 1 .. Len(s) : Append(s, x)[i] = s[i]
      /\ \A i \in 1 .. Len(t) : Append(t, y)[i] = t[i]
      /\ Append(s, x)[Len(s) + 1] = x /\ Append(t, y)[Len(t) + 1] = y
  OBVIOUS
<1>4. \A i \in 1 .. Len(s) : s[i] = t[i]
  BY <1>2, <1>3
<1>5. s = t
  <2>1. s = [i \in 1 .. Len(s) |-> s[i]] /\ t = [i \in 1 .. Len(t) |-> t[i]]
    OBVIOUS
  <2> QED BY <1>2, <1>4, <2>1
<1> QED BY <1>2, <1>3, <1>5

(* What is registered: a plain name, or one numbered at start-up together  *)
(* with the one that was numbered first.                                   *)
Numbered(b, x) ==
  \E c : PlainName(c) /\ \E m \in Nat : x = Append(c, m) /\ \E k \in DOMAIN b : b[k] = Append(c, 1)

NamesFrom ==
  /\ names = DedupeNames(bases)
  /\ \A i \in DOMAIN bases : PlainName(bases[i]) \/ Numbered(bases, bases[i])

LEMMA NamesInit == PlainNames /\ Init => NamesFrom
<1> SUFFICES ASSUME PlainNames, Init
             PROVE  NamesFrom
  OBVIOUS
<1>1. /\ names = DedupeNames(bases) /\ keys \in Seq(Paths)
      /\ bases = DedupeNames([i \in DOMAIN keys |-> BaseName[keys[i]]])
  BY InitRegistry DEF Init, RegistryInit
<1>2. PICK n \in Nat : DOMAIN keys = 1 .. n
  BY <1>1
<1> DEFINE raw == [i \in DOMAIN keys |-> BaseName[keys[i]]]
<1>3. /\ raw \in Seq(Seq(STRING)) /\ Len(raw) = n /\ DOMAIN raw = 1 .. n
      /\ \A i \in 1 .. n : PlainName(raw[i])
  BY <1>1, <1>2 DEF PlainNames, PlainName
<1> HIDE DEF raw
<1>4. bases = DedupeNames(raw) /\ DOMAIN bases = 1 .. n
  BY <1>1, <1>3, DedupeDomain DEF raw
<1>5. \A i \in 1 .. n : bases[i] = IF Cardinality(Class(raw, i, n)) > 1
                                   THEN Append(raw[i], Cardinality(Class(raw, i, i))) ELSE raw[i]
  BY <1>3, <1>4, DedupeOf
<1>6. ASSUME NEW i \in 1 .. n PROVE PlainName(bases[i]) \/ Numbered(bases, bases[i])
  <2>1. CASE ~ (Cardinality(Class(raw, i, n)) > 1)
    BY <1>3, <1>5, <2>1
  <2>2. CASE Cardinality(Class(raw, i, n)) > 1
    <3>1. PICK k \in 1 .. n : raw[k] = raw[i] /\ Cardinality(Class(raw, k, k)) = 1
      BY ClassFirst
    <3>2. Class(raw, k, n) = Class(raw, i, n)
      BY <3>1 DEF Class
    <3>3. bases[k] = Append(raw[i], 1) /\ k \in DOMAIN bases
      BY <1>4, <1>5, <2>2, <3>1, <3>2
    <3>4. bases[i] = Append(raw[i], Cardinality(Class(raw, i, i)))
      BY <1>5, <2>2
    <3>5. Cardinality(Class(raw, i, i)) \in Nat
      <4>1. i \in Nat
        OBVIOUS
      <4> QED BY <4>1, ClassFinite
    <3>6. PlainName(raw[i])
      BY <1>3
    <3> QED BY <3>3, <3>4, <3>5, <3>6 DEF Numbered
  <2> QED BY <2>1, <2>2
<1> QED BY <1>1, <1>4, <1>6 DEF NamesFrom

LEMMA NamesRegister ==
  ASSUME PlainNames, BasesAreNames, NamesFrom, NEW p \in Paths, Register(p)
  PROVE  NamesFrom'
<1>1. CASE UNCHANGED <<keys, bases, names>>
  BY <1>1 DEF NamesFrom
<1>2. CASE bases' = Append(bases, BaseName[p]) /\ names' = DedupeNames(bases')
  <2> DEFINE B == {bases[i] : i \in DOMAIN bases} \cup {BaseName[p]}
  <2>1. bases \in Seq(B) /\ BaseName[p] \in B
    BY DEF BasesAreNames
  <2> HIDE DEF B
  <2>2. /\ \A i \in DOMAIN bases : i \in DOMAIN bases' /\ bases'[i] = bases[i]
        /\ \A i \in DOMAIN bases' : i \in DOMAIN bases \/ bases'[i] = BaseName[p]
    BY <1>2, <2>1
  <2>3. ASSUME NEW x, Numbered(bases, x) PROVE Numbered(bases', x)
    BY <2>2, <2>3 DEF Numbered
  <2>4. ASSUME NEW i \in DOMAIN bases' PROVE PlainName(bases'[i]) \/ Numbered(bases', bases'[i])
    <3>1. CASE bases'[i] = BaseName[p]
      BY <3>1 DEF PlainNames
    <3>2. CASE i \in DOMAIN bases
      BY <2>2, <2>3, <3>2 DEF NamesFrom
    <3> QED BY <2>2, <3>1, <3>2
  <2> QED BY <1>2, <2>4 DEF NamesFrom
<1> QED BY <1>1, <1>2 DEF Register

LEMMA NamesNext == PlainNames /\ Inductive /\ NamesFrom /\ [Next]_vars => NamesFrom'
<1> SUFFICES ASSUME PlainNames, Inductive, NamesFrom, [Next]_vars
             PROVE  NamesFrom'
  OBVIOUS
<1>1. ASSUME UNCHANGED <<bases, names>> PROVE NamesFrom'
  BY <1>1 DEF NamesFrom
<1>2. ASSUME NEW w \in Watchers, AddSource(w) PROVE NamesFrom'
  <2> DEFINE p == LowestPath(todo[w])
  <2>1. p \in Paths
    BY <1>2, LowestIn, PathsAssumption DEF Inductive, TypeOK, AddSource
  <2>2. Register(p)
    BY <1>2 DEF AddSource
  <2> HIDE DEF p
  <2> QED BY <2>1, <2>2, NamesRegister DEF Inductive
<1>3. ASSUME NEW w \in Watchers,
             \/ Scan(w) \/ ScanFails(w) \/ BeginDrops(w) \/ DropSource(w) \/ Reconcile(w)
             \/ Tick(w) \/ Stop(w) \/ WatcherDone(w)
      PROVE  UNCHANGED <<bases, names>>
  BY <1>3 DEF Scan, ScanFails, BeginDrops, DropSource, Reconcile, Tick, Stop, WatcherDone, Remove, registryVars
<1>4. ASSUME NEW t \in tailers, Emit(t) \/ TailerExits(t) PROVE UNCHANGED <<bases, names>>
  BY <1>4 DEF Emit, TailerExits, registryVars
<1>5. ASSUME \/ Change \/ PublishLine \/ PublisherDone \/ Shutdown \/ CloseLines \/ Exit \/ UNCHANGED vars
      PROVE  UNCHANGED <<bases, names>>
  BY <1>5 DEF Change, PublishLine, PublisherDone, Shutdown, CloseLines, Exit, vars, registryVars
<1> QED BY <1>1, <1>2, <1>3, <1>4, <1>5 DEF Next, WatcherStep

LEMMA NamesApart == BasesAreNames /\ NamesFrom => NamesDistinct
<1> SUFFICES ASSUME BasesAreNames, NamesFrom,
                    \A i, j \in DOMAIN bases : bases[i] = bases[j] /\ i # j =>
                       ~ \E k \in DOMAIN bases : bases[k] = Append(bases[i], 1),
                    NEW i \in DOMAIN names, NEW j \in DOMAIN names, names[i] = names[j]
             PROVE  i = j
  BY DEF NamesDistinct
<1>1. PICK n \in Nat : DOMAIN bases = 1 .. n /\ Len(bases) = n
  BY DEF BasesAreNames
<1>2. i \in 1 .. n /\ j \in 1 .. n
  BY <1>1, DedupeDomain DEF NamesFrom
<1> DEFINE Shared(k) == Cardinality(Class(bases, k, n)) > 1
           Number(k) == Cardinality(Class(bases, k, k))
           T == STRING \cup Nat
<1>3. \A k \in 1 .. n : names[k] = IF Shared(k) THEN Append(bases[k], Number(k)) ELSE bases[k]
  BY <1>1, DedupeOf DEF NamesFrom
<1>4. \A k \in 1 .. n : /\ Shared(k) => \E l \in 1 .. n : l # k /\ bases[l] = bases[k]
                        /\ ~ Shared(k) => \A l \in 1 .. n : bases[l] = bases[k] => l = k
  BY ClassOfOne
<1>5. \A k \in 1 .. n : Number(k) \in Nat
  BY ClassFinite
<1>6. \A k, l \in 1 .. n : bases[k] = bases[l] /\ Number(k) = Number(l) => k = l
  <2> SUFFICES ASSUME NEW k \in 1 .. n, NEW l \in 1 .. n, bases[k] = bases[l], k # l
               PROVE  Number(k) # Number(l)
    OBVIOUS
  <2>1. CASE k < l
    BY <2>1, ClassGrows
  <2>2. CASE l < k
    BY <2>2, ClassGrows
  <2>3. k < l \/ l < k
    OBVIOUS
  <2> QED BY <2>1, <2>2, <2>3
<1> HIDE DEF Shared, Number
<1>7. \A k \in 1 .. n : /\ bases[k] \in Seq(T)
                        /\ Len(bases[k]) = 1 \/ (Numbered(bases, bases[k]) /\ Len(bases[k]) = 2)
  <2> SUFFICES ASSUME NEW k \in 1 .. n
               PROVE  /\ bases[k] \in Seq(T)
                      /\ Len(bases[k]) = 1 \/ (Numbered(bases, bases[k]) /\ Len(bases[k]) = 2)
    OBVIOUS
  <2>1. CASE PlainName(bases[k])
    BY <2>1 DEF PlainName
  <2>2. CASE Numbered(bases, bases[k])
    <3>1. PICK c, m : PlainName(c) /\ m \in Nat /\ bases[k] = Append(c, m)
      BY <2>2 DEF Numbered
    <3>2. c \in Seq(T) /\ m \in T /\ Len(c) = 1
      BY <3>1 DEF PlainName
    <3> HIDE DEF T
    <3>3. Append(c, m) \in Seq(T) /\ Len(Append(c, m)) = 2
      <4>1. Append(c, m) \in Seq(T) /\ Len(Append(c, m)) = Len(c) + 1
        BY <3>2, AppendGrows
      <4> QED BY <3>2, <4>1
    <3>4. bases[k] = Append(c, m)
      BY <3>1
    <3>5. bases[k] \in Seq(T) /\ Len(bases[k]) = 2
      BY <3>3, <3>4, Zenon
    <3> QED BY <2>2, <3>5, Zenon
  <2> HIDE DEF T
  <2>3. PlainName(bases[k]) \/ Numbered(bases, bases[k])
    BY <1>1 DEF NamesFrom
  <2> QED BY <2>1, <2>2, <2>3
(* A shared name with its number is not a name that one source has alone.  *)
<1>8. ASSUME NEW k \in 1 .. n, NEW l \in 1 .. n, Shared(k), ~ Shared(l) PROVE names[k] # names[l]
  <2> SUFFICES ASSUME Append(bases[k], Number(k)) = bases[l]
               PROVE  FALSE
    BY <1>3, <1>8
  <2>1. bases[k] \in Seq(T) /\ bases[l] \in Seq(T) /\ Number(k) \in T /\ Number(k) \in Nat
    BY <1>5, <1>7
  <2>2. Len(bases[l]) = Len(bases[k]) + 1
    BY <2>1
  <2>3. Numbered(bases, bases[l]) /\ Len(bases[k]) = 1
    BY <1>7, <2>2
  <2>4. PICK c, m : /\ PlainName(c) /\ m \in Nat /\ bases[l] = Append(c, m)
                    /\ \E q \in DOMAIN bases : bases[q] = Append(c, 1)
    BY <2>3 DEF Numbered
  <2>5. c \in Seq(T) /\ m \in T
    BY <2>4 DEF PlainName
  <2>6. c = bases[k]
    <3>1. PICK d, e : d = bases[k] /\ e = Number(k)
      OBVIOUS
    <3>2. d \in Seq(T) /\ e \in T /\ Append(c, m) = Append(d, e)
      BY <2>1, <2>4, <3>1
    <3> HIDE DEF T
    <3>3. c = d
      BY <2>5, <3>2, AppendOne
    <3> QED BY <3>1, <3>3
  <2>7. PICK q \in 1 .. n : q # k /\ bases[q] = bases[k]
    BY <1>4, <1>8
  <2> QED BY <1>1, <2>4, <2>6, <2>7
<1>9. CASE Shared(i) /\ Shared(j)
  <2>1. Append(bases[i], Number(i)) = Append(bases[j], Number(j))
    BY <1>2, <1>3, <1>9
  <2>2. bases[i] = bases[j] /\ Number(i) = Number(j)
    <3>1. bases[i] \in Seq(T) /\ bases[j] \in Seq(T) /\ Number(i) \in T /\ Number(j) \in T
      BY <1>2, <1>5, <1>7
    <3> HIDE DEF T
    <3> QED BY <2>1, <3>1, AppendOne
  <2> QED BY <1>2, <1>6, <2>2
<1>10. CASE ~ Shared(i) /\ ~ Shared(j)
  BY <1>2, <1>3, <1>4, <1>10
<1> QED BY <1>2, <1>8, <1>9, <1>10

(* Sources on show have different names, however many share a base name and*)
(* in whatever order they come, unless two later ones come under a name    *)
(* that was numbered at start-up. That no base name ends in a number is    *)
(* needed: the files "app.log" (twice) and "app.log #2", all registered    *)
(* after start-up, show "app.log #2" twice (register, dedupeNames).        *)
THEOREM NamesStayDistinct == PlainNames => (Spec => []NamesDistinct)
<1> SUFFICES ASSUME PlainNames
             PROVE  Spec => []NamesDistinct
  OBVIOUS
<1>1. Init => Inductive /\ NamesFrom
  BY InductiveInit, NamesInit
<1>2. (Inductive /\ NamesFrom) /\ [Next]_vars => (Inductive /\ NamesFrom)'
  BY CoreNext, NamingNext, ReadersNext, EndedNext, NamesNext DEF Inductive, Core, Naming
<1>3. Inductive /\ NamesFrom => NamesDistinct
  BY NamesApart DEF Inductive
<1> QED BY <1>1, <1>2, <1>3, PTL DEF Spec
=============================================================================
