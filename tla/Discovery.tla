----------------------------- MODULE Discovery ------------------------------
(***************************************************************************)
(* Which files a process tails: main's static sources, the Docker watcher  *)
(* and the rescans of directories and globs, each of which reconciles a    *)
(* tailgroup with what it finds; and the end of the process (main.go,      *)
(* namer.go, tailgroup, dockerwatch).                                      *)
(*                                                                         *)
(* A tailer is abstracted to the lines it sends; what it reads is the      *)
(* business of module Tail.  A line is the path it comes from.  Paths are  *)
(* numbers, in the order in which a scan finds them.                       *)
(***************************************************************************)
EXTENDS Registry

CONSTANTS
  StaticPaths, DockerPaths, WatchPaths,
  WatchLimit,     \* maxTailedFiles less the static ones
  LineBuffer,     \* capacity of the lines channel
  MaxChanges, MaxScanErrors    \* bounds

ASSUME PathsAssumption ==
  /\ Paths \subseteq Nat /\ IsFiniteSet(Paths)
  /\ Paths = StaticPaths \cup DockerPaths \cup WatchPaths
  /\ StaticPaths \cap DockerPaths = {} /\ StaticPaths \cap WatchPaths = {}
  /\ DockerPaths \cap WatchPaths = {}
ASSUME SizesAssumption == WatchLimit \in Nat /\ LineBuffer \in Nat \ {0}
ASSUME BoundsAssumption == MaxChanges \in Nat /\ MaxScanErrors \in Nat

Watchers == {"docker", "watch"}

VARIABLES
  exists,       \* the files there are
  step,         \* step[w]: where watcher w is in its loop
  found, prev,  \* found[w], prev[w]: this scan's files, and the previous one's
  todo,         \* todo[w]: paths its current loop has still to visit
  running,      \* running[w]: the keys of its group's map
  namer,        \* paths the sourceNamer has a name for
  tailers,      \* tailer goroutines
  lines, closed,
  publisher,    \* "range" over the channel, or "done"
  main,         \* "run", "stopping", "draining" or "exited"
  changes, scanErrors

watchVars == <<step, found, prev, todo>>
boundVars == <<changes, scanErrors>>
mainVars == <<publisher, main>>
vars == <<exists, watchVars, running, namer, tailers, lines, closed, mainVars, boundVars, registryVars>>

CtxDone == main # "run"

LowestPath(S) == CHOOSE p \in S : \A q \in S : p <= q

(* scanWatchArgs keeps the first ones; a Docker scan keeps all.            *)
Wanted(w) ==
  IF w = "docker" THEN exists \cap DockerPaths
  ELSE {p \in exists \cap WatchPaths :
          Cardinality({q \in exists \cap WatchPaths : q <= p}) <= WatchLimit}

(* The sequences that list S in the order of a scan: there is one.         *)
InOrder(S) ==
  {s \in [1 .. Cardinality(S) -> S] :
     /\ \A i, j \in DOMAIN s : i < j => s[i] < s[j]
     /\ \A p \in S : \E i \in DOMAIN s : s[i] = p}

Tailers == [group : Watchers \cup {"main"}, path : Paths, no : Nat, cancelled : BOOLEAN]

(* A tailer for p, told apart from those for p that still exit.            *)
NewTailer(g, p) ==
  LET used == {t.no : t \in {u \in tailers : u.path = p}} IN
  [group |-> g, path |-> p, cancelled |-> FALSE,
   no |-> CHOOSE n \in 0 .. Cardinality(used) : n \notin used]

(* main has started: static sources have their tailers, the server knows   *)
(* them and what the watched arguments yielded, which is also what the     *)
(* first reconciliation gets.                                              *)
Init ==
  /\ exists \in SUBSET (DockerPaths \cup WatchPaths)
  /\ step = [w \in Watchers |-> IF w = "docker" THEN "scan" ELSE "add"]
  /\ found = [w \in Watchers |-> IF w = "docker" THEN {} ELSE Wanted(w)]
  /\ todo = found
  /\ prev = [w \in Watchers |-> {}]
  /\ running = [w \in Watchers |-> {}]
  /\ namer = StaticPaths
  /\ tailers = {[group |-> "main", path |-> p, no |-> 0, cancelled |-> FALSE] : p \in StaticPaths}
  /\ lines = <<>> /\ closed = FALSE
  /\ publisher = "range" /\ main = "run"
  /\ changes = 0 /\ scanErrors = 0
  /\ \E static \in InOrder(StaticPaths), watched \in InOrder(Wanted("watch")) :
       RegistryInit(static \o watched)

-----------------------------------------------------------------------------
(* Files come and go.                                                      *)

Change ==
  /\ changes < MaxChanges
  /\ changes' = changes + 1
  /\ \E p \in DockerPaths \cup WatchPaths :
       exists' = IF p \in exists THEN exists \ {p} ELSE exists \cup {p}
  /\ UNCHANGED <<watchVars, running, namer, tailers, lines, closed, mainVars, scanErrors, registryVars>>

-----------------------------------------------------------------------------
(* The watchers.                                                           *)

(* A scan that sees the files there are.                                   *)
Scan(w) ==
  /\ step[w] = "scan"
  /\ found' = [found EXCEPT ![w] = Wanted(w)]
  /\ todo' = [todo EXCEPT ![w] = Wanted(w)]
  /\ step' = [step EXCEPT ![w] = "add"]
  /\ UNCHANGED <<exists, prev, running, namer, tailers, lines, closed, mainVars, boundVars, registryVars>>

(* The Docker root cannot be read, or a pattern fails to expand: no file.  *)
ScanFails(w) ==
  /\ step[w] = "scan" /\ scanErrors < MaxScanErrors
  /\ scanErrors' = scanErrors + 1
  /\ found' = [found EXCEPT ![w] = {}]
  /\ todo' = [todo EXCEPT ![w] = {}]
  /\ step' = [step EXCEPT ![w] = "add"]
  /\ UNCHANGED <<exists, prev, running, namer, tailers, lines, closed, mainVars, changes, registryVars>>

(* A slip: RegisterSource is left to the next scan.                        *)
AddNameOnly(w) ==
  /\ step[w] = "add" /\ todo[w] # {}
  /\ namer' = namer \cup {LowestPath(todo[w])}
  /\ IF LowestPath(todo[w]) \in prev[w] THEN Register(LowestPath(todo[w])) ELSE UNCHANGED registryVars
  /\ todo' = [todo EXCEPT ![w] = @ \ {LowestPath(todo[w])}]
  /\ UNCHANGED <<exists, step, found, prev, running, tailers, lines, closed, mainVars, boundVars>>

(* namer.set and RegisterSource for the next file found.  Nothing tailed   *)
(* tells the moments between the two, or between the two below, apart.     *)
AddSource(w) ==
  /\ step[w] = "add" /\ todo[w] # {}
  /\ namer' = namer \cup {LowestPath(todo[w])}
  /\ Register(LowestPath(todo[w]))
  /\ todo' = [todo EXCEPT ![w] = @ \ {LowestPath(todo[w])}]
  /\ UNCHANGED <<exists, step, found, prev, running, tailers, lines, closed, mainVars, boundVars>>

(* A slip: every name of the previous scan is dropped.                     *)
BeginDropsAll(w) ==
  /\ step[w] = "add" /\ todo[w] = {}
  /\ todo' = [todo EXCEPT ![w] = prev[w]]
  /\ step' = [step EXCEPT ![w] = "drop"]
  /\ UNCHANGED <<exists, found, prev, running, namer, tailers, lines, closed, mainVars, boundVars, registryVars>>

(* On to the files of the previous scan that this one did not find.        *)
BeginDrops(w) ==
  /\ step[w] = "add" /\ todo[w] = {}
  /\ todo' = [todo EXCEPT ![w] = prev[w] \ found[w]]
  /\ step' = [step EXCEPT ![w] = "drop"]
  /\ UNCHANGED <<exists, found, prev, running, namer, tailers, lines, closed, mainVars, boundVars, registryVars>>

(* namer.delete for one of them, in any order; only watched files are      *)
(* hidden as well.                                                         *)
DropSource(w) ==
  /\ step[w] = "drop"
  /\ \E p \in todo[w] :
       /\ namer' = namer \ {p}
       /\ todo' = [todo EXCEPT ![w] = @ \ {p}]
       /\ \/ w = "watch" /\ Remove(p)
          \/ w = "docker" /\ UNCHANGED registryVars
  /\ UNCHANGED <<exists, step, found, prev, running, tailers, lines, closed, mainVars, boundVars>>

(* The tailers of group w for the paths of S are cancelled.                *)
Cancelled(w, S) ==
  {IF t.group = w /\ t.path \in S THEN [t EXCEPT !.cancelled = TRUE] ELSE t : t \in tailers}

(* A slip: a cancelled path stays in the map.                              *)
ReconcileKeepsKeys(w) ==
  /\ step[w] = "drop" /\ todo[w] = {}
  /\ prev' = [prev EXCEPT ![w] = found[w]]
  /\ tailers' = Cancelled(w, running[w] \ found[w]) \cup {NewTailer(w, p) : p \in found[w] \ running[w]}
  /\ running' = [running EXCEPT ![w] = @ \cup found[w]]
  /\ step' = [step EXCEPT ![w] = "wait"]
  /\ UNCHANGED <<exists, found, todo, namer, lines, closed, mainVars, boundVars, registryVars>>

(* A slip: every path found gets a tailer.                                 *)
ReconcileRestarts(w) ==
  /\ step[w] = "drop" /\ todo[w] = {}
  /\ prev' = [prev EXCEPT ![w] = found[w]]
  /\ tailers' = Cancelled(w, running[w] \ found[w]) \cup {NewTailer(w, p) : p \in found[w]}
  /\ running' = [running EXCEPT ![w] = found[w]]
  /\ step' = [step EXCEPT ![w] = "wait"]
  /\ UNCHANGED <<exists, found, todo, namer, lines, closed, mainVars, boundVars, registryVars>>

(* group.Reconcile, which ends what the watcher does with a scan: paths no *)
(* longer wanted are cancelled without waiting for their tailers, new ones *)
(* get a tailer.                                                           *)
Reconcile(w) ==
  /\ step[w] = "drop" /\ todo[w] = {}
  /\ prev' = [prev EXCEPT ![w] = found[w]]
  /\ tailers' = Cancelled(w, running[w] \ found[w]) \cup {NewTailer(w, p) : p \in found[w] \ running[w]}
  /\ running' = [running EXCEPT ![w] = found[w]]
  /\ step' = [step EXCEPT ![w] = "wait"]
  /\ UNCHANGED <<exists, found, todo, namer, lines, closed, mainVars, boundVars, registryVars>>

(* The select of the loop: a tick, or the end of the context.              *)
Tick(w) ==
  /\ step[w] = "wait"
  /\ step' = [step EXCEPT ![w] = "scan"]
  /\ UNCHANGED <<exists, found, prev, todo, running, namer, tailers, lines, closed, mainVars, boundVars, registryVars>>

(* group.Stop cancels every tailer, then waits.                            *)
Stop(w) ==
  /\ step[w] = "wait" /\ CtxDone
  /\ tailers' = Cancelled(w, running[w])
  /\ running' = [running EXCEPT ![w] = {}]
  /\ step' = [step EXCEPT ![w] = "stop"]
  /\ UNCHANGED <<exists, found, prev, todo, namer, lines, closed, mainVars, boundVars, registryVars>>

(* A slip: the watcher is done before its group is.                        *)
WatcherDoneEarly(w) ==
  /\ step[w] = "stop"
  /\ step' = [step EXCEPT ![w] = "done"]
  /\ UNCHANGED <<exists, found, prev, todo, running, namer, tailers, lines, closed, mainVars, boundVars, registryVars>>

(* The group's goroutines have ended.                                      *)
WatcherDone(w) ==
  /\ step[w] = "stop" /\ \A t \in tailers : t.group # w
  /\ step' = [step EXCEPT ![w] = "done"]
  /\ UNCHANGED <<exists, found, prev, todo, running, namer, tailers, lines, closed, mainVars, boundVars, registryVars>>

-----------------------------------------------------------------------------
(* The tailers, and the goroutine that publishes their lines.              *)

(* emit, with room in the channel: also by a tailer that is cancelled and  *)
(* has not looked at its context again.  Sending on a closed channel would *)
(* panic.                                                                  *)
Emit(t) ==
  /\ Len(lines) < LineBuffer /\ ~closed
  /\ lines' = Append(lines, t.path)
  /\ UNCHANGED <<exists, watchVars, running, namer, tailers, closed, mainVars, boundVars, registryVars>>

(* Run notices the end of its context, between polls or while it emits.    *)
TailerExits(t) ==
  /\ t.cancelled \/ CtxDone
  /\ tailers' = tailers \ {t}
  /\ UNCHANGED <<exists, watchVars, running, namer, lines, closed, mainVars, boundVars, registryVars>>

(* The publisher hands a line to the hub and to the forwarding client.     *)
PublishLine ==
  /\ publisher = "range" /\ lines # <<>>
  /\ lines' = Tail(lines)
  /\ UNCHANGED <<exists, watchVars, running, namer, tailers, closed, mainVars, boundVars, registryVars>>

PublisherDone ==
  /\ publisher = "range" /\ closed /\ lines = <<>>
  /\ publisher' = "done"
  /\ UNCHANGED <<exists, watchVars, running, namer, tailers, lines, closed, main, boundVars, registryVars>>

-----------------------------------------------------------------------------
(* The end of main; hub and HTTP server are closed before the wait.        *)

Shutdown ==
  /\ main = "run"
  /\ main' = "stopping"
  /\ UNCHANGED <<exists, watchVars, running, namer, tailers, lines, closed, publisher, boundVars, registryVars>>

(* tailers.Wait: static tailers and both watchers; then close(lines).      *)
CloseLines ==
  /\ main = "stopping"
  /\ \A w \in Watchers : step[w] = "done"
  /\ \A t \in tailers : t.group # "main"
  /\ closed' = TRUE /\ main' = "draining"
  /\ UNCHANGED <<exists, watchVars, running, namer, tailers, lines, publisher, boundVars, registryVars>>

Exit ==
  /\ main = "draining" /\ publisher = "done"
  /\ main' = "exited"
  /\ UNCHANGED <<exists, watchVars, running, namer, tailers, lines, closed, publisher, boundVars, registryVars>>

WatcherStep(w) ==
  \/ Scan(w) \/ ScanFails(w) \/ AddSource(w) \/ BeginDrops(w) \/ DropSource(w) \/ Reconcile(w)
  \/ Tick(w) \/ Stop(w) \/ WatcherDone(w)

Next ==
  \/ Change
  \/ \E w \in Watchers : WatcherStep(w)
  \/ \E t \in tailers : Emit(t) \/ TailerExits(t)
  \/ PublishLine \/ PublisherDone
  \/ Shutdown \/ CloseLines \/ Exit
  \/ main = "exited" /\ UNCHANGED vars

Spec == Init /\ [][Next]_vars

(* The watchers' goroutines go on, and their tickers tick.                 *)
FairSpec == Spec /\ \A w \in Watchers : WF_vars(WatcherStep(w))

-----------------------------------------------------------------------------
(* Properties.                                                             *)

(* Type invariant.                                                         *)
TypeOK ==
  /\ exists \subseteq DockerPaths \cup WatchPaths
  /\ step \in [Watchers -> {"scan", "add", "drop", "wait", "stop", "done"}]
  /\ found \in [Watchers -> SUBSET Paths] /\ prev \in [Watchers -> SUBSET Paths]
  /\ todo \in [Watchers -> SUBSET Paths]
  /\ running \in [Watchers -> SUBSET Paths]
  /\ namer \subseteq Paths
  /\ tailers \subseteq Tailers
  /\ lines \in Seq(Paths) /\ Len(lines) <= LineBuffer /\ closed \in BOOLEAN
  /\ publisher \in {"range", "done"} /\ main \in {"run", "stopping", "draining", "exited"}
  /\ keys \in Seq(Paths) /\ removed \subseteq Known
  /\ \A i, j \in DOMAIN keys : keys[i] = keys[j] => i = j
  /\ DOMAIN bases = DOMAIN keys /\ DOMAIN names = DOMAIN keys

(* A file has at most one tailer that is not on its way out, exactly one   *)
(* while its group counts it as running: files that vanish and reappear    *)
(* between scans are neither read twice nor forgotten (Reconcile, Stop).   *)
OneReader ==
  \A w \in Watchers : \A p \in Paths :
    LET readers == {t \in tailers : t.group = w /\ t.path = p /\ ~t.cancelled} IN
    /\ Cardinality(readers) <= 1
    /\ readers # {} => p \in running[w]
    /\ p \in running[w] /\ ~CtxDone => readers # {}

(* The channel is closed when nobody can send on it any more, and main     *)
(* leaves with nothing in it: whatever the watchers were in the middle of  *)
(* when the context ended (main.go:530-535, deferred Stop and Done).       *)
NoSendAfterClose ==
  /\ closed => tailers = {}
  /\ main = "exited" => lines = <<>>

(* Every line published is of a source that has an id, so that no viewer's *)
(* event goes out without one: sources are registered before they are      *)
(* tailed, and stay registered while lines of a cancelled tailer are still *)
(* on their way (reconcile, writeEvent).                                   *)
KnownWhenPublished ==
  /\ \A t \in tailers : t.path \in Known
  /\ \A i \in DOMAIN lines : lines[i] \in Known

(* A file that the latest scan found, and that is tailed, is forwarded     *)
(* under its own name and listed, whatever came and went around it         *)
(* (namer.name's fallback is for removed ones only).                       *)
NamedWhileThere ==
  \A w \in Watchers : \A p \in running[w] \cap prev[w] \cap found[w] : p \in namer /\ p \in Listed

(* Sources that carry one base name are shown under different names, as    *)
(* long as at most one came after start-up to a name that was numbered     *)
(* then (register, dedupeNames).                                           *)
NamesDistinct ==
  (\A i, j \in DOMAIN bases : bases[i] = bases[j] /\ i # j =>
     ~ \E k \in DOMAIN bases : bases[k] = Append(bases[i], 1))
  => \A i, j \in DOMAIN names : names[i] = names[j] => i = j

(* Once the files rest, the groups tail exactly what is wanted and the     *)
(* list shows the watched files that are there, unless the process stops.  *)
FollowsFiles ==
  <>[](CtxDone \/ \A w \in Watchers : /\ running[w] = Wanted(w)
                                      /\ Wanted(w) \subseteq Listed
                                      /\ w = "watch" => Listed \cap WatchPaths = Wanted(w))
=============================================================================
