---------------------------- MODULE PagedHistory ----------------------------
(***************************************************************************)
(* What scrolling back promises to a page, however its requests are        *)
(* answered: the older lines on it are always the newest of the file's     *)
(* lines below its live view; a page of lines that arrives adds at least   *)
(* one line and at most what was asked for; they go only all at once, when *)
(* the page clears them; and once the page says that it begins with the    *)
(* start of the file, it shows everything.  For an excused page nothing is *)
(* promised until it is cleared.                                           *)
(***************************************************************************)
EXTENDS Naturals, FiniteSets

CONSTANTS
  Viewers,
  PageLines     \* lines asked for at once

VARIABLES
  history,      \* history[v]: the lines below v's live view
  shown,        \* the older lines on the page
  startShown,   \* the pages that say "start of file"
  excused

vars == <<history, shown, startShown, excused>>

Newest(lines, all) == lines \subseteq all /\ \A l \in lines, k \in all : k > l => k \in lines

Init ==
  /\ history \in [Viewers -> SUBSET Nat]
  /\ shown = [v \in Viewers |-> {}]
  /\ startShown = {} /\ excused = {}

Older(v) == shown'[v] \ shown[v]

PageArrives(v) ==
  /\ shown' = [shown EXCEPT ![v] = @ \cup Older(v)]
  /\ startShown' \in {startShown, startShown \cup {v}}
  /\ \/ excused' = excused \cup {v}
     \/ /\ v \notin excused /\ UNCHANGED excused
        /\ Older(v) # {} /\ Cardinality(Older(v)) <= PageLines
        /\ Newest(shown'[v], history[v])
        /\ v \in startShown' => shown'[v] = history[v]
  /\ UNCHANGED history

Clear(v) ==
  /\ shown' = [shown EXCEPT ![v] = {}]
  /\ startShown' = startShown \ {v}
  /\ excused' \in {excused \ {v}, excused \cup {v}}
  /\ UNCHANGED history

Next == \E v \in Viewers : PageArrives(v) \/ Clear(v)

Spec == Init /\ [][Next]_vars
=============================================================================
