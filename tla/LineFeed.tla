------------------------------ MODULE LineFeed ------------------------------
(***************************************************************************)
(* What tailing a path promises to whoever receives the lines, whatever    *)
(* the rotation does: files, and the versions of a truncated file, come    *)
(* one after the other; each is read from its beginning on, every line     *)
(* right behind the one before it; and none is read again unless a call    *)
(* failed, and then only the latest.  Where the very first line is found   *)
(* is left open.                                                           *)
(***************************************************************************)
EXTENDS Naturals, Sequences, FiniteSets

VARIABLES
  lines,     \* lines handed over: the place each takes in a version of a file
  failures   \* calls that failed

vars == <<lines, failures>>

SameSource(k, l) == k.file = l.file /\ k.version = l.version

(* The lines at which the reading of a version began once more.            *)
Restarts == {i \in DOMAIN lines : i > 1 /\ lines[i].off = 0 /\ SameSource(lines[i], lines[i - 1])}

Init == lines = <<>> /\ failures = 0

Fail == failures' = failures + 1 /\ UNCHANGED lines

First == lines = <<>>

Continues(l) ==
  /\ lines # <<>>
  /\ SameSource(l, lines[Len(lines)]) /\ l.off = lines[Len(lines)].next

(* A file that no line has come from yet, or a later version of the latest.*)
TurnsTo(l) ==
  /\ lines # <<>> /\ l.off = 0
  /\ \/ \A i \in DOMAIN lines : lines[i].file # l.file
     \/ l.file = lines[Len(lines)].file /\ l.version > lines[Len(lines)].version

StartsAgain(l) ==
  /\ lines # <<>> /\ l.off = 0
  /\ SameSource(l, lines[Len(lines)])
  /\ Cardinality(Restarts) < failures

HandOver ==
  /\ lines' # <<>>
  /\ LET l == lines'[Len(lines')] IN
       /\ lines' = Append(lines, l)
       /\ l.off < l.next
       /\ First \/ Continues(l) \/ TurnsTo(l) \/ StartsAgain(l)
  /\ UNCHANGED failures

Next == Fail \/ HandOver

Spec == Init /\ [][Next]_vars
=============================================================================
