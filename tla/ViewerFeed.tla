----------------------------- MODULE ViewerFeed -----------------------------
(***************************************************************************)
(* What a viewer is promised about one server process: events appear in    *)
(* the order they were published, and between two events on the screen     *)
(* none of a selected file is left out, except those that had already left *)
(* the history when the viewer came (back).                                *)
(***************************************************************************)
EXTENDS Naturals, Sequences

CONSTANTS Files, Viewers, HistorySize

VARIABLES
  feed,       \* files of the events published, in order
  present,    \* viewers whose page was loaded from this process
  wanted,     \* wanted[v]: files v has selected
  shown,      \* shown[v]: events of those files v has seen
  missed      \* missed[v]: events gone from the history before v could

vars == <<feed, present, wanted, shown, missed>>

Older(v, n) == {m \in 1 .. (n - 1) : feed[m] \in wanted[v]}

Init ==
  /\ feed = <<>>
  /\ present = Viewers
  /\ wanted \in [Viewers -> SUBSET Files]
  /\ shown = [v \in Viewers |-> {}]
  /\ missed = [v \in Viewers |-> {}]

Publish ==
  /\ \E f \in Files : feed' = Append(feed, f)
  /\ UNCHANGED <<present, wanted, shown, missed>>

Show(v) ==
  /\ v \in present
  /\ \E n \in 1 .. Len(feed) :
       /\ feed[n] \in wanted[v]
       /\ \A m \in shown[v] : m < n
       /\ Older(v, n) \subseteq shown[v] \cup missed[v]
       /\ shown' = [shown EXCEPT ![v] = @ \cup {n}]
  /\ UNCHANGED <<feed, present, wanted, missed>>

Miss(v) ==
  /\ \E gone \in SUBSET (1 .. Len(feed)) :
       /\ \A n \in gone : n + HistorySize <= Len(feed)
       /\ missed' = [missed EXCEPT ![v] = @ \cup gone]
  /\ UNCHANGED <<feed, present, wanted, shown>>

Deselect(v) ==
  /\ \E f \in wanted[v] :
       /\ wanted' = [wanted EXCEPT ![v] = @ \ {f}]
       /\ shown' = [shown EXCEPT ![v] = {n \in @ : feed[n] # f}]
  /\ UNCHANGED <<feed, present, missed>>

(* The process ends; its successor owes nothing to pages loaded before.    *)
Restart ==
  /\ feed' = <<>> /\ present' = {}
  /\ shown' = [v \in Viewers |-> {}]
  /\ missed' = [v \in Viewers |-> {}]
  /\ UNCHANGED wanted

Load(v) ==
  /\ v \notin present
  /\ present' = present \cup {v}
  /\ \E w \in SUBSET Files : wanted' = [wanted EXCEPT ![v] = w]
  /\ UNCHANGED <<feed, shown, missed>>

Next ==
  \/ Publish \/ Restart
  \/ \E v \in Viewers : Show(v) \/ Miss(v) \/ Deselect(v) \/ Load(v)

Spec == Init /\ [][Next]_vars
=============================================================================
