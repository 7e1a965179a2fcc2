---------------------------- MODULE AtLeastOnce ----------------------------
(***************************************************************************)
(* What forwarding promises, whatever happens to connections and servers:  *)
(* a line the client accepted stays held until it has been delivered, or   *)
(* has been given up openly (pushed out of a full buffer by a newer line,  *)
(* or skipped by the receiver); and no line reaches a hub before all older *)
(* ones are delivered or given up.  Lines are numbered by acceptance.      *)
(* A repeated delivery changes nothing here.                               *)
(***************************************************************************)
EXTENDS Naturals

VARIABLES
  accepted,    \* number of lines accepted
  held,        \* lines kept for redelivery
  delivered,   \* lines some hub has received
  lost         \* lines given up

vars == <<accepted, held, delivered, lost>>

Settled == delivered \cup lost

OlderSettled(s) == 1 .. (s - 1) \subseteq Settled

Init == accepted = 0 /\ held = {} /\ delivered = {} /\ lost = {}

(* A new line; if there is no room, the oldest held line is given up.      *)
Accept ==
  /\ accepted' = accepted + 1
  /\ \/ held' = held \cup {accepted + 1} /\ UNCHANGED lost
     \/ \E oldest \in held :
          /\ \A s \in held : oldest <= s
          /\ held' = (held \ {oldest}) \cup {accepted + 1}
          /\ lost' = lost \cup {oldest}
  /\ UNCHANGED delivered

Deliver(s) ==
  /\ OlderSettled(s)
  /\ delivered' = delivered \cup {s}
  /\ UNCHANGED <<accepted, held, lost>>

(* The receiver skips a line.                                              *)
Skip(s) ==
  /\ OlderSettled(s)
  /\ lost' = lost \cup {s}
  /\ UNCHANGED <<accepted, held, delivered>>

(* Some settled lines are no longer held.                                  *)
Release ==
  /\ held' \subseteq held
  /\ held \ held' \subseteq Settled
  /\ UNCHANGED <<accepted, delivered, lost>>

Next == Accept \/ (\E s \in 1 .. accepted : Deliver(s) \/ Skip(s)) \/ Release

Spec == Init /\ [][Next]_vars
=============================================================================
