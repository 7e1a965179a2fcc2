-------------------------------- MODULE Hub --------------------------------
(***************************************************************************)
(* internal/hub: the fan-out of published lines, with a history ring for   *)
(* viewers that come late or come back.  All of it is guarded by hub.mu,   *)
(* so each method is one step.                                             *)
(*                                                                         *)
(* A subscriber belongs to one event stream and goes by its name; a nil    *)
(* filter is the set of all files.  An event is its Seq; the file it is    *)
(* from is kept beside it, in events.                                      *)
(***************************************************************************)
EXTENDS Naturals, Sequences, FiniteSets

CONSTANTS
  Files,              \* published files
  Streams,            \* names of coexisting event streams
  HistorySize,        \* events the history retains (-history)
  SubscriberBuffer    \* events a subscriber's channel holds

ASSUME HubAssumption == HistorySize \in Nat /\ SubscriberBuffer \in Nat \ {0}

VARIABLES
  events,                \* events[n]: file of the event with Seq n
  ring, start, count,    \* history; ring[Slot(0)] is the oldest of count
  subs,                  \* registered subscribers
  ch,                    \* ch[c]: events waiting in c's channel
  chClosed,              \* streams whose channel is closed, or was never made
  files,                 \* files[c]: what c subscribed to
  closed                 \* the hub is closed

hubVars == <<events, ring, start, count, subs, ch, chClosed, files, closed>>
historyVars == <<events, ring, start, count>>
subscriberVars == <<subs, ch, chClosed, files>>

nextSeq == Len(events)

Slot(i) == (start + i) % HistorySize

Retained == {ring[Slot(i)] : i \in 0 .. (count - 1)}

HubTypeOK ==
  /\ events \in Seq(Files)
  /\ ring \in [0 .. (HistorySize - 1) -> Nat]
  /\ start \in Nat /\ count \in 0 .. HistorySize
  /\ subs \subseteq Streams
  /\ ch \in [Streams -> Seq(Nat)]
  /\ chClosed \subseteq Streams
  /\ files \in [Streams -> SUBSET Files]
  /\ closed \in BOOLEAN

HubInit ==
  /\ events = <<>>
  /\ ring = [i \in 0 .. (HistorySize - 1) |-> 0] /\ start = 0 /\ count = 0
  /\ subs = {} /\ chClosed = Streams
  /\ ch = [c \in Streams |-> <<>>]
  /\ files = [c \in Streams |-> {}]
  /\ closed = FALSE

-----------------------------------------------------------------------------
(* Slips, to test the properties: the ring is never found full, or its     *)
(* oldest slot is overwritten and it still starts there.                   *)
RememberUnbounded(n) ==
  /\ ring' = [ring EXCEPT ![Slot(count)] = n]
  /\ count' = count + 1
  /\ UNCHANGED start

RememberKeepsStart(n) ==
  \/ /\ count < HistorySize
     /\ ring' = [ring EXCEPT ![Slot(count)] = n]
     /\ count' = count + 1
     /\ UNCHANGED start
  \/ /\ count = HistorySize /\ HistorySize > 0
     /\ ring' = [ring EXCEPT ![Slot(count)] = n]
     /\ UNCHANGED <<start, count>>
  \/ HistorySize = 0 /\ UNCHANGED <<ring, start, count>>

(* Publish's history: a full ring forgets its oldest event.                *)
Remember(n) ==
  \/ /\ count < HistorySize
     /\ ring' = [ring EXCEPT ![Slot(count)] = n]
     /\ count' = count + 1
     /\ UNCHANGED start
  \/ /\ count = HistorySize /\ HistorySize > 0
     /\ ring' = [ring EXCEPT ![Slot(count)] = n]
     /\ start' = Slot(1)
     /\ UNCHANGED count
  \/ HistorySize = 0 /\ UNCHANGED <<ring, start, count>>

(* Slips: a full subscriber just misses the event, or is unregistered and  *)
(* its channel left open.                                                  *)
DeliverOrDrop(f, n) ==
  /\ ch' = [c \in Streams |->
              IF c \in subs /\ f \in files[c] /\ Len(ch[c]) < SubscriberBuffer
              THEN Append(ch[c], n) ELSE ch[c]]
  /\ UNCHANGED <<subs, chClosed, files>>

DeliverNoClose(f, n) ==
  LET takers == {c \in subs : f \in files[c]}
      full == {c \in takers : Len(ch[c]) >= SubscriberBuffer} IN
    /\ ch' = [c \in Streams |-> IF c \in takers \ full THEN Append(ch[c], n) ELSE ch[c]]
    /\ subs' = subs \ full
    /\ UNCHANGED <<chClosed, files>>

(* Publish's delivery: a subscriber with a full channel is evicted; what   *)
(* its channel holds can still be received.                                *)
Deliver(f, n) ==
  LET takers == {c \in subs : f \in files[c]}
      full == {c \in takers : Len(ch[c]) >= SubscriberBuffer} IN
    /\ ch' = [c \in Streams |-> IF c \in takers \ full THEN Append(ch[c], n) ELSE ch[c]]
    /\ subs' = subs \ full
    /\ chClosed' = chClosed \cup full
    /\ UNCHANGED files

(* Publish on an open hub; a closed one refuses and changes nothing.       *)
Publish(f) ==
  /\ ~closed
  /\ events' = Append(events, f)
  /\ Remember(nextSeq + 1)
  /\ Deliver(f, nextSeq + 1)
  /\ UNCHANGED closed

(* A slip: one event too far.                                              *)
HistoryLate(after, want) == {n \in Retained : n > after + 1 /\ events[n] \in want}

(* The part of the history that Subscribe returns.                         *)
History(after, want) == {n \in Retained : n > after /\ events[n] \in want}

(* Subscribe, but for the history it returns; on a closed hub the channel  *)
(* is closed from the start.                                               *)
Subscribe(c, want) ==
  /\ ch' = [ch EXCEPT ![c] = <<>>]
  /\ files' = [files EXCEPT ![c] = want]
  /\ subs' = IF closed THEN subs ELSE subs \cup {c}
  /\ chClosed' = IF closed THEN chClosed \cup {c} ELSE chClosed \ {c}
  /\ UNCHANGED <<historyVars, closed>>

(* A slip: the channel is closed and its subscriber stays registered.      *)
UnsubscribeKeepsEntry(c) ==
  /\ chClosed' = chClosed \cup {c}
  /\ ch' = [ch EXCEPT ![c] = <<>>]
  /\ UNCHANGED <<historyVars, subs, files, closed>>

(* Subscriber.Close, also after an eviction; nobody reads the channel now. *)
Unsubscribe(c) ==
  /\ subs' = subs \ {c}
  /\ chClosed' = chClosed \cup {c}
  /\ ch' = [ch EXCEPT ![c] = <<>>]
  /\ UNCHANGED <<historyVars, files, closed>>

(* A slip: the channels are closed and their subscribers stay registered.  *)
CloseKeepsSubs ==
  /\ ~closed
  /\ closed' = TRUE
  /\ chClosed' = chClosed \cup subs
  /\ UNCHANGED <<historyVars, subs, ch, files>>

(* Hub.Close: every subscriber is evicted.                                 *)
Close ==
  /\ ~closed
  /\ closed' = TRUE
  /\ chClosed' = chClosed \cup subs
  /\ subs' = {}
  /\ UNCHANGED <<historyVars, ch, files>>
=============================================================================
