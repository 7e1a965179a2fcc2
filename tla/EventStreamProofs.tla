------------------------- MODULE EventStreamProofs -------------------------
(***************************************************************************)
(* No page silently passes over an event, for every number of viewers and  *)
(* streams, every size of history, channel and wire, and any failures and  *)
(* restarts.  NoSilentGap speaks of what a page has seen; that it stays    *)
(* true depends on what is still on its way, so the invariant follows an   *)
(* event from the hub through the subscriber's channel (or the history     *)
(* backlog) and the wire to the page.                                      *)
(***************************************************************************)
EXTENDS EventStream, RingLemmas, TLAPS

Elems(q) == {q[i] : i \in 1 .. Len(q)}

Sorted(q) == \A i, j \in 1 .. Len(q) : i < j => q[i] < q[j]

(* Events of stream c that have left the hub and not reached the page.     *)
Underway(c) == Elems(wire[c]) \cup backlog[c] \cup Elems(ch[c])

Ranges ==
  /\ HistorySize > 0 => start < HistorySize
  /\ \A v \in Viewers : joined[v] <= epoch
  /\ \A v, w \in Viewers : es[v] = es[w] /\ es[v] # NoStream => v = w

(* Each stage of a stream is in order, and ahead of the next one.          *)
InOrder(c) ==
  /\ Sorted(wire[c]) /\ Sorted(ch[c])
  /\ \A m \in Elems(wire[c]) : \A n \in backlog[c] \cup Elems(ch[c]) : m < n
  /\ \A m \in backlog[c] : \A n \in Elems(ch[c]) : m < n
  /\ \A n \in Underway(c) : n \in 1 .. nextSeq /\ events[n] \in files[c]
  /\ handler[c] = "live" => backlog[c] = {}

(* What a page has seen agrees with what it will ask for next.             *)
Resumes(v) ==
  /\ after[v] <= lastSeq[v] /\ lastEventId[v] <= lastSeq[v] /\ lastSeq[v] <= nextSeq
  /\ lastSeq[v] \in {after[v], lastEventId[v]}
  /\ shown[v] \subseteq 1 .. lastSeq[v]

SeenAll(v) ==
  \A n \in 1 .. lastSeq[v] : events[n] \in selected[v] => n \in shown[v] \cup missed[v]

(* An event the page has yet to see, and c is to bring.                    *)
Due(v, n) == n > lastSeq[v] /\ events[n] \in selected[v] /\ n \notin missed[v]

(* The stream c of page v brings only news, and nothing overtakes.         *)
Brings(v, c) ==
  /\ files[c] = selected[v]
  /\ \A n \in Underway(c) : lastSeq[v] < n
  /\ \A m \in Elems(wire[c]) : \A n \in 1 .. (m - 1) : Due(v, n) => n \in Elems(wire[c])

(* As long as it works it brings everything, or ends after what it has.    *)
BringsAll(v, c) ==
  \A n \in 1 .. nextSeq : Due(v, n) =>
    n \in Underway(c) \/ (c \notin subs /\ \A m \in Underway(c) : m < n)

Follows(v) ==
  es[v] # NoStream => Brings(v, es[v]) /\ (~ended[es[v]] => BringsAll(v, es[v]))

Inductive ==
  /\ TypeOK /\ Ranges /\ HistoryIsWindow /\ SubscribersServed
  /\ \A c \in Streams : InOrder(c)
  /\ \A v \in Present : Resumes(v) /\ SeenAll(v) /\ Follows(v)

-----------------------------------------------------------------------------
(* Queues.                                                                 *)

(* A larger element at the end keeps a queue sorted.                       *)
LEMMA Appended ==
  ASSUME NEW q \in Seq(Nat), NEW n \in Nat
  PROVE  /\ Append(q, n) \in Seq(Nat)
         /\ Elems(Append(q, n)) = Elems(q) \cup {n}
         /\ Sorted(q) /\ (\A m \in Elems(q) : m < n) => Sorted(Append(q, n))
<1> DEFINE r == Append(q, n)
<1>1. /\ r \in Seq(Nat) /\ Len(q) \in Nat /\ Len(r) = Len(q) + 1 /\ r[Len(r)] = n
      /\ \A i \in 1 .. Len(q) : r[i] = q[i]
  OBVIOUS
<1>2. Elems(r) \subseteq Elems(q) \cup {n}
  <2>1. \A i \in 1 .. Len(r) : i \in 1 .. Len(q) \/ i = Len(r)
    BY <1>1
  <2> QED BY <1>1, <2>1 DEF Elems
<1>3. Elems(q) \cup {n} \subseteq Elems(r)
  <2>1. Len(r) \in 1 .. Len(r) /\ \A i \in 1 .. Len(q) : i \in 1 .. Len(r)
    BY <1>1
  <2> QED BY <1>1, <2>1 DEF Elems
<1>4. ASSUME Sorted(q), \A m \in Elems(q) : m < n
      PROVE  Sorted(r)
  <2>1. ASSUME NEW i \in 1 .. Len(r), NEW j \in 1 .. Len(r), i < j
        PROVE  r[i] < r[j]
    <3>1. i \in 1 .. Len(q) /\ r[i] = q[i] /\ q[i] \in Elems(q)
      BY <1>1, <2>1 DEF Elems
    <3>2. CASE j \in 1 .. Len(q)
      BY <1>1, <1>4, <2>1, <3>1, <3>2 DEF Sorted
    <3>3. CASE j = Len(r)
      BY <1>1, <1>4, <3>1, <3>3
    <3> QED BY <1>1, <3>2, <3>3
  <2> QED BY <2>1 DEF Sorted
<1> QED BY <1>1, <1>2, <1>3, <1>4

(* The head of a sorted queue is its least element, and the tail the rest. *)
LEMMA TakenOff ==
  ASSUME NEW q \in Seq(Nat), q # <<>>
  PROVE  /\ Tail(q) \in Seq(Nat) /\ Head(q) \in Nat /\ Head(q) \in Elems(q)
         /\ Elems(q) = Elems(Tail(q)) \cup {Head(q)}
         /\ Sorted(q) => Sorted(Tail(q)) /\ \A m \in Elems(Tail(q)) : Head(q) < m
<1> DEFINE r == Tail(q)
<1>1. /\ r \in Seq(Nat) /\ Len(q) \in Nat /\ Len(q) >= 1 /\ Len(r) = Len(q) - 1
      /\ Head(q) = q[1] /\ Head(q) \in Nat /\ \A i \in 1 .. Len(r) : r[i] = q[i + 1]
  OBVIOUS
<1>2. /\ 1 \in 1 .. Len(q) /\ \A i \in 1 .. Len(r) : i + 1 \in 1 .. Len(q) /\ 1 < i + 1
      /\ \A i \in 1 .. Len(q) : i = 1 \/ (i - 1 \in 1 .. Len(r) /\ (i - 1) + 1 = i)
  BY <1>1
<1>3. Elems(r) \cup {Head(q)} \subseteq Elems(q)
  BY <1>1, <1>2 DEF Elems
<1>4. Elems(q) \subseteq Elems(r) \cup {Head(q)}
  <2>1. ASSUME NEW i \in 1 .. Len(q), i # 1 PROVE q[i] \in Elems(r)
    <3>1. i - 1 \in 1 .. Len(r) /\ r[i - 1] = q[i]
      BY <1>1, <1>2, <2>1
    <3> QED BY <3>1 DEF Elems
  <2> QED BY <1>1, <2>1 DEF Elems
<1>5. ASSUME Sorted(q) PROVE Sorted(r) /\ \A m \in Elems(r) : Head(q) < m
  <2>1. ASSUME NEW i \in 1 .. Len(r), NEW j \in 1 .. Len(r), i < j PROVE r[i] < r[j]
    <3>1. i + 1 < j + 1
      BY <2>1
    <3> QED BY <1>1, <1>2, <1>5, <3>1 DEF Sorted
  <2>2. \A i \in 1 .. Len(r) : Head(q) < r[i]
    BY <1>1, <1>2, <1>5 DEF Sorted
  <2> QED BY <2>1, <2>2 DEF Sorted, Elems
<1> QED BY <1>1, <1>2, <1>3, <1>4, <1>5

(* An empty queue holds nothing, in order.                                 *)
LEMMA EmptyQueue == Elems(<<>>) = {} /\ Sorted(<<>>)
BY DEF Elems, Sorted

-----------------------------------------------------------------------------
(* The history ring.                                                       *)

(* The history retains exactly the newest count events.                    *)
LEMMA RetainedIsWindow ==
  ASSUME TypeOK, HistoryIsWindow
  PROVE  /\ Retained = (nextSeq - count + 1) .. nextSeq
         /\ nextSeq \in Nat /\ count \in Nat /\ count <= nextSeq
         /\ count = nextSeq \/ count = HistorySize
<1>1. /\ count \in Nat /\ nextSeq \in Nat /\ count <= nextSeq
      /\ count = nextSeq \/ count = HistorySize
  BY HubAssumption DEF HistoryIsWindow, TypeOK, HubTypeOK, nextSeq
<1>2. Retained \subseteq (nextSeq - count + 1) .. nextSeq
  BY <1>1 DEF HistoryIsWindow, Retained
<1>3. ASSUME NEW s \in (nextSeq - count + 1) .. nextSeq PROVE s \in Retained
  <2>1. (s - (nextSeq - count) - 1) \in 0 .. (count - 1)
    BY <1>1, <1>3
  <2>2. ring[Slot(s - (nextSeq - count) - 1)] = s
    BY <1>1, <1>3, <2>1 DEF HistoryIsWindow
  <2> QED BY <2>1, <2>2 DEF Retained
<1> QED BY <1>1, <1>2, <1>3

(* Remembering one more event moves the window on by one.                  *)
LEMMA WindowMoves ==
  ASSUME TypeOK, HistoryIsWindow, Ranges, Remember(nextSeq + 1), nextSeq' = nextSeq + 1
  PROVE  /\ HistoryIsWindow' /\ (HistorySize > 0 => start < HistorySize)'
         /\ ring' \in [0 .. (HistorySize - 1) -> Nat] /\ start' \in Nat /\ count' \in 0 .. HistorySize
<1>0. /\ HistorySize \in Nat /\ nextSeq \in Nat /\ start \in Nat /\ count \in 0 .. HistorySize
      /\ ring \in [0 .. (HistorySize - 1) -> Nat]
      /\ count = IF nextSeq < HistorySize THEN nextSeq ELSE HistorySize
  BY HubAssumption DEF TypeOK, HubTypeOK, nextSeq, HistoryIsWindow
<1>1. CASE HistorySize = 0
  <2>1. UNCHANGED <<ring, start, count>> /\ count = 0 /\ 0 .. (count - 1) = {}
    BY <1>0, <1>1 DEF Remember
  <2>2. count' = 0 /\ 0 .. (count' - 1) = {} /\ nextSeq' \in Nat /\ HistorySize = 0
    BY <1>0, <1>1, <2>1
  <2>3. HistoryIsWindow'
    BY <2>2 DEF HistoryIsWindow
  <2> QED BY <1>0, <1>1, <2>1, <2>3
<1>2. CASE HistorySize > 0
  <2>0. HistorySize \in Nat \ {0} /\ start \in 0 .. (HistorySize - 1)
    BY <1>0, <1>2 DEF Ranges
  <2>1. \A i \in 0 .. HistorySize :
          Slot(i) = IF start + i < HistorySize THEN start + i ELSE start + i - HistorySize
    BY <2>0, ModWraps DEF Slot
  <2>2. \A i \in 0 .. HistorySize : Slot(i) \in 0 .. (HistorySize - 1)
    BY <2>0, <2>1
  <2>3. \A i, j \in 0 .. (HistorySize - 1) : Slot(i) = Slot(j) => i = j
    BY <2>0, ModInjective DEF Slot
  <2>4. CASE count < HistorySize
    <3>1. /\ ring' = [ring EXCEPT ![Slot(count)] = nextSeq + 1]
          /\ count' = count + 1 /\ start' = start
      BY <1>0, <1>2, <2>4 DEF Remember
    <3>2. count' = IF nextSeq' < HistorySize THEN nextSeq' ELSE HistorySize
      BY <1>0, <2>4, <3>1
    <3>3. ASSUME NEW i \in 0 .. count
          PROVE  ring'[Slot(i)'] = (nextSeq' - count') + 1 + i
      <4>1. Slot(i)' = Slot(i) /\ Slot(count) \in DOMAIN ring
        BY <1>0, <2>2, <3>1 DEF Slot
      <4>2. CASE i = count
        BY <1>0, <4>1, <4>2, <3>1
      <4>3. CASE i < count
        <5>1. i \in 0 .. (HistorySize - 1) /\ count \in 0 .. (HistorySize - 1) /\ i \in 0 .. (count - 1)
          BY <1>0, <2>4, <3>3, <4>3
        <5>2. Slot(i) # Slot(count) /\ Slot(i) \in DOMAIN ring
          <6>1. i # count /\ i \in 0 .. HistorySize
            BY <1>0, <4>3, <5>1
          <6>2. Slot(i) # Slot(count)
            BY <2>3, <5>1, <6>1
          <6>3. Slot(i) \in 0 .. (HistorySize - 1)
            BY <2>2, <6>1
          <6> QED BY <1>0, <6>2, <6>3
        <5>3. ring[Slot(i)] = (nextSeq - count) + 1 + i
          BY <5>1 DEF HistoryIsWindow
        <5> QED BY <1>0, <3>1, <4>1, <5>2, <5>3
      <4> QED BY <1>0, <4>2, <4>3
    <3>4. \A i \in 0 .. (count' - 1) : ring'[Slot(i)'] = (nextSeq' - count') + 1 + i
      BY <1>0, <3>1, <3>3
    <3>5. ring' \in [0 .. (HistorySize - 1) -> Nat] /\ start' \in Nat /\ count' \in 0 .. HistorySize
      <4>1. count \in 0 .. HistorySize /\ count + 1 \in 0 .. HistorySize /\ nextSeq + 1 \in Nat
        BY <1>0, <2>4
      <4>2. Slot(count) \in 0 .. (HistorySize - 1)
        BY <2>2, <4>1
      <4>3. [ring EXCEPT ![Slot(count)] = nextSeq + 1] \in [0 .. (HistorySize - 1) -> Nat]
        BY <1>0, <4>1, <4>2
      <4> QED BY <1>0, <3>1, <4>1, <4>3
    <3>6. HistoryIsWindow'
      BY <3>2, <3>4 DEF HistoryIsWindow
    <3>7. (HistorySize > 0 => start < HistorySize)'
      BY <2>0, <3>1
    <3> QED BY <3>5, <3>6, <3>7
  <2>5. CASE count = HistorySize
    <3>1. /\ ring' = [ring EXCEPT ![Slot(count)] = nextSeq + 1]
          /\ count' = count /\ start' = Slot(1)
      BY <1>0, <1>2, <2>5 DEF Remember
    <3>2. count' = IF nextSeq' < HistorySize THEN nextSeq' ELSE HistorySize
      BY <1>0, <2>5, <3>1
    <3>3. Slot(count) = start /\ Slot(0) = start /\ 1 \in 0 .. HistorySize
      BY <1>0, <2>0, <2>1, <2>5
    <3>4. ASSUME NEW i \in 0 .. (count - 1)
          PROVE  ring'[Slot(i)'] = (nextSeq' - count') + 1 + i
      <4>1. i \in 0 .. HistorySize /\ 1 + i <= HistorySize
        BY <1>0, <2>5, <3>4
      <4>2. Slot(i)' = Slot(1 + i)
        <5>1. (((start + 1) % HistorySize) + i) % HistorySize = (start + (1 + i)) % HistorySize
          BY <2>0, <3>3, <4>1, ModShift
        <5> QED BY <3>1, <5>1 DEF Slot
      <4>3. CASE i = count - 1
        <5>1. Slot(1 + i) = start /\ start \in DOMAIN ring
          BY <1>0, <2>0, <3>3, <4>3
        <5> QED BY <1>0, <2>5, <3>1, <3>3, <4>2, <4>3, <5>1
      <4>4. CASE i < count - 1
        <5>1. 1 + i \in 0 .. (HistorySize - 1) /\ 0 \in 0 .. (HistorySize - 1) /\ 1 + i # 0
              /\ 1 + i \in 0 .. (count - 1)
          BY <1>0, <2>5, <3>4, <4>4
        <5>2. Slot(1 + i) # start /\ Slot(1 + i) \in DOMAIN ring
          <6>1. Slot(1 + i) # Slot(0)
            BY <2>3, <5>1
          <6>2. 1 + i \in 0 .. HistorySize
            BY <1>0, <5>1
          <6>3. Slot(1 + i) \in 0 .. (HistorySize - 1)
            BY <2>2, <6>2
          <6> QED BY <1>0, <3>3, <6>1, <6>3
        <5>3. ring[Slot(1 + i)] = (nextSeq - count) + 1 + (1 + i)
          BY <5>1 DEF HistoryIsWindow
        <5> QED BY <1>0, <3>1, <3>3, <3>4, <4>2, <5>2, <5>3
      <4> QED BY <1>0, <3>4, <4>3, <4>4
    <3>5. ring' \in [0 .. (HistorySize - 1) -> Nat] /\ start' \in 0 .. (HistorySize - 1)
          /\ count' \in 0 .. HistorySize
      <4>1. Slot(1) \in 0 .. (HistorySize - 1)
        BY <2>2, <3>3, Zenon
      <4>2. [ring EXCEPT ![start] = nextSeq + 1] \in [0 .. (HistorySize - 1) -> Nat]
        BY <1>0, <2>0
      <4> QED BY <1>0, <3>1, <3>3, <4>1, <4>2
    <3>6. HistoryIsWindow'
      <4>1. \A i \in 0 .. (count' - 1) : ring'[Slot(i)'] = (nextSeq' - count') + 1 + i
        BY <3>1, <3>4
      <4> QED BY <3>2, <4>1 DEF HistoryIsWindow
    <3>7. (HistorySize > 0 => start < HistorySize)' /\ start' \in Nat
      BY <2>0, <3>5
    <3> QED BY <3>5, <3>6, <3>7
  <2> QED BY <1>0, <2>4, <2>5
<1> QED BY <1>0, <1>1, <1>2

-----------------------------------------------------------------------------
(* What most steps leave alone.                                            *)

(* A stream whose stages do not change stays in order.                     *)
LEMMA StreamFrame ==
  ASSUME NEW c \in Streams, InOrder(c), UNCHANGED events,
         wire'[c] = wire[c], backlog'[c] = backlog[c], ch'[c] = ch[c],
         files'[c] = files[c], handler'[c] = handler[c]
  PROVE  InOrder(c)'
BY DEF InOrder, Underway, Elems, Sorted, nextSeq

(* A page that does not act, on a stream that only moves events on (m is   *)
(* one it has just written) or gives up, is owed what it was owed.         *)
LEMMA PageFrame ==
  ASSUME NEW v \in Viewers, Resumes(v), SeenAll(v), Follows(v),
         UNCHANGED events,
         es'[v] = es[v], selected'[v] = selected[v], after'[v] = after[v],
         lastEventId'[v] = lastEventId[v], lastSeq'[v] = lastSeq[v],
         shown'[v] = shown[v], missed'[v] = missed[v],
         NEW c, c = es[v],
         c # NoStream =>
           /\ files'[c] = files[c]
           /\ Underway(c)' \subseteq Underway(c)
           /\ Elems(wire[c]) \subseteq Elems(wire'[c])
           /\ \A m \in Elems(wire'[c]) : m \in Elems(wire[c])
                \/ \A n \in 1 .. (m - 1) : Due(v, n) => n \in Elems(wire'[c])
           /\ ~ended'[c] => /\ ~ended[c]
                            /\ Underway(c)' = Underway(c)
                            /\ c \notin subs => c \notin subs'
  PROVE  Resumes(v)' /\ SeenAll(v)' /\ Follows(v)'
<1>1. Resumes(v)' /\ SeenAll(v)'
  BY DEF Resumes, SeenAll, nextSeq
<1>2. ASSUME c # NoStream
      PROVE  Brings(v, c)' /\ (~ended'[c] => BringsAll(v, c)')
  <2>1. \A n : Due(v, n)' <=> Due(v, n)
    BY DEF Due
  <2>2. Brings(v, c) /\ (~ended[c] => BringsAll(v, c))
    BY <1>2 DEF Follows
  <2>3. Brings(v, c)'
    <3>1. files'[c] = selected'[v] /\ \A n \in Underway(c)' : lastSeq'[v] < n
      BY <1>2, <2>2 DEF Brings
    <3>2. ASSUME NEW m \in Elems(wire'[c]), NEW n \in 1 .. (m - 1), Due(v, n)
          PROVE  n \in Elems(wire'[c])
      BY <1>2, <2>2, <3>2 DEF Brings
    <3>3. Elems(wire[c])' = Elems(wire'[c])
      BY DEF Elems
    <3> QED BY <2>1, <3>1, <3>2, <3>3 DEF Brings
  <2>4. ASSUME ~ended'[c] PROVE BringsAll(v, c)'
    <3>1. BringsAll(v, c) /\ Underway(c)' = Underway(c) /\ (c \notin subs => c \notin subs')
      BY <1>2, <2>2, <2>4
    <3> QED BY <2>1, <3>1 DEF BringsAll, nextSeq
  <2> QED BY <2>3, <2>4
<1>3. Follows(v)'
  <2> SUFFICES ASSUME es[v] # NoStream
               PROVE  Brings(v, es[v])' /\ (~ended[es[v]] => BringsAll(v, es[v]))'
    BY DEF Follows
  <2>1. c = es'[v] /\ Brings(v, c)' /\ (~ended'[c] => BringsAll(v, c)')
    BY <1>2
  <2>2. Brings(v, es[v])'
    BY <2>1 DEF Brings, Due, Underway, Elems
  <2>3. (~ended[es[v]] => BringsAll(v, es[v]))'
    BY <2>1 DEF BringsAll, Due, Underway, Elems
  <2> QED BY <2>2, <2>3
<1> QED BY <1>1, <1>3

(* The kinds of values the steps below compute with.                       *)
LEMMA Typed ==
  ASSUME Inductive
  PROVE  /\ TypeOK /\ events \in Seq(Files) /\ nextSeq \in Nat
         /\ subs \subseteq Streams /\ chClosed \subseteq Streams
         /\ \A c \in Streams : /\ wire[c] \in Seq(Nat) /\ ch[c] \in Seq(Nat)
                               /\ Elems(wire[c]) \subseteq Nat /\ Elems(ch[c]) \subseteq Nat
                               /\ backlog[c] \subseteq Nat /\ Underway(c) \subseteq Nat
                               /\ files[c] \subseteq Files /\ ended[c] \in BOOLEAN
         /\ \A v \in Viewers : /\ es[v] \in Streams \cup {NoStream}
                               /\ lastSeq[v] \in Nat /\ after[v] \in Nat /\ lastEventId[v] \in Nat
<1>1. TypeOK /\ HubTypeOK
  BY DEF Inductive, TypeOK
<1>2. ASSUME NEW q \in Seq(Nat) PROVE Elems(q) \subseteq Nat
  BY <1>2 DEF Elems
<1>3. \A c \in Streams : wire[c] \in Seq(Nat) /\ ch[c] \in Seq(Nat) /\ backlog[c] \subseteq Nat
  BY <1>1 DEF TypeOK, HubTypeOK
<1>4. \A c \in Streams : /\ Elems(wire[c]) \subseteq Nat /\ Elems(ch[c]) \subseteq Nat
                         /\ Underway(c) \subseteq Nat
  BY <1>2, <1>3 DEF Underway
<1>5. nextSeq \in Nat
  BY <1>1 DEF HubTypeOK, nextSeq
<1> QED BY <1>1, <1>3, <1>4, <1>5 DEF TypeOK, HubTypeOK

(* Outside the page and the process, presence does not change.             *)
LEMMA SamePages ==
  ASSUME UNCHANGED <<joined, epoch>>
  PROVE  Present' = Present
BY DEF Present

(* With the hub's history alone, its window stays.                         *)
LEMMA SameWindow ==
  ASSUME HistoryIsWindow, UNCHANGED historyVars
  PROVE  HistoryIsWindow'
BY DEF HistoryIsWindow, historyVars, nextSeq, Slot

-----------------------------------------------------------------------------
(* One lemma per step.                                                     *)

(* The handler writes the oldest event of its backlog.                     *)
LEMMA WriteHistoryKeeps ==
  ASSUME Inductive, NEW c \in Streams, WriteHistory(c)
  PROVE  Inductive'
<1> USE DEF WriteHistory
<1>1. TypeOK /\ InOrder(c) /\ c # NoStream
  BY NoStreamAssumption DEF Inductive
<1>2. PICK n \in backlog[c] : /\ \A m \in backlog[c] : n <= m
                              /\ wire' = [wire EXCEPT ![c] = Append(@, n)]
                              /\ backlog' = [backlog EXCEPT ![c] = @ \ {n}]
  OBVIOUS
<1>3. /\ n \in Nat /\ wire[c] \in Seq(Nat) /\ wire'[c] = Append(wire[c], n)
      /\ backlog'[c] = backlog[c] \ {n} /\ n \in Underway(c) /\ backlog[c] \subseteq Nat
  BY <1>1, <1>2, Typed DEF TypeOK, Underway
<1>4. /\ wire'[c] \in Seq(Nat) /\ Elems(wire'[c]) = Elems(wire[c]) \cup {n} /\ Sorted(wire'[c])
  BY <1>1, <1>3, Appended DEF InOrder
<1>5. TypeOK'
  <2>1. wire' \in [Streams -> Seq(Nat)] /\ backlog' \in [Streams -> SUBSET Nat]
    BY <1>1, <1>2, <1>3, <1>4 DEF TypeOK
  <2> QED BY <1>1, <2>1 DEF TypeOK, HubTypeOK, hubVars, pageVars, runVars
<1>6. Ranges' /\ SubscribersServed'
  BY DEF Inductive, Ranges, SubscribersServed, hubVars, pageVars, runVars
<1>7. HistoryIsWindow' /\ Present' = Present
  BY SameWindow, SamePages DEF Inductive, hubVars, historyVars, pageVars, runVars
<1>8. Underway(c)' = Underway(c)
  <2>1. Elems(wire[c])' = Elems(wire'[c]) /\ Elems(ch[c])' = Elems(ch[c])
    BY DEF Elems, hubVars
  <2> QED BY <1>2, <1>3, <1>4, <2>1 DEF Underway
<1>9. ASSUME NEW d \in Streams PROVE InOrder(d)'
  <2>1. CASE d = c
    <3>1. /\ Sorted(wire'[c]) /\ ch'[c] = ch[c] /\ files'[c] = files[c] /\ handler'[c] = handler[c]
          /\ events' = events
      BY <1>4 DEF hubVars
    <3>2. \A m \in Elems(wire'[c]) : \A k \in backlog'[c] \cup Elems(ch'[c]) : m < k
      <4>1. \A k \in backlog'[c] : k \in backlog[c] /\ n <= k /\ n # k /\ k \in Nat
        BY <1>2, <1>3
      <4>2. \A k \in backlog'[c] : n < k
        BY <1>3, <4>1
      <4> QED BY <1>1, <1>3, <1>4, <3>1, <4>1, <4>2 DEF InOrder
    <3>3. \A m \in backlog'[c] : \A k \in Elems(ch'[c]) : m < k
      BY <1>1, <1>3, <3>1 DEF InOrder
    <3>4. \A k \in Underway(c)' : k \in 1 .. nextSeq' /\ events'[k] \in files'[c]
      BY <1>1, <1>8, <3>1 DEF InOrder, nextSeq
    <3>5. InOrder(c)'
      BY <1>1, <1>3, <3>1, <3>2, <3>3, <3>4 DEF InOrder, Sorted, Elems
    <3> QED BY <2>1, <3>5
  <2>2. CASE d # c
    BY <1>1, <1>2, <2>2, StreamFrame DEF Inductive, TypeOK, hubVars
  <2> QED BY <2>1, <2>2
<1>10. ASSUME NEW v \in Present PROVE Resumes(v)' /\ SeenAll(v)' /\ Follows(v)'
  <2>1. v \in Viewers /\ Resumes(v) /\ SeenAll(v) /\ Follows(v)
    BY DEF Inductive, Present
  <2>2. CASE es[v] = c
    <3>1. \A k \in 1 .. (n - 1) : Due(v, k) => k \in Elems(wire'[c])
      <4> SUFFICES ASSUME NEW k \in 1 .. (n - 1), Due(v, k) PROVE k \in Elems(wire'[c])
        OBVIOUS
      <4>1. n \in 1 .. nextSeq /\ nextSeq \in Nat /\ k \in Nat /\ k < n
        BY <1>1, <1>3, Typed DEF InOrder
      <4>2. k \in 1 .. nextSeq /\ ~(n < k) /\ ~(n <= k)
        BY <4>1
      <4>3. k \in Underway(c)
        BY <1>1, <1>3, <2>1, <2>2, <4>2 DEF Follows, BringsAll, CanWrite
      <4>4. k \notin backlog[c] /\ k \notin Elems(ch[c])
        BY <1>1, <1>2, <4>2 DEF InOrder
      <4> QED BY <1>4, <4>3, <4>4 DEF Underway
    <3>2. \A m \in Elems(wire'[c]) : m \in Elems(wire[c])
                \/ \A k \in 1 .. (m - 1) : Due(v, k) => k \in Elems(wire'[c])
      BY <1>4, <3>1
    <3> QED BY <1>4, <1>8, <2>1, <2>2, <3>2, PageFrame DEF hubVars, pageVars
  <2>3. CASE es[v] # c
    <3>1. es[v] # NoStream => /\ wire'[es[v]] = wire[es[v]] /\ backlog'[es[v]] = backlog[es[v]]
      BY <1>1, <1>2, <2>1, <2>3, Typed DEF TypeOK
    <3>2. es[v] # NoStream => Underway(es[v])' = Underway(es[v])
      BY <3>1 DEF Underway, Elems, hubVars, pageVars
    <3> QED BY <2>1, <3>1, <3>2, PageFrame DEF hubVars, pageVars
  <2> QED BY <2>2, <2>3
<1> QED BY <1>5, <1>6, <1>7, <1>9, <1>10 DEF Inductive

(* The handler writes the next event of its subscriber's channel.          *)
LEMMA WriteEventKeeps ==
  ASSUME Inductive, NEW c \in Streams, WriteEvent(c)
  PROVE  Inductive'
<1> USE DEF WriteEvent
<1>1. TypeOK /\ InOrder(c) /\ c # NoStream /\ backlog[c] = {}
  BY NoStreamAssumption DEF Inductive, InOrder
<1> DEFINE n == Head(ch[c])
<1>2. /\ wire[c] \in Seq(Nat) /\ wire'[c] = Append(wire[c], n)
      /\ ch[c] \in Seq(Nat) /\ ch[c] # <<>> /\ ch'[c] = Tail(ch[c]) /\ backlog'[c] = {}
  BY <1>1, Typed DEF TypeOK, HubTypeOK
<1>3. /\ n \in Nat /\ n \in Elems(ch[c]) /\ ch'[c] \in Seq(Nat)
      /\ Elems(ch[c]) = Elems(ch'[c]) \cup {n}
      /\ Sorted(ch'[c]) /\ \A k \in Elems(ch'[c]) : n < k
  BY <1>1, <1>2, TakenOff DEF InOrder
<1>4. /\ wire'[c] \in Seq(Nat) /\ Elems(wire'[c]) = Elems(wire[c]) \cup {n} /\ Sorted(wire'[c])
  BY <1>1, <1>2, <1>3, Appended DEF InOrder
<1>5. TypeOK'
  <2>1. wire' \in [Streams -> Seq(Nat)] /\ ch' \in [Streams -> Seq(Nat)]
    BY <1>1, <1>2, <1>3, <1>4 DEF TypeOK, HubTypeOK
  <2> QED BY <1>1, <2>1 DEF TypeOK, HubTypeOK, historyVars, pageVars, runVars, nextSeq
<1>6. Ranges' /\ SubscribersServed'
  BY DEF Inductive, Ranges, SubscribersServed, historyVars, pageVars, runVars
<1>7. HistoryIsWindow' /\ Present' = Present
  BY SameWindow, SamePages DEF Inductive, pageVars, runVars
<1>8. Underway(c)' = Underway(c)
  <2>1. Elems(wire[c])' = Elems(wire'[c]) /\ Elems(ch[c])' = Elems(ch'[c])
    BY DEF Elems
  <2> QED BY <1>1, <1>2, <1>3, <1>4, <2>1 DEF Underway
<1>9. ASSUME NEW d \in Streams PROVE InOrder(d)'
  <2>1. CASE d = c
    <3>1. files'[c] = files[c] /\ handler'[c] = handler[c] /\ events' = events
      BY DEF historyVars
    <3>2. \A m \in Elems(wire'[c]) : \A k \in backlog'[c] \cup Elems(ch'[c]) : m < k
      BY <1>1, <1>2, <1>3, <1>4 DEF InOrder
    <3>3. \A k \in Underway(c)' : k \in 1 .. nextSeq' /\ events'[k] \in files'[c]
      BY <1>1, <1>8, <3>1 DEF InOrder, nextSeq
    <3>4. InOrder(c)'
      BY <1>2, <1>3, <1>4, <3>2, <3>3 DEF InOrder, Sorted, Elems
    <3> QED BY <2>1, <3>4
  <2>2. CASE d # c
    BY <1>1, <2>2, StreamFrame DEF Inductive, TypeOK, HubTypeOK, historyVars
  <2> QED BY <2>1, <2>2
<1>10. ASSUME NEW v \in Present PROVE Resumes(v)' /\ SeenAll(v)' /\ Follows(v)'
  <2>1. v \in Viewers /\ Resumes(v) /\ SeenAll(v) /\ Follows(v)
    BY DEF Inductive, Present
  <2>2. CASE es[v] = c
    <3>1. \A k \in 1 .. (n - 1) : Due(v, k) => k \in Elems(wire'[c])
      <4> SUFFICES ASSUME NEW k \in 1 .. (n - 1), Due(v, k) PROVE k \in Elems(wire'[c])
        OBVIOUS
      <4>0. n \in Underway(c) /\ nextSeq \in Nat
        BY <1>1, <1>3, Typed DEF Underway
      <4>1. n \in 1 .. nextSeq /\ k \in Nat /\ k < n
        <5>1. n \in 1 .. nextSeq
          BY <1>1, <4>0 DEF InOrder
        <5> HIDE DEF n
        <5> QED BY <1>3, <5>1
      <4>2. k \in 1 .. nextSeq /\ ~(n < k) /\ k # n
        BY <4>0, <4>1
      <4>3. k \in Underway(c)
        BY <1>1, <2>1, <2>2, <4>0, <4>2 DEF Follows, BringsAll, CanWrite
      <4>4. k \notin Elems(ch[c])
        BY <1>3, <4>2
      <4> QED BY <1>1, <1>4, <4>3, <4>4 DEF Underway
    <3>2. \A m \in Elems(wire'[c]) : m \in Elems(wire[c])
                \/ \A k \in 1 .. (m - 1) : Due(v, k) => k \in Elems(wire'[c])
      BY <1>4, <3>1
    <3> QED BY <1>4, <1>8, <2>1, <2>2, <3>2, PageFrame DEF historyVars, pageVars
  <2>3. CASE es[v] # c
    <3>1. es[v] # NoStream => /\ wire'[es[v]] = wire[es[v]] /\ ch'[es[v]] = ch[es[v]]
      BY <1>1, <2>1, <2>3, Typed DEF TypeOK, HubTypeOK
    <3>2. es[v] # NoStream => Underway(es[v])' = Underway(es[v])
      <4>1. es' = es /\ backlog' = backlog
        BY DEF pageVars
      <4> HIDE DEF WriteEvent
      <4> QED BY <3>1, <4>1 DEF Underway, Elems
    <3> QED BY <2>1, <3>1, <3>2, PageFrame DEF historyVars, pageVars
  <2> QED BY <2>2, <2>3
<1> QED BY <1>5, <1>6, <1>7, <1>9, <1>10 DEF Inductive

(* Steps that change no queue and no page: a stream's stages stay, and at  *)
(* most it ends or loses its subscriber.                                   *)
LEMMA QuietKeeps ==
  ASSUME Inductive, TypeOK', SubscribersServed', UNCHANGED historyVars,
         UNCHANGED <<wire, ch, files, backlog, pageVars, epoch>>,
         \A c \in Streams : /\ handler'[c] = "live" => handler[c] = "live" \/ backlog[c] = {}
                            /\ ended[c] => ended'[c]
                            /\ c \notin subs => c \notin subs'
  PROVE  Inductive'
<1>1. Ranges' /\ HistoryIsWindow' /\ Present' = Present
  BY SameWindow, SamePages DEF Inductive, Ranges, historyVars, pageVars
<1>2. \A c \in Streams : Underway(c)' = Underway(c) /\ Elems(wire'[c]) = Elems(wire[c])
  BY DEF Underway, Elems
<1>3. ASSUME NEW c \in Streams PROVE InOrder(c)'
  <2>1. /\ InOrder(c) /\ wire' = wire /\ ch' = ch /\ backlog' = backlog /\ files' = files
        /\ events' = events /\ Underway(c)' = Underway(c)
    BY <1>2 DEF Inductive, historyVars
  <2>2. handler'[c] = "live" => backlog'[c] = {}
    BY <2>1 DEF InOrder
  <2>3. \A n \in Underway(c)' : n \in 1 .. nextSeq' /\ events'[n] \in files'[c]
    BY <2>1 DEF InOrder, nextSeq
  <2>4. /\ Sorted(wire[c])' /\ Sorted(ch[c])'
        /\ Elems(wire[c])' = Elems(wire[c]) /\ Elems(ch[c])' = Elems(ch[c])
    BY <2>1 DEF InOrder, Sorted, Elems
  <2>5. /\ \A m \in Elems(wire[c])' : \A n \in backlog'[c] \cup Elems(ch[c])' : m < n
        /\ \A m \in backlog'[c] : \A n \in Elems(ch[c])' : m < n
    BY <2>1, <2>4 DEF InOrder
  <2> QED BY <2>2, <2>3, <2>4, <2>5 DEF InOrder
<1>4. ASSUME NEW v \in Present PROVE Resumes(v)' /\ SeenAll(v)' /\ Follows(v)'
  <2>1. v \in Viewers /\ Resumes(v) /\ SeenAll(v) /\ Follows(v) /\ es[v] \in Streams \cup {NoStream}
    BY Typed DEF Inductive, Present
  <2>2. es[v] # NoStream => Underway(es[v])' = Underway(es[v])
    BY <1>2, <2>1 DEF pageVars
  <2>3. es[v] # NoStream =>
          /\ ~ended'[es[v]] => ~ended[es[v]]
          /\ es[v] \notin subs => es[v] \notin subs'
    BY <2>1
  <2> QED BY <2>1, <2>2, <2>3, PageFrame DEF historyVars, pageVars
<1> QED BY <1>1, <1>3, <1>4 DEF Inductive

(* The history is written; the select loop begins.                         *)
LEMMA HistoryWrittenKeeps ==
  ASSUME Inductive, NEW c \in Streams, HistoryWritten(c)
  PROVE  Inductive'
<1> USE DEF HistoryWritten
<1>1. TypeOK'
  BY DEF Inductive, TypeOK, HubTypeOK, hubVars, pageVars, runVars
<1>2. SubscribersServed'
  BY DEF Inductive, TypeOK, SubscribersServed, hubVars
<1>3. \A d \in Streams : handler'[d] = "live" => handler[d] = "live" \/ backlog[d] = {}
  BY DEF Inductive, TypeOK
<1> QED BY <1>1, <1>2, <1>3, QuietKeeps DEF hubVars, historyVars, runVars

(* The transport of a stream fails.                                        *)
LEMMA NetworkFailsKeeps ==
  ASSUME Inductive, NEW c \in Streams, NetworkFails(c)
  PROVE  Inductive'
<1> USE DEF NetworkFails
<1>1. TypeOK'
  BY DEF Inductive, TypeOK, HubTypeOK, hubVars, pageVars
<1>2. SubscribersServed'
  BY DEF Inductive, SubscribersServed, hubVars
<1>3. \A d \in Streams : ended[d] => ended'[d]
  BY DEF Inductive, TypeOK
<1> QED BY <1>1, <1>2, <1>3, QuietKeeps DEF hubVars, historyVars

(* The hub is closed.                                                      *)
LEMMA ShutdownKeeps ==
  ASSUME Inductive, ServerShutsDown
  PROVE  Inductive'
<1> USE DEF ServerShutsDown, Close
<1>1. TypeOK'
  BY DEF Inductive, TypeOK, HubTypeOK, historyVars, streamVars, pageVars, runVars
<1>2. SubscribersServed'
  BY DEF Inductive, SubscribersServed, streamVars
<1> QED BY <1>1, <1>2, QuietKeeps DEF historyVars, streamVars, runVars

(* A new process starts to listen.                                         *)
LEMMA RestartKeeps ==
  ASSUME Inductive, ServerRestarts
  PROVE  Inductive'
<1> USE DEF ServerRestarts
<1>1. TypeOK'
  BY DEF Inductive, TypeOK, HubTypeOK, hubVars, streamVars, pageVars
<1>2. SubscribersServed'
  BY DEF Inductive, SubscribersServed, hubVars, streamVars
<1> QED BY <1>1, <1>2, QuietKeeps DEF hubVars, historyVars, streamVars

(* A handler returns: its subscriber goes, its wire may still be read.     *)
LEMMA HandlerReturnsKeeps ==
  ASSUME Inductive, NEW c \in Streams, HandlerReturns(c)
  PROVE  Inductive'
<1> USE DEF HandlerReturns, Unsubscribe
<1>1. TypeOK /\ InOrder(c) /\ SubscribersServed /\ c # NoStream
  BY NoStreamAssumption DEF Inductive
<1>2. /\ ch'[c] = <<>> /\ backlog'[c] = {} /\ wire'[c] = wire[c] /\ handler'[c] = "none"
      /\ ended'[c] /\ files' = files /\ events' = events
      /\ \A d \in Streams \ {c} : /\ ch'[d] = ch[d] /\ backlog'[d] = backlog[d]
                                  /\ wire'[d] = wire[d] /\ handler'[d] = handler[d]
                                  /\ ended'[d] = ended[d] /\ (d \in subs' <=> d \in subs)
                                  /\ (d \in chClosed' <=> d \in chClosed)
  BY <1>1 DEF TypeOK, HubTypeOK, historyVars
<1>3. TypeOK'
  <2>1. ch' \in [Streams -> Seq(Nat)]
    BY <1>1 DEF TypeOK, HubTypeOK
  <2>2. backlog' \in [Streams -> SUBSET Nat] /\ ended' \in [Streams -> BOOLEAN]
        /\ handler' \in [Streams -> {"none", "replay", "live"}]
    BY <1>1 DEF TypeOK
  <2> QED BY <1>1, <2>1, <2>2 DEF TypeOK, HubTypeOK, historyVars, pageVars, runVars
<1>4. SubscribersServed'
  BY <1>1, <1>2 DEF SubscribersServed
<1>5. Ranges' /\ HistoryIsWindow' /\ Present' = Present
  BY SameWindow, SamePages DEF Inductive, Ranges, historyVars, pageVars, runVars
<1>6. ASSUME NEW d \in Streams PROVE InOrder(d)'
  <2>1. CASE d = c
    <3>1. Elems(ch'[c]) = {} /\ Sorted(ch'[c])
      BY <1>2, EmptyQueue
    <3>2. Elems(wire'[c]) = Elems(wire[c]) /\ Sorted(wire'[c])
      BY <1>1, <1>2 DEF InOrder
    <3>3. \A n \in Elems(wire'[c]) : n \in 1 .. nextSeq' /\ events'[n] \in files'[c]
      BY <1>1, <1>2, <3>2 DEF InOrder, Underway, nextSeq
    <3>4. Underway(c)' = Elems(wire'[c])
      BY <1>2, <3>1 DEF Underway, Elems
    <3>5. InOrder(c)'
      BY <1>2, <3>1, <3>2, <3>3, <3>4 DEF InOrder, Elems, Sorted
    <3> QED BY <2>1, <3>5
  <2>2. CASE d # c
    BY <1>2, <2>2, StreamFrame DEF Inductive
  <2> QED BY <2>1, <2>2
<1>7. ASSUME NEW v \in Present PROVE Resumes(v)' /\ SeenAll(v)' /\ Follows(v)'
  <2>1. /\ v \in Viewers /\ Resumes(v) /\ SeenAll(v) /\ Follows(v)
        /\ es[v] \in Streams \cup {NoStream} /\ es' = es
    BY Typed DEF Inductive, Present, pageVars
  <2>2. CASE es[v] = c
    <3>1. Underway(c)' \subseteq Underway(c)
      BY <1>2, EmptyQueue DEF Underway, Elems
    <3> QED BY <1>1, <1>2, <2>1, <2>2, <3>1, PageFrame DEF pageVars
  <2>3. CASE es[v] # c
    <3>1. es[v] # NoStream => Underway(es[v])' = Underway(es[v])
      BY <1>2, <2>1, <2>3 DEF Underway, Elems
    <3> QED BY <1>2, <2>1, <2>3, <3>1, PageFrame DEF pageVars
  <2> QED BY <2>2, <2>3
<1> QED BY <1>3, <1>4, <1>5, <1>6, <1>7 DEF Inductive

(* A page lets its stream go: what was on the wire is dropped, and the     *)
(* page owes an account of what it has seen, but of nothing on its way.    *)
LEMMA DropsStream ==
  ASSUME Inductive, TypeOK', NEW v \in Viewers,
         UNCHANGED <<hubVars, handler, backlog, epoch>>,
         es' = [es EXCEPT ![v] = NoStream],
         \A c \in Streams : /\ wire'[c] = IF c = es[v] THEN <<>> ELSE wire[c]
                            /\ c # es[v] => ended'[c] = ended[c],
         \A w \in Viewers \ {v} :
           /\ selected'[w] = selected[w] /\ after'[w] = after[w]
           /\ lastEventId'[w] = lastEventId[w] /\ lastSeq'[w] = lastSeq[w]
           /\ shown'[w] = shown[w] /\ missed'[w] = missed[w] /\ joined'[w] = joined[w],
         joined'[v] <= epoch,
         v \in Present' => Resumes(v)' /\ SeenAll(v)'
  PROVE  Inductive'
<1>1. /\ es'[v] = NoStream /\ \A w \in Viewers \ {v} : es'[w] = es[w]
      /\ events' = events /\ ch' = ch /\ backlog' = backlog /\ files' = files
      /\ handler' = handler /\ subs' = subs /\ chClosed' = chClosed
  BY DEF Inductive, TypeOK, hubVars
<1>2. Ranges' /\ SubscribersServed' /\ HistoryIsWindow'
  <2>1. Ranges'
    BY <1>1 DEF Inductive, Ranges, hubVars
  <2>2. SubscribersServed'
    BY <1>1 DEF Inductive, SubscribersServed
  <2> QED BY <2>1, <2>2, SameWindow DEF Inductive, hubVars, historyVars
<1>3. \A c \in Streams : Underway(c)' \subseteq Underway(c)
  BY EmptyQueue DEF Underway, Elems, hubVars
<1>4. ASSUME NEW c \in Streams PROVE InOrder(c)'
  <2>1. CASE c = es[v]
    <3>1. InOrder(c) /\ wire'[c] = <<>> /\ Elems(wire[c])' = {} /\ Sorted(wire[c])'
      BY <2>1, EmptyQueue DEF Inductive, Elems, Sorted
    <3>2. Sorted(ch[c])' /\ Elems(ch[c])' = Elems(ch[c])
      BY <1>1, <3>1 DEF InOrder, Sorted, Elems
    <3>3. \A n \in Underway(c)' : n \in 1 .. nextSeq' /\ events'[n] \in files'[c]
      BY <1>1, <1>3, <3>1 DEF InOrder, nextSeq
    <3>4. \A m \in backlog'[c] : \A n \in Elems(ch[c])' : m < n
      BY <1>1, <3>1, <3>2 DEF InOrder
    <3>5. handler'[c] = "live" => backlog'[c] = {}
      BY <1>1, <3>1 DEF InOrder
    <3> QED BY <3>1, <3>2, <3>3, <3>4, <3>5 DEF InOrder
  <2>2. CASE c # es[v]
    BY <1>1, <2>2, StreamFrame DEF Inductive
  <2> QED BY <2>1, <2>2
<1>5. ASSUME NEW w \in Present' PROVE Resumes(w)' /\ SeenAll(w)' /\ Follows(w)'
  <2>1. CASE w = v
    BY <1>1, <2>1 DEF Follows
  <2>2. CASE w # v
    <3>1. w \in Viewers \ {v} /\ w \in Present
      BY <2>2 DEF Present
    <3>2. /\ Resumes(w) /\ SeenAll(w) /\ Follows(w) /\ es[w] \in Streams \cup {NoStream}
      BY <3>1, Typed DEF Inductive
    <3>3. es[w] # NoStream => /\ es[w] # es[v] /\ wire'[es[w]] = wire[es[w]]
                              /\ ended'[es[w]] = ended[es[w]]
      BY <3>1, <3>2 DEF Inductive, Ranges
    <3>4. es[w] # NoStream => Underway(es[w])' = Underway(es[w])
      BY <1>1, <3>1, <3>3 DEF Underway, Elems
    <3> QED BY <1>1, <3>1, <3>2, <3>3, <3>4, PageFrame
  <2> QED BY <2>1, <2>2
<1> QED BY <1>2, <1>4, <1>5 DEF Inductive

(* The stream has broken and EventSource waits to ask again.               *)
LEMMA StreamLostKeeps ==
  ASSUME Inductive, NEW v \in Viewers, StreamLost(v)
  PROVE  Inductive'
<1> USE DEF StreamLost
<1>1. TypeOK /\ Present' = Present
  BY DEF Inductive, runVars, Present
<1>2. TypeOK'
  <2>1. wire' \in [Streams -> Seq(Nat)] /\ es' \in [Viewers -> Streams \cup {NoStream}]
    BY <1>1 DEF TypeOK
  <2> QED BY <1>1, <2>1 DEF TypeOK, HubTypeOK, hubVars, runVars, nextSeq
<1>3. v \in Present' => Resumes(v)' /\ SeenAll(v)'
  BY <1>1 DEF Inductive, Resumes, SeenAll, nextSeq, hubVars
<1>4. \A c \in Streams : wire'[c] = IF c = es[v] THEN <<>> ELSE wire[c]
  BY <1>1 DEF TypeOK
<1>5. joined'[v] <= epoch
  BY DEF Inductive, Ranges
<1> QED BY <1>2, <1>3, <1>4, <1>5, DropsStream DEF runVars

(* What connect() does to the variables a page and its stream share.       *)
LEMMA Reconnected ==
  ASSUME TypeOK, NEW v \in Viewers, Reconnect(v)
  PROVE  /\ wire' \in [Streams -> Seq(Nat)] /\ es' \in [Viewers -> Streams \cup {NoStream}]
         /\ ended' \in [Streams -> BOOLEAN] /\ lastEventId' \in [Viewers -> Nat]
         /\ lastEventId'[v] = 0
         /\ \A c \in Streams : /\ wire'[c] = IF c = es[v] THEN <<>> ELSE wire[c]
                               /\ c # es[v] => ended'[c] = ended[c]
         /\ \A w \in Viewers \ {v} : lastEventId'[w] = lastEventId[w]
<1>1. wire' \in [Streams -> Seq(Nat)]
  BY DEF Reconnect, TypeOK
<1>2. ended' \in [Streams -> BOOLEAN]
  <2>1. \A c \in Streams : ended[c] \in BOOLEAN
    BY DEF TypeOK
  <2> QED BY <2>1 DEF Reconnect
<1>3. \A c \in Streams : c # es[v] => ended'[c] = ended[c]
  BY DEF Reconnect, TypeOK
<1> QED BY <1>1, <1>2, <1>3 DEF Reconnect, TypeOK

(* The page drops a file, with its lines, and reconnects after lastSeq.    *)
LEMMA DeselectKeeps ==
  ASSUME Inductive, NEW v \in Viewers, Deselect(v)
  PROVE  Inductive'
<1>1. TypeOK /\ Present' = Present /\ UNCHANGED <<hubVars, handler, backlog, epoch, lastSeq, missed, joined>>
  BY DEF Inductive, runVars, Present, Deselect, Reconnect
<1>2. PICK f \in selected[v] :
        /\ selected' = [selected EXCEPT ![v] = @ \ {f}]
        /\ shown' = [shown EXCEPT ![v] = {n \in @ : events[n] # f}]
  BY DEF Deselect
<1>3. Reconnect(v) /\ after' = [after EXCEPT ![v] = lastSeq[v]] /\ UNCHANGED runVars
  BY DEF Deselect
<1>4. TypeOK'
  <2>1. /\ selected' \in [Viewers -> SUBSET Files] /\ shown' \in [Viewers -> SUBSET Nat]
        /\ after' \in [Viewers -> Nat]
    BY <1>1, <1>2, <1>3 DEF TypeOK
  <2> QED BY <1>1, <1>3, <2>1, Reconnected DEF TypeOK, HubTypeOK, hubVars, runVars, nextSeq
<1>5. ASSUME v \in Present' PROVE Resumes(v)' /\ SeenAll(v)'
  <2>1. Resumes(v) /\ SeenAll(v)
    BY <1>1, <1>5 DEF Inductive
  <2>2. /\ selected'[v] = selected[v] \ {f} /\ shown'[v] = {n \in shown[v] : events[n] # f}
        /\ after'[v] = lastSeq[v] /\ lastEventId'[v] = 0 /\ lastSeq'[v] = lastSeq[v]
        /\ missed'[v] = missed[v] /\ events' = events /\ lastSeq[v] \in Nat
    BY <1>1, <1>2, <1>3, Reconnected DEF TypeOK, hubVars
  <2> QED BY <2>1, <2>2 DEF Resumes, SeenAll, nextSeq
<1>6. \A w \in Viewers \ {v} :
        selected'[w] = selected[w] /\ after'[w] = after[w] /\ shown'[w] = shown[w]
  BY <1>1, <1>2, <1>3 DEF TypeOK
<1>7. joined'[v] <= epoch /\ es' = [es EXCEPT ![v] = NoStream]
  BY <1>1, <1>3 DEF Inductive, Ranges, Reconnect
<1>8. /\ \A c \in Streams : /\ wire'[c] = IF c = es[v] THEN <<>> ELSE wire[c]
                            /\ c # es[v] => ended'[c] = ended[c]
      /\ \A w \in Viewers \ {v} : lastEventId'[w] = lastEventId[w]
  BY <1>1, <1>3, Reconnected
<1>9. UNCHANGED <<hubVars, handler, backlog, epoch>>
  BY <1>1
<1>10. \A w \in Viewers \ {v} :
         /\ selected'[w] = selected[w] /\ after'[w] = after[w]
         /\ lastEventId'[w] = lastEventId[w] /\ lastSeq'[w] = lastSeq[w]
         /\ shown'[w] = shown[w] /\ missed'[w] = missed[w] /\ joined'[w] = joined[w]
  BY <1>1, <1>6, <1>8
<1> QED BY <1>4, <1>5, <1>7, <1>8, <1>9, <1>10, DropsStream

(* A page of an earlier process is loaded anew.                            *)
LEMMA ReloadKeeps ==
  ASSUME Inductive, NEW v \in Viewers, Reload(v)
  PROVE  Inductive'
<1>1. TypeOK /\ Reconnect(v) /\ UNCHANGED <<hubVars, handler, backlog, runVars>> /\ nextSeq \in Nat
  BY Typed DEF Inductive, Reload, Reconnect
<1>2. /\ joined' = [joined EXCEPT ![v] = epoch] /\ shown' = [shown EXCEPT ![v] = {}]
      /\ missed' = [missed EXCEPT ![v] = {}] /\ lastSeq' = [lastSeq EXCEPT ![v] = 0]
      /\ after' = [after EXCEPT ![v] = 0]
  BY DEF Reload
<1>3. PICK sel \in SUBSET Files : selected' = [selected EXCEPT ![v] = sel]
  BY DEF Reload
<1>4. TypeOK'
  <2>1. /\ selected' \in [Viewers -> SUBSET Files] /\ joined' \in [Viewers -> Nat]
        /\ shown' \in [Viewers -> SUBSET Nat] /\ missed' \in [Viewers -> SUBSET Nat]
        /\ lastSeq' \in [Viewers -> Nat] /\ after' \in [Viewers -> Nat]
    BY <1>1, <1>2, <1>3 DEF TypeOK
  <2> QED BY <1>1, <2>1, Reconnected DEF TypeOK, HubTypeOK, hubVars, runVars, nextSeq
<1>5. Resumes(v)' /\ SeenAll(v)'
  <2>1. /\ after'[v] = 0 /\ lastEventId'[v] = 0 /\ lastSeq'[v] = 0 /\ shown'[v] = {}
        /\ nextSeq' \in Nat
    BY <1>1, <1>2, Reconnected DEF TypeOK, hubVars, nextSeq
  <2> QED BY <2>1 DEF Resumes, SeenAll
<1>6. \A w \in Viewers \ {v} :
        /\ selected'[w] = selected[w] /\ after'[w] = after[w] /\ lastSeq'[w] = lastSeq[w]
        /\ shown'[w] = shown[w] /\ missed'[w] = missed[w] /\ joined'[w] = joined[w]
  BY <1>1, <1>2, <1>3 DEF TypeOK
<1>7. joined'[v] <= epoch /\ es' = [es EXCEPT ![v] = NoStream]
  BY <1>1, <1>2 DEF TypeOK, Reconnect
<1>8. /\ \A c \in Streams : /\ wire'[c] = IF c = es[v] THEN <<>> ELSE wire[c]
                            /\ c # es[v] => ended'[c] = ended[c]
      /\ \A w \in Viewers \ {v} : lastEventId'[w] = lastEventId[w]
  BY <1>1, Reconnected
<1>9. UNCHANGED <<hubVars, handler, backlog, epoch>>
  BY <1>1 DEF runVars
<1>10. \A w \in Viewers \ {v} :
         /\ selected'[w] = selected[w] /\ after'[w] = after[w]
         /\ lastEventId'[w] = lastEventId[w] /\ lastSeq'[w] = lastSeq[w]
         /\ shown'[w] = shown[w] /\ missed'[w] = missed[w] /\ joined'[w] = joined[w]
  BY <1>6, <1>8
<1> QED BY <1>4, <1>5, <1>7, <1>8, <1>9, <1>10, DropsStream

(* A server process and its hub are gone: no page is owed anything.        *)
LEMMA ExitKeeps ==
  ASSUME Inductive, ServerExits
  PROVE  Inductive'
<1> USE DEF ServerExits
<1>1. TypeOK /\ epoch \in Nat /\ HistorySize \in Nat
  BY HubAssumption DEF Inductive, TypeOK
<1>2. TypeOK'
  <2>1. /\ events' \in Seq(Files) /\ ring' \in [0 .. (HistorySize - 1) -> Nat]
        /\ ch' \in [Streams -> Seq(Nat)] /\ files' \in [Streams -> SUBSET Files]
        /\ wire' \in [Streams -> Seq(Nat)]
    OBVIOUS
  <2>2. count' \in 0 .. HistorySize /\ start' \in Nat
    BY <1>1
  <2>3. HubTypeOK'
    BY <1>1, <2>1, <2>2 DEF HubTypeOK
  <2>4. /\ backlog' \in [Streams -> SUBSET Nat]
        /\ handler' \in [Streams -> {"none", "replay", "live"}]
        /\ shown' \in [Viewers -> SUBSET Nat] /\ missed' \in [Viewers -> SUBSET Nat]
    OBVIOUS
  <2>5. ended' \in [Streams -> BOOLEAN] /\ serverUp' \in BOOLEAN
    BY Zenon
  <2> QED BY <1>1, <2>1, <2>3, <2>4, <2>5 DEF TypeOK
<1>3. Present' = {} /\ Ranges'
  <2>1. \A v \in Viewers : joined[v] \in Nat /\ joined[v] <= epoch /\ joined' = joined
    BY DEF Inductive, Ranges, TypeOK
  <2>2. epoch' = epoch + 1 /\ \A v \in Viewers : joined'[v] # epoch' /\ joined'[v] <= epoch'
    BY <1>1, <2>1
  <2>3. HistorySize > 0 => start' < HistorySize
    BY <1>1
  <2> QED BY <2>2, <2>3 DEF Inductive, Ranges, Present
<1>4. HistoryIsWindow'
  <2>1. nextSeq' = 0 /\ count' = 0 /\ 0 .. (count' - 1) = {}
    BY DEF nextSeq
  <2> QED BY <1>1, <2>1 DEF HistoryIsWindow
<1>5. SubscribersServed'
  BY DEF SubscribersServed
<1>6. \A c \in Streams : InOrder(c)'
  BY EmptyQueue DEF InOrder, Underway, Elems, Sorted
<1> QED BY <1>2, <1>3, <1>4, <1>5, <1>6 DEF Inductive

(* The server's history answers exactly what the page has yet to see, or   *)
(* the page is told what it missed.                                        *)
LEMMA RequestKeeps ==
  ASSUME Inductive, NEW v \in Viewers, NEW c \in Streams, Request(v, c)
  PROVE  Inductive'
<1> DEFINE from == Later(after[v], lastEventId[v])
           gone == {n \in (from + 1) .. nextSeq : n \notin Retained}
<1>1. /\ TypeOK /\ HistoryIsWindow /\ SubscribersServed /\ c # NoStream
      /\ nextSeq \in Nat /\ count \in Nat /\ count <= nextSeq
      /\ Retained = (nextSeq - count + 1) .. nextSeq
  BY NoStreamAssumption, RetainedIsWindow DEF Inductive
<1>2. /\ from \in Nat /\ gone \subseteq Nat
      /\ History(from, selected[v]) \subseteq 1 .. nextSeq
  BY <1>1 DEF Later, History, TypeOK
<1>3. /\ es[v] = NoStream /\ handler[c] = "none" /\ \A w \in Viewers : es[w] # c
      /\ backlog' = [backlog EXCEPT ![c] = History(from, selected[v])]
      /\ missed' = [missed EXCEPT ![v] = @ \cup gone]
      /\ handler' = [handler EXCEPT ![c] = "replay"]
      /\ wire' = [wire EXCEPT ![c] = <<>>] /\ ch' = [ch EXCEPT ![c] = <<>>]
      /\ ended' = [ended EXCEPT ![c] = FALSE] /\ es' = [es EXCEPT ![v] = c]
      /\ files' = [files EXCEPT ![c] = selected[v]]
      /\ UNCHANGED <<selected, after, lastEventId, lastSeq, shown, joined, epoch, failures, serverUp>>
      /\ UNCHANGED historyVars /\ closed' = closed
  BY DEF Request, Subscribe, runVars
<1>4. /\ subs' = IF closed THEN subs ELSE subs \cup {c}
      /\ chClosed' = IF closed THEN chClosed \cup {c} ELSE chClosed \ {c}
  BY DEF Request, Subscribe
<1>5. TypeOK'
  <2>1. /\ backlog' \in [Streams -> SUBSET Nat] /\ missed' \in [Viewers -> SUBSET Nat]
    BY <1>1, <1>2, <1>3 DEF TypeOK
  <2>2. /\ wire' \in [Streams -> Seq(Nat)] /\ ch' \in [Streams -> Seq(Nat)]
        /\ ended' \in [Streams -> BOOLEAN] /\ es' \in [Viewers -> Streams \cup {NoStream}]
        /\ files' \in [Streams -> SUBSET Files]
        /\ handler' \in [Streams -> {"none", "replay", "live"}]
    BY <1>1, <1>3 DEF TypeOK, HubTypeOK
  <2>3. subs' \subseteq Streams /\ chClosed' \subseteq Streams
    BY <1>1, <1>4 DEF TypeOK, HubTypeOK
  <2> QED BY <1>1, <1>3, <2>1, <2>2, <2>3 DEF TypeOK, HubTypeOK, historyVars
<1>6. SubscribersServed'
  <2>1. c \notin subs /\ handler'[c] = "replay"
    BY <1>1, <1>3 DEF SubscribersServed, TypeOK
  <2>2. \A d \in Streams \ {c} : /\ d \in subs' <=> d \in subs
                                 /\ d \in chClosed' <=> d \in chClosed
                                 /\ handler'[d] = handler[d]
    BY <1>1, <1>3, <1>4 DEF TypeOK
  <2>3. c \in subs' => c \notin chClosed'
    BY <1>4, <2>1
  <2>4. c \notin subs' => c \in chClosed'
    BY <1>4
  <2> QED BY <1>1, <2>1, <2>2, <2>3, <2>4 DEF SubscribersServed
<1>7. Ranges' /\ HistoryIsWindow' /\ Present' = Present
  <2>1. \A w, u \in Viewers : es'[w] = es'[u] /\ es'[w] # NoStream => w = u
    BY <1>1, <1>3 DEF Inductive, Ranges, TypeOK
  <2> QED BY <1>1, <1>3, <2>1, SameWindow, SamePages DEF Inductive, Ranges, historyVars
<1>8. /\ wire'[c] = <<>> /\ ch'[c] = <<>> /\ files'[c] = selected[v]
      /\ backlog'[c] = History(from, selected[v]) /\ handler'[c] = "replay"
      /\ Elems(wire[c])' = {} /\ Elems(ch[c])' = {} /\ Sorted(wire[c])' /\ Sorted(ch[c])'
      /\ Underway(c)' = History(from, selected[v])
      /\ events' = events /\ nextSeq' = nextSeq
  BY <1>1, <1>3 DEF TypeOK, HubTypeOK, Elems, Sorted, Underway, historyVars, nextSeq
<1>9. ASSUME NEW d \in Streams PROVE InOrder(d)'
  <2>1. CASE d = c
    <3>1. \A n \in Underway(c)' : n \in 1 .. nextSeq' /\ events'[n] \in files'[c]
      BY <1>2, <1>8 DEF History
    <3> QED BY <1>8, <2>1, <3>1 DEF InOrder
  <2>2. CASE d # c
    <3>1. /\ wire'[d] = wire[d] /\ backlog'[d] = backlog[d] /\ ch'[d] = ch[d]
          /\ files'[d] = files[d] /\ handler'[d] = handler[d]
      BY <1>1, <1>3, <2>2 DEF TypeOK, HubTypeOK
    <3> QED BY <1>8, <3>1, StreamFrame DEF Inductive
  <2> QED BY <2>1, <2>2
<1>10. ASSUME NEW w \in Present PROVE Resumes(w)' /\ SeenAll(w)' /\ Follows(w)'
  <2>1. /\ w \in Viewers /\ Resumes(w) /\ SeenAll(w) /\ Follows(w)
        /\ es[w] \in Streams \cup {NoStream} /\ lastSeq[w] \in Nat
    BY Typed DEF Inductive, Present
  <2>2. CASE w = v
    <3>1. from = lastSeq[v] /\ lastSeq[v] \in Nat
      BY <1>1, <2>1, <2>2, Typed DEF Resumes, Later
    <3>2. /\ es'[v] = c /\ missed'[v] = missed[v] \cup gone /\ selected' = selected
          /\ lastSeq' = lastSeq /\ shown' = shown /\ after' = after /\ lastEventId' = lastEventId
      BY <1>1, <1>3 DEF TypeOK
    <3>3. Resumes(v)' /\ SeenAll(v)'
      BY <1>8, <2>1, <2>2, <3>2 DEF Resumes, SeenAll
    <3>4. Brings(v, c)'
      BY <1>8, <3>1, <3>2 DEF Brings, History
    <3>5. BringsAll(v, c)'
      <4> SUFFICES ASSUME NEW n \in 1 .. nextSeq, Due(v, n)'
                   PROVE  n \in History(from, selected[v])
        BY <1>8 DEF BringsAll
      <4>1. n > from /\ n \notin gone /\ events[n] \in selected[v]
        BY <1>8, <3>1, <3>2 DEF Due
      <4>2. n \in Retained
        BY <1>1, <1>2, <4>1
      <4> QED BY <4>1, <4>2 DEF History
    <3>6. Follows(v)'
      BY <3>2, <3>4, <3>5 DEF Follows, Brings, BringsAll, Underway, Due
    <3> QED BY <2>2, <3>3, <3>6
  <2>3. CASE w # v
    <3>1. es[w] # NoStream => /\ es[w] # c /\ wire'[es[w]] = wire[es[w]]
                              /\ backlog'[es[w]] = backlog[es[w]] /\ ch'[es[w]] = ch[es[w]]
                              /\ files'[es[w]] = files[es[w]] /\ ended'[es[w]] = ended[es[w]]
                              /\ es[w] \notin subs => es[w] \notin subs'
      BY <1>1, <1>3, <1>4, <2>1 DEF TypeOK, HubTypeOK
    <3>2. es'[w] = es[w] /\ missed'[w] = missed[w]
      BY <1>1, <1>3, <2>1, <2>3 DEF TypeOK
    <3>3. es[w] # NoStream => Underway(es[w])' = Underway(es[w])
      BY <3>1, <3>2 DEF Underway, Elems
    <3> QED BY <1>3, <1>8, <2>1, <3>1, <3>2, <3>3, PageFrame
  <2> QED BY <2>2, <2>3
<1> QED BY <1>5, <1>6, <1>7, <1>9, <1>10 DEF Inductive

(* A line is published: it joins the channels it is for, or evicts their   *)
(* subscribers; the history moves on.                                      *)
LEMMA PublishKeeps ==
  ASSUME Inductive, PublishLine
  PROVE  Inductive'
<1> DEFINE n == nextSeq + 1
<1>1. PICK f \in Files : Publish(f)
  BY DEF PublishLine
<1> DEFINE takers == {c \in subs : f \in files[c]}
           full == {c \in takers : Len(ch[c]) >= SubscriberBuffer}
           served == takers \ full
<1>2. /\ TypeOK /\ SubscribersServed /\ nextSeq \in Nat /\ n \in Nat /\ subs \subseteq Streams
      /\ events \in Seq(Files)
  BY Typed DEF Inductive
<1>3. /\ events' \in Seq(Files) /\ nextSeq' = n /\ events'[n] = f
      /\ \A m \in 1 .. nextSeq : events'[m] = events[m]
  BY <1>1, <1>2 DEF Publish, nextSeq
<1>4. /\ ch' = [c \in Streams |-> IF c \in served THEN Append(ch[c], n) ELSE ch[c]]
      /\ subs' = subs \ full /\ chClosed' = chClosed \cup full /\ files' = files
      /\ closed' = closed /\ UNCHANGED <<streamVars, pageVars, runVars>>
  BY <1>1 DEF Publish, Deliver, PublishLine
<1>5. /\ HistoryIsWindow' /\ (HistorySize > 0 => start' < HistorySize)
      /\ ring' \in [0 .. (HistorySize - 1) -> Nat] /\ start' \in Nat /\ count' \in 0 .. HistorySize
  BY <1>1, <1>3, WindowMoves DEF Publish, Inductive
<1>6. \A c \in Streams : /\ ch[c] \in Seq(Nat) /\ ch'[c] \in Seq(Nat)
                         /\ c \in served => ch'[c] = Append(ch[c], n)
                         /\ c \notin served => ch'[c] = ch[c]
  BY <1>2, <1>4, Typed DEF TypeOK
<1>7. TypeOK'
  <2>1. ch' \in [Streams -> Seq(Nat)]
    BY <1>4, <1>6
  <2>2. subs' \subseteq Streams /\ chClosed' \subseteq Streams /\ files' \in [Streams -> SUBSET Files]
        /\ closed' \in BOOLEAN
    BY <1>2, <1>4 DEF TypeOK, HubTypeOK
  <2>3. HubTypeOK'
    BY <1>3, <1>5, <2>1, <2>2 DEF HubTypeOK
  <2> QED BY <1>2, <1>4, <2>3 DEF TypeOK, streamVars, pageVars, runVars
<1>8. Ranges' /\ Present' = Present
  BY <1>4, <1>5, SamePages DEF Inductive, Ranges, pageVars, runVars
<1>9. SubscribersServed'
  BY <1>2, <1>4 DEF SubscribersServed, streamVars
<1>13. \A c \in Streams : /\ c \in served => c \in subs /\ f \in files[c]
                          /\ c \in subs' => c \in subs
                          /\ c \in subs /\ f \in files[c] => c \in served \/ c \notin subs'
  BY <1>4
<1> HIDE DEF takers, full, served
<1>10. ASSUME NEW c \in Streams
       PROVE  /\ InOrder(c) /\ \A m \in Underway(c) : m \in 1 .. nextSeq /\ m < n
              /\ Elems(ch'[c]) = IF c \in served THEN Elems(ch[c]) \cup {n} ELSE Elems(ch[c])
              /\ Sorted(ch'[c])
              /\ Underway(c)' = IF c \in served THEN Underway(c) \cup {n} ELSE Underway(c)
  <2>1. InOrder(c)
    BY DEF Inductive
  <2>2. \A m \in Underway(c) : m \in 1 .. nextSeq /\ m < n
    BY <1>2, <2>1 DEF InOrder
  <2>3. /\ Elems(ch'[c]) = IF c \in served THEN Elems(ch[c]) \cup {n} ELSE Elems(ch[c])
        /\ Sorted(ch'[c])
    <3>1. Sorted(ch[c]) /\ \A m \in Elems(ch[c]) : m < n
      BY <2>1, <2>2 DEF InOrder, Underway
    <3>2. CASE c \in served
      <4>1. ch[c] \in Seq(Nat) /\ ch'[c] = Append(ch[c], n) /\ n \in Nat
        BY <1>2, <1>6, <3>2
      <4> HIDE DEF n
      <4> QED BY <3>1, <3>2, <4>1, Appended
    <3>3. CASE c \notin served
      BY <1>6, <3>1, <3>3
    <3> QED BY <3>2, <3>3
  <2>4. Elems(wire[c])' = Elems(wire[c]) /\ Elems(ch[c])' = Elems(ch'[c]) /\ backlog'[c] = backlog[c]
    BY <1>4 DEF Elems, streamVars
  <2> QED BY <2>1, <2>2, <2>3, <2>4 DEF Underway
<1>11. ASSUME NEW c \in Streams PROVE InOrder(c)'
  <2>1. /\ wire' = wire /\ backlog' = backlog /\ handler' = handler /\ files' = files
        /\ Elems(wire[c])' = Elems(wire[c]) /\ Elems(ch[c])' = Elems(ch'[c])
    BY <1>4 DEF Elems, streamVars
  <2>2. Sorted(wire[c])' /\ Sorted(ch[c])'
    BY <1>10, <2>1 DEF InOrder, Sorted
  <2>3. /\ \A m \in Elems(wire[c])' : \A k \in backlog'[c] \cup Elems(ch[c])' : m < k
        /\ \A m \in backlog'[c] : \A k \in Elems(ch[c])' : m < k
    <3>1. Elems(ch[c])' \subseteq Elems(ch[c]) \cup {n}
      BY <1>10, <2>1
    <3>2. \A m \in Elems(wire[c]) \cup backlog[c] : m < n /\ \A k \in Elems(ch[c]) : m < k
      BY <1>10 DEF InOrder, Underway
    <3>3. \A m \in Elems(wire[c]) : \A k \in backlog[c] : m < k
      BY <1>10 DEF InOrder
    <3> QED BY <2>1, <3>1, <3>2, <3>3
  <2>4. \A k \in Underway(c)' : k \in 1 .. nextSeq' /\ events'[k] \in files'[c]
    <3>1. ASSUME NEW k \in Underway(c) PROVE k \in 1 .. nextSeq' /\ events'[k] \in files'[c]
      <4>1. k \in 1 .. nextSeq /\ events[k] \in files[c]
        BY <1>10 DEF InOrder
      <4>2. events'[k] = events[k] /\ k \in 1 .. n
        BY <1>2, <1>3, <4>1
      <4> QED BY <1>3, <2>1, <4>1, <4>2
    <3>2. c \in served => n \in 1 .. nextSeq' /\ events'[n] \in files'[c]
      BY <1>2, <1>3, <1>13, <2>1
    <3>3. Underway(c)' \subseteq Underway(c) \/ (c \in served /\ Underway(c)' = Underway(c) \cup {n})
      BY <1>10
    <3> QED BY <3>1, <3>2, <3>3
  <2>5. handler'[c] = "live" => backlog'[c] = {}
    BY <1>10, <2>1 DEF InOrder
  <2> QED BY <2>2, <2>3, <2>4, <2>5 DEF InOrder
<1>12. ASSUME NEW v \in Present PROVE Resumes(v)' /\ SeenAll(v)' /\ Follows(v)'
  <2>1. /\ v \in Viewers /\ Resumes(v) /\ SeenAll(v) /\ Follows(v)
        /\ es[v] \in Streams \cup {NoStream} /\ lastSeq[v] \in Nat /\ lastSeq[v] <= nextSeq
    BY Typed DEF Inductive, Present, Resumes
  <2>2. /\ es' = es /\ lastSeq' = lastSeq /\ after' = after /\ lastEventId' = lastEventId
        /\ selected' = selected /\ shown' = shown /\ missed' = missed
        /\ wire' = wire /\ ended' = ended /\ backlog' = backlog
    BY <1>4 DEF pageVars, streamVars
  <2>3. Resumes(v)'
    BY <1>2, <1>3, <2>1, <2>2 DEF Resumes
  <2>4. SeenAll(v)'
    <3>1. \A k \in 1 .. lastSeq[v] : k \in 1 .. nextSeq
      BY <1>2, <2>1
    <3> QED BY <1>3, <2>1, <2>2, <3>1 DEF SeenAll
  <2>5. \A k \in 1 .. nextSeq : Due(v, k)' <=> Due(v, k)
    BY <1>3, <2>2 DEF Due
  <2>6. ASSUME NEW c \in Streams, c = es[v], c # NoStream
        PROVE  Brings(v, c)' /\ (~ended'[c] => BringsAll(v, c)')
    <3>1. Brings(v, c) /\ (~ended[c] => BringsAll(v, c))
      BY <2>1, <2>6 DEF Follows
    <3>2. Elems(wire[c])' = Elems(wire[c])
      BY <2>2 DEF Elems
    <3>3. Brings(v, c)'
      <4>1. files'[c] = selected'[v]
        BY <1>4, <2>2, <3>1 DEF Brings
      <4>2. \A k \in Underway(c)' : lastSeq'[v] < k
        <5>1. \A k \in Underway(c) : lastSeq[v] < k
          BY <3>1 DEF Brings
        <5>2. Underway(c)' \subseteq Underway(c) \cup {n}
          BY <1>10
        <5>3. lastSeq[v] < n
          BY <1>2, <2>1
        <5> QED BY <2>2, <5>1, <5>2, <5>3
      <4>3. ASSUME NEW m \in Elems(wire[c]), NEW k \in 1 .. (m - 1), Due(v, k)'
            PROVE  k \in Elems(wire[c])
        <5>1. m \in 1 .. nextSeq
          BY <1>10 DEF Underway
        <5>2. k \in 1 .. nextSeq
          BY <1>2, <5>1
        <5> QED BY <2>5, <3>1, <4>3, <5>2 DEF Brings
      <4> QED BY <3>2, <4>1, <4>2, <4>3 DEF Brings
    <3>4. ASSUME ~ended[c] PROVE BringsAll(v, c)'
      <4>1. ASSUME NEW k \in 1 .. nextSeq, Due(v, k)
            PROVE  k \in Underway(c)' \/ (c \notin subs' /\ \A m \in Underway(c)' : m < k)
        <5>1. k \in Underway(c) \/ (c \notin subs /\ \A m \in Underway(c) : m < k)
          BY <3>1, <3>4, <4>1 DEF BringsAll
        <5>2. Underway(c) \subseteq Underway(c)' /\ (c \notin subs => Underway(c)' = Underway(c))
          BY <1>10, <1>13
        <5> QED BY <1>13, <5>1, <5>2
      <4>2. ASSUME NEW k, k = n, Due(v, k)'
            PROVE  k \in Underway(c)' \/ (c \notin subs' /\ \A m \in Underway(c)' : m < k)
        <5>1. f \in files[c]
          BY <1>3, <2>2, <3>1, <4>2 DEF Due, Brings
        <5>2. c \in served => k \in Underway(c)'
          BY <1>10, <4>2
        <5>3. c \notin served => c \notin subs' /\ \A m \in Underway(c)' : m < k
          BY <1>10, <1>13, <4>2, <5>1
        <5> QED BY <5>2, <5>3
      <4>3. \A k \in 1 .. nextSeq' : k \in 1 .. nextSeq \/ k = n
        BY <1>2, <1>3
      <4>4. ASSUME NEW k \in 1 .. nextSeq', Due(v, k)'
            PROVE  k \in Underway(c)' \/ (c \notin subs' /\ \A m \in Underway(c)' : m < k)
        <5>1. k \in 1 .. nextSeq \/ k = n
          BY <4>3, <4>4
        <5>2. CASE k \in 1 .. nextSeq
          BY <2>5, <4>1, <4>4, <5>2
        <5> QED BY <4>2, <4>4, <5>1, <5>2
      <4> QED BY <4>4 DEF BringsAll
    <3> QED BY <2>2, <3>3, <3>4
  <2>7. Follows(v)'
    <3> SUFFICES ASSUME es[v] # NoStream
                 PROVE  Brings(v, es[v])' /\ (~ended[es[v]] => BringsAll(v, es[v]))'
      BY <2>2 DEF Follows
    <3> PICK c \in Streams : c = es[v] /\ c = es'[v] /\ c # NoStream
      BY <2>1, <2>2
    <3>1. Brings(v, c)' /\ (~ended'[c] => BringsAll(v, c)')
      BY <2>6
    <3>2. Brings(v, es[v])'
      BY <3>1 DEF Brings, Due, Underway, Elems
    <3>3. (~ended[es[v]] => BringsAll(v, es[v]))'
      BY <3>1 DEF BringsAll, Due, Underway, Elems
    <3> QED BY <3>2, <3>3
  <2> QED BY <2>3, <2>4, <2>7
<1> QED BY <1>5, <1>7, <1>8, <1>9, <1>11, <1>12 DEF Inductive

(* The page takes the next event off the wire.                             *)
LEMMA OnLineKeeps ==
  ASSUME Inductive, NEW v \in Viewers, OnLine(v)
  PROVE  Inductive'
<1> DEFINE c == es[v]
           n == Head(wire[c])
<1>1. /\ TypeOK /\ c \in Streams /\ c # NoStream /\ InOrder(c) /\ wire[c] # <<>> /\ wire[c] \in Seq(Nat)
      /\ nextSeq \in Nat
  BY Typed DEF OnLine, Inductive
<1>2. /\ lastEventId' = [lastEventId EXCEPT ![v] = n]
      /\ wire' = [wire EXCEPT ![c] = Tail(@)]
      /\ UNCHANGED <<hubVars, handler, backlog, ended, es, selected, after, missed, joined, runVars>>
  BY DEF OnLine
<1>3. \/ n <= lastSeq[v] /\ UNCHANGED <<lastSeq, shown>>
      \/ /\ n > lastSeq[v]
         /\ lastSeq' = [lastSeq EXCEPT ![v] = n]
         /\ shown' = [shown EXCEPT ![v] = @ \cup {n}]
  BY DEF OnLine
<1>4. /\ wire'[c] = Tail(wire[c]) /\ wire'[c] \in Seq(Nat) /\ n \in Nat /\ n \in Elems(wire[c])
      /\ Elems(wire[c]) = Elems(wire'[c]) \cup {n} /\ Sorted(wire'[c])
      /\ \A m \in Elems(wire'[c]) : n < m
  BY <1>1, <1>2, TakenOff DEF TypeOK, InOrder
<1>5. TypeOK'
  <2>1. wire' \in [Streams -> Seq(Nat)] /\ lastEventId' \in [Viewers -> Nat]
    BY <1>1, <1>2, <1>4 DEF TypeOK
  <2>2. lastSeq' \in [Viewers -> Nat]
    BY <1>1, <1>3, <1>4 DEF TypeOK
  <2>3. shown' \in [Viewers -> SUBSET Nat]
    <3>1. shown \in [Viewers -> SUBSET Nat] /\ shown[v] \cup {n} \in SUBSET Nat
      BY <1>1, <1>4 DEF TypeOK
    <3>2. shown' = shown \/ shown' = [shown EXCEPT ![v] = shown[v] \cup {n}]
      BY <1>3, <3>1
    <3> HIDE DEF n
    <3> QED BY <3>1, <3>2
  <2> QED BY <1>1, <1>2, <2>1, <2>2, <2>3 DEF TypeOK, HubTypeOK, hubVars, runVars, nextSeq
<1>6. /\ Ranges' /\ HistoryIsWindow' /\ SubscribersServed' /\ Present' = Present
  <2>1. Ranges' /\ SubscribersServed'
    BY <1>2 DEF Inductive, Ranges, SubscribersServed, hubVars, runVars
  <2> QED BY <1>2, <2>1, SameWindow, SamePages DEF Inductive, hubVars, historyVars, runVars
<1>7. /\ events' = events /\ nextSeq' = nextSeq /\ files' = files /\ subs' = subs
      /\ Elems(wire[c])' = Elems(wire'[c]) /\ Elems(ch[c])' = Elems(ch[c]) /\ ch' = ch
      /\ es' = es /\ c' = c /\ selected' = selected /\ missed' = missed /\ after' = after
      /\ backlog' = backlog /\ handler' = handler /\ ended' = ended
  BY <1>2 DEF hubVars, nextSeq, Elems
<1>8. Underway(c) = Underway(c)' \cup {n} /\ \A m \in Underway(c)' : n < m
  <2>1. Underway(c)' = Elems(wire'[c]) \cup backlog[c] \cup Elems(ch[c])
    BY <1>7 DEF Underway
  <2>2. \A m \in backlog[c] \cup Elems(ch[c]) : n < m
    BY <1>1, <1>4 DEF InOrder
  <2> QED BY <1>4, <2>1, <2>2 DEF Underway
<1>9. ASSUME NEW d \in Streams PROVE InOrder(d)'
  <2>1. CASE d = c
    <3>1. \A m \in Elems(wire'[c]) : \A k \in backlog[c] \cup Elems(ch[c]) : m < k
      BY <1>1, <1>4 DEF InOrder
    <3>2. \A k \in Underway(c)' : k \in 1 .. nextSeq' /\ events'[k] \in files'[c]
      BY <1>1, <1>7, <1>8 DEF InOrder
    <3>3. Sorted(wire[c])' /\ Sorted(ch[c])'
      BY <1>1, <1>4, <1>7 DEF InOrder, Sorted
    <3>4. InOrder(c)'
      BY <1>1, <1>7, <3>1, <3>2, <3>3 DEF InOrder
    <3> QED BY <1>7, <2>1, <3>4
  <2>2. CASE d # c
    BY <1>1, <1>2, <1>7, <2>2, StreamFrame DEF Inductive, TypeOK
  <2> QED BY <2>1, <2>2
<1>10. ASSUME NEW w \in Present PROVE Resumes(w)' /\ SeenAll(w)' /\ Follows(w)'
  <2>1. /\ w \in Viewers /\ Resumes(w) /\ SeenAll(w) /\ Follows(w)
        /\ es[w] \in Streams \cup {NoStream} /\ lastSeq[w] \in Nat
    BY Typed DEF Inductive, Present
  <2>2. CASE w = v
    <3>1. Brings(v, c) /\ (~ended[c] => BringsAll(v, c)) /\ n > lastSeq[v] /\ n \in 1 .. nextSeq
      BY <1>1, <1>4, <1>8, <2>1, <2>2 DEF Follows, Brings, InOrder
    <3>2. /\ lastSeq'[v] = n /\ shown'[v] = shown[v] \cup {n} /\ lastEventId'[v] = n
      <4>1. ~(n <= lastSeq[v])
        BY <1>4, <2>1, <2>2, <3>1
      <4> QED BY <1>1, <1>2, <1>3, <4>1 DEF TypeOK
    <3>3. \A k \in Nat : k \in 1 .. n /\ ~Due(v, k) /\ events[k] \in selected[v]
                          => k \in 1 .. lastSeq[v] \/ k \in missed[v]
      BY <1>4, <2>1, <2>2 DEF Due
    <3>4. \A k \in 1 .. (n - 1) : ~Due(v, k)
      <4> SUFFICES ASSUME NEW k \in 1 .. (n - 1), Due(v, k) PROVE FALSE
        OBVIOUS
      <4>1. k \in Elems(wire[c])
        BY <1>4, <3>1 DEF Brings
      <4>2. k < n /\ k \in Nat
        <5>1. n \in Nat
          BY <1>4
        <5> HIDE DEF n
        <5> QED BY <5>1
      <4> HIDE DEF n
      <4> QED BY <1>4, <4>1, <4>2
    <3>5. SeenAll(v)'
      <4> SUFFICES ASSUME NEW k \in 1 .. n, events[k] \in selected[v]
                   PROVE  k \in shown'[v] \cup missed[v]
        BY <1>7, <3>2 DEF SeenAll
      <4>1. CASE k = n
        BY <3>2, <4>1
      <4>2. CASE k # n
        <5>1. k \in 1 .. (n - 1) /\ k \in Nat
          BY <1>4, <4>2
        <5>2. k \in 1 .. lastSeq[v] \/ k \in missed[v]
          BY <3>3, <3>4, <5>1
        <5> QED BY <2>1, <2>2, <3>2, <5>2 DEF SeenAll
      <4> QED BY <4>1, <4>2
    <3>6. Resumes(v)'
      <4>1. after[v] \in Nat /\ after[v] <= n /\ n <= nextSeq
        BY <1>1, <1>4, <2>1, <2>2, <3>1, Typed DEF Resumes
      <4>2. shown'[v] \subseteq 1 .. n
        BY <1>4, <2>1, <2>2, <3>1, <3>2 DEF Resumes
      <4> QED BY <1>4, <1>7, <3>2, <4>1, <4>2 DEF Resumes
    <3>7. \A k \in Nat : Due(v, k)' => Due(v, k) /\ k # n
      <4> SUFFICES ASSUME NEW k \in Nat, Due(v, k)' PROVE Due(v, k) /\ k # n
        OBVIOUS
      <4>1. k > n /\ events[k] \in selected[v] /\ k \notin missed[v]
        BY <1>7, <3>2 DEF Due
      <4>2. k > lastSeq[v] /\ k # n
        BY <1>4, <2>1, <2>2, <3>1, <4>1
      <4> QED BY <4>1, <4>2 DEF Due
    <3>8. Brings(v, c)'
      <4>1. files'[c] = selected'[v] /\ \A m \in Underway(c)' : lastSeq'[v] < m
        BY <1>7, <1>8, <3>1, <3>2 DEF Brings
      <4>2. ASSUME NEW m \in Elems(wire'[c]), NEW k \in 1 .. (m - 1), Due(v, k)'
            PROVE  k \in Elems(wire'[c])
        BY <1>4, <3>1, <3>7, <4>2 DEF Brings
      <4> QED BY <1>7, <4>1, <4>2 DEF Brings
    <3>9. ASSUME ~ended[c] PROVE BringsAll(v, c)'
      BY <1>7, <1>8, <3>1, <3>7, <3>9 DEF BringsAll
    <3>10. Follows(v)'
      BY <1>7, <3>8, <3>9 DEF Follows, Brings, BringsAll, Due, Underway, Elems
    <3> QED BY <2>2, <3>5, <3>6, <3>10
  <2>3. CASE w # v
    <3>1. es[w] # NoStream => es[w] # c
      BY <1>1, <2>1, <2>3 DEF Inductive, Ranges
    <3>2. es[w] # NoStream => wire'[es[w]] = wire[es[w]]
      BY <1>1, <1>2, <2>1, <3>1 DEF TypeOK
    <3>3. es[w] # NoStream => Underway(es[w])' = Underway(es[w])
      BY <1>7, <3>2 DEF Underway, Elems
    <3>4. lastEventId'[w] = lastEventId[w] /\ lastSeq'[w] = lastSeq[w] /\ shown'[w] = shown[w]
      BY <1>1, <1>2, <1>3, <2>1, <2>3 DEF TypeOK
    <3> QED BY <1>7, <2>1, <3>2, <3>3, <3>4, PageFrame
  <2> QED BY <2>2, <2>3
<1> QED BY <1>5, <1>6, <1>9, <1>10 DEF Inductive

-----------------------------------------------------------------------------
(* The invariant of the specification.                                     *)

(* At the start nothing is published and nobody is connected.              *)
LEMMA InductiveInit == Init => Inductive
<1> SUFFICES ASSUME Init PROVE Inductive
  OBVIOUS
<1> USE DEF Init, HubInit
<1>1. HistorySize \in Nat
  BY HubAssumption
<1>2. TypeOK
  <2>1. /\ events \in Seq(Files) /\ ring \in [0 .. (HistorySize - 1) -> Nat]
        /\ ch \in [Streams -> Seq(Nat)] /\ files \in [Streams -> SUBSET Files]
        /\ wire \in [Streams -> Seq(Nat)]
    OBVIOUS
  <2>2. HubTypeOK
    <3>1. start \in Nat /\ count \in 0 .. HistorySize
      BY <1>1
    <3>2. subs \subseteq Streams /\ chClosed \subseteq Streams
      OBVIOUS
    <3>3. closed \in BOOLEAN
      BY Zenon
    <3> QED BY <2>1, <3>1, <3>2, <3>3 DEF HubTypeOK
  <2>3. ended \in [Streams -> BOOLEAN] /\ serverUp \in BOOLEAN
    BY Zenon
  <2> QED BY <2>1, <2>2, <2>3 DEF TypeOK
<1>3. Ranges /\ SubscribersServed
  BY <1>1 DEF Ranges, SubscribersServed
<1>4. HistoryIsWindow
  <2>1. nextSeq = 0 /\ count = 0 /\ 0 .. (count - 1) = {}
    BY DEF nextSeq
  <2> QED BY <1>1, <2>1 DEF HistoryIsWindow
<1>5. \A c \in Streams : InOrder(c)
  BY EmptyQueue DEF InOrder, Underway
<1>6. ASSUME NEW v \in Viewers PROVE Resumes(v) /\ SeenAll(v) /\ Follows(v)
  <2>1. nextSeq = 0
    BY DEF nextSeq
  <2> QED BY <2>1 DEF Resumes, SeenAll, Follows
<1> QED BY <1>2, <1>3, <1>4, <1>5, <1>6 DEF Inductive, Present

(* A step that changes nothing.                                            *)
LEMMA StutterKeeps ==
  ASSUME Inductive, UNCHANGED vars
  PROVE  Inductive'
<1> USE DEF vars, hubVars, streamVars, pageVars, runVars
<1>1. TypeOK'
  BY DEF Inductive, TypeOK, HubTypeOK
<1>2. SubscribersServed'
  BY DEF Inductive, SubscribersServed
<1> QED BY <1>1, <1>2, QuietKeeps DEF historyVars

(* One case per action.                                                    *)
LEMMA InductiveNext == Inductive /\ [Next]_vars => Inductive'
<1> SUFFICES ASSUME Inductive, [Next]_vars PROVE Inductive'
  OBVIOUS
<1>1. CASE PublishLine \/ ServerShutsDown \/ ServerExits \/ ServerRestarts
  BY <1>1, PublishKeeps, ShutdownKeeps, ExitKeeps, RestartKeeps
<1>2. CASE \E c \in Streams : Handler(c) \/ NetworkFails(c)
  BY <1>2, WriteHistoryKeeps, HistoryWrittenKeeps, WriteEventKeeps, HandlerReturnsKeeps,
     NetworkFailsKeeps DEF Handler
<1>3. CASE \E v \in Viewers :
        OnLine(v) \/ StreamLost(v) \/ Deselect(v) \/ Reload(v) \/ \E c \in Streams : Request(v, c)
  BY <1>3, OnLineKeeps, StreamLostKeeps, DeselectKeeps, ReloadKeeps, RequestKeeps
<1> QED BY <1>1, <1>2, <1>3, StutterKeeps DEF Next

(* The inductive invariant holds for all files, streams, viewers, sizes    *)
(* and numbers of failures and restarts.                                   *)
THEOREM EventStreamInductive == Spec => []Inductive
<1>1. Init => Inductive
  BY InductiveInit
<1>2. Inductive /\ [Next]_vars => Inductive'
  BY InductiveNext
<1> QED BY <1>1, <1>2, PTL DEF Spec

(* Every variable of hub, server and page keeps its kind.                  *)
THEOREM EventStreamTypes == Spec => []TypeOK
<1>1. Inductive => TypeOK
  BY DEF Inductive
<1> QED BY <1>1, EventStreamInductive, PTL

(* The history ring of hub.go holds the newest events in order, through    *)
(* every wrap, for every capacity (0, no history, included).               *)
THEOREM HistorySound == Spec => []HistoryIsWindow
<1>1. Inductive => HistoryIsWindow
  BY DEF Inductive
<1> QED BY <1>1, EventStreamInductive, PTL

(* hub.go never sends on a closed channel, and no handler of server.go     *)
(* waits on an open channel that nobody sends to.                          *)
THEOREM SubscribersSound == Spec => []SubscribersServed
<1>1. Inductive => SubscribersServed
  BY DEF Inductive
<1> QED BY <1>1, EventStreamInductive, PTL

(* Evictions, broken streams, late joins and changed selections leave no   *)
(* silent gap in a page (hub.go:69-122, server.go:289-383,                 *)
(* index.html:718-759).                                                    *)
THEOREM NoGaps == Spec => []NoSilentGap
<1>1. Inductive => NoSilentGap
  BY DEF Inductive, NoSilentGap, SeenAll, Present
<1> QED BY <1>1, EventStreamInductive, PTL

-----------------------------------------------------------------------------
(* The refinement of ViewerFeed.                                           *)

(* Each step of hub, handlers, pages and process is one of the feed or     *)
(* leaves what is visible of it as it was.                                 *)
LEMMA StepKeepsFeed ==
  ASSUME Inductive, Next
  PROVE  Feed!Next \/ UNCHANGED Feed!vars
<1> DEFINE sh == [v \in Viewers |-> IF v \in Present THEN shown[v] ELSE {}]
           ms == [v \in Viewers |-> IF v \in Present THEN missed[v] ELSE {}]
<1>0. /\ TypeOK /\ HistoryIsWindow /\ nextSeq \in Nat /\ events \in Seq(Files)
      /\ Present \subseteq Viewers
  BY Typed DEF Inductive, Present
<1>1. CASE UNCHANGED <<events, joined, epoch, selected, shown, missed>>
  BY <1>1 DEF Feed!vars, Present
<1>2. CASE PublishLine
  <2>1. PICK f \in Files : events' = Append(events, f)
    BY <1>2 DEF PublishLine, Publish
  <2>2. UNCHANGED <<joined, epoch, selected, shown, missed>>
    BY <1>2 DEF PublishLine, pageVars, runVars
  <2>3. Feed!Publish
    BY <2>1, <2>2 DEF Feed!Publish, Present
  <2> QED BY <2>3 DEF Feed!Next
<1>3. CASE ServerExits
  <2>1. Present' = {}
    <3>1. \A v \in Viewers : joined[v] \in Nat /\ joined[v] <= epoch
      BY <1>0 DEF Inductive, Ranges, TypeOK
    <3>2. joined' = joined /\ epoch' = epoch + 1 /\ epoch \in Nat
      BY <1>0, <1>3 DEF ServerExits, TypeOK
    <3> QED BY <3>1, <3>2 DEF Present
  <2>2. events' = <<>> /\ selected' = selected
    BY <1>3 DEF ServerExits
  <2>3. sh' = [v \in Viewers |-> {}] /\ ms' = [v \in Viewers |-> {}]
    BY <2>1
  <2>4. Feed!Restart
    BY <2>1, <2>2, <2>3 DEF Feed!Restart
  <2> QED BY <2>4 DEF Feed!Next
<1>4. ASSUME NEW v \in Viewers, NEW c \in Streams, Request(v, c)
      PROVE  Feed!Next \/ UNCHANGED Feed!vars
  <2> DEFINE from == Later(after[v], lastEventId[v])
             gone == {n \in (from + 1) .. nextSeq : n \notin Retained}
  <2>1. /\ UNCHANGED <<events, joined, epoch, selected, shown>>
        /\ missed' = [missed EXCEPT ![v] = @ \cup gone] /\ missed \in [Viewers -> SUBSET Nat]
    BY <1>0, <1>4 DEF Request, Subscribe, historyVars, runVars, TypeOK
  <2>2. Present' = Present /\ sh' = sh
    BY <2>1 DEF Present
  <2>3. CASE v \in Present
    <3>1. ms' = [ms EXCEPT ![v] = @ \cup gone]
      BY <2>1, <2>2, <2>3
    <3>2. gone \in SUBSET (1 .. Len(events)) /\ \A n \in gone : n + HistorySize <= Len(events)
      <4>1. /\ Retained = (nextSeq - count + 1) .. nextSeq /\ count \in Nat /\ count <= nextSeq
            /\ count = nextSeq \/ count = HistorySize
        BY <1>0, RetainedIsWindow
      <4>2. from \in Nat /\ HistorySize \in Nat
        BY <1>0, HubAssumption DEF TypeOK, Later
      <4> SUFFICES ASSUME NEW n \in gone PROVE n \in 1 .. nextSeq /\ n + HistorySize <= nextSeq
        BY DEF nextSeq
      <4>3. n \in Nat /\ n \in 1 .. nextSeq /\ n \notin (nextSeq - count + 1) .. nextSeq
        BY <1>0, <4>1, <4>2
      <4> QED BY <1>0, <4>1, <4>2, <4>3
    <3>3. Feed!Miss(v)
      BY <2>1, <2>2, <3>1, <3>2 DEF Feed!Miss
    <3> QED BY <3>3 DEF Feed!Next
  <2>4. CASE v \notin Present
    <3>1. ms' = ms
      BY <2>1, <2>2, <2>4
    <3> QED BY <2>1, <2>2, <3>1 DEF Feed!vars
  <2> QED BY <2>3, <2>4
<1>5. ASSUME NEW v \in Viewers, OnLine(v)
      PROVE  Feed!Next \/ UNCHANGED Feed!vars
  <2> DEFINE c == es[v]
             n == Head(wire[c])
  <2>1. /\ UNCHANGED <<events, joined, epoch, selected, missed>>
        /\ \/ n <= lastSeq[v] /\ UNCHANGED shown
           \/ n > lastSeq[v] /\ shown' = [shown EXCEPT ![v] = @ \cup {n}]
        /\ shown \in [Viewers -> SUBSET Nat]
    BY <1>0, <1>5 DEF OnLine, hubVars, runVars, TypeOK
  <2>2. Present' = Present /\ ms' = ms
    BY <2>1 DEF Present
  <2>3. CASE v \in Present
    <3>1. /\ c \in Streams /\ c # NoStream /\ wire[c] # <<>> /\ wire[c] \in Seq(Nat) /\ InOrder(c)
          /\ Resumes(v) /\ Follows(v) /\ lastSeq[v] \in Nat
      BY <1>0, <1>5, <2>3, Typed DEF OnLine, Inductive, Present
    <3>2. n \in Nat /\ n \in Elems(wire[c])
      BY <3>1, TakenOff
    <3>3. n \in 1 .. nextSeq /\ events[n] \in selected[v] /\ lastSeq[v] < n
      BY <3>1, <3>2 DEF InOrder, Underway, Follows, Brings
    <3>4. sh' = [sh EXCEPT ![v] = @ \cup {n}]
      <4>1. ~(n <= lastSeq[v])
        BY <3>1, <3>2, <3>3
      <4>2. shown' = [shown EXCEPT ![v] = @ \cup {n}]
        BY <2>1, <4>1
      <4> HIDE DEF n
      <4> QED BY <2>1, <2>2, <2>3, <4>2
    <3>5. \A m \in sh[v] : m < n
      <4>1. \A m \in shown[v] : m \in 1 .. lastSeq[v]
        BY <3>1 DEF Resumes
      <4>2. \A m \in shown[v] : m < n
        BY <3>1, <3>2, <3>3, <4>1
      <4> QED BY <2>3, <4>2
    <3>6. Feed!Older(v, n) \subseteq sh[v] \cup ms[v]
      <4> SUFFICES ASSUME NEW m \in 1 .. (n - 1), events[m] \in selected[v]
                   PROVE  m \in shown[v] \cup missed[v]
        BY <2>3 DEF Feed!Older
      <4>1. SeenAll(v)'
        BY <1>5, <2>2, <2>3, OnLineKeeps DEF Inductive
      <4>2. lastSeq'[v] = n
        <5>1. ~(n <= lastSeq[v])
          BY <3>1, <3>2, <3>3
        <5> QED BY <1>0, <1>5, <5>1 DEF OnLine, TypeOK
      <4>3. m \in 1 .. n /\ m # n
        BY <3>2
      <4>4. m \in shown'[v] \cup missed'[v]
        BY <2>1, <4>1, <4>2, <4>3 DEF SeenAll
      <4>5. shown'[v] \subseteq shown[v] \cup {n} /\ missed'[v] = missed[v]
        BY <2>1, <2>3
      <4> QED BY <4>3, <4>4, <4>5
    <3>7. Feed!Show(v)
      <4>1. n \in 1 .. Len(events)
        BY <3>3 DEF nextSeq
      <4> QED BY <2>1, <2>2, <2>3, <3>3, <3>4, <3>5, <3>6, <4>1 DEF Feed!Show
    <3> QED BY <3>7 DEF Feed!Next
  <2>4. CASE v \notin Present
    <3>1. sh' = sh
      BY <2>1, <2>2, <2>4
    <3> QED BY <2>1, <2>2, <3>1 DEF Feed!vars
  <2> QED BY <2>3, <2>4
<1>6. ASSUME NEW v \in Viewers, Deselect(v)
      PROVE  Feed!Next
  <2>1. PICK f \in selected[v] :
          /\ selected' = [selected EXCEPT ![v] = @ \ {f}]
          /\ shown' = [shown EXCEPT ![v] = {n \in @ : events[n] # f}]
    BY <1>6 DEF Deselect
  <2>2. UNCHANGED <<events, joined, epoch, missed>> /\ shown \in [Viewers -> SUBSET Nat]
    BY <1>0, <1>6 DEF Deselect, hubVars, runVars, TypeOK
  <2>3. Present' = Present /\ ms' = ms
    BY <2>2 DEF Present
  <2>4. sh' = [sh EXCEPT ![v] = {n \in @ : events[n] # f}]
    BY <2>1, <2>2, <2>3
  <2>5. Feed!Deselect(v)
    BY <2>1, <2>2, <2>3, <2>4 DEF Feed!Deselect
  <2> QED BY <2>5 DEF Feed!Next
<1>7. ASSUME NEW v \in Viewers, Reload(v)
      PROVE  Feed!Next
  <2>1. PICK sel \in SUBSET Files : selected' = [selected EXCEPT ![v] = sel]
    BY <1>7 DEF Reload
  <2>2. /\ joined[v] # epoch /\ joined' = [joined EXCEPT ![v] = epoch] /\ epoch' = epoch
        /\ shown' = [shown EXCEPT ![v] = {}] /\ missed' = [missed EXCEPT ![v] = {}]
        /\ events' = events
    BY <1>7 DEF Reload, hubVars, runVars
  <2>3. v \notin Present /\ Present' = Present \cup {v}
    BY <1>0, <2>2 DEF Present, TypeOK
  <2>4. sh' = sh /\ ms' = ms
    BY <1>0, <2>2, <2>3 DEF TypeOK
  <2>5. Feed!Load(v)
    BY <2>1, <2>2, <2>3, <2>4 DEF Feed!Load
  <2> QED BY <2>5 DEF Feed!Next
<1>8. CASE ServerShutsDown \/ ServerRestarts
  BY <1>1, <1>8 DEF ServerShutsDown, Close, ServerRestarts, hubVars, historyVars, pageVars, runVars
<1>9. ASSUME NEW c \in Streams, Handler(c) \/ NetworkFails(c)
      PROVE  UNCHANGED Feed!vars
  <2>1. UNCHANGED events /\ UNCHANGED pageVars /\ UNCHANGED epoch
    BY <1>9 DEF Handler, WriteHistory, HistoryWritten, WriteEvent, HandlerReturns, Unsubscribe,
       NetworkFails, hubVars, historyVars, runVars
  <2> QED BY <2>1 DEF Feed!vars, pageVars, Present
<1>10. ASSUME NEW v \in Viewers, StreamLost(v)
       PROVE  UNCHANGED Feed!vars
  BY <1>10 DEF StreamLost, hubVars, runVars, Feed!vars, Present
<1> QED BY <1>2, <1>3, <1>4, <1>5, <1>6, <1>7, <1>8, <1>9, <1>10 DEF Next

(* Hub, handlers and pages refine ViewerFeed: a page sees its files'       *)
(* events in the order published and skips only what it was too late for.  *)
THEOREM StreamKeepsFeed == Spec => KeepsFeed
<1>1. Init => Feed!Init
  BY DEF Init, HubInit, Feed!Init, Present
<1>2. Inductive /\ [Next]_vars => [Feed!Next]_(Feed!vars)
  <2>1. UNCHANGED vars => UNCHANGED Feed!vars
    BY DEF vars, hubVars, pageVars, runVars, Feed!vars, Present
  <2> QED BY <2>1, StepKeepsFeed
<1> QED BY <1>1, <1>2, EventStreamInductive, PTL DEF Spec, KeepsFeed, Feed!Spec
=============================================================================
