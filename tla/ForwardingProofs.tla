-------------------------- MODULE ForwardingProofs --------------------------
(***************************************************************************)
(* Forwarding loses no line, for every buffer size, number of connections, *)
(* sources, failures and restarts.  The invariants of Forwarding are not   *)
(* inductive: what an ack will claim depends on what is still in a         *)
(* handler's hands, on the wire and in the pump's batch.  Inductive says   *)
(* so for each of these places.                                            *)
(***************************************************************************)
EXTENDS Forwarding, RingLemmas, TLAPS

(* Lines on connection c that its handler has not finished with.           *)
InHand(c) == IF handler[c] \in Holding THEN {cur[c]} ELSE {}

OnWire(c) == {up[c][i] : i \in 1 .. Len(up[c])}

(* Ranges that TypeOK leaves open.                                         *)
Ranges ==
  /\ count <= nextSeq
  /\ \A c \in Conns : InHand(c) \cup OnWire(c) \subseteq 1 .. nextSeq
  /\ \A c \in Conns : handler[c] = "none" => highest[c] = 0
  /\ pump = "dial" => conn = NoConn /\ sentUpTo = 0
  /\ pump # "write" => pending = {}
  /\ pump # "dial" => conn \in Conns

(* What left the buffer is settled.                                        *)
ReleasedSettled == 1 .. (nextSeq - count) \subseteq Settled

(* A handler's position: all lines up to highestSeq and all lines before   *)
(* the one in hand are settled; so is that one once it is published.       *)
HandSettled ==
  \A c \in Conns :
    /\ 1 .. highest[c] \subseteq Settled
    /\ handler[c] \in Holding => 1 .. (cur[c] - 1) \subseteq Settled
    /\ handler[c] = "store" => cur[c] \in Settled

(* A line on the wire: every older line is settled, in the handler's       *)
(* hands, or ahead of it on the same wire.                                 *)
WireSettled ==
  \A c \in Conns : \A i \in 1 .. Len(up[c]) : \A j \in 1 .. (up[c][i] - 1) :
    \/ j \in Settled \cup InHand(c)
    \/ \E k \in 1 .. (i - 1) : up[c][k] = j

(* The pump: everything it has taken is settled or still on its way.       *)
PumpSettled ==
  conn # NoConn /\ ~broken[conn] =>
    1 .. sentUpTo \subseteq Settled \cup InHand(conn) \cup OnWire(conn) \cup pending

Inductive ==
  /\ TypeOK /\ RingIsWindow /\ Ranges
  /\ ReleasedSettled /\ HandSettled /\ WireSettled /\ PumpSettled
  /\ AckClaimsOnlySettled /\ FirstCopiesInOrder

(* On a connection the line in hand and those on the wire follow each      *)
(* other in order, and none repeats what highestSeq has; the pump's batch  *)
(* continues where the wire ends.                                          *)
OrderedOn(c) ==
  /\ \A n \in InHand(c) : highest[c] < n
  /\ \A m \in OnWire(c) : highest[c] < m /\ \A n \in InHand(c) : n < m
  /\ \A i, j \in 1 .. Len(up[c]) : i < j => up[c][i] < up[c][j]

Taken(c) == {highest[c]} \cup InHand(c) \cup OnWire(c)

PumpAhead ==
  conn # NoConn => \A n \in Taken(conn) : n <= sentUpTo /\ \A p \in pending : n < p

Ordered == (\A c \in Conns : OrderedOn(c)) /\ PumpAhead

-----------------------------------------------------------------------------
(* Slots count modulo the capacity.                                        *)
LEMMA SlotWraps ==
  ASSUME ClientTypeOK, NEW i \in 0 .. BufferLines
  PROVE  Slot(i) = IF head + i < BufferLines THEN head + i
                                            ELSE head + i - BufferLines
BY ModWraps, BufferAssumption DEF Slot, ClientTypeOK

(* A position within one capacity has a slot of the ring.                  *)
LEMMA SlotInRing ==
  ASSUME ClientTypeOK, NEW i \in 0 .. BufferLines
  PROVE  Slot(i) \in 0 .. (BufferLines - 1)
BY SlotWraps, BufferAssumption DEF ClientTypeOK

(* Two positions within one capacity use different slots.                  *)
LEMMA SlotsDiffer ==
  ASSUME ClientTypeOK, NEW i \in 0 .. (BufferLines - 1),
         NEW j \in 0 .. (BufferLines - 1), Slot(i) = Slot(j)
  PROVE  i = j
BY ModInjective, BufferAssumption DEF Slot, ClientTypeOK

(* The steps of the whole system, one by one.                              *)
ClientStep == Accept \/ Signal \/ Pump \/ \E c \in Conns : Reader(c)

HandlerStep == \E c \in Conns : Handler(c)

TickerStep == \E c \in Conns : Ticker(c)

ConnectStep == \E c \in Conns : Connect(c)

FailureStep == \E c \in Conns : NetworkFails(c)

ProcessStep == ServerShutsDown \/ ServerExits \/ ServerRestarts

(* Every step is one of these.                                             *)
LEMMA NextCases ==
  ASSUME [Next]_vars
  PROVE  \/ ClientStep \/ HandlerStep \/ TickerStep \/ ConnectStep
         \/ FailureStep \/ ProcessStep \/ UNCHANGED vars
BY DEF Next, ClientStep, HandlerStep, TickerStep, ConnectStep, FailureStep,
  ProcessStep

(* Clients leave the server's state alone, and the server the client's.    *)
LEMMA ClientFrame ==
  ASSUME ClientStep
  PROVE  UNCHANGED <<serverVars, broken, failures, exits>>
BY DEF ClientStep, Accept, Enqueue, Signal, SignalWake, Pump, Snapshot, WriteLine,
  BeginWait, WakeUp, StreamEnded, Reader, ReceiveAck, ReaderEnds, serverSide, wireVars

(* The steps of server, network and process leave the client alone.        *)
LEMMA ServerFrame ==
  ASSUME HandlerStep \/ TickerStep \/ FailureStep \/ ProcessStep
  PROVE  UNCHANGED <<clientVars, line>>
<1>1. CASE HandlerStep
  BY <1>1 DEF HandlerStep, Handler, ScanLine, ScanTooLong, ScanEnds, CheckCap, Register,
    CountSource, Publish, PublishRefused, StoreSeq, Return, clientSide
<1>2. CASE TickerStep
  BY <1>2 DEF TickerStep, Ticker, SendAck, clientSide
<1>3. CASE FailureStep
  BY <1>3 DEF FailureStep, NetworkFails
<1>4. CASE ProcessStep
  BY <1>4 DEF ProcessStep, ServerShutsDown, ServerExits, ServerRestarts, Shutdown,
    Exit, Restart
<1> QED BY <1>1, <1>2, <1>3, <1>4

(* Settled lines stay settled.                                             *)
LEMMA SettledGrows ==
  ASSUME [Next]_vars
  PROVE  Settled \subseteq Settled'
<1> USE DEF Settled
<1>1. CASE ClientStep
  <2>1. UNCHANGED <<published, ignored>>
    BY <1>1, ClientFrame DEF serverVars
  <2>2. dropped \subseteq dropped'
    BY <1>1 DEF ClientStep, Accept, Enqueue, Signal, SignalWake, Pump, Snapshot,
      WriteLine, BeginWait, WakeUp, StreamEnded, Reader, ReceiveAck, TrimAcked,
      ReaderEnds, ringVars
  <2> QED BY <2>1, <2>2
<1>2. CASE HandlerStep
  <2>1. UNCHANGED dropped
    BY <1>2, ServerFrame DEF clientVars
  <2> QED
    BY <2>1, <1>2 DEF HandlerStep, Handler, ScanLine, ScanTooLong, ScanEnds, CheckCap,
      Register, CountSource, Publish, PublishRefused, StoreSeq, Return, historyVars
<1>3. CASE TickerStep
  BY <1>3, ServerFrame DEF TickerStep, Ticker, SendAck, serverVars, clientVars
<1>4. CASE ConnectStep
  BY <1>4 DEF ConnectStep, Connect, Dial, StartHandler, ringVars, historyVars
<1>5. CASE FailureStep
  BY <1>5, ServerFrame DEF FailureStep, NetworkFails, serverVars, clientVars
<1>6. CASE ProcessStep
  BY <1>6, ServerFrame DEF ProcessStep, ServerShutsDown, ServerExits, ServerRestarts,
    Shutdown, Exit, Restart, historyVars, clientVars
<1>7. CASE UNCHANGED vars
  BY <1>7 DEF vars, clientVars, serverVars
<1> QED BY NextCases, <1>1, <1>2, <1>3, <1>4, <1>5, <1>6, <1>7

-----------------------------------------------------------------------------
(* Types.                                                                  *)

(* The buffer holds the newest count lines.                                *)
LEMMA BufferedInWindow ==
  ASSUME ClientTypeOK, RingIsWindow, count <= nextSeq
  PROVE  Buffered = (nextSeq - count + 1) .. nextSeq
<1>1. count \in Nat /\ nextSeq \in Nat
  BY BufferAssumption DEF ClientTypeOK
<1>2. ASSUME NEW s \in Buffered PROVE s \in (nextSeq - count + 1) .. nextSeq
  BY <1>1, <1>2 DEF RingIsWindow, Buffered, Positions
<1>3. ASSUME NEW s \in (nextSeq - count + 1) .. nextSeq PROVE s \in Buffered
  <2>1. (s - (nextSeq - count) - 1) \in Positions
    BY <1>1, <1>3 DEF Positions
  <2>2. ring[Slot(s - (nextSeq - count) - 1)] = s
    BY <1>1, <1>3, <2>1 DEF RingIsWindow
  <2> QED BY <2>1, <2>2 DEF Buffered
<1> QED BY <1>2, <1>3

(* Steps of the client keep its variables and the wire well typed.         *)
LEMMA ClientTypes ==
  ASSUME ClientTypeOK, WireTypeOK, RingIsWindow, Ranges, ClientStep
  PROVE  ClientTypeOK' /\ WireTypeOK'
<1> USE DEF WireTypeOK, ringVars, pumpVars, wireVars
<1>0. Buffered = (nextSeq - count + 1) .. nextSeq /\ count \in Nat /\ nextSeq \in Nat
  BY BufferedInWindow, BufferAssumption DEF Ranges, ClientTypeOK
<1>1. CASE Accept
  <2> PICK l \in Lines : Enqueue(l)
    BY <1>1 DEF Accept
  <2>1. WireTypeOK' /\ Len(line') = nextSeq'
    BY DEF Enqueue, ClientTypeOK
  <2>4. /\ nextSeq' = nextSeq + 1 /\ enq' = "wake"
        /\ UNCHANGED <<wake, conn, pump, pending, sentUpTo, reader>>
    BY DEF Enqueue
  <2>2. CASE count < BufferLines
    <3>1. Slot(count) \in 0 .. (BufferLines - 1)
      <4>1. count \in 0 .. BufferLines
        BY <2>2, <1>0, BufferAssumption
      <4> QED BY <4>1, SlotInRing
    <3>2. /\ ring' = [ring EXCEPT ![Slot(count)] = nextSeq + 1]
          /\ count' = count + 1 /\ UNCHANGED <<head, dropped>>
      BY <2>2, <1>0, BufferAssumption DEF Enqueue
    <3>3. ring' \in [0 .. (BufferLines - 1) -> Nat] /\ count' \in 0 .. BufferLines
      BY <3>1, <3>2, <2>2, <1>0, BufferAssumption DEF ClientTypeOK
    <3> QED BY <2>1, <2>4, <3>2, <3>3, <1>0 DEF Enqueue, ClientTypeOK
  <2>3. CASE count = BufferLines
    <3>1. Slot(1) \in 0 .. (BufferLines - 1)
      BY SlotInRing, BufferAssumption
    <3>2. Slot(0) = head
      BY SlotWraps, BufferAssumption DEF ClientTypeOK
    <3>3. ring[head] \in Buffered
      BY <3>2, <2>3, BufferAssumption DEF Buffered, Positions
    <3>4. ring[head] \in 1 .. nextSeq
      BY <3>3, <1>0 DEF Ranges
    <3>5. /\ ring' = [ring EXCEPT ![head] = nextSeq + 1] /\ head' = Slot(1)
          /\ dropped' = dropped \cup {ring[head]} /\ UNCHANGED count
      BY <2>3, <1>0, BufferAssumption DEF Enqueue
    <3>6. ring' \in [0 .. (BufferLines - 1) -> Nat] /\ head' \in 0 .. (BufferLines - 1)
      BY <3>1, <3>5, <1>0 DEF ClientTypeOK
    <3>7. dropped' \subseteq 1 .. (nextSeq + 1)
      <4>1. dropped \subseteq 1 .. (nextSeq + 1)
        BY <1>0 DEF ClientTypeOK
      <4>2. ring[head] \in 1 .. (nextSeq + 1)
        BY <3>4, <1>0
      <4> QED BY <3>5, <4>1, <4>2
    <3> QED BY <2>1, <2>4, <3>5, <3>6, <3>7, <1>0 DEF Enqueue, ClientTypeOK
  <2>5. count < BufferLines \/ count = BufferLines
    BY BufferAssumption DEF ClientTypeOK
  <2> QED BY <2>2, <2>3, <2>5
<1>2. CASE Signal
  BY <1>2 DEF Signal, SignalWake, ClientTypeOK
<1>3. CASE Pump
  <2>1. CASE Snapshot
    <3>1. Buffered \subseteq 1 .. nextSeq
      BY <1>0 DEF Ranges
    <3>2. pending' \subseteq Buffered
      BY <2>1 DEF Snapshot
    <3>3. CASE UNCHANGED sentUpTo /\ pending' = {}
      BY <2>1, <3>3 DEF Snapshot, ClientTypeOK
    <3>4. CASE \E newest \in pending' :
                 (\A s \in pending' : s <= newest) /\ sentUpTo' = newest
      <4>1. sentUpTo' \in 1 .. nextSeq /\ \A s \in pending' : s <= sentUpTo'
        BY <3>4, <3>1, <3>2
      <4>2. ASSUME NEW s \in pending' PROVE s \in 1 .. sentUpTo'
        <5>1. s \in 1 .. nextSeq /\ s <= sentUpTo'
          BY <4>1, <3>1, <3>2
        <5> QED BY <5>1, <4>1, <1>0
      <4>3. pending' \subseteq 1 .. sentUpTo' /\ sentUpTo' \in 0 .. nextSeq
        BY <4>1, <4>2, <1>0
      <4> QED BY <2>1, <4>3 DEF Snapshot, ClientTypeOK
    <3>5. \/ UNCHANGED sentUpTo /\ pending' = {}
          \/ \E newest \in pending' :
               (\A s \in pending' : s <= newest) /\ sentUpTo' = newest
      BY <2>1 DEF Snapshot
    <3> QED BY <3>3, <3>4, <3>5
  <2>2. CASE WriteLine
    BY <2>2 DEF WriteLine, Ranges, ClientTypeOK
  <2>3. CASE BeginWait
    BY <2>3 DEF BeginWait, ClientTypeOK
  <2>4. CASE WakeUp
    BY <2>4 DEF WakeUp, ClientTypeOK
  <2>5. CASE StreamEnded
    BY <2>5 DEF StreamEnded, ClientTypeOK
  <2> QED BY <1>3, <2>1, <2>2, <2>3, <2>4, <2>5 DEF Pump
<1>4. ASSUME NEW c \in Conns, Reader(c) PROVE ClientTypeOK' /\ WireTypeOK'
  <2>1. CASE ReceiveAck(c)
    <3>1. PICK k \in 0 .. count :
            /\ ring' = [x \in DOMAIN ring |->
                         IF \E i \in 0 .. (k - 1) : x = Slot(i) THEN 0 ELSE ring[x]]
            /\ head' = Slot(k)
            /\ count' = count - k
      BY <2>1 DEF ReceiveAck, TrimAcked
    <3>2. Slot(k) \in 0 .. (BufferLines - 1) /\ count - k \in 0 .. BufferLines
      BY <3>1, <1>0, SlotInRing, BufferAssumption DEF ClientTypeOK
    <3>3. UNCHANGED <<nextSeq, dropped, enq, wake, pumpVars, reader, up, broken, line>>
      BY <2>1 DEF ReceiveAck, TrimAcked
    <3>4. down' \in [Conns -> Seq(Nat)]
      BY <2>1 DEF ReceiveAck
    <3>5. ring' \in [0 .. (BufferLines - 1) -> Nat]
      BY <3>1 DEF ClientTypeOK
    <3> QED BY <3>1, <3>2, <3>3, <3>4, <3>5 DEF ClientTypeOK
  <2>2. CASE ReaderEnds(c)
    BY <2>2 DEF ReaderEnds, ClientTypeOK
  <2> QED BY <1>4, <2>1, <2>2 DEF Reader
<1> QED BY <1>1, <1>2, <1>3, <1>4 DEF ClientStep

(* Steps of server, network and process keep every variable well typed.    *)
LEMMA ServerTypes ==
  ASSUME TypeOK, HandlerStep \/ TickerStep \/ FailureStep \/ ProcessStep
  PROVE  TypeOK'
<1> USE DEF Holding, Registering, processVars, registryVars, historyVars, wireVars,
            serverVars, clientSide
<1>1. UNCHANGED <<clientVars, line>>
  BY ServerFrame
<1>2. ClientTypeOK'
  BY <1>1 DEF clientVars, TypeOK, ClientTypeOK
<1>3. CASE HandlerStep
  <2> PICK c \in Conns : Handler(c)
    BY <1>3 DEF HandlerStep
  <2>0. failures' \in Nat /\ exits' \in Nat
    BY DEF Handler, TypeOK
  <2>1. WireTypeOK'
    <3> USE DEF TypeOK, WireTypeOK
    <3>1. CASE ScanLine(c)
      BY <3>1 DEF ScanLine
    <3>2. CASE Return(c)
      BY <3>2 DEF Return, BreakWire
    <3>3. CASE UNCHANGED <<wireVars, line>>
      BY <3>3
    <3> QED
      BY <3>1, <3>2, <3>3 DEF Handler, ScanTooLong, ScanEnds, PublishRefused, CheckCap,
        Register, CountSource, Publish, StoreSeq
  <2>2. up[c] # <<>> => Head(up[c]) \in Nat
    BY DEF TypeOK, WireTypeOK
  <2>3. ServerTypeOK'
    <3> USE DEF TypeOK, ServerTypeOK
    <3>1. CASE ScanLine(c)
      BY <3>1, <2>2 DEF ScanLine
    <3>2. CASE Return(c)
      BY <3>2 DEF Return
    <3>3. CASE CheckCap(c)
      <4>1. ignored' \subseteq Nat /\ cur' \in [Conns -> Nat]
            /\ handler' \in [Conns -> {"none", "scan"} \cup Holding]
        <5>1. CASE /\ handler' = [handler EXCEPT ![c] = "scan"]
                   /\ ignored' = ignored \cup {cur[c]}
                   /\ cur' = [cur EXCEPT ![c] = 0]
          BY <5>1
        <5>2. CASE /\ handler' = [handler EXCEPT ![c] = "register"]
                   /\ UNCHANGED <<ignored, cur>>
          BY <5>2
        <5> QED BY <3>3, <5>1, <5>2 DEF CheckCap
      <4> QED BY <3>3, <4>1 DEF CheckCap
    <3>4. CASE Register(c)
      BY <3>4 DEF Register
    <3>5. CASE CountSource(c)
      BY <3>5 DEF CountSource
    <3>6. CASE Publish(c)
      BY <3>6 DEF Publish
    <3>7. CASE StoreSeq(c)
      BY <3>7 DEF StoreSeq
    <3> QED
      BY <3>1, <3>2, <3>3, <3>4, <3>5, <3>6, <3>7 DEF Handler, ScanTooLong, ScanEnds,
        PublishRefused
  <2> QED BY <2>0, <2>1, <2>3, <1>2 DEF TypeOK
<1>4. CASE TickerStep
  <2>1. UNCHANGED <<serverVars, failures, exits, line, up, broken>>
    BY <1>4, <1>1 DEF TickerStep, Ticker, SendAck
  <2>2. down' \in [Conns -> Seq(Nat)]
    BY <1>4 DEF TickerStep, Ticker, SendAck, TypeOK, WireTypeOK, ServerTypeOK
  <2> QED BY <2>1, <2>2, <1>2 DEF TypeOK, ServerTypeOK, WireTypeOK
<1>5. CASE FailureStep
  <2>1. UNCHANGED <<serverVars, exits, line, up, down>> /\ failures' = failures + 1
        /\ broken' \in [Conns -> BOOLEAN]
    BY <1>5, <1>1 DEF FailureStep, NetworkFails, BreakWire, TypeOK, WireTypeOK
  <2> QED BY <2>1, <1>2 DEF TypeOK, ServerTypeOK, WireTypeOK
<1>6. CASE ProcessStep
  <2> USE DEF TypeOK, ServerTypeOK, WireTypeOK
  <2>1. CASE ServerShutsDown
    BY <2>1, <1>1, <1>2 DEF ServerShutsDown, Shutdown
  <2>2. CASE ServerExits
    <3>1. WireTypeOK' /\ failures' \in Nat /\ exits' \in Nat
      BY <2>2, <1>1 DEF ServerExits, Exit
    <3>2. ServerTypeOK'
      BY <2>2 DEF ServerExits, Exit
    <3> QED BY <3>1, <3>2, <1>2
  <2>3. CASE ServerRestarts
    BY <2>3, <1>1, <1>2 DEF ServerRestarts, Restart
  <2> QED BY <1>6, <2>1, <2>2, <2>3 DEF ProcessStep
<1> QED BY <1>3, <1>4, <1>5, <1>6

(* So does the opening of a connection.                                    *)
LEMMA ConnectTypes ==
  ASSUME TypeOK, ConnectStep
  PROVE  TypeOK'
<1> PICK c \in Conns : Connect(c)
  BY DEF ConnectStep
<1>1. ClientTypeOK'
  BY DEF Connect, Dial, TypeOK, ClientTypeOK, ringVars
<1>2. ServerTypeOK'
  BY DEF Connect, StartHandler, TypeOK, ServerTypeOK, Holding, Registering, processVars,
    registryVars, historyVars
<1>3. WireTypeOK'
  BY DEF Connect, OpenWire, TypeOK, WireTypeOK
<1> QED BY <1>1, <1>2, <1>3 DEF Connect, TypeOK

(* Every step keeps TypeOK.                                                *)
LEMMA TypesKept ==
  ASSUME TypeOK, RingIsWindow, Ranges, [Next]_vars
  PROVE  TypeOK'
<1>1. CASE ClientStep
  <2>1. ClientTypeOK' /\ WireTypeOK'
    BY <1>1, ClientTypes DEF TypeOK
  <2>2. UNCHANGED <<serverVars, failures, exits>>
    BY <1>1, ClientFrame
  <2> QED BY <2>1, <2>2 DEF TypeOK, ServerTypeOK, serverVars
<1>2. CASE UNCHANGED vars
  BY <1>2 DEF vars, clientVars, serverVars, wireVars, TypeOK, ServerTypeOK, WireTypeOK,
    ClientTypeOK
<1> QED BY NextCases, <1>1, <1>2, ServerTypes, ConnectTypes

-----------------------------------------------------------------------------
(* The ring.                                                               *)

(* Moving head on by k moves every slot by k.                              *)
LEMMA SlotShifts ==
  ASSUME ClientTypeOK, NEW k \in 0 .. BufferLines, NEW i \in 0 .. BufferLines,
         k + i <= BufferLines, head' = Slot(k)
  PROVE  Slot(i)' = Slot(k + i)
BY ModShift, BufferAssumption DEF Slot, ClientTypeOK

(* Overwrites and trims keep the ring a window, and never move it back.    *)
LEMMA RingKept ==
  ASSUME TypeOK, RingIsWindow, count <= nextSeq, [Next]_vars
  PROVE  RingIsWindow' /\ (count <= nextSeq)' /\ nextSeq - count <= nextSeq' - count'
<1>0. count \in 0 .. BufferLines /\ nextSeq \in Nat /\ BufferLines \in Nat \ {0}
      /\ DOMAIN ring = 0 .. (BufferLines - 1) /\ ClientTypeOK
  BY BufferAssumption DEF TypeOK, ClientTypeOK
<1>1. CASE Accept
  <2> PICK l \in Lines : Enqueue(l)
    BY <1>1 DEF Accept
  <2>1. nextSeq' = nextSeq + 1
    BY DEF Enqueue
  <2>2. CASE count < BufferLines
    <3>1. ring' = [ring EXCEPT ![Slot(count)] = nextSeq + 1] /\ count' = count + 1
          /\ head' = head
      BY <2>2, <1>0 DEF Enqueue
    <3>2. Slot(count) \in DOMAIN ring
      BY <1>0, SlotInRing
    <3>3. ASSUME NEW i \in 0 .. count
          PROVE  ring'[Slot(i)'] = (nextSeq' - count') + 1 + i
      <4>1. Slot(i)' = Slot(i)
        BY <3>1 DEF Slot
      <4>2. CASE i = count
        BY <4>1, <4>2, <3>1, <3>2, <2>1, <1>0
      <4>3. CASE i < count
        <5>1. Slot(i) # Slot(count) /\ Slot(i) \in DOMAIN ring
          BY <4>3, <2>2, <1>0, SlotsDiffer, SlotInRing
        <5>2. i \in Positions
          BY <4>3, <1>0 DEF Positions
        <5>3. ring[Slot(i)] = (nextSeq - count) + 1 + i
          BY <5>2 DEF RingIsWindow
        <5> QED BY <5>1, <5>3, <4>1, <3>1, <2>1, <1>0
      <4> QED BY <4>2, <4>3, <1>0
    <3>4. Positions' = 0 .. count
      BY <3>1, <1>0 DEF Positions
    <3> QED BY <3>3, <3>4, <3>1, <2>1, <1>0 DEF RingIsWindow
  <2>3. CASE count = BufferLines
    <3>1. ring' = [ring EXCEPT ![head] = nextSeq + 1] /\ count' = count
          /\ head' = Slot(1)
      BY <2>3, <1>0 DEF Enqueue
    <3>2. Slot(0) = head /\ Slot(BufferLines) = head
      BY <1>0, SlotWraps DEF ClientTypeOK
    <3>3. ASSUME NEW i \in 0 .. (count - 1)
          PROVE  ring'[Slot(i)'] = (nextSeq' - count') + 1 + i
      <4>1. Slot(i)' = Slot(1 + i)
        BY <3>1, <2>3, <1>0, SlotShifts
      <4>2. CASE i = count - 1
        BY <4>1, <4>2, <3>1, <3>2, <2>1, <2>3, <1>0 DEF ClientTypeOK
      <4>3. CASE i < count - 1
        <5>1. 1 + i \in 0 .. (BufferLines - 1) /\ 1 + i \in 0 .. BufferLines /\ 1 + i # 0
          BY <4>3, <2>3, <1>0
        <5>2. Slot(1 + i) # head /\ Slot(1 + i) \in DOMAIN ring
          BY <5>1, <3>2, <1>0, SlotsDiffer, SlotInRing
        <5>3. ring[Slot(1 + i)] = (nextSeq - count) + 1 + (1 + i)
          BY <5>1, <2>3 DEF RingIsWindow, Positions
        <5> QED BY <5>2, <5>3, <4>1, <3>1, <2>1, <1>0
      <4> QED BY <4>2, <4>3, <1>0
    <3> QED BY <3>3, <3>1, <2>1, <1>0 DEF RingIsWindow, Positions
  <2> QED BY <2>2, <2>3, <1>0
<1>2. ASSUME NEW c \in Conns, ReceiveAck(c)
      PROVE  RingIsWindow' /\ (count <= nextSeq)' /\ nextSeq - count <= nextSeq' - count'
  <2>1. PICK k \in 0 .. count :
          /\ ring' = [x \in DOMAIN ring |->
                       IF \E i \in 0 .. (k - 1) : x = Slot(i) THEN 0 ELSE ring[x]]
          /\ head' = Slot(k)
          /\ count' = count - k
          /\ nextSeq' = nextSeq
    BY <1>2 DEF ReceiveAck, TrimAcked
  <2>2. ASSUME NEW i \in 0 .. (count' - 1)
        PROVE  ring'[Slot(i)'] = (nextSeq' - count') + 1 + i
    <3>1. /\ i \in 0 .. BufferLines /\ k \in 0 .. BufferLines
          /\ k + i \in 0 .. (BufferLines - 1) /\ k + i \in 0 .. (count - 1)
      BY <2>1, <2>2, <1>0
    <3>2. Slot(i)' = Slot(k + i)
      BY <3>1, <2>1, <1>0, SlotShifts
    <3>3. Slot(k + i) \in DOMAIN ring
      <4>1. k + i \in 0 .. BufferLines
        BY <3>1, <1>0
      <4> QED BY <4>1, <1>0, SlotInRing
    <3>4. \A j \in 0 .. (k - 1) : Slot(k + i) # Slot(j)
      <4> TAKE j \in 0 .. (k - 1)
      <4>1. j \in 0 .. (BufferLines - 1) /\ j # k + i
        BY <2>1, <3>1, <1>0
      <4> QED BY <4>1, <3>1, <1>0, SlotsDiffer
    <3>5. ring'[Slot(k + i)] = ring[Slot(k + i)]
      BY <2>1, <3>3, <3>4
    <3>6. ring[Slot(k + i)] = (nextSeq - count) + 1 + (k + i)
      BY <3>1 DEF RingIsWindow, Positions
    <3> QED BY <3>1, <3>2, <3>5, <3>6, <2>1, <1>0
  <2>3. RingIsWindow'
    BY <2>2 DEF RingIsWindow, Positions
  <2> QED BY <2>1, <2>3, <1>0
<1>3. CASE UNCHANGED ringVars
  BY <1>3, <1>0 DEF ringVars, RingIsWindow, Positions, Slot
<1>4. \/ Accept \/ (\E c \in Conns : ReceiveAck(c)) \/ UNCHANGED ringVars
  <2>1. CASE ClientStep
    BY <2>1 DEF ClientStep, Signal, SignalWake, Pump, Snapshot, WriteLine, BeginWait,
      WakeUp, StreamEnded, Reader, ReaderEnds
  <2>2. CASE ConnectStep
    BY <2>2 DEF ConnectStep, Connect, Dial
  <2>3. CASE UNCHANGED vars
    BY <2>3 DEF vars, clientVars, ringVars
  <2>4. CASE HandlerStep \/ TickerStep \/ FailureStep \/ ProcessStep
    BY <2>4, ServerFrame DEF clientVars, ringVars
  <2> QED BY NextCases, <2>1, <2>2, <2>3, <2>4
<1> QED BY <1>1, <1>2, <1>3, <1>4

-----------------------------------------------------------------------------
(* Where lines are.                                                        *)

(* On a handler's connection, hand, wire and highestSeq change together.   *)
LEMMA HandlerMoves ==
  ASSUME TypeOK, NEW c \in Conns, Handler(c)
  PROVE  /\ \A d \in Conns \ {c} :
              /\ handler'[d] = handler[d] /\ cur'[d] = cur[d]
              /\ highest'[d] = highest[d] /\ up'[d] = up[d]
              /\ broken'[d] = broken[d]
         /\ UNCHANGED <<down, line, clientVars>>
BY DEF Handler, ScanLine, ScanTooLong, ScanEnds, PublishRefused, Return, BreakWire,
  CheckCap, Register, CountSource, Publish, StoreSeq, clientSide, TypeOK, WireTypeOK,
  ServerTypeOK, wireVars

(* What a step of a handler does to its line, its wire and highestSeq.     *)
LEMMA HandlerCases ==
  ASSUME TypeOK, NEW c \in Conns, Handler(c)
  PROVE  \/ (* a line is taken off the wire *)
            /\ handler[c] = "scan" /\ up[c] # <<>>
            /\ cur'[c] = Head(up[c]) /\ up'[c] = Tail(up[c])
            /\ handler'[c] \in {"publish", "register", "cap"}
            /\ highest'[c] = highest[c] /\ broken'[c] = broken[c]
            /\ UNCHANGED <<published, ignored>>
         \/ (* the handler returns *)
            /\ handler'[c] = "none" /\ cur'[c] = 0 /\ highest'[c] = 0
            /\ up'[c] = <<>> /\ broken'[c] = TRUE
            /\ UNCHANGED <<published, ignored>>
         \/ (* a line is skipped *)
            /\ handler[c] = "cap" /\ handler'[c] = "scan"
            /\ ignored' = ignored \cup {cur[c]} /\ UNCHANGED published
            /\ highest'[c] = highest[c] /\ UNCHANGED <<up, broken>>
         \/ (* its source is settled *)
            /\ handler[c] \in Registering
            /\ handler'[c] \in {"register", "bump", "publish"}
            /\ UNCHANGED <<published, ignored, cur, highest, up, broken>>
         \/ (* it is published *)
            /\ handler[c] = "publish" /\ handler'[c] = "store"
            /\ published' = published \cup {cur[c]} /\ UNCHANGED ignored
            /\ UNCHANGED <<cur, highest, up, broken>>
         \/ (* its Seq is stored *)
            /\ handler[c] = "store" /\ handler'[c] = "scan"
            /\ highest'[c] = (IF cur[c] > highest[c] THEN cur[c] ELSE highest[c])
            /\ UNCHANGED <<published, ignored, up, broken>>
<1> USE DEF TypeOK, WireTypeOK, ServerTypeOK, Registering, historyVars, wireVars
<1>1. CASE ScanLine(c)
  BY <1>1 DEF ScanLine
<1>2. CASE Return(c)
  BY <1>2 DEF Return, BreakWire
<1>3. CASE CheckCap(c)
  <2>1. CASE /\ handler' = [handler EXCEPT ![c] = "scan"]
             /\ ignored' = ignored \cup {cur[c]}
    BY <1>3, <2>1 DEF CheckCap
  <2>2. CASE /\ handler' = [handler EXCEPT ![c] = "register"]
             /\ UNCHANGED <<ignored, cur>>
    BY <1>3, <2>2 DEF CheckCap
  <2> QED BY <1>3, <2>1, <2>2 DEF CheckCap
<1>4. CASE Register(c) \/ CountSource(c)
  BY <1>4 DEF Register, CountSource
<1>5. CASE Publish(c)
  BY <1>5 DEF Publish
<1>6. CASE StoreSeq(c)
  BY <1>6 DEF StoreSeq
<1> QED
  BY <1>1, <1>2, <1>3, <1>4, <1>5, <1>6 DEF Handler, ScanTooLong, ScanEnds, PublishRefused

(* What each step does to the wires.                                       *)
LEMMA ClientWires ==
  ASSUME TypeOK, Ranges, ClientStep
  PROVE  \/ UNCHANGED up
         \/ /\ conn \in Conns /\ ~broken[conn]
            /\ UNCHANGED <<conn, sentUpTo, down>>
            /\ \E s \in pending :
                 /\ \A t \in pending : s <= t
                 /\ up'[conn] = Append(up[conn], s)
                 /\ \A d \in Conns \ {conn} : up'[d] = up[d]
                 /\ pending' = pending \ {s}
<1>1. CASE WriteLine
  BY <1>1 DEF WriteLine, TypeOK, WireTypeOK, Ranges
<1>2. CASE ~WriteLine
  BY <1>2 DEF ClientStep, Accept, Enqueue, Signal, SignalWake, Pump, Snapshot, BeginWait,
    WakeUp, StreamEnded, Reader, ReceiveAck, ReaderEnds, wireVars
<1> QED BY <1>1, <1>2

(* A process step leaves all connections alone, or ends them all.          *)
LEMMA ServerEnds ==
  ASSUME TypeOK, ProcessStep
  PROVE  \/ UNCHANGED <<handler, cur, highest, up, down, broken, published, ignored>>
         \/ /\ \A d \in Conns : /\ handler'[d] = "none" /\ cur'[d] = 0
                                  /\ highest'[d] = 0 /\ up'[d] = <<>> /\ broken'[d]
            /\ UNCHANGED <<down, published, ignored>>
BY DEF ProcessStep, ServerShutsDown, ServerExits, ServerRestarts, Shutdown, Exit, Restart,
  historyVars, wireVars

(* A new connection starts empty; the others keep what they have.          *)
LEMMA ConnectWires ==
  ASSUME TypeOK, Ranges, NEW c \in Conns, Connect(c)
  PROVE  /\ \A d \in Conns \ {c} :
              /\ handler'[d] = handler[d] /\ up'[d] = up[d] /\ down'[d] = down[d]
              /\ broken'[d] = broken[d]
         /\ handler[c] = "none" /\ handler'[c] = "scan"
         /\ up'[c] = <<>> /\ down'[c] = <<>>
         /\ conn' = c /\ sentUpTo' = 0 /\ pending' = {} /\ pump' = "snapshot"
         /\ UNCHANGED <<cur, highest, published, ignored, ringVars, line>>
         /\ highest[c] = 0
BY DEF Connect, Dial, StartHandler, OpenWire, TypeOK, WireTypeOK, ServerTypeOK, Ranges,
  processVars, registryVars, historyVars

(* The ticker appends highestSeq to the acks of its connection.            *)
LEMMA TickerWires ==
  ASSUME TypeOK, NEW c \in Conns, Ticker(c)
  PROVE  /\ down'[c] = Append(down[c], highest[c])
         /\ \A d \in Conns \ {c} : down'[d] = down[d]
         /\ UNCHANGED <<up, broken, serverVars>>
BY DEF Ticker, SendAck, TypeOK, WireTypeOK

(* A queue with an element appended, index by index.                       *)
LEMMA AppendedWire ==
  ASSUME NEW q \in Seq(Nat), NEW n \in Nat, NEW r, r = Append(q, n)
  PROVE  /\ Len(r) = Len(q) + 1 /\ r[Len(q) + 1] = n
         /\ \A i \in 1 .. Len(q) : r[i] = q[i]
OBVIOUS

(* A queue without its head, index by index.                               *)
LEMMA ShortenedWire ==
  ASSUME NEW q \in Seq(Nat), q # <<>>, NEW r, r = Tail(q)
  PROVE  /\ Len(q) >= 1 /\ Len(r) = Len(q) - 1 /\ Head(q) = q[1] /\ Head(q) \in Nat
         /\ r \in Seq(Nat) /\ \A i \in 1 .. Len(r) : r[i] = q[i + 1]
OBVIOUS

-----------------------------------------------------------------------------
(* The inductive step, one conjunct at a time.                             *)

(* Whatever is in hand or on a wire was accepted by the client.            *)
LEMMA PlacesKept ==
  ASSUME TypeOK, RingIsWindow, Ranges, [Next]_vars
  PROVE  \A d \in Conns : InHand(d)' \cup OnWire(d)' \subseteq 1 .. nextSeq'
<1>0. /\ up \in [Conns -> Seq(Nat)] /\ handler \in [Conns -> {"none", "scan"} \cup Holding]
      /\ nextSeq \in Nat /\ sentUpTo \in 0 .. nextSeq /\ pending \subseteq 1 .. sentUpTo
  BY DEF TypeOK, WireTypeOK, ServerTypeOK, ClientTypeOK
<1>1. CASE ClientStep
  <2>1. nextSeq' \in {nextSeq, nextSeq + 1}
    BY <1>1 DEF ClientStep, Accept, Enqueue, Signal, SignalWake, Pump, Snapshot, WriteLine,
      BeginWait, WakeUp, StreamEnded, Reader, ReceiveAck, TrimAcked, ReaderEnds, ringVars
  <2>2. \A d \in Conns : InHand(d)' = InHand(d)
    BY <1>1, ClientFrame DEF InHand, serverVars
  <2>3. \A d \in Conns : OnWire(d)' \subseteq OnWire(d) \cup pending
    <3>1. CASE UNCHANGED up
      BY <3>1 DEF OnWire
    <3>2. CASE conn \in Conns /\ \E s \in pending :
                 /\ up'[conn] = Append(up[conn], s)
                 /\ \A d \in Conns \ {conn} : up'[d] = up[d]
      <4> PICK s \in pending : /\ up'[conn] = Append(up[conn], s)
                               /\ \A d \in Conns \ {conn} : up'[d] = up[d]
        BY <3>2
      <4>1. ASSUME NEW d \in Conns, d = conn, NEW i \in 1 .. Len(up'[d])
            PROVE  up'[d][i] \in OnWire(d) \cup pending
        <5>1. /\ Len(up'[d]) = Len(up[d]) + 1 /\ up'[d][Len(up[d]) + 1] = s
              /\ \A j \in 1 .. Len(up[d]) : up'[d][j] = up[d][j]
          <6>1. up[d] \in Seq(Nat) /\ s \in Nat /\ up'[d] = Append(up[d], s)
            BY <4>1, <1>0
          <6> QED BY <6>1, AppendedWire
        <5>2. Len(up[d]) \in Nat
          BY <1>0
        <5>3. i = Len(up[d]) + 1 \/ i \in 1 .. Len(up[d])
          BY <4>1, <5>1, <5>2
        <5> QED BY <5>1, <5>3 DEF OnWire
      <4>2. ASSUME NEW d \in Conns, d # conn
            PROVE  OnWire(d)' = OnWire(d)
        BY <4>2 DEF OnWire
      <4> QED BY <4>1, <4>2 DEF OnWire
    <3> QED BY <3>1, <3>2, <1>1, ClientWires
  <2>4. 1 .. nextSeq \subseteq 1 .. nextSeq' /\ pending \subseteq 1 .. nextSeq
    BY <2>1, <1>0
  <2> QED BY <2>2, <2>3, <2>4 DEF Ranges
<1>2. CASE HandlerStep
  <2> PICK c \in Conns : Handler(c)
    BY <1>2 DEF HandlerStep
  <2>1. nextSeq' = nextSeq
    BY HandlerMoves DEF clientVars
  <2>2. \A d \in Conns \ {c} : InHand(d)' = InHand(d) /\ OnWire(d)' = OnWire(d)
    <3>1. \A d \in Conns \ {c} :
            handler'[d] = handler[d] /\ cur'[d] = cur[d] /\ up'[d] = up[d]
      BY HandlerMoves
    <3> QED BY <3>1 DEF InHand, OnWire
  <2>3. InHand(c)' \cup OnWire(c)' \subseteq InHand(c) \cup OnWire(c)
    <3>1. CASE /\ handler[c] = "scan" /\ up[c] # <<>>
               /\ cur'[c] = Head(up[c]) /\ up'[c] = Tail(up[c])
      <4>1. OnWire(c)' \subseteq OnWire(c) /\ Head(up[c]) \in OnWire(c)
        BY <3>1, <1>0, ShortenedWire DEF OnWire
      <4> QED BY <3>1, <4>1 DEF InHand
    <3>2. CASE handler'[c] = "none" /\ up'[c] = <<>>
      BY <3>2 DEF InHand, OnWire, Holding, Registering
    <3>3. CASE handler'[c] = "scan" /\ UNCHANGED up
      BY <3>3 DEF InHand, OnWire, Holding, Registering
    <3>4. CASE handler[c] \in Holding /\ UNCHANGED <<cur, up>>
      BY <3>4 DEF InHand, OnWire
    <3> QED BY <3>1, <3>2, <3>3, <3>4, HandlerCases DEF Holding
  <2> QED BY <2>1, <2>2, <2>3 DEF Ranges
<1>3. CASE TickerStep \/ FailureStep
  BY <1>3, ServerFrame DEF TickerStep, Ticker, SendAck, FailureStep, NetworkFails, BreakWire,
    InHand, OnWire, serverVars, clientVars, Ranges
<1>4. CASE ConnectStep
  <2> PICK c \in Conns : Connect(c)
    BY <1>4 DEF ConnectStep
  <2>1. \A d \in Conns : InHand(d)' \subseteq InHand(d) /\ OnWire(d)' \subseteq OnWire(d)
    BY ConnectWires DEF InHand, OnWire, Holding, Registering
  <2> QED BY <2>1, ConnectWires DEF Ranges, ringVars
<1>5. CASE ProcessStep
  <2>1. \A d \in Conns : InHand(d)' \subseteq InHand(d) /\ OnWire(d)' \subseteq OnWire(d)
    BY <1>5, ServerEnds DEF InHand, OnWire, Holding, Registering
  <2> QED BY <2>1, <1>5, ServerFrame DEF Ranges, clientVars
<1>6. CASE UNCHANGED vars
  BY <1>6 DEF vars, clientVars, serverVars, wireVars, Ranges, InHand, OnWire
<1> QED BY NextCases, <1>1, <1>2, <1>3, <1>4, <1>5, <1>6

(* The ranges of Ranges are kept.                                          *)
LEMMA RangesKept ==
  ASSUME TypeOK, RingIsWindow, Ranges, [Next]_vars
  PROVE  Ranges'
<1>1. (count <= nextSeq)'
  BY RingKept DEF Ranges
<1>2. \A d \in Conns : (handler[d] = "none" => highest[d] = 0)'
  <2>1. CASE ClientStep \/ TickerStep \/ FailureStep
    BY <2>1, ClientFrame DEF TickerStep, Ticker, SendAck, FailureStep, NetworkFails, serverVars,
      Ranges
  <2>2. CASE HandlerStep
    <3> PICK c \in Conns : Handler(c)
      BY <2>2 DEF HandlerStep
    <3>1. handler'[c] = "none" => highest'[c] = 0
      BY HandlerCases
    <3> QED BY <3>1, HandlerMoves DEF Ranges
  <2>3. CASE ConnectStep
    BY <2>3, ConnectWires DEF ConnectStep, Ranges
  <2>4. CASE ProcessStep
    BY <2>4, ServerEnds DEF Ranges
  <2>5. CASE UNCHANGED vars
    BY <2>5 DEF vars, serverVars, Ranges
  <2> QED BY NextCases, <2>1, <2>2, <2>3, <2>4, <2>5
<1>3. /\ (pump = "dial" => conn = NoConn /\ sentUpTo = 0)'
      /\ (pump # "write" => pending = {})'
      /\ (pump # "dial" => conn \in Conns)'
  <2>1. CASE ClientStep
    BY <2>1 DEF ClientStep, Accept, Enqueue, Signal, SignalWake, Pump, Snapshot, WriteLine,
      BeginWait, WakeUp, StreamEnded, Reader, ReceiveAck, ReaderEnds, pumpVars, Ranges
  <2>2. CASE HandlerStep \/ TickerStep \/ FailureStep \/ ProcessStep
    BY <2>2, ServerFrame DEF clientVars, Ranges
  <2>3. CASE ConnectStep
    BY <2>3, ConnectWires DEF ConnectStep
  <2>4. CASE UNCHANGED vars
    BY <2>4 DEF vars, clientVars, Ranges
  <2> QED BY NextCases, <2>1, <2>2, <2>3, <2>4
<1> QED BY <1>1, <1>2, <1>3, PlacesKept DEF Ranges

(* Only settled lines leave the buffer.                                    *)
LEMMA ReleasedKept ==
  ASSUME Inductive, [Next]_vars
  PROVE  ReleasedSettled'
<1> USE DEF Inductive
<1>0. /\ nextSeq \in Nat /\ count \in 0 .. BufferLines /\ count <= nextSeq
      /\ BufferLines \in Nat \ {0} /\ ClientTypeOK
  BY BufferAssumption DEF TypeOK, ClientTypeOK, Ranges
<1>1. Settled \subseteq Settled'
  BY SettledGrows
<1>2. CASE Accept
  <2> PICK l \in Lines : Enqueue(l)
    BY <1>2 DEF Accept
  <2>1. CASE count < BufferLines
    BY <2>1, <1>0, <1>1 DEF Enqueue, ReleasedSettled
  <2>2. CASE count = BufferLines
    <3>1. nextSeq' = nextSeq + 1 /\ count' = count /\ dropped' = dropped \cup {ring[head]}
      BY <2>2, <1>0 DEF Enqueue
    <3>2. ring[head] = nextSeq - count + 1
      <4>1. Slot(0) = head /\ 0 \in Positions
        BY <2>2, <1>0, SlotWraps DEF ClientTypeOK, Positions
      <4> QED BY <4>1, <1>0 DEF RingIsWindow
    <3>3. 1 .. (nextSeq' - count') = (1 .. (nextSeq - count)) \cup {nextSeq - count + 1}
      BY <3>1, <1>0
    <3>4. ring[head] \in Settled'
      BY <3>1 DEF Settled
    <3> QED BY <3>2, <3>3, <3>4, <1>1 DEF ReleasedSettled
  <2> QED BY <2>1, <2>2, <1>0
<1>3. ASSUME NEW c \in Conns, ReceiveAck(c)
      PROVE  ReleasedSettled'
  <2> DEFINE ack == Head(down[c])
  <2>1. PICK k \in 0 .. count : /\ \A i \in 0 .. (k - 1) : ring[Slot(i)] <= ack
                               /\ count' = count - k /\ nextSeq' = nextSeq
    BY <1>3 DEF ReceiveAck, TrimAcked
  <2>2. 1 .. ack \subseteq Settled
    <3>1. down[c] \in Seq(Nat) /\ down[c] # <<>>
      BY <1>3 DEF ReceiveAck, TypeOK, WireTypeOK
    <3>2. ack = down[c][1] /\ 1 \in 1 .. Len(down[c])
      BY <3>1
    <3> QED BY <3>2 DEF AckClaimsOnlySettled
  <2>3. ASSUME NEW s \in 1 .. (nextSeq' - count') PROVE s \in Settled
    <3>1. CASE s <= nextSeq - count
      BY <3>1, <2>3, <1>0 DEF ReleasedSettled
    <3>2. CASE s > nextSeq - count
      <4> DEFINE i == s - (nextSeq - count) - 1
      <4>1. i \in 0 .. (k - 1) /\ i \in 0 .. (count - 1)
        BY <3>2, <2>1, <2>3, <1>0
      <4>2. ring[Slot(i)] = s
        BY <4>1, <1>0, <2>3, <2>1 DEF RingIsWindow, Positions
      <4>3. s <= ack
        BY <4>1, <4>2, <2>1
      <4>4. ack \in Nat
        BY <1>3 DEF ReceiveAck, TypeOK, WireTypeOK
      <4>5. s \in Nat /\ s >= 1
        BY <2>3, <2>1, <1>0
      <4> QED BY <4>3, <4>4, <4>5, <2>2
    <3> QED BY <3>1, <3>2, <2>3, <2>1, <1>0
  <2> QED BY <2>3, <1>1 DEF ReleasedSettled
<1>4. CASE UNCHANGED ringVars
  BY <1>4, <1>1 DEF ringVars, ReleasedSettled
<1>5. \/ Accept \/ (\E c \in Conns : ReceiveAck(c)) \/ UNCHANGED ringVars
  <2>1. CASE ClientStep
    BY <2>1 DEF ClientStep, Signal, SignalWake, Pump, Snapshot, WriteLine, BeginWait,
      WakeUp, StreamEnded, Reader, ReaderEnds
  <2>2. CASE ConnectStep
    BY <2>2 DEF ConnectStep, Connect, Dial
  <2>3. CASE UNCHANGED vars
    BY <2>3 DEF vars, clientVars, ringVars
  <2>4. CASE HandlerStep \/ TickerStep \/ FailureStep \/ ProcessStep
    BY <2>4, ServerFrame DEF clientVars, ringVars
  <2> QED BY NextCases, <2>1, <2>2, <2>3, <2>4
<1> QED BY <1>2, <1>3, <1>4, <1>5

(* A handler never has a line in hand whose elders are unsettled.          *)
LEMMA HandKept ==
  ASSUME Inductive, [Next]_vars
  PROVE  HandSettled'
<1> USE DEF Inductive
<1>1. Settled \subseteq Settled'
  BY SettledGrows
<1>2. CASE HandlerStep
  <2> PICK c \in Conns : Handler(c)
    BY <1>2 DEF HandlerStep
  <2>1. /\ up[c] \in Seq(Nat) /\ cur[c] \in Nat /\ highest[c] \in Nat
        /\ 1 .. highest[c] \subseteq Settled
        /\ handler[c] \in Holding => 1 .. (cur[c] - 1) \subseteq Settled
        /\ handler[c] = "store" => cur[c] \in Settled
    BY DEF TypeOK, WireTypeOK, ServerTypeOK, HandSettled
  <2>2. CASE /\ handler[c] = "scan" /\ up[c] # <<>>
             /\ cur'[c] = Head(up[c]) /\ handler'[c] \in {"publish", "register", "cap"}
             /\ highest'[c] = highest[c]
    <3>1. 1 \in 1 .. Len(up[c]) /\ cur'[c] = up[c][1]
      BY <2>1, <2>2
    <3>2. InHand(c) = {}
      BY <2>2 DEF InHand, Holding, Registering
    <3>3. 1 .. (cur'[c] - 1) \subseteq Settled
      BY <3>1, <3>2 DEF WireSettled
    <3> QED BY <3>3, <2>1, <2>2, <1>1, HandlerMoves DEF HandSettled
  <2>3. CASE handler'[c] = "none" /\ highest'[c] = 0
    BY <2>3, <1>1, HandlerMoves DEF HandSettled, Holding, Registering
  <2>4. CASE handler'[c] = "scan" /\ highest'[c] = highest[c]
    BY <2>4, <2>1, <1>1, HandlerMoves DEF HandSettled, Holding, Registering
  <2>5. CASE /\ handler[c] \in Registering /\ handler'[c] \in {"register", "bump", "publish"}
             /\ UNCHANGED <<cur, highest>>
    BY <2>5, <2>1, <1>1, HandlerMoves DEF HandSettled, Holding, Registering
  <2>6. CASE /\ handler[c] = "publish" /\ handler'[c] = "store"
             /\ published' = published \cup {cur[c]} /\ UNCHANGED <<cur, highest>>
    <3>1. cur'[c] \in Settled'
      BY <2>6 DEF Settled
    <3> QED BY <3>1, <2>6, <2>1, <1>1, HandlerMoves DEF HandSettled, Holding, Registering
  <2>7. CASE /\ handler[c] = "store" /\ handler'[c] = "scan"
             /\ highest'[c] = (IF cur[c] > highest[c] THEN cur[c] ELSE highest[c])
    <3>1. 1 .. cur[c] \subseteq Settled
      BY <2>7, <2>1 DEF Holding
    <3>2. 1 .. highest'[c] \subseteq Settled
      BY <3>1, <2>7, <2>1
    <3> QED BY <3>2, <2>7, <1>1, HandlerMoves DEF HandSettled, Holding, Registering
  <2> QED BY <2>2, <2>3, <2>4, <2>5, <2>6, <2>7, HandlerCases
<1>3. CASE ProcessStep
  BY <1>3, <1>1, ServerEnds DEF HandSettled, Holding, Registering
<1>4. CASE ConnectStep
  BY <1>4, <1>1, ConnectWires DEF ConnectStep, HandSettled, Holding, Registering
<1>5. CASE UNCHANGED <<handler, cur, highest>>
  BY <1>5, <1>1 DEF HandSettled
<1>6. ClientStep \/ TickerStep \/ FailureStep \/ UNCHANGED vars => UNCHANGED <<handler, cur, highest>>
  BY ClientFrame DEF TickerStep, Ticker, SendAck, FailureStep, NetworkFails, serverVars, vars
<1> QED BY NextCases, <1>2, <1>3, <1>4, <1>5, <1>6

(* What a connection still owes is settled by its handler's step, or stays *)
(* in hand or on the wire, unless the connection breaks.                   *)
LEMMA NothingSlips ==
  ASSUME Inductive, NEW c \in Conns, Handler(c)
  PROVE  \/ broken'[c]
         \/ InHand(c) \cup OnWire(c) \subseteq Settled' \cup InHand(c)' \cup OnWire(c)'
<1> USE DEF Inductive
<1>1. up[c] \in Seq(Nat) /\ TypeOK
  BY DEF TypeOK, WireTypeOK
<1>2. CASE /\ handler[c] = "scan" /\ up[c] # <<>>
           /\ cur'[c] = Head(up[c]) /\ up'[c] = Tail(up[c])
           /\ handler'[c] \in {"publish", "register", "cap"}
  <2>1. InHand(c) = {} /\ InHand(c)' = {Head(up[c])}
    BY <1>2 DEF InHand, Holding, Registering
  <2>2. ASSUME NEW i \in 1 .. Len(up[c])
        PROVE  up[c][i] \in InHand(c)' \cup OnWire(c)'
    <3>1. /\ Len(up'[c]) = Len(up[c]) - 1 /\ Head(up[c]) = up[c][1]
          /\ \A j \in 1 .. Len(up'[c]) : up'[c][j] = up[c][j + 1]
      BY <1>1, <1>2, ShortenedWire
    <3>2. CASE i = 1
      BY <3>1, <3>2, <2>1
    <3>3. CASE i # 1
      <4>1. i - 1 \in 1 .. Len(up'[c]) /\ up'[c][i - 1] = up[c][i]
        BY <3>1, <3>3, <1>1
      <4> QED BY <4>1 DEF OnWire
    <3> QED BY <3>2, <3>3
  <2> QED BY <2>1, <2>2 DEF OnWire
<1>3. CASE handler[c] = "cap" /\ ignored' = ignored \cup {cur[c]} /\ UNCHANGED up
  BY <1>3 DEF InHand, OnWire, Settled
<1>4. CASE /\ handler[c] \in Holding /\ handler'[c] \in Holding
           /\ UNCHANGED <<cur, up>>
  BY <1>4 DEF InHand, OnWire
<1>5. CASE handler[c] = "store" /\ UNCHANGED <<up, published, ignored>>
  <2>1. cur[c] \in Settled
    BY <1>5 DEF HandSettled
  <2>2. Settled \subseteq Settled'
    BY <1>5, HandlerMoves, <1>1 DEF Settled, clientVars
  <2> QED BY <1>5, <2>1, <2>2 DEF InHand, OnWire
<1> QED BY <1>1, <1>2, <1>3, <1>4, <1>5, HandlerCases DEF Holding, Registering

(* No line overtakes an unsettled elder on a wire.                         *)
LEMMA WireKept ==
  ASSUME Inductive, [Next]_vars
  PROVE  WireSettled'
<1> USE DEF Inductive
<1>1. Settled \subseteq Settled' /\ TypeOK /\ up \in [Conns -> Seq(Nat)]
  BY SettledGrows DEF TypeOK, WireTypeOK
<1> DEFINE Ahead(q, i, j) == \E k \in 1 .. (i - 1) : q[k] = j
<1>2. CASE ClientStep
  <2>1. \A d \in Conns : InHand(d)' = InHand(d)
    BY <1>2, ClientFrame DEF InHand, serverVars
  <2>2. CASE UNCHANGED up
    BY <2>1, <2>2, <1>1 DEF WireSettled
  <2>3. CASE /\ conn \in Conns /\ ~broken[conn]
             /\ \E s \in pending : /\ \A t \in pending : s <= t
                                   /\ up'[conn] = Append(up[conn], s)
                                   /\ \A d \in Conns \ {conn} : up'[d] = up[d]
    <3> PICK s \in pending : /\ \A t \in pending : s <= t
                             /\ up'[conn] = Append(up[conn], s)
                             /\ \A d \in Conns \ {conn} : up'[d] = up[d]
      BY <2>3
    <3>1. s \in 1 .. sentUpTo /\ sentUpTo \in Nat /\ pending \subseteq 1 .. sentUpTo
      BY DEF TypeOK, ClientTypeOK
    <3>2. conn # NoConn
      BY <2>3, NoConnAssumption
    <3>3. /\ Len(up'[conn]) = Len(up[conn]) + 1 /\ up'[conn][Len(up[conn]) + 1] = s
          /\ \A j \in 1 .. Len(up[conn]) : up'[conn][j] = up[conn][j]
      BY <1>1, <2>3, <3>1, AppendedWire
    <3>4. Len(up[conn]) \in Nat
      BY <1>1, <2>3
    <3>5. ASSUME NEW i \in 1 .. Len(up'[conn]), NEW j \in 1 .. (up'[conn][i] - 1)
          PROVE  j \in Settled' \cup InHand(conn) \/ Ahead(up'[conn], i, j)
      <4>1. CASE i \in 1 .. Len(up[conn])
        <5>1. j \in Settled \cup InHand(conn) \/ Ahead(up[conn], i, j)
          BY <4>1, <3>3, <3>5, <2>3 DEF WireSettled
        <5>2. \A k \in 1 .. (i - 1) : up'[conn][k] = up[conn][k]
          BY <4>1, <3>3, <3>4
        <5> QED BY <5>1, <5>2, <1>1
      <4>2. CASE i = Len(up[conn]) + 1
        <5>1. j \in 1 .. sentUpTo /\ j \notin pending
          BY <4>2, <3>1, <3>3, <3>5
        <5>2. j \in Settled \cup InHand(conn) \cup OnWire(conn)
          BY <5>1, <3>2, <2>3 DEF PumpSettled
        <5>3. j \in OnWire(conn) => Ahead(up'[conn], i, j)
          BY <3>3, <3>4, <4>2 DEF OnWire
        <5> QED BY <5>2, <5>3, <1>1
      <4> QED BY <4>1, <4>2, <3>3, <3>4, <3>5
    <3>6. ASSUME NEW d \in Conns, d # conn, NEW i \in 1 .. Len(up'[d]),
                 NEW j \in 1 .. (up'[d][i] - 1)
          PROVE  j \in Settled' \cup InHand(d) \/ Ahead(up'[d], i, j)
      <4>1. up'[d] = up[d]
        BY <3>6
      <4>2. j \in Settled \cup InHand(d) \/ Ahead(up[d], i, j)
        BY <3>6, <4>1 DEF WireSettled
      <4> QED BY <4>1, <4>2, <1>1
    <3>7. ASSUME NEW d \in Conns, NEW i \in 1 .. Len(up'[d]), NEW j \in 1 .. (up'[d][i] - 1)
          PROVE  j \in (Settled \cup InHand(d))' \/ Ahead(up'[d], i, j)
      <4>1. CASE d = conn
        BY <4>1, <3>5, <3>7, <2>1
      <4>2. CASE d # conn
        BY <4>2, <3>6, <3>7, <2>1
      <4> QED BY <4>1, <4>2
    <3> QED BY <3>7 DEF WireSettled
  <2> QED BY <2>2, <2>3, <1>2, ClientWires
<1>3. CASE HandlerStep
  <2> PICK c \in Conns : Handler(c)
    BY <1>3 DEF HandlerStep
  <2>1. ASSUME NEW d \in Conns, d # c, NEW i \in 1 .. Len(up'[d]),
               NEW j \in 1 .. (up'[d][i] - 1)
        PROVE  j \in (Settled \cup InHand(d))' \/ Ahead(up'[d], i, j)
    <3>1. up'[d] = up[d] /\ InHand(d)' = InHand(d)
      BY <2>1, HandlerMoves DEF InHand
    <3> QED BY <2>1, <3>1, <1>1 DEF WireSettled
  <2>2. ASSUME NEW i \in 1 .. Len(up'[c]), NEW j \in 1 .. (up'[c][i] - 1)
        PROVE  j \in (Settled \cup InHand(c))' \/ Ahead(up'[c], i, j)
    <3>1. CASE /\ handler[c] = "scan" /\ up[c] # <<>>
               /\ cur'[c] = Head(up[c]) /\ up'[c] = Tail(up[c])
               /\ handler'[c] \in {"publish", "register", "cap"}
      <4>1. InHand(c) = {} /\ InHand(c)' = {up[c][1]}
        BY <3>1, <1>1 DEF InHand, Holding, Registering
      <4>2. /\ Len(up'[c]) = Len(up[c]) - 1 /\ Len(up[c]) \in Nat
            /\ \A k \in 1 .. Len(up'[c]) : up'[c][k] = up[c][k + 1]
        BY <3>1, <1>1, ShortenedWire
      <4>3. i + 1 \in 1 .. Len(up[c]) /\ j \in 1 .. (up[c][i + 1] - 1)
        BY <4>2, <2>2
      <4>4. j \in Settled \/ \E k \in 1 .. i : up[c][k] = j
        BY <4>1, <4>3 DEF WireSettled
      <4>5. ASSUME NEW k \in 1 .. i, up[c][k] = j
            PROVE  j \in InHand(c)' \/ Ahead(up'[c], i, j)
        <5>1. CASE k = 1
          BY <5>1, <4>5, <4>1
        <5>2. CASE k # 1
          <6>1. k - 1 \in 1 .. (i - 1) /\ k - 1 \in 1 .. Len(up'[c]) /\ (k - 1) + 1 = k
            BY <5>2, <4>2, <2>2
          <6>2. up'[c][k - 1] = j
            BY <6>1, <4>2, <4>5
          <6> QED BY <6>1, <6>2
        <5> QED BY <5>1, <5>2
      <4> QED BY <4>4, <4>5, <1>1
    <3>2. CASE up'[c] = <<>>
      BY <3>2, <2>2
    <3>3. CASE UNCHANGED up /\ InHand(c) \subseteq Settled' \cup InHand(c)'
      BY <3>3, <2>2, <1>1 DEF WireSettled
    <3>4. \/ handler[c] = "scan" /\ up[c] # <<>> /\ cur'[c] = Head(up[c])
             /\ up'[c] = Tail(up[c]) /\ handler'[c] \in {"publish", "register", "cap"}
          \/ up'[c] = <<>>
          \/ UNCHANGED up /\ InHand(c) \subseteq Settled' \cup InHand(c)'
      <4>1. handler[c] = "store" => cur[c] \in Settled
        BY DEF HandSettled
      <4> QED BY <4>1, <1>1, HandlerCases DEF InHand, Settled, Holding, Registering
    <3> QED BY <3>1, <3>2, <3>3, <3>4
  <2> QED BY <2>1, <2>2 DEF WireSettled
<1>4. CASE TickerStep \/ FailureStep \/ UNCHANGED vars
  <2>1. UNCHANGED <<up, handler, cur>>
    BY <1>4 DEF TickerStep, Ticker, SendAck, FailureStep, NetworkFails, serverVars, vars, wireVars
  <2> QED BY <2>1, <1>1 DEF WireSettled, InHand
<1>5. CASE ConnectStep
  <2> PICK c \in Conns : Connect(c)
    BY <1>5 DEF ConnectStep
  <2>1. up'[c] = <<>> /\ \A d \in Conns \ {c} : up'[d] = up[d] /\ InHand(d)' = InHand(d)
    BY ConnectWires DEF InHand
  <2>2. ASSUME NEW d \in Conns, NEW i \in 1 .. Len(up'[d]), NEW j \in 1 .. (up'[d][i] - 1)
        PROVE  j \in (Settled \cup InHand(d))' \/ Ahead(up'[d], i, j)
    <3>1. CASE d = c
      BY <3>1, <2>1, <2>2
    <3>2. CASE d # c
      <4>1. up'[d] = up[d] /\ InHand(d)' = InHand(d)
        BY <3>2, <2>1
      <4>2. j \in Settled \cup InHand(d) \/ Ahead(up[d], i, j)
        BY <4>1, <2>2 DEF WireSettled
      <4> QED BY <4>1, <4>2, <1>1
    <3> QED BY <3>1, <3>2
  <2> QED BY <2>2 DEF WireSettled
<1>6. CASE ProcessStep
  <2>1. \/ UNCHANGED <<up, handler, cur>>
        \/ \A d \in Conns : up'[d] = <<>>
    BY <1>6, ServerEnds
  <2>2. CASE UNCHANGED <<up, handler, cur>>
    BY <2>2, <1>1 DEF WireSettled, InHand
  <2>3. CASE \A d \in Conns : up'[d] = <<>>
    BY <2>3 DEF WireSettled
  <2> QED BY <2>1, <2>2, <2>3
<1> QED BY NextCases, <1>2, <1>3, <1>4, <1>5, <1>6

(* Nothing the pump took gets lost on a sound connection.                  *)
LEMMA PumpKept ==
  ASSUME Inductive, [Next]_vars
  PROVE  PumpSettled'
<1> USE DEF Inductive
<1> DEFINE Owed(d) == Settled \cup InHand(d) \cup OnWire(d)
<1>1. Settled \subseteq Settled' /\ TypeOK /\ up \in [Conns -> Seq(Nat)]
  BY SettledGrows DEF TypeOK, WireTypeOK
<1>2. CASE ClientStep
  <2>1. /\ \A d \in Conns : InHand(d)' = InHand(d)
        /\ UNCHANGED broken
    BY <1>2, ClientFrame DEF InHand, serverVars
  <2>2. CASE Snapshot
    <3>1. /\ conn' = conn /\ UNCHANGED up /\ conn \in Conns
          /\ pending' = {s \in Buffered : s > sentUpTo}
      BY <2>2 DEF Snapshot, wireVars, Ranges
    <3>2. /\ nextSeq \in Nat /\ count \in Nat /\ sentUpTo \in Nat
          /\ Buffered = (nextSeq - count + 1) .. nextSeq /\ count <= nextSeq
      BY BufferedInWindow, BufferAssumption DEF TypeOK, ClientTypeOK, Ranges
    <3>3. sentUpTo' = sentUpTo \/ sentUpTo' \in Buffered
      BY <2>2 DEF Snapshot
    <3>4. ASSUME conn # NoConn, ~broken[conn], NEW j \in 1 .. sentUpTo'
          PROVE  j \in Owed(conn) \cup pending'
      <4>1. CASE j <= sentUpTo
        <5>1. j \in 1 .. sentUpTo
          BY <4>1, <3>2, <3>3, <3>4
        <5>2. j \in Owed(conn) \cup pending
          BY <5>1, <3>4 DEF PumpSettled
        <5>3. pending = {}
          BY <2>2 DEF Snapshot, Ranges
        <5> QED BY <5>2, <5>3
      <4>2. CASE j > sentUpTo /\ j <= nextSeq - count
        BY <4>2, <3>2, <3>4, <3>3 DEF ReleasedSettled
      <4>3. CASE j > sentUpTo /\ j > nextSeq - count
        BY <4>3, <3>1, <3>2, <3>3, <3>4
      <4> QED BY <4>1, <4>2, <4>3, <3>2, <3>3, <3>4
    <3> QED BY <3>1, <3>4, <2>1, <1>1 DEF PumpSettled, OnWire
  <2>3. CASE WriteLine
    <3> PICK s \in pending : up' = [up EXCEPT ![conn] = Append(@, s)] /\ pending' = pending \ {s}
      BY <2>3 DEF WriteLine
    <3>1. conn' = conn /\ sentUpTo' = sentUpTo /\ conn \in Conns /\ s \in Nat
      BY <2>3 DEF WriteLine, Ranges, TypeOK, ClientTypeOK
    <3>2. up'[conn] = Append(up[conn], s) /\ up[conn] \in Seq(Nat)
      BY <3>1, <1>1
    <3>3. OnWire(conn) \cup {s} \subseteq {up'[conn][i] : i \in 1 .. Len(up'[conn])}
      <4>1. /\ Len(up'[conn]) = Len(up[conn]) + 1 /\ up'[conn][Len(up[conn]) + 1] = s
            /\ \A j \in 1 .. Len(up[conn]) : up'[conn][j] = up[conn][j]
            /\ Len(up[conn]) \in Nat
        BY <3>1, <3>2, AppendedWire
      <4>2. 1 .. Len(up[conn]) \subseteq 1 .. Len(up'[conn])
            /\ Len(up[conn]) + 1 \in 1 .. Len(up'[conn])
        BY <4>1
      <4> QED BY <4>1, <4>2 DEF OnWire
    <3>4. InHand(conn)' = InHand(conn) /\ OnWire(conn)' = {up'[conn][i] : i \in 1 .. Len(up'[conn])}
      BY <3>1, <2>1 DEF OnWire
    <3> QED BY <3>1, <3>3, <3>4, <2>1, <1>1 DEF PumpSettled
  <2>4. CASE StreamEnded
    BY <2>4 DEF StreamEnded, PumpSettled
  <2>5. CASE UNCHANGED <<conn, sentUpTo, pending, up>>
    <3>1. OnWire(conn)' = OnWire(conn) /\ InHand(conn)' = InHand(conn)
      <4>1. UNCHANGED <<handler, cur>>
        BY <1>2, ClientFrame DEF serverVars
      <4> QED BY <2>5, <4>1 DEF OnWire, InHand
    <3> QED BY <3>1, <2>5, <2>1, <1>1 DEF PumpSettled
  <2>6. \/ Snapshot \/ WriteLine \/ StreamEnded \/ UNCHANGED <<conn, sentUpTo, pending, up>>
    BY <1>2 DEF ClientStep, Accept, Enqueue, Signal, SignalWake, Pump, BeginWait, WakeUp,
      Reader, ReceiveAck, ReaderEnds, pumpVars, wireVars
  <2> QED BY <2>2, <2>3, <2>4, <2>5, <2>6
<1>3. CASE HandlerStep
  <2> PICK c \in Conns : Handler(c)
    BY <1>3 DEF HandlerStep
  <2>1. UNCHANGED <<conn, sentUpTo, pending>>
    BY <1>1, HandlerMoves DEF clientVars
  <2>2. CASE conn = c
    <3>1. OnWire(conn)' = OnWire(c)' /\ InHand(conn)' = InHand(c)'
      BY <2>1, <2>2 DEF OnWire, InHand
    <3>2. \/ broken'[c]
          \/ InHand(c) \cup OnWire(c) \subseteq Settled' \cup InHand(c)' \cup OnWire(c)'
      BY NothingSlips
    <3>3. broken[c] => broken'[c]
      BY <1>1, HandlerCases DEF TypeOK, WireTypeOK
    <3>4. conn # NoConn /\ ~broken[c] =>
            1 .. sentUpTo \subseteq Settled \cup InHand(c) \cup OnWire(c) \cup pending
      BY <2>2 DEF PumpSettled
    <3> QED BY <2>1, <2>2, <3>1, <3>2, <3>3, <3>4, <1>1 DEF PumpSettled
  <2>3. CASE conn # c /\ conn \in Conns
    <3>1. OnWire(conn)' = OnWire(conn) /\ InHand(conn)' = InHand(conn)
          /\ broken'[conn] = broken[conn]
      <4>1. /\ handler'[conn] = handler[conn] /\ cur'[conn] = cur[conn]
            /\ up'[conn] = up[conn] /\ broken'[conn] = broken[conn]
        BY <2>3, <1>1, HandlerMoves
      <4> QED BY <2>1, <4>1 DEF OnWire, InHand
    <3> QED BY <2>1, <3>1, <1>1 DEF PumpSettled
  <2>4. CASE conn = NoConn
    BY <2>1, <2>4 DEF PumpSettled
  <2> QED BY <2>2, <2>3, <2>4, <1>1 DEF TypeOK, ClientTypeOK
<1>4. CASE TickerStep \/ FailureStep
  <2>1. UNCHANGED <<conn, sentUpTo, pending, up, handler, cur>>
    BY <1>4, ServerFrame DEF TickerStep, Ticker, SendAck, FailureStep, NetworkFails, clientVars,
      serverVars
  <2>2. conn \in Conns /\ ~broken'[conn] => ~broken[conn]
    BY <1>4, <1>1 DEF TickerStep, Ticker, SendAck, FailureStep, NetworkFails, BreakWire, TypeOK,
      WireTypeOK
  <2>3. conn \in Conns \cup {NoConn}
    BY DEF TypeOK, ClientTypeOK
  <2> QED BY <2>1, <2>2, <2>3, <1>1 DEF PumpSettled, OnWire, InHand
<1>5. CASE ConnectStep
  BY <1>5, <1>1, ConnectWires DEF ConnectStep, PumpSettled
<1>6. CASE ProcessStep
  <2>1. UNCHANGED <<conn, sentUpTo, pending>> /\ conn \in Conns \cup {NoConn}
    BY <1>6, ServerFrame DEF clientVars, TypeOK, ClientTypeOK
  <2>2. CASE UNCHANGED <<handler, cur, up, broken>>
    BY <2>1, <2>2, <1>1 DEF PumpSettled, OnWire, InHand
  <2>3. CASE \A d \in Conns : broken'[d]
    BY <2>1, <2>3 DEF PumpSettled
  <2> QED BY <2>2, <2>3, <1>6, <1>1, ServerEnds
<1>7. CASE UNCHANGED vars
  BY <1>7 DEF vars, clientVars, serverVars, wireVars, PumpSettled, OnWire, InHand, Settled
<1> QED BY NextCases, <1>2, <1>3, <1>4, <1>5, <1>6, <1>7

(* Acks, old or new, claim only what is settled.                           *)
LEMMA AcksKept ==
  ASSUME Inductive, [Next]_vars
  PROVE  AckClaimsOnlySettled'
<1> USE DEF Inductive
<1>1. /\ Settled \subseteq Settled' /\ TypeOK
      /\ down \in [Conns -> Seq(Nat)] /\ highest \in [Conns -> Nat]
  BY SettledGrows DEF TypeOK, WireTypeOK, ServerTypeOK
<1>2. ASSUME NEW c \in Conns, Ticker(c), NEW d \in Conns, NEW i \in 1 .. Len(down'[d])
      PROVE  1 .. down'[d][i] \subseteq Settled
  <2>1. CASE d = c
    <3>1. /\ Len(down'[c]) = Len(down[c]) + 1 /\ down'[c][Len(down[c]) + 1] = highest[c]
          /\ \A j \in 1 .. Len(down[c]) : down'[c][j] = down[c][j]
          /\ Len(down[c]) \in Nat
      <4>1. down'[c] = Append(down[c], highest[c])
        BY <1>1, <1>2, TickerWires
      <4>2. down[c] \in Seq(Nat) /\ highest[c] \in Nat
        BY <1>1
      <4> QED BY <4>1, <4>2, AppendedWire
    <3>2. 1 .. highest[c] \subseteq Settled
      BY DEF HandSettled
    <3>3. i \in 1 .. Len(down[c]) \/ i = Len(down[c]) + 1
      BY <1>2, <2>1, <3>1
    <3> QED BY <2>1, <3>1, <3>2, <3>3 DEF AckClaimsOnlySettled
  <2>2. CASE d # c
    BY <1>1, <1>2, <2>2, TickerWires DEF AckClaimsOnlySettled
  <2> QED BY <2>1, <2>2
<1>3. CASE \A d \in Conns :
             \/ down'[d] = down[d]
             \/ down'[d] = <<>>
             \/ down[d] # <<>> /\ down'[d] = Tail(down[d])
  <2>1. ASSUME NEW d \in Conns, NEW i \in 1 .. Len(down'[d])
        PROVE  1 .. down'[d][i] \subseteq Settled
    <3>1. CASE down'[d] = down[d]
      BY <2>1, <3>1 DEF AckClaimsOnlySettled
    <3>2. CASE down'[d] = <<>>
      BY <2>1, <3>2
    <3>3. CASE down[d] # <<>> /\ down'[d] = Tail(down[d])
      <4>1. /\ Len(down'[d]) = Len(down[d]) - 1 /\ Len(down[d]) \in Nat
            /\ \A j \in 1 .. Len(down'[d]) : down'[d][j] = down[d][j + 1]
        BY <1>1, <3>3, ShortenedWire
      <4>2. i + 1 \in 1 .. Len(down[d]) /\ down'[d][i] = down[d][i + 1]
        BY <2>1, <4>1
      <4> QED BY <4>2 DEF AckClaimsOnlySettled
    <3> QED BY <1>3, <3>1, <3>2, <3>3
  <2> QED BY <2>1, <1>1 DEF AckClaimsOnlySettled
<1>4. CASE ~TickerStep
  <2> SUFFICES \A d \in Conns :
                 \/ down'[d] = down[d]
                 \/ down'[d] = <<>>
                 \/ down[d] # <<>> /\ down'[d] = Tail(down[d])
    BY <1>3
  <2>1. CASE ClientStep
    <3>1. \/ UNCHANGED down
          \/ \E c \in Conns : down[c] # <<>> /\ down' = [down EXCEPT ![c] = Tail(@)]
          \/ \E c \in Conns : down' = [down EXCEPT ![c] = <<>>]
      BY <2>1 DEF ClientStep, Accept, Enqueue, Signal, SignalWake, Pump, Snapshot, WriteLine,
        BeginWait, WakeUp, StreamEnded, Reader, ReceiveAck, ReaderEnds, wireVars
    <3> QED BY <3>1, <1>1
  <2>2. CASE HandlerStep
    BY <2>2, <1>1, HandlerMoves DEF HandlerStep
  <2>3. CASE ConnectStep
    BY <2>3, <1>1, ConnectWires DEF ConnectStep
  <2>4. CASE FailureStep \/ UNCHANGED vars
    BY <2>4 DEF FailureStep, NetworkFails, vars, wireVars
  <2>5. CASE ProcessStep
    BY <2>5, <1>1, ServerEnds
  <2> QED BY NextCases, <1>4, <2>1, <2>2, <2>3, <2>4, <2>5
<1>5. CASE TickerStep
  <2>1. \A d \in Conns : \A i \in 1 .. Len(down'[d]) : 1 .. down'[d][i] \subseteq Settled
    BY <1>2, <1>5 DEF TickerStep
  <2> QED BY <2>1, <1>1 DEF AckClaimsOnlySettled
<1> QED BY <1>4, <1>5

(* A hub gets a line only after its elders are settled.                    *)
LEMMA OrderKept ==
  ASSUME Inductive, [Next]_vars
  PROVE  FirstCopiesInOrder'
<1> USE DEF Inductive
<1>1. Settled \subseteq Settled' /\ TypeOK
  BY SettledGrows
<1>2. ASSUME NEW s \in published', s \notin published
      PROVE  1 .. (s - 1) \subseteq Settled
  <2>1. HandlerStep
    <3>1. CASE ClientStep \/ TickerStep \/ FailureStep \/ UNCHANGED vars
      BY <3>1, <1>2, ClientFrame DEF TickerStep, Ticker, SendAck, FailureStep, NetworkFails,
        serverVars, vars
    <3>2. CASE ConnectStep
      BY <3>2, <1>1, <1>2, ConnectWires DEF ConnectStep
    <3>3. CASE ProcessStep
      BY <3>3, <1>1, <1>2, ServerEnds
    <3> QED BY <3>1, <3>2, <3>3, NextCases
  <2> PICK c \in Conns : Handler(c)
    BY <2>1 DEF HandlerStep
  <2>2. handler[c] = "publish" /\ s = cur[c]
    BY <1>1, <1>2, HandlerCases
  <2> QED BY <2>2 DEF HandSettled, Holding
<1> QED BY <1>1, <1>2 DEF FirstCopiesInOrder

(* Nothing has been accepted yet.                                          *)
LEMMA InductiveInit ==
  ASSUME Init
  PROVE  Inductive
<1>1. TypeOK
  BY BufferAssumption DEF Init, WireInit, ClientInit, ServerInit, TypeOK, WireTypeOK,
    ClientTypeOK, ServerTypeOK
<1>2. RingIsWindow /\ Ranges
  BY DEF Init, WireInit, ClientInit, ServerInit, RingIsWindow, Ranges, Positions, InHand, OnWire,
    Holding, Registering
<1> QED
  BY <1>1, <1>2 DEF Init, WireInit, ClientInit, ServerInit, Inductive, ReleasedSettled,
    HandSettled, WireSettled, PumpSettled, AckClaimsOnlySettled, FirstCopiesInOrder, Holding,
    Registering

(* The conjuncts together.                                                 *)
LEMMA InductiveNext ==
  ASSUME Inductive, [Next]_vars
  PROVE  Inductive'
BY TypesKept, RingKept, RangesKept, ReleasedKept, HandKept, WireKept, PumpKept, AcksKept,
  OrderKept DEF Inductive, Ranges

(* The inductive invariant holds in every reachable state.                 *)
THEOREM ForwardingInductive == Spec => []Inductive
<1>1. Inductive /\ [Next]_vars => Inductive'
  BY InductiveNext
<1> QED BY InductiveInit, <1>1, PTL DEF Spec

-----------------------------------------------------------------------------
(* What follows from it.                                                   *)

(* Client, server and wire keep their types (forward.go, ingest.go).       *)
THEOREM ForwardingTypes == Spec => []TypeOK
<1>1. Inductive => TypeOK
  BY DEF Inductive
<1> QED BY ForwardingInductive, <1>1, PTL

(* The retry buffer of forward.go:93-95 is a window on the newest lines.   *)
THEOREM RingSound == Spec => []RingIsWindow
<1>1. Inductive => RingIsWindow
  BY DEF Inductive
<1> QED BY ForwardingInductive, <1>1, PTL

(* trimAcked (forward.go:223) and an overflowing Enqueue (forward.go:194)  *)
(* free only lines that some hub accepted or that were given up.           *)
THEOREM NothingReleasedEarly == Spec => []ReleasedOnlyIfSettled
<1>1. Inductive => ReleasedOnlyIfSettled
  <2> SUFFICES ASSUME Inductive, NEW s \in 1 .. nextSeq, s \notin Buffered
               PROVE  s \in Settled
    BY DEF ReleasedOnlyIfSettled
  <2>1. /\ Buffered = (nextSeq - count + 1) .. nextSeq
        /\ nextSeq \in Nat /\ count \in Nat /\ count <= nextSeq
    BY BufferedInWindow, BufferAssumption DEF Inductive, TypeOK, ClientTypeOK, Ranges
  <2>2. s \in 1 .. (nextSeq - count)
    BY <2>1
  <2> QED BY <2>2 DEF Inductive, ReleasedSettled
<1> QED BY ForwardingInductive, <1>1, PTL

(* No ack on any connection, old or new, claims an unsettled line          *)
(* (ingest.go:283-288).                                                    *)
THEOREM AcksSound == Spec => []AckClaimsOnlySettled
<1>1. Inductive => AckClaimsOnlySettled
  BY DEF Inductive
<1> QED BY ForwardingInductive, <1>1, PTL

(* The hub gets the first copies of a client's lines in order, across      *)
(* reconnects and restarts (ingest.go:341).                                *)
THEOREM OrderSound == Spec => []FirstCopiesInOrder
<1>1. Inductive => FirstCopiesInOrder
  BY DEF Inductive
<1> QED BY ForwardingInductive, <1>1, PTL

-----------------------------------------------------------------------------
(* Forwarding implements AtLeastOnce.                                      *)

(* The buffer holds the newest count lines.                                *)
LEMMA WindowOf ==
  Inductive => /\ Buffered = (nextSeq - count + 1) .. nextSeq
               /\ nextSeq \in Nat /\ count \in Nat /\ count <= nextSeq
BY BufferedInWindow, BufferAssumption DEF Inductive, TypeOK, ClientTypeOK, Ranges

(* A window that ends in the same place and is shorter is contained.       *)
LEMMA ShorterWindow ==
  ASSUME NEW n \in Nat, NEW k \in Nat, NEW j \in Nat, j <= k, k <= n
  PROVE  /\ (n - j + 1) .. n \subseteq (n - k + 1) .. n
         /\ ((n - k + 1) .. n) \ ((n - j + 1) .. n) \subseteq 1 .. (n - j)
OBVIOUS

(* Each step of the protocol is a step of AtLeastOnce or a stutter.        *)
LEMMA StepKeepsPromise ==
  ASSUME Inductive, [Next]_vars
  PROVE  [Promise!Next]_(Promise!vars)
<1>0. Inductive'
  BY InductiveNext
<1>1. /\ Buffered = (nextSeq - count + 1) .. nextSeq
      /\ nextSeq \in Nat /\ count \in Nat /\ count <= nextSeq
  BY WindowOf
<1>2. /\ Buffered' = (nextSeq' - count' + 1) .. nextSeq'
      /\ nextSeq' \in Nat /\ count' \in Nat /\ count' <= nextSeq'
  <2>1. (Inductive => /\ Buffered = (nextSeq - count + 1) .. nextSeq
                      /\ nextSeq \in Nat /\ count \in Nat /\ count <= nextSeq)'
    BY WindowOf, PTL
  <2> QED BY <1>0, <2>1
<1>3. CASE Accept
  <2>0. BufferLines \in Nat \ {0} /\ count <= BufferLines
    BY BufferAssumption DEF Inductive, TypeOK, ClientTypeOK
  <2> PICK l \in Lines : Enqueue(l)
    BY <1>3 DEF Accept
  <2>1. nextSeq' = nextSeq + 1 /\ UNCHANGED <<published, ignored>>
    BY <1>3 DEF Enqueue, Accept, serverSide, serverVars
  <2>2. CASE count < BufferLines
    <3>1. count' = count + 1 /\ UNCHANGED dropped
      BY <2>0, <2>2, <1>1 DEF Enqueue
    <3>2. Buffered' = Buffered \cup {nextSeq + 1}
      BY <3>1, <2>1, <1>1, <1>2
    <3> QED BY <3>1, <3>2, <2>1 DEF Promise!Next, Promise!Accept
  <2>3. CASE count = BufferLines
    <3>1. count' = count /\ dropped' = dropped \cup {ring[head]}
      BY <2>0, <2>3, <1>1 DEF Enqueue
    <3>2. ring[head] = nextSeq - count + 1
      <4>1. Slot(0) = head /\ 0 \in Positions
        BY <2>0, <2>3, SlotWraps DEF Inductive, TypeOK, ClientTypeOK, Positions
      <4> QED BY <4>1, <1>1 DEF Inductive, RingIsWindow
    <3>3. /\ ring[head] \in Buffered /\ \A s \in Buffered : ring[head] <= s
          /\ Buffered' = (Buffered \ {ring[head]}) \cup {nextSeq + 1}
      BY <3>1, <3>2, <2>0, <2>1, <2>3, <1>1, <1>2
    <3> QED BY <3>1, <3>3, <2>1 DEF Promise!Next, Promise!Accept
  <2> QED BY <2>0, <2>2, <2>3, <1>1
<1>4. ASSUME NEW c \in Conns, Reader(c), ReceiveAck(c)
      PROVE  Promise!Release
  <2>1. UNCHANGED <<nextSeq, dropped, published, ignored>>
    BY <1>4 DEF ReceiveAck, TrimAcked, Reader, serverSide, serverVars
  <2>2. count' <= count
    <3>1. PICK k \in 0 .. count : count' = count - k
      BY <1>4 DEF ReceiveAck, TrimAcked
    <3> QED BY <3>1, <1>1
  <2>3. /\ Buffered' \subseteq Buffered
        /\ Buffered \ Buffered' \subseteq 1 .. (nextSeq' - count')
    <3>1. Buffered' = (nextSeq - count' + 1) .. nextSeq
      BY <2>1, <1>2
    <3> QED BY <3>1, <2>1, <2>2, <1>1, <1>2, ShorterWindow
  <2>4. Buffered \ Buffered' \subseteq Settled
    <3>2. 1 .. (nextSeq' - count') \subseteq Settled'
      BY <1>0 DEF Inductive, ReleasedSettled
    <3>3. Settled' = Settled
      BY <2>1 DEF Settled
    <3> QED BY <2>3, <3>2, <3>3
  <2> QED BY <2>1, <2>3, <2>4 DEF Promise!Release, Promise!Settled, Settled
<1>5. ASSUME NEW c \in Conns, Handler(c)
      PROVE  [Promise!Next]_(Promise!vars)
  <2>1. TypeOK /\ UNCHANGED <<nextSeq, dropped, Buffered>>
    <3>1. TypeOK
      BY DEF Inductive
    <3>2. UNCHANGED clientVars
      BY <1>5, <3>1, HandlerMoves
    <3> QED BY <3>1, <3>2 DEF clientVars, Buffered, Positions, Slot
  <2>2. /\ handler[c] \in Holding => 1 .. (cur[c] - 1) \subseteq Settled
        /\ handler[c] \in Holding => cur[c] \in 1 .. nextSeq
    BY DEF Inductive, HandSettled, Ranges, InHand
  <2>3. CASE handler[c] = "cap" /\ ignored' = ignored \cup {cur[c]} /\ UNCHANGED published
    <3>1. Promise!Skip(cur[c])
      BY <2>1, <2>2, <2>3 DEF Promise!Skip, Promise!OlderSettled, Promise!Settled, Settled,
        Holding, Registering
    <3> QED BY <3>1, <2>2, <2>3 DEF Promise!Next, Holding, Registering
  <2>4. CASE handler[c] = "publish" /\ published' = published \cup {cur[c]} /\ UNCHANGED ignored
    <3>1. Promise!Deliver(cur[c])
      BY <2>1, <2>2, <2>4 DEF Promise!Deliver, Promise!OlderSettled, Promise!Settled, Settled,
        Holding
    <3> QED BY <3>1, <2>2, <2>4 DEF Promise!Next, Holding
  <2>5. CASE UNCHANGED <<published, ignored>>
    BY <2>1, <2>5 DEF Promise!vars
  <2> QED BY <2>1, <2>3, <2>4, <2>5, <1>5, HandlerCases
<1>6. CASE UNCHANGED <<ringVars, published, ignored>>
  BY <1>6 DEF ringVars, Promise!vars, Buffered, Positions, Slot
<1>7. \/ Accept
      \/ \E c \in Conns : Reader(c) /\ ReceiveAck(c)
      \/ \E c \in Conns : Handler(c)
      \/ UNCHANGED <<ringVars, published, ignored>>
  <2>1. CASE ClientStep
    BY <2>1 DEF ClientStep, Signal, SignalWake, Pump, Snapshot, WriteLine, BeginWait,
      WakeUp, StreamEnded, Reader, ReaderEnds, serverSide, serverVars
  <2>2. CASE ConnectStep
    BY <2>2, ConnectWires DEF ConnectStep, Inductive
  <2>3. CASE UNCHANGED vars
    BY <2>3 DEF vars, clientVars, ringVars, serverVars
  <2>4. CASE TickerStep \/ FailureStep
    BY <2>4, ServerFrame DEF clientVars, ringVars, TickerStep, Ticker, SendAck, FailureStep,
      NetworkFails, serverVars
  <2>5. CASE ProcessStep
    BY <2>5, ServerFrame, ServerEnds DEF clientVars, ringVars, Inductive
  <2> QED BY NextCases, <2>1, <2>2, <2>3, <2>4, <2>5 DEF HandlerStep
<1> QED BY <1>3, <1>4, <1>5, <1>6, <1>7 DEF Promise!Next

(* Every behaviour of client, server and network is one that AtLeastOnce   *)
(* allows: accepted lines are held until delivered or openly given up, and *)
(* are delivered in order (forward.go:394, ingest.go:341).                 *)
THEOREM ForwardingKeepsPromise == Spec => KeepsPromise
<1>1. Init => Promise!Init
  BY DEF Init, WireInit, ClientInit, ServerInit, Promise!Init, Buffered, Positions
<1>2. Inductive /\ [Next]_vars => [Promise!Next]_(Promise!vars)
  BY StepKeepsPromise
<1> QED BY <1>1, <1>2, ForwardingInductive, PTL DEF Spec, KeepsPromise, Promise!Spec

-----------------------------------------------------------------------------
(* Within a connection nothing is repeated.                                *)

(* A handler keeps its connection in order.                                *)
LEMMA HandlerOrder ==
  ASSUME Inductive, NEW c \in Conns, OrderedOn(c), Handler(c)
  PROVE  OrderedOn(c)' /\ Taken(c)' \subseteq Taken(c) \cup {0}
<1>1. /\ TypeOK /\ up[c] \in Seq(Nat) /\ highest[c] \in Nat /\ cur[c] \in Nat
      /\ handler \in [Conns -> {"none", "scan"} \cup Holding]
  BY DEF Inductive, TypeOK, WireTypeOK, ServerTypeOK
<1>2. CASE /\ handler[c] = "scan" /\ up[c] # <<>>
           /\ cur'[c] = Head(up[c]) /\ up'[c] = Tail(up[c])
           /\ handler'[c] \in {"publish", "register", "cap"}
           /\ highest'[c] = highest[c]
  <2>1. /\ Len(up[c]) \in Nat \ {0} /\ Len(up'[c]) = Len(up[c]) - 1
        /\ \A k \in 1 .. Len(up'[c]) : up'[c][k] = up[c][k + 1]
        /\ \A k \in 1 .. Len(up[c]) : up[c][k] \in Nat
    BY <1>1, <1>2, ShortenedWire
  <2>2. InHand(c)' = {up[c][1]} /\ up[c][1] \in OnWire(c)
    BY <1>1, <1>2, <2>1, ShortenedWire DEF InHand, OnWire, Holding, Registering
  <2>3. \A i \in 1 .. Len(up'[c]) : i + 1 \in 1 .. Len(up[c]) /\ 1 < i + 1
    BY <2>1
  <2>4. OnWire(c)' \subseteq OnWire(c)
    BY <2>1, <2>3 DEF OnWire
  <2>5. \A m \in OnWire(c)' : up[c][1] < m
    BY <2>1, <2>3 DEF OnWire, OrderedOn
  <2>6. ASSUME NEW i \in 1 .. Len(up'[c]), NEW j \in 1 .. Len(up'[c]), i < j
        PROVE  up'[c][i] < up'[c][j]
    <3>1. i + 1 < j + 1
      BY <2>6
    <3> QED BY <3>1, <2>1, <2>3 DEF OrderedOn
  <2> QED BY <1>2, <2>2, <2>4, <2>5, <2>6 DEF OrderedOn, Taken
<1>3. CASE /\ handler'[c] = "none" /\ highest'[c] = 0 /\ up'[c] = <<>>
  <2>1. InHand(c)' = {} /\ OnWire(c)' = {} /\ Len(up'[c]) = 0
    BY <1>3 DEF InHand, OnWire, Holding, Registering
  <2> QED BY <1>3, <2>1 DEF OrderedOn, Taken
<1>4. CASE /\ handler'[c] = "scan" /\ highest'[c] = highest[c] /\ UNCHANGED up
  <2>1. InHand(c)' = {} /\ OnWire(c)' = OnWire(c)
    BY <1>4 DEF InHand, OnWire, Holding, Registering
  <2> QED BY <1>4, <2>1 DEF OrderedOn, Taken
<1>5. CASE /\ handler[c] \in Holding /\ handler'[c] \in Holding
           /\ UNCHANGED <<cur, highest, up>>
  <2>1. InHand(c)' = InHand(c) /\ OnWire(c)' = OnWire(c)
    BY <1>5 DEF InHand, OnWire
  <2> QED BY <1>5, <2>1 DEF OrderedOn, Taken
<1>6. CASE /\ handler[c] = "store" /\ handler'[c] = "scan"
           /\ highest'[c] = (IF cur[c] > highest[c] THEN cur[c] ELSE highest[c])
           /\ UNCHANGED up
  <2>1. InHand(c)' = {} /\ OnWire(c)' = OnWire(c) /\ InHand(c) = {cur[c]}
    BY <1>6 DEF InHand, OnWire, Holding, Registering
  <2>2. highest'[c] = cur[c]
    BY <1>1, <1>6, <2>1 DEF OrderedOn
  <2> QED BY <1>6, <2>1, <2>2 DEF OrderedOn, Taken
<1> QED
  BY <1>1, <1>2, <1>3, <1>4, <1>5, <1>6, HandlerCases DEF Holding, Registering

(* Until it returns, the pump only takes lines newer than it has taken.    *)
LEMMA PumpAdvances ==
  ASSUME Inductive, ClientStep
  PROVE  \/ conn' = NoConn
         \/ /\ conn' = conn /\ sentUpTo <= sentUpTo'
            /\ \A p \in pending' : p \in pending \/ p > sentUpTo
<1>1. sentUpTo \in Nat /\ Buffered \subseteq Nat
  BY WindowOf DEF Inductive, TypeOK, ClientTypeOK
<1>2. CASE Snapshot
  <2> DEFINE fresh == {s \in Buffered : s > sentUpTo}
  <2>1. pending' = fresh /\ conn' = conn
    BY <1>2 DEF Snapshot
  <2>2. sentUpTo' = sentUpTo \/ (sentUpTo' \in Buffered /\ sentUpTo' > sentUpTo)
    BY <1>2 DEF Snapshot
  <2>3. sentUpTo <= sentUpTo'
    <3>1. sentUpTo' \in Nat
      BY <1>1, <2>2
    <3> QED BY <1>1, <2>2, <3>1
  <2>4. \A p \in pending' : p > sentUpTo
    BY <2>1
  <2> QED BY <2>1, <2>3, <2>4
<1>3. CASE Accept \/ Signal \/ \E c \in Conns : Reader(c)
  BY <1>1, <1>3 DEF Accept, Enqueue, Signal, SignalWake, Reader, ReceiveAck, ReaderEnds, pumpVars
<1>4. CASE WriteLine \/ BeginWait \/ WakeUp \/ StreamEnded
  BY <1>1, <1>4 DEF WriteLine, BeginWait, WakeUp, StreamEnded
<1> QED BY <1>2, <1>3, <1>4 DEF ClientStep, Pump

(* Every step keeps every connection in order.                             *)
LEMMA OrderedKept ==
  ASSUME Inductive, Ordered, [Next]_vars
  PROVE  Ordered'
<1>1. /\ TypeOK /\ Ranges /\ up \in [Conns -> Seq(Nat)] /\ sentUpTo \in Nat
      /\ pending \subseteq 1 .. sentUpTo /\ highest \in [Conns -> Nat]
      /\ conn \in Conns \cup {NoConn}
  BY DEF Inductive, TypeOK, WireTypeOK, ServerTypeOK, ClientTypeOK
<1>2. ASSUME NEW d \in Conns PROVE Taken(d) \subseteq Nat
  BY <1>1, <1>2 DEF Taken, Ranges
<1>3. CASE ClientStep
  <2>1. UNCHANGED <<handler, cur, highest>>
    BY <1>3, ClientFrame DEF serverVars
  <2>2. CASE UNCHANGED up
    <3>1. ASSUME NEW d \in Conns PROVE OrderedOn(d)' /\ Taken(d)' = Taken(d)
      BY <2>1, <2>2, <3>1 DEF Ordered, OrderedOn, Taken, InHand, OnWire
    <3>2. ASSUME conn' # NoConn, NEW n \in Taken(conn)'
          PROVE  n <= sentUpTo' /\ \A p \in pending' : n < p
      <4>1. conn' = conn /\ conn \in Conns /\ n \in Taken(conn)
        BY <1>1, <1>3, <3>1, <3>2, PumpAdvances
      <4>2. n \in Nat /\ n <= sentUpTo /\ \A p \in pending : n < p
        BY <1>2, <3>2, <4>1 DEF Ordered, PumpAhead
      <4>3. sentUpTo' \in Nat /\ pending' \subseteq Nat
        BY TypesKept DEF Inductive, TypeOK, ClientTypeOK
      <4> QED BY <1>1, <1>3, <3>2, <4>1, <4>2, <4>3, PumpAdvances
    <3> QED BY <3>1, <3>2 DEF Ordered, PumpAhead
  <2>3. CASE /\ conn \in Conns /\ UNCHANGED <<conn, sentUpTo>>
             /\ \E s \in pending : /\ \A t \in pending : s <= t
                                   /\ up'[conn] = Append(up[conn], s)
                                   /\ \A d \in Conns \ {conn} : up'[d] = up[d]
                                   /\ pending' = pending \ {s}
    <3> PICK s \in pending : /\ \A t \in pending : s <= t
                             /\ up'[conn] = Append(up[conn], s)
                             /\ \A d \in Conns \ {conn} : up'[d] = up[d]
                             /\ pending' = pending \ {s}
      BY <2>3
    <3>1. s \in Nat /\ s <= sentUpTo /\ Len(up[conn]) \in Nat
      BY <1>1, <2>3
    <3>2. /\ Len(up'[conn]) = Len(up[conn]) + 1 /\ up'[conn][Len(up[conn]) + 1] = s
          /\ \A j \in 1 .. Len(up[conn]) : up'[conn][j] = up[conn][j]
      BY <1>1, <2>3, <3>1, AppendedWire
    <3>3. \A n \in Taken(conn) : n \in Nat /\ n <= sentUpTo /\ \A p \in pending : n < p
      BY <1>2, <2>3, NoConnAssumption DEF Ordered, PumpAhead
    <3>4. ASSUME NEW d \in Conns, d # conn PROVE OrderedOn(d)'
      <4>1. up'[d] = up[d]
        BY <3>4
      <4> QED BY <2>1, <4>1 DEF Ordered, OrderedOn, InHand, OnWire
    <3>5. \A i \in 1 .. Len(up'[conn]) :
            \/ i \in 1 .. Len(up[conn]) /\ up'[conn][i] = up[conn][i]
            \/ i = Len(up[conn]) + 1 /\ up'[conn][i] = s
      BY <3>1, <3>2
    <3>6. /\ {up'[conn][i] : i \in 1 .. Len(up'[conn])} \subseteq OnWire(conn) \cup {s}
          /\ (IF handler'[conn] \in Holding THEN {cur'[conn]} ELSE {}) = InHand(conn)
      BY <2>1, <3>5 DEF InHand, OnWire
    <3>7. \A n \in Taken(conn) : n < s
      BY <3>3
    <3>8. ASSUME NEW i \in 1 .. Len(up'[conn]), NEW j \in 1 .. Len(up'[conn]), i < j
          PROVE  up'[conn][i] < up'[conn][j]
      <4>1. i \in 1 .. Len(up[conn]) /\ up'[conn][i] = up[conn][i] /\ up[conn][i] \in Taken(conn)
        BY <3>1, <3>2, <3>8, <3>5 DEF Taken, OnWire
      <4>2. CASE j \in 1 .. Len(up[conn]) /\ up'[conn][j] = up[conn][j]
        BY <2>3, <3>8, <4>1, <4>2 DEF Ordered, OrderedOn
      <4>3. CASE up'[conn][j] = s
        BY <3>7, <4>1, <4>3
      <4> QED BY <3>5, <4>2, <4>3
    <3>9. ASSUME NEW d \in Conns, d = conn PROVE OrderedOn(d)'
      <4>1. OnWire(d)' \subseteq OnWire(d) \cup {s} /\ InHand(d)' = InHand(d)
        BY <3>6, <3>9 DEF OnWire, InHand
      <4>2. highest'[d] = highest[d] /\ highest[d] \in Taken(conn) /\ InHand(d) \subseteq Taken(conn)
        BY <2>1, <3>9 DEF Taken
      <4> QED BY <3>7, <3>8, <3>9, <4>1, <4>2 DEF Ordered, OrderedOn
    <3>10. Taken(conn)' \subseteq Taken(conn) \cup {s}
      <4>1. OnWire(conn)' \subseteq OnWire(conn) \cup {s} /\ InHand(conn)' = InHand(conn)
        BY <2>3, <3>6 DEF OnWire, InHand
      <4>2. highest'[conn'] = highest[conn]
        BY <2>1, <2>3
      <4> QED BY <4>1, <4>2 DEF Taken
    <3>11. ASSUME NEW p \in pending' PROVE p \in pending /\ p \in Nat /\ s < p
      <4>1. p \in pending /\ p # s /\ p \in Nat
        BY <1>1, <3>11
      <4>2. s <= p
        BY <4>1
      <4> QED BY <3>1, <4>1, <4>2
    <3>12. PumpAhead'
      BY <2>3, <3>1, <3>3, <3>10, <3>11 DEF PumpAhead
    <3> QED BY <3>4, <3>9, <3>12 DEF Ordered
  <2> QED BY <1>1, <1>3, <2>2, <2>3, ClientWires
<1>4. CASE HandlerStep
  <2> PICK c \in Conns : Handler(c)
    BY <1>4 DEF HandlerStep
  <2>1. UNCHANGED <<conn, sentUpTo, pending>>
    BY <1>4, ServerFrame DEF clientVars, pumpVars
  <2>2. OrderedOn(c)' /\ Taken(c)' \subseteq Taken(c) \cup {0}
    BY HandlerOrder DEF Ordered
  <2>3. ASSUME NEW d \in Conns, d # c PROVE OrderedOn(d)' /\ Taken(d)' = Taken(d)
    <3>1. /\ handler'[d] = handler[d] /\ cur'[d] = cur[d]
          /\ highest'[d] = highest[d] /\ up'[d] = up[d]
      BY <1>1, <2>3, HandlerMoves
    <3> QED BY <3>1 DEF Ordered, OrderedOn, Taken, InHand, OnWire
  <2>4. \A d \in Conns : OrderedOn(d)' /\ Taken(d)' \subseteq Taken(d) \cup {0}
    BY <2>2, <2>3
  <2>5. ASSUME conn # NoConn PROVE Taken(conn)' \subseteq Taken(conn) \cup {0}
    BY <1>1, <2>1, <2>4, <2>5
  <2>6. PumpAhead'
    BY <1>1, <2>1, <2>5 DEF Ordered, PumpAhead
  <2> QED BY <2>4, <2>6 DEF Ordered
<1>5. CASE ConnectStep
  <2> PICK c \in Conns : Connect(c)
    BY <1>5 DEF ConnectStep
  <2>1. /\ handler'[c] = "scan" /\ up'[c] = <<>> /\ conn' = c
        /\ sentUpTo' = 0 /\ pending' = {} /\ highest'[c] = 0
    BY <1>1, ConnectWires
  <2>2. ASSUME NEW d \in Conns, d # c PROVE OrderedOn(d)'
    <3>1. /\ handler'[d] = handler[d] /\ cur'[d] = cur[d]
          /\ highest'[d] = highest[d] /\ up'[d] = up[d]
      BY <1>1, <2>2, ConnectWires
    <3> QED BY <3>1 DEF Ordered, OrderedOn, InHand, OnWire
  <2>3. InHand(c)' = {} /\ OnWire(c)' = {} /\ Len(up'[c]) = 0
    BY <2>1 DEF InHand, OnWire, Holding, Registering
  <2>4. OrderedOn(c)' /\ Taken(c)' = {0}
    BY <2>1, <2>3 DEF OrderedOn, Taken
  <2>5. Taken(conn)' = {0}
    BY <2>1, <2>4 DEF Taken, InHand, OnWire
  <2> QED BY <2>1, <2>2, <2>4, <2>5 DEF Ordered, PumpAhead
<1>6. CASE UNCHANGED <<handler, cur, highest, up, conn, sentUpTo, pending>>
  BY <1>6 DEF Ordered, OrderedOn, PumpAhead, Taken, InHand, OnWire
<1>7. CASE ProcessStep
  <2>1. UNCHANGED <<conn, sentUpTo, pending>>
    BY <1>7, ServerFrame DEF clientVars, pumpVars
  <2>2. CASE UNCHANGED <<handler, cur, highest, up>>
    BY <1>6, <2>1, <2>2
  <2>3. CASE \A d \in Conns : handler'[d] = "none" /\ highest'[d] = 0 /\ up'[d] = <<>>
    <3>1. ASSUME NEW d \in Conns PROVE OrderedOn(d)' /\ Taken(d)' = {0}
      <4>1. InHand(d)' = {} /\ OnWire(d)' = {} /\ Len(up'[d]) = 0
        BY <2>3, <3>1 DEF InHand, OnWire, Holding, Registering
      <4> QED BY <2>3, <4>1 DEF OrderedOn, Taken
    <3>2. conn # NoConn => Taken(conn)' = {0}
      BY <1>1, <2>1, <3>1
    <3> QED BY <1>1, <2>1, <3>1, <3>2 DEF Ordered, PumpAhead
  <2> QED BY <1>1, <1>7, <2>2, <2>3, ServerEnds
<1>8. CASE TickerStep \/ FailureStep
  <2>1. UNCHANGED <<conn, sentUpTo, pending>>
    BY <1>8, ServerFrame DEF clientVars, pumpVars
  <2>2. UNCHANGED <<handler, cur, highest, up>>
    BY <1>8 DEF TickerStep, Ticker, SendAck, FailureStep, NetworkFails, serverVars
  <2> QED BY <1>6, <2>1, <2>2
<1>9. CASE UNCHANGED vars
  BY <1>6, <1>9 DEF vars, clientVars, pumpVars, serverVars, wireVars
<1> QED BY NextCases, <1>3, <1>4, <1>5, <1>7, <1>8, <1>9

(* Within one connection no line is handed to the hub twice: repeats come  *)
(* only from a later connection (forward.go:397-411, ingest.go:341-350).   *)
THEOREM NoRepeats == Spec => []NoRepeatOnConnection
<1>1. ASSUME Init PROVE Ordered
  <2>1. ASSUME NEW d \in Conns PROVE InHand(d) = {} /\ OnWire(d) = {} /\ Len(up[d]) = 0
    BY <1>1, <2>1 DEF Init, WireInit, ServerInit, InHand, OnWire, Holding, Registering
  <2> QED BY <1>1, <2>1 DEF Init, ClientInit, Ordered, OrderedOn, PumpAhead
<1>2. Inductive /\ Ordered /\ [Next]_vars => Ordered'
  BY OrderedKept
<1>3. Ordered => NoRepeatOnConnection
  BY DEF Ordered, OrderedOn, InHand, NoRepeatOnConnection
<1> QED BY <1>1, <1>2, <1>3, ForwardingInductive, PTL DEF Spec
=============================================================================
