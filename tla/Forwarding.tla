----------------------------- MODULE Forwarding -----------------------------
(***************************************************************************)
(* One forwarding client and its server: ForwardClient and Ingest over the *)
(* connections of IngestWire, with connections that break and server       *)
(* processes that shut down or die.                                        *)
(***************************************************************************)
EXTENDS ForwardClient, Ingest

CONSTANTS
  MaxSeq,        \* bound: lines the client accepts
  MaxFailures,   \* bound: connections the network breaks
  MaxExits       \* bound: server processes that end

ASSUME BoundsAssumption == MaxSeq \in Nat /\ MaxFailures \in Nat /\ MaxExits \in Nat

VARIABLES failures, exits   \* how many have happened

vars == <<clientVars, serverVars, wireVars, line, failures, exits>>

Init ==
  /\ WireInit /\ ClientInit /\ ServerInit
  /\ failures = 0 /\ exits = 0

(* The client's goroutines.                                                *)
serverSide == <<serverVars, failures, exits>>

Accept == nextSeq < MaxSeq /\ (\E l \in Lines : Enqueue(l)) /\ UNCHANGED serverSide

Signal == SignalWake /\ UNCHANGED serverSide

Pump ==
  /\ Snapshot \/ WriteLine \/ BeginWait \/ WakeUp \/ StreamEnded
  /\ UNCHANGED serverSide

Reader(c) == (ReceiveAck(c) \/ ReaderEnds(c)) /\ UNCHANGED serverSide

(* The server's goroutines for one connection.                             *)
clientSide == <<clientVars, failures, exits>>

Handler(c) ==
  /\ \/ ScanLine(c) \/ ScanTooLong(c) \/ ScanEnds(c)
     \/ CheckCap(c) \/ Register(c) \/ CountSource(c)
     \/ Publish(c) \/ PublishRefused(c) \/ StoreSeq(c)
  /\ UNCHANGED clientSide

Ticker(c) == SendAck(c) /\ UNCHANGED clientSide

(* A dial reaches a live server: both ends of the connection start.        *)
Connect(c) ==
  /\ Dial(c) /\ StartHandler(c) /\ OpenWire(c)
  /\ UNCHANGED <<line, failures, exits>>

(* The network breaks a connection, or holds its acks past the watchdog.   *)
NetworkFails(c) ==
  /\ failures < MaxFailures
  /\ handler[c] # "none" /\ ~broken[c]
  /\ BreakWire(c)
  /\ failures' = failures + 1
  /\ UNCHANGED <<clientVars, serverVars, up, down, line, exits>>

ServerShutsDown ==
  /\ exits < MaxExits
  /\ Shutdown
  /\ UNCHANGED <<clientVars, failures, exits>>

ServerExits ==
  /\ exits < MaxExits
  /\ Exit
  /\ exits' = exits + 1
  /\ UNCHANGED <<clientVars, failures>>

ServerRestarts ==
  /\ Restart
  /\ UNCHANGED <<clientVars, failures, exits>>

Next ==
  \/ Accept \/ Signal \/ Pump
  \/ \E c \in Conns :
       Reader(c) \/ Handler(c) \/ Ticker(c) \/ Connect(c) \/ NetworkFails(c)
  \/ ServerShutsDown \/ ServerExits \/ ServerRestarts

Spec == Init /\ [][Next]_vars

(* Goroutines keep running and the client keeps dialling (Run loops until  *)
(* its context ends, backoff.go bounds each delay); tickers keep ticking;  *)
(* a closed hub is followed by the process's exit (shutdownTimeout) and a  *)
(* new process.  Nobody owes a new line, a failure or a shutdown.          *)
Fairness ==
  /\ WF_vars(Signal)
  /\ WF_vars(Pump)
  /\ WF_vars(\E c \in Conns : Connect(c))
  /\ \A c \in Conns : WF_vars(Reader(c)) /\ WF_vars(Handler(c)) /\ WF_vars(Ticker(c))
  /\ WF_vars(hubClosed /\ ServerExits)
  /\ WF_vars(ServerRestarts)

FairSpec == Spec /\ Fairness

-----------------------------------------------------------------------------
(* Every variable holds a value of its kind, on both sides of the wire.    *)
TypeOK ==
  /\ WireTypeOK /\ ClientTypeOK /\ ServerTypeOK
  /\ failures \in Nat /\ exits \in Nat

(* Lines that need no further delivery: some hub has them, or they were    *)
(* given up (overwritten in a full buffer, or skipped over the source cap).*)
Settled == published \cup dropped \cup ignored

(* The ring is a window on the newest lines: its i-th slot from head holds *)
(* exactly the Seq it should, through every wrap, overwrite and trim.      *)
RingIsWindow ==
  \A i \in Positions : ring[Slot(i)] = (nextSeq - count) + 1 + i

(* A line leaves the buffer only when it is settled, whichever connection  *)
(* (the current one or one already abandoned) delivered the ack that freed *)
(* it, and whichever server process sent it.                               *)
ReleasedOnlyIfSettled ==
  \A s \in 1 .. nextSeq : s \notin Buffered => s \in Settled

(* An ack in flight claims every line up to it, so a line that was never   *)
(* published can be lost only by an ack that runs ahead of it.             *)
AckClaimsOnlySettled ==
  \A c \in Conns : \A i \in 1 .. Len(down[c]) : 1 .. down[c][i] \subseteq Settled

(* Redelivery never makes a hub see a line before all older lines of the   *)
(* client are settled: the first copies arrive in the order of the file.   *)
FirstCopiesInOrder ==
  \A s \in published : 1 .. (s - 1) \subseteq Settled

(* Within one connection a line is handed to the hub once, and in order:   *)
(* repeats come only from a later connection.                              *)
NoRepeatOnConnection ==
  \A c \in Conns :
    handler[c] \in Holding => highest[c] < cur[c]

(* The whole of it is a way to keep the promise of AtLeastOnce: each step  *)
(* of the protocol is one of its steps or leaves it unchanged.             *)
Promise == INSTANCE AtLeastOnce WITH
  accepted <- nextSeq, held <- Buffered, delivered <- published,
  lost <- dropped \cup ignored

KeepsPromise == Promise!Spec

(* Every accepted line is settled in the end: no lost wake-up, no stuck    *)
(* ack, no connection that is never replaced.                              *)
Delivered == \A s \in 1 .. MaxSeq : (s <= nextSeq) ~> (s \in Settled)

(* And the buffer lets go of it: in the end only lines skipped over the    *)
(* source cap can still be buffered, waiting for a later line to be acked. *)
Drains == <>[](Buffered \subseteq ignored)

(* ingest.go:20: the cap on distinct sources one client may register.      *)
SourceCapHolds == Cardinality(registered) <= MaxSourcesPerClient
=============================================================================
