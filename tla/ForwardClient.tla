--------------------------- MODULE ForwardClient ---------------------------
(***************************************************************************)
(* internal/forward: the client that pushes tailed lines to a server.      *)
(*                                                                         *)
(* Threads: the publisher goroutine of main.go calls Enqueue; Run's        *)
(* goroutine connects and then is the only writer of the request body; one *)
(* ack-reader goroutine per connection trims the retry buffer, and the     *)
(* reader of an abandoned connection may still run beside its successor.   *)
(* The retry buffer is the ring guarded by Client.mu; each critical        *)
(* section is one step here.                                               *)
(*                                                                         *)
(* Logging and status fields (sent, dropping, connected, lastErr) guide no *)
(* step and are left out; "dropped" is the set the counter of that name    *)
(* counts.                                                                 *)
(***************************************************************************)
EXTENDS IngestWire, FiniteSets

CONSTANTS
  BufferLines,   \* capacity of the retry buffer (Options.BufferLines)
  NoConn         \* no connection

ASSUME BufferAssumption == BufferLines \in Nat \ {0}
ASSUME NoConnAssumption == NoConn \notin Conns

VARIABLES
  ring, head, count,   \* retry buffer; ring[Slot(0)] is the oldest of count
  nextSeq,             \* Seq of the newest accepted line
  dropped,             \* lines overwritten before they were acknowledged
  enq,                 \* publisher goroutine: "idle", or "wake" inside Enqueue
  wake,                \* the one-slot wake channel holds a token
  conn,                \* connection Run is pumping, or NoConn
  pump,                \* Run: "dial", "snapshot", "write" or "wait"
  pending,             \* lines snapshotted and not yet written, by Seq
  sentUpTo,            \* highest Seq snapshotted on this connection
  reader               \* reader[c]: an ack reader of c is running

clientVars == <<ring, head, count, nextSeq, dropped, enq, wake, conn, pump,
                pending, sentUpTo, reader>>

ringVars == <<ring, head, count, nextSeq, dropped>>
pumpVars == <<conn, pump, pending, sentUpTo>>

(* The ring slot of the i-th oldest buffered line, counting from 0.        *)
Slot(i) == (head + i) % BufferLines

Positions == 0 .. (count - 1)

Buffered == {ring[Slot(i)] : i \in Positions}

ClientTypeOK ==
  /\ ring \in [0 .. (BufferLines - 1) -> Nat]
  /\ head \in 0 .. (BufferLines - 1)
  /\ count \in 0 .. BufferLines
  /\ nextSeq \in Nat
  /\ dropped \subseteq 1 .. nextSeq
  /\ Len(line) = nextSeq
  /\ enq \in {"idle", "wake"}
  /\ wake \in BOOLEAN
  /\ conn \in Conns \cup {NoConn}
  /\ pump \in {"dial", "snapshot", "write", "wait"}
  /\ pending \subseteq 1 .. sentUpTo
  /\ sentUpTo \in 0 .. nextSeq
  /\ reader \in [Conns -> BOOLEAN]

ClientInit ==
  /\ ring = [i \in 0 .. (BufferLines - 1) |-> 0]
  /\ head = 0 /\ count = 0 /\ nextSeq = 0
  /\ dropped = {}
  /\ enq = "idle"
  /\ wake = FALSE
  /\ conn = NoConn /\ pump = "dial" /\ pending = {} /\ sentUpTo = 0
  /\ reader = [c \in Conns |-> FALSE]

-----------------------------------------------------------------------------
(* The publisher goroutine.                                                *)

(* Slips a change to Enqueue could make, kept to test the properties: no   *)
(* check for a full buffer, and a head left behind by an overwrite.        *)
EnqueueUnchecked(l) ==
  /\ enq = "idle"
  /\ nextSeq' = nextSeq + 1
  /\ line' = Append(line, l)
  /\ ring' = [ring EXCEPT ![Slot(count)] = nextSeq + 1]
  /\ count' = count + 1
  /\ enq' = "wake"
  /\ UNCHANGED <<head, dropped, wake, pumpVars, reader, wireVars>>

EnqueueKeepsHead(l) ==
  /\ enq = "idle"
  /\ nextSeq' = nextSeq + 1
  /\ line' = Append(line, l)
  /\ ring' = [ring EXCEPT ![Slot(count)] = nextSeq + 1]
  /\ \/ count < BufferLines /\ count' = count + 1 /\ UNCHANGED dropped
     \/ count = BufferLines /\ dropped' = dropped \cup {ring[head]} /\ UNCHANGED count
  /\ enq' = "wake"
  /\ UNCHANGED <<head, wake, pumpVars, reader, wireVars>>

(* Enqueue under the lock: a full buffer gives up its oldest line.         *)
Enqueue(l) ==
  /\ enq = "idle"
  /\ nextSeq' = nextSeq + 1
  /\ line' = Append(line, l)
  /\ \/ /\ count < BufferLines
        /\ ring' = [ring EXCEPT ![Slot(count)] = nextSeq + 1]
        /\ count' = count + 1
        /\ UNCHANGED <<head, dropped>>
     \/ /\ count = BufferLines
        /\ ring' = [ring EXCEPT ![head] = nextSeq + 1]
        /\ head' = Slot(1)
        /\ dropped' = dropped \cup {ring[head]}
        /\ UNCHANGED count
  /\ enq' = "wake"
  /\ UNCHANGED <<wake, pumpVars, reader, wireVars>>

(* A slip: the token is never put on the channel.                          *)
SignalWakeLost ==
  /\ enq = "wake"
  /\ enq' = "idle"
  /\ UNCHANGED <<wake, ringVars, pumpVars, reader, wireVars, line>>

(* Enqueue's non-blocking send on the wake channel, after the unlock.      *)
SignalWake ==
  /\ enq = "wake"
  /\ enq' = "idle"
  /\ wake' = TRUE
  /\ UNCHANGED <<ringVars, pumpVars, reader, wireVars, line>>

-----------------------------------------------------------------------------
(* Run and connectAndPump.                                                 *)

(* A dial that succeeds: preflight, POST and the 200 header.  The ack      *)
(* reader of the connection starts with it.  Nothing may still be using    *)
(* the name c.                                                             *)
Dial(c) ==
  /\ pump = "dial"
  /\ ~reader[c]
  /\ conn' = c
  /\ pump' = "snapshot"
  /\ reader' = [reader EXCEPT ![c] = TRUE]
  /\ UNCHANGED <<ringVars, enq, wake, pending, sentUpTo>>

(* A slip: the snapshot forgets what the connection has already taken.     *)
SnapshotAll ==
  /\ pump = "snapshot"
  /\ pending' = Buffered
  /\ sentUpTo' = IF Buffered = {} THEN sentUpTo ELSE nextSeq
  /\ pump' = "write"
  /\ UNCHANGED <<ringVars, enq, wake, conn, reader, wireVars, line>>

(* The top of the pump loop: everything buffered that this connection has  *)
(* not taken yet, in one critical section.                                 *)
Snapshot ==
  /\ pump = "snapshot"
  /\ LET fresh == {s \in Buffered : s > sentUpTo} IN
     /\ pending' = fresh
     /\ \/ fresh = {} /\ UNCHANGED sentUpTo
        \/ \E newest \in fresh :
              /\ \A s \in fresh : s <= newest
              /\ sentUpTo' = newest
  /\ pump' = "write"
  /\ UNCHANGED <<ringVars, enq, wake, conn, reader, wireVars, line>>

(* A slip: newest first.                                                   *)
WriteNewest ==
  /\ pump = "write"
  /\ ~broken[conn]
  /\ \E s \in pending :
        /\ \A t \in pending : s >= t
        /\ up' = [up EXCEPT ![conn] = Append(@, s)]
        /\ pending' = pending \ {s}
  /\ UNCHANGED <<ringVars, enq, wake, conn, pump, sentUpTo, reader, down, broken, line>>

(* One Encode: the oldest pending line goes on the wire.                   *)
WriteLine ==
  /\ pump = "write"
  /\ ~broken[conn]
  /\ \E s \in pending :
        /\ \A t \in pending : s <= t
        /\ up' = [up EXCEPT ![conn] = Append(@, s)]
        /\ pending' = pending \ {s}
  /\ UNCHANGED <<ringVars, enq, wake, conn, pump, sentUpTo, reader, down, broken, line>>

(* Nothing left to write: block in the select.                             *)
BeginWait ==
  /\ pump = "write"
  /\ pending = {}
  /\ pump' = "wait"
  /\ UNCHANGED <<ringVars, enq, wake, conn, pending, sentUpTo, reader, wireVars, line>>

(* The select receives from the wake channel, which empties it.            *)
WakeUp ==
  /\ pump = "wait"
  /\ wake
  /\ wake' = FALSE
  /\ pump' = "snapshot"
  /\ UNCHANGED <<ringVars, enq, conn, pending, sentUpTo, reader, wireVars, line>>

(* A slip: the next connection believes this one's lines were delivered.   *)
StreamEndedKeepsSent ==
  /\ pump \in {"write", "wait"}
  /\ broken[conn]
  /\ conn' = NoConn
  /\ pump' = "dial"
  /\ pending' = {}
  /\ UNCHANGED <<ringVars, enq, wake, sentUpTo, reader, wireVars, line>>

(* The pump returns: a write failed, the ack reader reported its end, or   *)
(* the watchdog cancelled the request because no ack came for ackTimeout.  *)
(* Run then waits out its backoff and dials again.                         *)
StreamEnded ==
  /\ pump \in {"write", "wait"}
  /\ broken[conn]
  /\ conn' = NoConn
  /\ pump' = "dial"
  /\ pending' = {} /\ sentUpTo' = 0
  /\ UNCHANGED <<ringVars, enq, wake, reader, wireVars, line>>

-----------------------------------------------------------------------------
(* Ack readers.                                                            *)

(* A slip: the acknowledged line itself is kept.                           *)
TrimBelow(ack) ==
  \E k \in 0 .. count :
    /\ \A i \in 0 .. (k - 1) : ring[Slot(i)] < ack
    /\ k < count => ring[Slot(k)] >= ack
    /\ ring' = [x \in DOMAIN ring |->
                  IF \E i \in 0 .. (k - 1) : x = Slot(i) THEN 0 ELSE ring[x]]
    /\ head' = Slot(k)
    /\ count' = count - k
    /\ UNCHANGED <<nextSeq, dropped>>

(* trimAcked: free the slots of the oldest lines, up to the acked Seq.     *)
TrimAcked(ack) ==
  \E k \in 0 .. count :
    /\ \A i \in 0 .. (k - 1) : ring[Slot(i)] <= ack
    /\ k < count => ring[Slot(k)] > ack
    /\ ring' = [x \in DOMAIN ring |->
                  IF \E i \in 0 .. (k - 1) : x = Slot(i) THEN 0 ELSE ring[x]]
    /\ head' = Slot(k)
    /\ count' = count - k
    /\ UNCHANGED <<nextSeq, dropped>>

(* One decoded ack, on the current connection or on an abandoned one.      *)
ReceiveAck(c) ==
  /\ reader[c]
  /\ down[c] # <<>>
  /\ TrimAcked(Head(down[c]))
  /\ down' = [down EXCEPT ![c] = Tail(@)]
  /\ UNCHANGED <<enq, wake, pumpVars, reader, up, broken, line>>

(* Decode fails: end of the response body, or a cancelled request.  Acks   *)
(* not read by then are lost.                                              *)
ReaderEnds(c) ==
  /\ reader[c]
  /\ broken[c]
  /\ reader' = [reader EXCEPT ![c] = FALSE]
  /\ down' = [down EXCEPT ![c] = <<>>]
  /\ UNCHANGED <<ringVars, enq, wake, pumpVars, up, broken, line>>
=============================================================================
