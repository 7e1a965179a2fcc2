----------------------------- MODULE IngestWire -----------------------------
(***************************************************************************)
(* One full-duplex POST /ingest connection between a forwarding client and *)
(* a server (net/http, code outside src/: modelled from the way            *)
(* internal/forward and internal/server/ingest.go use it).  The request    *)
(* body carries log lines up, the response body carries acks down; both    *)
(* are FIFO byte streams, and a broken connection loses what is in flight. *)
(*                                                                         *)
(* Conns names connections that exist at the same time: an old connection  *)
(* outlives its replacement until the server's handler and the client's    *)
(* ack reader have both left it, and only then is its name used again.     *)
(*                                                                         *)
(* On the wire a line is its Seq.  Its source, and whether its JSON        *)
(* encoding outgrows the server's line limit, are kept in "line", written  *)
(* once when the client accepts the line and never changed.                *)
(***************************************************************************)
EXTENDS Naturals, Sequences

CONSTANTS
  Conns,      \* names of coexisting connections
  Sources,    \* display names of the sources the client tails
  Widths      \* widths its lines may have: TRUE outgrows MaxLineBytes on the wire

ASSUME WidthsAssumption == Widths \subseteq BOOLEAN

VARIABLES
  line,     \* line[n]: what the line with Seq n says, as far as it matters here
  up,       \* up[c]:   lines on their way to the server (their Seq)
  down,     \* down[c]: acks on their way to the client
  broken    \* broken[c]: the transport failed, or one endpoint has left

wireVars == <<up, down, broken>>

Lines == [source : Sources, wide : Widths]

WireTypeOK ==
  /\ line \in Seq(Lines)
  /\ up \in [Conns -> Seq(Nat)]
  /\ down \in [Conns -> Seq(Nat)]
  /\ broken \in [Conns -> BOOLEAN]

WireInit ==
  /\ line = <<>>
  /\ up = [c \in Conns |-> <<>>]
  /\ down = [c \in Conns |-> <<>>]
  /\ broken = [c \in Conns |-> FALSE]

(* A new request on the name c: empty bodies in both directions.           *)
OpenWire(c) ==
  /\ up' = [up EXCEPT ![c] = <<>>]
  /\ down' = [down EXCEPT ![c] = <<>>]
  /\ broken' = [broken EXCEPT ![c] = FALSE]

(* The transport fails, or an endpoint closes it.  What was in flight may  *)
(* still be read or be lost; each side notices when it next touches the    *)
(* connection.                                                             *)
BreakWire(c) == broken' = [broken EXCEPT ![c] = TRUE]
=============================================================================
