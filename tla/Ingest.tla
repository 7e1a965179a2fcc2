------------------------------- MODULE Ingest -------------------------------
(***************************************************************************)
(* internal/server/ingest.go: the server's side of forwarding.             *)
(*                                                                         *)
(* Every connection has a handler goroutine (scan the body, register the   *)
(* source, publish into the hub, remember the highest Seq) and a ticker    *)
(* goroutine that acks that Seq.  Handlers of one client's old and new     *)
(* connections run side by side and share the registry.  Registry, hub and *)
(* highestSeq are separate critical sections, so they are separate steps.  *)
(* One forwarding client is modelled; its credential is checked at Dial.   *)
(*                                                                         *)
(* published and ignored are history: the lines any server process so far  *)
(* handed to its hub, and the lines skipped because of the source cap.     *)
(***************************************************************************)
EXTENDS IngestWire, FiniteSets

CONSTANTS
  MaxSourcesPerClient,   \* maxSourcesPerClient
  AckWindow              \* bound: acks in flight per connection

ASSUME CapAssumption == MaxSourcesPerClient \in Nat /\ AckWindow \in Nat \ {0}

VARIABLES
  serverUp,      \* a server process is listening
  hubClosed,     \* its hub has been closed by an orderly shutdown
  registered,    \* sources of this client in the registry
  forwardCount,  \* forwardCounts[client]
  published,     \* lines accepted by a hub
  ignored,       \* lines skipped over the source cap
  handler,       \* handler[c]: where c's handler goroutine is
  cur,           \* cur[c]: the line in that goroutine's hands, or 0
  highest,       \* highest[c]: highestSeq
  allowed        \* allowed[c]: sources this connection may publish under

serverVars == <<serverUp, hubClosed, registered, forwardCount, published,
                ignored, handler, cur, highest, allowed>>
registryVars == <<registered, forwardCount>>
historyVars == <<published, ignored>>
processVars == <<serverUp, hubClosed>>

(* The handler goroutine's stages between taking a line and storing it.    *)
Registering == {"cap", "register", "bump"}
Holding == Registering \cup {"publish", "store"}

ServerTypeOK ==
  /\ serverUp \in BOOLEAN
  /\ hubClosed \in BOOLEAN
  /\ forwardCount \in Nat
  /\ published \subseteq Nat
  /\ ignored \subseteq Nat
  /\ handler \in [Conns -> {"none", "scan"} \cup Holding]
  /\ cur \in [Conns -> Nat]
  /\ highest \in [Conns -> Nat]

ServerInit ==
  /\ serverUp = TRUE
  /\ hubClosed = FALSE
  /\ registered = {} /\ forwardCount = 0
  /\ published = {} /\ ignored = {}
  /\ handler = [c \in Conns |-> "none"]
  /\ cur = [c \in Conns |-> 0]
  /\ highest = [c \in Conns |-> 0]
  /\ allowed = [c \in Conns |-> {}]

-----------------------------------------------------------------------------
(* A handler starts with its request.                                      *)
StartHandler(c) ==
  /\ serverUp
  /\ handler[c] = "none"
  /\ handler' = [handler EXCEPT ![c] = "scan"]
  /\ UNCHANGED <<processVars, registryVars, historyVars, cur, highest, allowed>>

(* The handler returns: end of body, read error, a line too long for the   *)
(* scanner, or a closed hub.  The deferred close waits for the ack ticker, *)
(* so no ack follows, not even for the lines already published; the unread *)
(* body and the handler's own variables are gone.                          *)
Return(c) ==
  /\ handler' = [handler EXCEPT ![c] = "none"]
  /\ cur' = [cur EXCEPT ![c] = 0]
  /\ highest' = [highest EXCEPT ![c] = 0]
  /\ allowed' = [allowed EXCEPT ![c] = {}]
  /\ up' = [up EXCEPT ![c] = <<>>]
  /\ BreakWire(c)
  /\ UNCHANGED <<processVars, registryVars, historyVars, down, line>>

(* The scanner yields the next line: its source is already allowed on this *)
(* connection, already in the registry (lookupID), or new.                 *)
ScanLine(c) ==
  /\ handler[c] = "scan"
  /\ up[c] # <<>>
  /\ LET s == Head(up[c]) IN
     /\ ~line[s].wide
     /\ cur' = [cur EXCEPT ![c] = s]
     /\ \/ /\ line[s].source \in allowed[c]
           /\ handler' = [handler EXCEPT ![c] = "publish"]
        \/ /\ line[s].source \notin allowed[c]
           /\ line[s].source \in registered
           /\ handler' = [handler EXCEPT ![c] = "register"]
        \/ /\ line[s].source \notin allowed[c]
           /\ line[s].source \notin registered
           /\ handler' = [handler EXCEPT ![c] = "cap"]
  /\ up' = [up EXCEPT ![c] = Tail(@)]
  /\ UNCHANGED <<processVars, registryVars, historyVars, highest, allowed, down, broken, line>>

(* The scanner meets a line longer than its buffer: Scan returns false.    *)
ScanTooLong(c) ==
  /\ handler[c] = "scan"
  /\ up[c] # <<>>
  /\ line[Head(up[c])].wide
  /\ Return(c)

(* The body ended or failed.  Lines in flight when the connection broke    *)
(* may still be scanned first, or never arrive.                            *)
ScanEnds(c) ==
  /\ handler[c] = "scan"
  /\ broken[c]
  /\ Return(c)

(* countForwarded for a source not in the registry: over the cap the line  *)
(* is skipped and highestSeq stays.                                        *)
CheckCap(c) ==
  /\ handler[c] = "cap"
  /\ \/ /\ forwardCount >= MaxSourcesPerClient
        /\ handler' = [handler EXCEPT ![c] = "scan"]
        /\ ignored' = ignored \cup {cur[c]}
        /\ cur' = [cur EXCEPT ![c] = 0]
     \/ /\ forwardCount < MaxSourcesPerClient
        /\ handler' = [handler EXCEPT ![c] = "register"]
        /\ UNCHANGED <<ignored, cur>>
  /\ UNCHANGED <<processVars, registryVars, published, highest, allowed, wireVars, line>>

(* registry.register: only the first registration of a source is counted,  *)
(* and it is counted under a second lock.                                  *)
Register(c) ==
  /\ handler[c] = "register"
  /\ handler' = [handler EXCEPT ![c] =
                   IF line[cur[c]].source \in registered THEN "publish" ELSE "bump"]
  /\ registered' = registered \cup {line[cur[c]].source}
  /\ allowed' = [allowed EXCEPT ![c] = @ \cup {line[cur[c]].source}]
  /\ UNCHANGED <<processVars, forwardCount, historyVars, cur, highest, wireVars, line>>

CountSource(c) ==
  /\ handler[c] = "bump"
  /\ forwardCount' = forwardCount + 1
  /\ handler' = [handler EXCEPT ![c] = "publish"]
  /\ UNCHANGED <<processVars, registered, historyVars, cur, highest, allowed, wireVars, line>>

(* A slip: the result of hub.Publish is ignored.                           *)
PublishUnchecked(c) ==
  /\ handler[c] = "publish"
  /\ published' = IF hubClosed THEN published ELSE published \cup {cur[c]}
  /\ handler' = [handler EXCEPT ![c] = "store"]
  /\ UNCHANGED <<processVars, registryVars, ignored, cur, highest, allowed, wireVars, line>>

(* hub.Publish accepted the line.                                          *)
Publish(c) ==
  /\ handler[c] = "publish"
  /\ ~hubClosed
  /\ published' = published \cup {cur[c]}
  /\ handler' = [handler EXCEPT ![c] = "store"]
  /\ UNCHANGED <<processVars, registryVars, ignored, cur, highest, allowed, wireVars, line>>

(* hub.Publish refused it: the connection ends without acking the line.    *)
PublishRefused(c) ==
  /\ handler[c] = "publish"
  /\ hubClosed
  /\ Return(c)

StoreSeq(c) ==
  /\ handler[c] = "store"
  /\ highest' = [highest EXCEPT ![c] = IF cur[c] > @ THEN cur[c] ELSE @]
  /\ handler' = [handler EXCEPT ![c] = "scan"]
  /\ cur' = [cur EXCEPT ![c] = 0]
  /\ UNCHANGED <<processVars, registryVars, historyVars, allowed, wireVars, line>>

(* A slip: the line in the handler's hands is acked before it is stored.   *)
SendAckEarly(c) ==
  /\ handler[c] # "none"
  /\ ~broken[c]
  /\ Len(down[c]) < AckWindow
  /\ down' = [down EXCEPT ![c] = Append(@, IF cur[c] > 0 THEN cur[c] ELSE highest[c])]
  /\ UNCHANGED <<serverVars, up, broken, line>>

(* The ticker goroutine acks what highestSeq holds at that moment.         *)
SendAck(c) ==
  /\ handler[c] # "none"
  /\ ~broken[c]
  /\ Len(down[c]) < AckWindow
  /\ down' = [down EXCEPT ![c] = Append(@, highest[c])]
  /\ UNCHANGED <<serverVars, up, broken, line>>

-----------------------------------------------------------------------------
(* The server process.                                                     *)

(* Orderly shutdown closes the hub first.                                  *)
Shutdown ==
  /\ serverUp
  /\ ~hubClosed
  /\ hubClosed' = TRUE
  /\ UNCHANGED <<serverUp, registryVars, historyVars, handler, cur, highest, allowed, wireVars, line>>

(* The process is gone, and everything it kept in memory with it: its      *)
(* goroutines, registry, hub and connections.                              *)
Exit ==
  /\ serverUp
  /\ serverUp' = FALSE
  /\ handler' = [c \in Conns |-> "none"]
  /\ cur' = [c \in Conns |-> 0]
  /\ highest' = [c \in Conns |-> 0]
  /\ allowed' = [c \in Conns |-> {}]
  /\ registered' = {} /\ forwardCount' = 0
  /\ hubClosed' = FALSE
  /\ up' = [c \in Conns |-> <<>>]
  /\ broken' = [c \in Conns |-> TRUE]
  /\ UNCHANGED <<historyVars, down, line>>

(* The next process starts afresh.                                         *)
Restart ==
  /\ ~serverUp
  /\ serverUp' = TRUE
  /\ UNCHANGED <<hubClosed, registryVars, historyVars, handler, cur, highest, allowed, wireVars, line>>
=============================================================================
