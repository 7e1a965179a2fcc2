---------------------------- MODULE EventStream ----------------------------
(***************************************************************************)
(* GET /events: browsers following a Hub over server-sent events           *)
(* (internal/server/server.go and the page's script, web/index.html).      *)
(*                                                                         *)
(* Every stream has a handler goroutine on the server, which outlives the  *)
(* browser's interest in it until it notices; a browser has at most one    *)
(* stream it listens to.  The bytes of a stream are a bounded FIFO: when   *)
(* the browser does not read, the handler blocks in its write and the      *)
(* subscriber's channel fills behind it.  Selecting further files, the     *)
(* scrollback and the display of lines are not part of this module.        *)
(*                                                                         *)
(* missed and joined are history: events already out of the ring when the  *)
(* browser asked, and the server process the page was loaded from.  shown  *)
(* keeps the events of the running process only.                           *)
(***************************************************************************)
EXTENDS Hub

CONSTANTS
  Viewers,       \* browser tabs
  NoStream,      \* no stream
  WireWindow,    \* bound: events in flight on a stream
  MaxEvents,     \* bound: events one server process publishes
  MaxFailures,   \* bound: streams the network breaks
  MaxRestarts    \* bound: server processes that end

ASSUME NoStreamAssumption == NoStream \notin Streams
ASSUME BoundsAssumption ==
  WireWindow \in Nat \ {0} /\ MaxEvents \in Nat /\ MaxFailures \in Nat /\ MaxRestarts \in Nat

VARIABLES
  serverUp,      \* a server process is listening
  handler,       \* handler[c]: "none", "replay" (history) or "live"
  backlog,       \* backlog[c]: history the handler has yet to write
  wire,          \* wire[c]: events on their way to the browser
  ended,         \* ended[c]: the transport failed or one side has left
  es,            \* es[v]: the stream v listens to, or NoStream
  selected,      \* selected[v]: files enabled on the page
  after,         \* after[v]: the ?after= of the page's EventSource
  lastEventId,   \* lastEventId[v]: what that EventSource has received
  lastSeq,       \* lastSeq[v]: the page's replay filter
  shown,         \* shown[v]: events the page took in
  missed, joined,
  epoch,         \* server processes that have ended
  failures

streamVars == <<handler, backlog, wire, ended>>
pageVars == <<es, selected, after, lastEventId, lastSeq, shown, missed, joined>>
runVars == <<serverUp, epoch, failures>>
vars == <<hubVars, streamVars, pageVars, runVars>>

Later(m, n) == IF m > n THEN m ELSE n

Init ==
  /\ HubInit
  /\ serverUp = TRUE /\ epoch = 0 /\ failures = 0
  /\ handler = [c \in Streams |-> "none"]
  /\ backlog = [c \in Streams |-> {}]
  /\ wire = [c \in Streams |-> <<>>]
  /\ ended = [c \in Streams |-> TRUE]
  /\ es = [v \in Viewers |-> NoStream]
  /\ selected \in [Viewers -> SUBSET Files]
  /\ after = [v \in Viewers |-> 0]
  /\ lastEventId = [v \in Viewers |-> 0]
  /\ lastSeq = [v \in Viewers |-> 0]
  /\ shown = [v \in Viewers |-> {}]
  /\ missed = [v \in Viewers |-> {}]
  /\ joined = [v \in Viewers |-> 0]

-----------------------------------------------------------------------------
(* The server.                                                             *)

(* A tailer's line, or a forwarded one, reaches the hub.                   *)
PublishLine ==
  /\ serverUp /\ nextSeq < MaxEvents
  /\ \E f \in Files : Publish(f)
  /\ UNCHANGED <<streamVars, pageVars, runVars>>

(* handleEvents starts: resume after the newer of ?after= and              *)
(* Last-Event-ID, on the selected files.                                   *)
Request(v, c) ==
  /\ serverUp
  /\ es[v] = NoStream /\ selected[v] # {}
  /\ handler[c] = "none" /\ \A w \in Viewers : es[w] # c
  /\ LET from == Later(after[v], lastEventId[v]) IN
     /\ backlog' = [backlog EXCEPT ![c] = History(from, selected[v])]
     /\ missed' = [missed EXCEPT ![v] = @ \cup
                     {n \in (from + 1) .. nextSeq : n \notin Retained}]
  /\ Subscribe(c, selected[v])
  /\ handler' = [handler EXCEPT ![c] = "replay"]
  /\ wire' = [wire EXCEPT ![c] = <<>>]
  /\ ended' = [ended EXCEPT ![c] = FALSE]
  /\ es' = [es EXCEPT ![v] = c]
  /\ UNCHANGED <<selected, after, lastEventId, lastSeq, shown, joined, runVars>>

CanWrite(c) == ~ended[c] /\ Len(wire[c]) < WireWindow

(* The history goes first, oldest event first.                             *)
WriteHistory(c) ==
  /\ handler[c] = "replay"
  /\ CanWrite(c)
  /\ \E n \in backlog[c] :
       /\ \A m \in backlog[c] : n <= m
       /\ wire' = [wire EXCEPT ![c] = Append(@, n)]
       /\ backlog' = [backlog EXCEPT ![c] = @ \ {n}]
  /\ UNCHANGED <<hubVars, handler, ended, pageVars, runVars>>

HistoryWritten(c) ==
  /\ handler[c] = "replay"
  /\ backlog[c] = {}
  /\ handler' = [handler EXCEPT ![c] = "live"]
  /\ UNCHANGED <<hubVars, backlog, wire, ended, pageVars, runVars>>

(* The select, or writeBatch, takes the next event and writes it.          *)
WriteEvent(c) ==
  /\ handler[c] = "live"
  /\ CanWrite(c)
  /\ ch[c] # <<>>
  /\ wire' = [wire EXCEPT ![c] = Append(@, Head(ch[c]))]
  /\ ch' = [ch EXCEPT ![c] = Tail(@)]
  /\ UNCHANGED <<historyVars, subs, chClosed, files, closed, handler, backlog, ended,
                 pageVars, runVars>>

(* The handler returns: the client is gone (request context, or a write    *)
(* that fails, the heartbeat's at the latest), or the channel is closed    *)
(* and drained.  The deferred Close unregisters the subscriber.            *)
HandlerReturns(c) ==
  /\ handler[c] # "none"
  /\ ended[c] \/ (handler[c] = "live" /\ c \in chClosed /\ ch[c] = <<>>)
  /\ Unsubscribe(c)
  /\ handler' = [handler EXCEPT ![c] = "none"]
  /\ backlog' = [backlog EXCEPT ![c] = {}]
  /\ ended' = [ended EXCEPT ![c] = TRUE]
  /\ UNCHANGED <<wire, pageVars, runVars>>

Handler(c) == WriteHistory(c) \/ HistoryWritten(c) \/ WriteEvent(c) \/ HandlerReturns(c)

-----------------------------------------------------------------------------
(* The page.                                                               *)

(* onLine: an event already seen is a replay and is dropped.               *)
OnLine(v) ==
  /\ es[v] # NoStream
  /\ wire[es[v]] # <<>>
  /\ LET n == Head(wire[es[v]]) IN
     /\ lastEventId' = [lastEventId EXCEPT ![v] = n]
     /\ \/ n <= lastSeq[v] /\ UNCHANGED <<lastSeq, shown>>
        \/ /\ n > lastSeq[v]
           /\ lastSeq' = [lastSeq EXCEPT ![v] = n]
           /\ shown' = [shown EXCEPT ![v] = @ \cup {n}]
  /\ wire' = [wire EXCEPT ![es[v]] = Tail(@)]
  /\ UNCHANGED <<hubVars, handler, backlog, ended, es, selected, after, missed, joined, runVars>>

(* The stream breaks or ends; what had not arrived is lost.  EventSource   *)
(* asks again, with the same URL and its Last-Event-ID.                    *)
StreamLost(v) ==
  /\ es[v] # NoStream
  /\ ended[es[v]]
  /\ es' = [es EXCEPT ![v] = NoStream]
  /\ wire' = [wire EXCEPT ![es[v]] = <<>>]
  /\ UNCHANGED <<hubVars, handler, backlog, ended, selected, after, lastEventId, lastSeq,
                 shown, missed, joined, runVars>>

(* connect(): drop the stream, if any, for a new EventSource that resumes  *)
(* after lastSeq.                                                          *)
Reconnect(v) ==
  /\ es' = [es EXCEPT ![v] = NoStream]
  /\ ended' = [c \in Streams |-> c = es[v] \/ ended[c]]
  /\ wire' = [c \in Streams |-> IF c = es[v] THEN <<>> ELSE wire[c]]
  /\ lastEventId' = [lastEventId EXCEPT ![v] = 0]
  /\ UNCHANGED <<handler, backlog>>

(* toggleFile on a selected file: purge its lines and reconnect.           *)
Deselect(v) ==
  /\ \E f \in selected[v] :
       /\ selected' = [selected EXCEPT ![v] = @ \ {f}]
       /\ shown' = [shown EXCEPT ![v] = {n \in @ : events[n] # f}]
  /\ Reconnect(v)
  /\ after' = [after EXCEPT ![v] = lastSeq[v]]
  /\ UNCHANGED <<hubVars, lastSeq, missed, joined, runVars>>

(* The user reloads a page loaded from an earlier process: init with a     *)
(* fresh state and a selection of its own.                                 *)
Reload(v) ==
  /\ serverUp /\ joined[v] # epoch
  /\ joined' = [joined EXCEPT ![v] = epoch]
  /\ \E sel \in SUBSET Files : selected' = [selected EXCEPT ![v] = sel]
  /\ shown' = [shown EXCEPT ![v] = {}]
  /\ missed' = [missed EXCEPT ![v] = {}]
  /\ lastSeq' = [lastSeq EXCEPT ![v] = 0]
  /\ after' = [after EXCEPT ![v] = 0]
  /\ Reconnect(v)
  /\ UNCHANGED <<hubVars, runVars>>

-----------------------------------------------------------------------------
(* Network and process.                                                    *)

NetworkFails(c) ==
  /\ failures < MaxFailures
  /\ handler[c] # "none" /\ ~ended[c]
  /\ ended' = [ended EXCEPT ![c] = TRUE]
  /\ failures' = failures + 1
  /\ UNCHANGED <<hubVars, handler, backlog, wire, pageVars, serverUp, epoch>>

ServerShutsDown ==
  /\ serverUp /\ epoch < MaxRestarts
  /\ Close
  /\ UNCHANGED <<streamVars, pageVars, runVars>>

(* The process is gone, with its hub and its handlers.  Bytes in flight    *)
(* are lost here: had they arrived, they could have arrived just before.   *)
ServerExits ==
  /\ serverUp /\ epoch < MaxRestarts
  /\ serverUp' = FALSE
  /\ epoch' = epoch + 1
  /\ events' = <<>> /\ ring' = [i \in 0 .. (HistorySize - 1) |-> 0] /\ start' = 0 /\ count' = 0
  /\ subs' = {} /\ chClosed' = Streams /\ closed' = FALSE
  /\ ch' = [c \in Streams |-> <<>>] /\ files' = [c \in Streams |-> {}]
  /\ handler' = [c \in Streams |-> "none"]
  /\ backlog' = [c \in Streams |-> {}]
  /\ wire' = [c \in Streams |-> <<>>]
  /\ ended' = [c \in Streams |-> TRUE]
  /\ shown' = [v \in Viewers |-> {}]
  /\ missed' = [v \in Viewers |-> {}]
  /\ UNCHANGED <<es, selected, after, lastEventId, lastSeq, joined, failures>>

ServerRestarts ==
  /\ ~serverUp
  /\ serverUp' = TRUE
  /\ UNCHANGED <<hubVars, streamVars, pageVars, epoch, failures>>

Next ==
  \/ PublishLine \/ ServerShutsDown \/ ServerExits \/ ServerRestarts
  \/ \E c \in Streams : Handler(c) \/ NetworkFails(c)
  \/ \E v \in Viewers :
       OnLine(v) \/ StreamLost(v) \/ Deselect(v) \/ Reload(v) \/ \E c \in Streams : Request(v, c)

Spec == Init /\ [][Next]_vars

(* Handlers run, pages read and EventSource retries; a closed hub is       *)
(* followed by the process's exit and a new one.  Nobody owes a new line,  *)
(* a click, a failure or a shutdown.                                       *)
Fairness ==
  /\ \A c \in Streams : WF_vars(Handler(c))
  /\ \A v \in Viewers :
       /\ WF_vars(OnLine(v)) /\ WF_vars(StreamLost(v))
       /\ WF_vars(\E c \in Streams : Request(v, c))
  /\ WF_vars(closed /\ ServerExits)
  /\ WF_vars(ServerRestarts)

FairSpec == Spec /\ Fairness

-----------------------------------------------------------------------------
(* Every variable holds a value of its kind.                               *)
TypeOK ==
  /\ HubTypeOK
  /\ serverUp \in BOOLEAN /\ epoch \in Nat /\ failures \in Nat
  /\ handler \in [Streams -> {"none", "replay", "live"}]
  /\ backlog \in [Streams -> SUBSET Nat]
  /\ wire \in [Streams -> Seq(Nat)]
  /\ ended \in [Streams -> BOOLEAN]
  /\ es \in [Viewers -> Streams \cup {NoStream}]
  /\ selected \in [Viewers -> SUBSET Files]
  /\ after \in [Viewers -> Nat] /\ lastEventId \in [Viewers -> Nat] /\ lastSeq \in [Viewers -> Nat]
  /\ shown \in [Viewers -> SUBSET Nat] /\ missed \in [Viewers -> SUBSET Nat]
  /\ joined \in [Viewers -> Nat]

(* The history ring holds the newest events, oldest first from start,      *)
(* through every wrap, and as many as it has room for.                     *)
HistoryIsWindow ==
  /\ count = IF nextSeq < HistorySize THEN nextSeq ELSE HistorySize
  /\ \A i \in 0 .. (count - 1) : ring[Slot(i)] = (nextSeq - count) + 1 + i

(* A registered subscriber has an open channel and a handler that will     *)
(* unregister it; a running handler without a registered subscriber has a  *)
(* closed channel to tell it so.  (Otherwise Publish would send on a       *)
(* closed channel, or a handler would wait for ever.)                      *)
SubscribersServed ==
  \A c \in Streams :
    /\ c \in subs => c \notin chClosed /\ handler[c] # "none"
    /\ handler[c] # "none" /\ c \notin subs => c \in chClosed

(* A page never passes over an event of a selected file: whatever is older *)
(* than the newest event it took in was shown too, unless the event had    *)
(* left the history before the page asked for it.                          *)
NoSilentGap ==
  \A v \in Viewers : joined[v] = epoch =>
    \A n \in 1 .. lastSeq[v] : events[n] \in selected[v] => n \in shown[v] \cup missed[v]

Present == {v \in Viewers : joined[v] = epoch}

(* Hub, handlers and pages together are a way to keep the promise of       *)
(* ViewerFeed.                                                             *)
Feed == INSTANCE ViewerFeed WITH
  feed <- events, present <- Present, wanted <- selected,
  shown <- [v \in Viewers |-> IF v \in Present THEN shown[v] ELSE {}],
  missed <- [v \in Viewers |-> IF v \in Present THEN missed[v] ELSE {}]

KeepsFeed == Feed!Spec

UpToDate(v) == \A n \in Retained : events[n] \in selected[v] => n \in shown[v]

(* However often a page is evicted, cut off or deselects, it ends up       *)
(* showing all the history retains of its files.                           *)
CatchesUp == <>[](\A v \in Present : UpToDate(v))

(* README: the browser reconnects and resumes where it left off.  Also     *)
(* across a restart of the server, for a page loaded before it.            *)
ResumesAfterRestart == <>[](\A v \in Viewers : UpToDate(v))

(* A handler whose browser has gone away ends and gives up its subscriber. *)
AbandonedStreamsEnd ==
  \A c \in Streams : (\A v \in Viewers : es[v] # c) ~> (c \notin subs \/ \E v \in Viewers : es[v] = c)
=============================================================================
