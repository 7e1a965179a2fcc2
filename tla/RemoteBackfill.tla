--------------------------- MODULE RemoteBackfill ---------------------------
(***************************************************************************)
(* Scrollback of forwarded files: a page asks /api/before, whose handler   *)
(* relays the request over the live /ingest connection; the client reads   *)
(* its disk and answers in chunks on the same connection                   *)
(* (server/backfill.go, server/ingest.go, forward/forward.go).             *)
(*                                                                         *)
(* The connections are those of IngestWire; lines and acks share them with *)
(* requests and chunks, each direction in order, and are left out.  A      *)
(* viewer is one page scrolling one file.  torn and spoiled are history:   *)
(* pages that were cleared while a request was under way, and requests     *)
(* whose chunks were lost, dropped, overtaken on a newer connection, or    *)
(* mixed with one that answers another process's request.                  *)
(***************************************************************************)
EXTENDS Backfill

CONSTANTS
  Viewers,
  Contents,      \* what the viewers' files may hold below the live lines
  Conns, NoConn,
  PageLines,     \* lines one request asks for (OLDER_PAGE)
  ChunkLines,    \* lines that fill a chunk's budget
  ReqQueue,      \* requests queued on a connection (cap of reqCh)
  ChunkQueue,    \* chunks queued for a waiting request (cap of its channel)
  MaxRequests, MaxFailures, MaxRestarts, MaxResets    \* bounds

ASSUME NoConnAssumption == NoConn \notin Conns
ASSUME SizesAssumption ==
  /\ PageLines \in Nat \ {0} /\ ChunkLines \in Nat \ {0}
  /\ ReqQueue \in Nat \ {0} /\ ChunkQueue \in Nat \ {0}
ASSUME BoundsAssumption ==
  /\ MaxRequests \in Nat /\ MaxFailures \in Nat /\ MaxRestarts \in Nat /\ MaxResets \in Nat

(* The live view begins where a line begins, not at a piece of a long one. *)
ASSUME ContentsAssumption ==
  \A c \in Contents : c \in Seq({"text", "newline"}) /\ StartsLine(c, Len(c))

VARIABLES
  content,                    \* content[v]: the file v scrolls, below its live lines
  lowest, done, shown,        \* olderLowest, olderDone and the older lines on the page
  startShown,                 \* the page says that its first line is the file's first
  asking,                     \* asking[v]: "no", "routed" (connection found) or "waiting"
  before,                     \* the offset the page asks about
  via, id, got, gotStart,     \* requestRemoteBackfill's conn, id, lines, atStart
  chunks,                     \* chunks[v]: the channel pending[id[v]]
  conns,                      \* conns[client]
  handler, reqCh,             \* of a connection's ingest handler
  reqID,
  down, up, broken,           \* the connection
  current,                    \* the connection the client's pump uses
  pump, taken,                \* pump's place, and the chunks it has taken
  wake, respQueue,
  jobs,                       \* handleBackfillReq goroutines
  torn, spoiled,
  epoch, failures, resets

pageVars == <<lowest, done, shown, startShown>>
askVars == <<asking, before, via, id, got, gotStart, chunks>>
serverVars == <<conns, handler, reqCh, reqID>>
wireVars == <<down, up, broken>>
clientVars == <<current, pump, taken, wake, respQueue, jobs>>
historyVars == <<torn, spoiled>>
boundVars == <<epoch, failures, resets>>
vars == <<content, pageVars, askVars, serverVars, wireVars, clientVars, historyVars, boundVars>>

Live(v) == Len(content[v])

LowestOf(S) == CHOOSE o \in S : \A p \in S : o <= p

Init ==
  /\ content \in [Viewers -> Contents]
  /\ lowest = [v \in Viewers |-> Live(v)]
  /\ done = [v \in Viewers |-> FALSE]
  /\ shown = [v \in Viewers |-> {}]
  /\ startShown = {}
  /\ asking = [v \in Viewers |-> "no"]
  /\ before = [v \in Viewers |-> 0]
  /\ via = [v \in Viewers |-> NoConn]
  /\ id = [v \in Viewers |-> 0]
  /\ got = [v \in Viewers |-> {}]
  /\ gotStart = [v \in Viewers |-> FALSE]
  /\ chunks = [v \in Viewers |-> <<>>]
  /\ conns = NoConn
  /\ handler = [c \in Conns |-> "none"]
  /\ reqCh = [c \in Conns |-> <<>>]
  /\ reqID = 0
  /\ down = [c \in Conns |-> <<>>] /\ up = [c \in Conns |-> <<>>]
  /\ broken = [c \in Conns |-> FALSE]
  /\ current = NoConn
  /\ pump = "off" /\ taken = <<>>
  /\ wake = FALSE /\ respQueue = <<>>
  /\ jobs = {}
  /\ torn = {} /\ spoiled = {}
  /\ epoch = 0 /\ failures = 0 /\ resets = 0

-----------------------------------------------------------------------------
(* The page and the handler of its request.                                *)

(* A slip: the pending entries stay.                                       *)
ForgetKeepsPending(S) ==
  LET Reset(f, x) == [v \in Viewers |-> IF v \in S THEN x ELSE f[v]] IN
  /\ asking' = Reset(asking, "no")
  /\ before' = Reset(before, 0)
  /\ via' = Reset(via, NoConn)
  /\ got' = Reset(got, {})
  /\ gotStart' = Reset(gotStart, FALSE)
  /\ UNCHANGED <<id, chunks>>

(* The requests of S are over; their entries in pending go with them.      *)
Forget(S) ==
  LET Reset(f, x) == [v \in Viewers |-> IF v \in S THEN x ELSE f[v]] IN
  /\ asking' = Reset(asking, "no")
  /\ before' = Reset(before, 0)
  /\ via' = Reset(via, NoConn)
  /\ id' = Reset(id, 0)
  /\ got' = Reset(got, {})
  /\ gotStart' = Reset(gotStart, FALSE)
  /\ chunks' = Reset(chunks, <<>>)

(* Any failure is answered with an empty page "at the start": to the page  *)
(* this file has no further history.                                       *)
NoFurtherHistory(S) ==
  /\ Forget(S)
  /\ done' = [v \in Viewers |-> done[v] \/ v \in S]
  /\ UNCHANGED <<lowest, shown, startShown>>

(* fetchOlder asks, one request at a time (loadingOlder); the handler      *)
(* looks the client's connection up.                                       *)
FindConn(v) ==
  /\ asking[v] = "no" /\ ~done[v]
  /\ \/ conns = NoConn /\ NoFurtherHistory({v})
     \/ /\ conns # NoConn
        /\ asking' = [asking EXCEPT ![v] = "routed"]
        /\ before' = [before EXCEPT ![v] = lowest[v]]
        /\ via' = [via EXCEPT ![v] = conns]
        /\ UNCHANGED <<id, got, gotStart, chunks, pageVars>>
  /\ UNCHANGED <<content, serverVars, wireVars, clientVars, historyVars, boundVars>>

(* The request gets its id, its channel and, unless the connection's queue *)
(* is full, a place in that queue.                                         *)
SendRequest(v) ==
  /\ asking[v] = "routed" /\ reqID < MaxRequests
  /\ reqID' = reqID + 1
  /\ \/ /\ Len(reqCh[via[v]]) < ReqQueue
        /\ reqCh' = [reqCh EXCEPT ![via[v]] = Append(@, [id |-> reqID', epoch |-> epoch,
                                                         viewer |-> v, before |-> before[v]])]
        /\ asking' = [asking EXCEPT ![v] = "waiting"]
        /\ id' = [id EXCEPT ![v] = reqID']
        /\ UNCHANGED <<before, via, got, gotStart, chunks, pageVars>>
     \/ /\ Len(reqCh[via[v]]) >= ReqQueue
        /\ NoFurtherHistory({v})
        /\ UNCHANGED reqCh
  /\ spoiled' = spoiled \ {v}
  /\ UNCHANGED <<content, conns, handler, wireVars, clientVars, torn, boundVars>>

(* One chunk from the channel.  A final one completes the page; a page     *)
(* without lines says that there are no more.                              *)
Collect(v) ==
  /\ asking[v] = "waiting" /\ chunks[v] # <<>>
  /\ LET r == Head(chunks[v])
         lines == got[v] \cup r.lines
         start == gotStart[v] \/ r.atStart
     IN \/ /\ r.err \/ (r.final /\ lines = {})
           /\ NoFurtherHistory({v})
           /\ UNCHANGED torn
        \/ /\ ~r.err /\ ~r.final
           /\ got' = [got EXCEPT ![v] = lines]
           /\ gotStart' = [gotStart EXCEPT ![v] = start]
           /\ chunks' = [chunks EXCEPT ![v] = Tail(@)]
           /\ UNCHANGED <<asking, before, via, id, pageVars, torn>>
        \/ /\ ~r.err /\ r.final /\ lines # {}
           /\ Forget({v})
           /\ lowest' = [lowest EXCEPT ![v] = LowestOf(lines)]
           /\ shown' = [shown EXCEPT ![v] = @ \cup lines]
           /\ done' = [done EXCEPT ![v] = start]
           /\ startShown' = IF start THEN startShown \cup {v} ELSE startShown
           /\ torn' = torn \cup (spoiled \cap {v})
  /\ UNCHANGED <<content, serverVars, wireVars, clientVars, spoiled, boundVars>>

(* remoteBackfillTimeout passes first, or the browser gives up.            *)
Timeout(v) ==
  /\ asking[v] = "waiting"
  /\ NoFurtherHistory({v})
  /\ UNCHANGED <<content, serverVars, wireVars, clientVars, historyVars, boundVars>>

(* clearOlder: the filter changes, or the page jumps to the latest lines,  *)
(* whether or not a page of older ones is under way.                       *)
ClearOlder(v) ==
  /\ shown[v] # {} /\ resets < MaxResets
  /\ resets' = resets + 1
  /\ shown' = [shown EXCEPT ![v] = {}]
  /\ lowest' = [lowest EXCEPT ![v] = Live(v)]
  /\ done' = [done EXCEPT ![v] = FALSE]
  /\ startShown' = startShown \ {v}
  /\ torn' = IF asking[v] = "no" THEN torn \ {v} ELSE torn \cup {v}
  /\ UNCHANGED <<content, askVars, serverVars, wireVars, clientVars, spoiled, epoch, failures>>

-----------------------------------------------------------------------------
(* The server's end of a connection.                                       *)

(* A dial that succeeds: the handler has flushed its header, which is all  *)
(* the client waits for.  Nothing may still be using the name c.           *)
Accept(c) ==
  /\ current = NoConn
  /\ handler[c] = "none" /\ down[c] = <<>> /\ \A v \in Viewers : via[v] # c
  /\ current' = c /\ pump' = "take"
  /\ handler' = [handler EXCEPT ![c] = "opening"]
  /\ reqCh' = [reqCh EXCEPT ![c] = <<>>]
  /\ broken' = [broken EXCEPT ![c] = FALSE]
  /\ UNCHANGED <<content, pageVars, askVars, conns, reqID, down, up, taken, wake, respQueue,
                 jobs, historyVars, boundVars>>

AddConn(c) ==
  /\ handler[c] = "opening"
  /\ handler' = [handler EXCEPT ![c] = "serving"]
  /\ conns' = c
  /\ UNCHANGED <<content, pageVars, askVars, reqCh, reqID, wireVars, clientVars, historyVars, boundVars>>

(* The down-writer relays one queued request.                              *)
WriterSends(c) ==
  /\ handler[c] = "serving" /\ ~broken[c] /\ reqCh[c] # <<>>
  /\ down' = [down EXCEPT ![c] = Append(@, Head(reqCh[c]))]
  /\ reqCh' = [reqCh EXCEPT ![c] = Tail(@)]
  /\ UNCHANGED <<content, pageVars, askVars, conns, handler, reqID, up, broken, clientVars,
                 historyVars, boundVars>>

(* The requests of this process that wait for a chunk of rs.               *)
Losing(rs) ==
  {v \in Viewers : asking[v] = "waiting" /\ \E r \in rs : r.id = id[v] /\ r.epoch = epoch}

(* routeBackfillResp: a chunk goes to whoever waits under its id, and is   *)
(* dropped if nobody does or if that channel is full.                      *)
HandlerScans(c) ==
  /\ handler[c] = "serving" /\ up[c] # <<>>
  /\ LET r == Head(up[c])
         pending == {v \in Viewers : asking[v] = "waiting" /\ id[v] = r.id}
         room == {v \in pending : Len(chunks[v]) < ChunkQueue}
         overtaken == UNION {Losing({up[d][i] : i \in DOMAIN up[d]}) : d \in Conns \ {c}}
     IN /\ chunks' = [v \in Viewers |-> IF v \in room THEN Append(chunks[v], r) ELSE chunks[v]]
        /\ spoiled' = spoiled \cup {v \in pending : \/ v \notin room
                                                           \/ r.epoch # epoch
                                                           \/ v \in overtaken}
  /\ up' = [up EXCEPT ![c] = Tail(@)]
  /\ UNCHANGED <<content, pageVars, asking, before, via, id, got, gotStart, serverVars, down, broken,
                 clientVars, torn, boundVars>>

(* The body ended; the handler waits for its writer.                       *)
HandlerEnds(c) ==
  /\ handler[c] = "serving" /\ broken[c]
  /\ handler' = [handler EXCEPT ![c] = "leaving"]
  /\ spoiled' = spoiled \cup Losing({up[c][i] : i \in DOMAIN up[c]})
  /\ up' = [up EXCEPT ![c] = <<>>]
  /\ UNCHANGED <<content, pageVars, askVars, conns, reqCh, reqID, down, broken, clientVars, torn, boundVars>>

(* A slip: whatever connection is registered is removed.                   *)
RemoveAnyConn(c) ==
  /\ handler[c] = "leaving"
  /\ handler' = [handler EXCEPT ![c] = "none"]
  /\ conns' = NoConn
  /\ UNCHANGED <<content, pageVars, askVars, reqCh, reqID, wireVars, clientVars, historyVars, boundVars>>

(* removeConn, unless a newer connection has taken the place.              *)
RemoveConn(c) ==
  /\ handler[c] = "leaving"
  /\ handler' = [handler EXCEPT ![c] = "none"]
  /\ conns' = IF conns = c THEN NoConn ELSE conns
  /\ UNCHANGED <<content, pageVars, askVars, reqCh, reqID, wireVars, clientVars, historyVars, boundVars>>

-----------------------------------------------------------------------------
(* The client.                                                             *)

(* The reader of a connection, current or abandoned, starts a goroutine    *)
(* for a request, which reads the file or is refused.                      *)
ReaderGets(c) ==
  /\ down[c] # <<>>
  /\ LET q == Head(down[c])
         page == ReadLinesBefore(content[q.viewer], q.before, PageLines)
         Job(lines, start, err) ==
           [id |-> q.id, epoch |-> q.epoch, lines |-> lines, atStart |-> start, err |-> err, queued |-> "no"]
     IN \/ jobs' = jobs \cup {Job(page.lines, page.atStart, FALSE)}
        \/ jobs' = jobs \cup {Job({}, FALSE, TRUE)}
  /\ down' = [down EXCEPT ![c] = Tail(@)]
  /\ UNCHANGED <<content, pageVars, askVars, serverVars, up, broken, current, pump, taken, wake,
                 respQueue, historyVars, boundVars>>

(* Decode fails; requests not read by then are lost.                       *)
ReaderEnds(c) ==
  /\ broken[c] /\ down[c] # <<>>
  /\ down' = [down EXCEPT ![c] = <<>>]
  /\ UNCHANGED <<content, pageVars, askVars, serverVars, up, broken, clientVars, historyVars, boundVars>>

(* A slip: that there is no more is said in a chunk of its own.            *)
QueueChunkEndsApart(j) ==
  /\ j.queued = "no"
  /\ LET now == {o \in j.lines : Cardinality({p \in j.lines : p <= o}) <= ChunkLines}
         final == j.lines = {}
     IN /\ respQueue' = Append(respQueue, [id |-> j.id, epoch |-> j.epoch, lines |-> now, final |-> final,
                                           atStart |-> final /\ j.atStart, err |-> j.err])
        /\ jobs' = (jobs \ {j}) \cup {[j EXCEPT !.lines = @ \ now,
                                                !.queued = IF final THEN "last" ELSE "more"]}
  /\ UNCHANGED <<content, pageVars, askVars, serverVars, wireVars, current, pump, taken, wake,
                 historyVars, boundVars>>

(* queueResp with the oldest lines of the page; the last chunk says whether*)
(* they reach the start of the file.                                       *)
QueueChunk(j) ==
  /\ j.queued = "no"
  /\ LET now == {o \in j.lines : Cardinality({p \in j.lines : p <= o}) <= ChunkLines}
         final == j.lines \subseteq now
     IN /\ respQueue' = Append(respQueue, [id |-> j.id, epoch |-> j.epoch, lines |-> now, final |-> final,
                                           atStart |-> final /\ j.atStart, err |-> j.err])
        /\ jobs' = (jobs \ {j}) \cup {[j EXCEPT !.lines = @ \ now,
                                                !.queued = IF final THEN "last" ELSE "more"]}
  /\ UNCHANGED <<content, pageVars, askVars, serverVars, wireVars, current, pump, taken, wake,
                 historyVars, boundVars>>

(* Its non-blocking send on the wake channel, after the unlock.            *)
SignalWake(j) ==
  /\ j.queued # "no"
  /\ wake' = TRUE
  /\ jobs' = (jobs \ {j}) \cup (IF j.queued = "last" THEN {} ELSE {[j EXCEPT !.queued = "no"]})
  /\ UNCHANGED <<content, pageVars, askVars, serverVars, wireVars, current, pump, taken, respQueue,
                 historyVars, boundVars>>

(* A slip: a new connection waits to be woken for what is queued already.  *)
TakeRespsLate ==
  /\ pump = "take" /\ taken' = <<>> /\ pump' = "wait"
  /\ UNCHANGED <<content, pageVars, askVars, serverVars, wireVars, current, wake, respQueue, jobs,
                 historyVars, boundVars>>

TakeResps ==
  /\ pump = "take"
  /\ taken' = respQueue /\ respQueue' = <<>>
  /\ pump' = IF respQueue = <<>> THEN "wait" ELSE "write"
  /\ UNCHANGED <<content, pageVars, askVars, serverVars, wireVars, current, wake, jobs,
                 historyVars, boundVars>>

WriteResp ==
  /\ pump = "write" /\ ~broken[current]
  /\ up' = [up EXCEPT ![current] = Append(@, Head(taken))]
  /\ taken' = Tail(taken)
  /\ pump' = IF Len(taken) = 1 THEN "wait" ELSE "write"
  /\ UNCHANGED <<content, pageVars, askVars, serverVars, down, broken, current, wake, respQueue, jobs,
                 historyVars, boundVars>>

WakeUp ==
  /\ pump = "wait" /\ wake
  /\ wake' = FALSE /\ pump' = "take"
  /\ UNCHANGED <<content, pageVars, askVars, serverVars, wireVars, current, taken, respQueue, jobs,
                 historyVars, boundVars>>

(* connectAndPump returns.  The chunks it had taken are gone, those still  *)
(* queued go out on the next connection.                                   *)
StreamEnded ==
  /\ pump \in {"write", "wait"} /\ broken[current]
  /\ current' = NoConn /\ pump' = "off"
  /\ taken' = <<>>
  /\ spoiled' = spoiled \cup Losing({taken[i] : i \in DOMAIN taken})
  /\ UNCHANGED <<content, pageVars, askVars, serverVars, wireVars, wake, respQueue, jobs, torn, boundVars>>

-----------------------------------------------------------------------------
(* Failures.                                                               *)

BreakConn(c) ==
  /\ current = c /\ ~broken[c] /\ failures < MaxFailures
  /\ failures' = failures + 1
  /\ broken' = [broken EXCEPT ![c] = TRUE]
  /\ UNCHANGED <<content, pageVars, askVars, serverVars, down, up, clientVars, historyVars, epoch, resets>>

(* The server process ends and another one starts: no connections, ids     *)
(* from 1 again.  The pages' requests fail.                                *)
Restart ==
  /\ epoch < MaxRestarts
  /\ epoch' = epoch + 1
  /\ conns' = NoConn /\ reqID' = 0
  /\ handler' = [c \in Conns |-> "none"]
  /\ reqCh' = [c \in Conns |-> <<>>]
  /\ up' = [c \in Conns |-> <<>>]
  /\ broken' = [c \in Conns |-> TRUE]
  /\ NoFurtherHistory({v \in Viewers : asking[v] # "no"})
  /\ UNCHANGED <<content, down, clientVars, historyVars, failures, resets>>

Next ==
  \/ \E v \in Viewers : \/ FindConn(v) \/ SendRequest(v) \/ Collect(v) \/ Timeout(v) \/ ClearOlder(v)
  \/ \E c \in Conns : \/ Accept(c) \/ AddConn(c) \/ WriterSends(c) \/ HandlerScans(c)
                      \/ HandlerEnds(c) \/ RemoveConn(c)
                      \/ ReaderGets(c) \/ ReaderEnds(c) \/ BreakConn(c)
  \/ \E j \in jobs : QueueChunk(j) \/ SignalWake(j)
  \/ TakeResps \/ WriteResp \/ WakeUp \/ StreamEnded
  \/ Restart

Spec == Init /\ [][Next]_vars

-----------------------------------------------------------------------------
(* Properties.                                                             *)

Requests == [id : Nat, epoch : Nat, viewer : Viewers, before : Nat]
Chunks == [id : Nat, epoch : Nat, lines : SUBSET Nat, final : BOOLEAN, atStart : BOOLEAN, err : BOOLEAN]
Jobs == [id : Nat, epoch : Nat, lines : SUBSET Nat, atStart : BOOLEAN, err : BOOLEAN,
         queued : {"no", "more", "last"}]

(* Type invariant; the queues respect their capacities, and a page waits   *)
(* under an id only while its request is under way.                        *)
TypeOK ==
  /\ content \in [Viewers -> Contents]
  /\ lowest \in [Viewers -> Nat] /\ done \in [Viewers -> BOOLEAN]
  /\ shown \in [Viewers -> SUBSET Nat] /\ startShown \subseteq Viewers
  /\ asking \in [Viewers -> {"no", "routed", "waiting"}]
  /\ before \in [Viewers -> Nat]
  /\ via \in [Viewers -> Conns \cup {NoConn}]
  /\ id \in [Viewers -> Nat]
  /\ got \in [Viewers -> SUBSET Nat] /\ gotStart \in [Viewers -> BOOLEAN]
  /\ chunks \in [Viewers -> Seq(Chunks)]
  /\ conns \in Conns \cup {NoConn} /\ reqID \in Nat
  /\ handler \in [Conns -> {"none", "opening", "serving", "leaving"}]
  /\ reqCh \in [Conns -> Seq(Requests)]
  /\ down \in [Conns -> Seq(Requests)] /\ up \in [Conns -> Seq(Chunks)]
  /\ broken \in [Conns -> BOOLEAN]
  /\ current \in Conns \cup {NoConn}
  /\ pump \in {"off", "take", "write", "wait"}
  /\ wake \in BOOLEAN /\ taken \in Seq(Chunks) /\ respQueue \in Seq(Chunks)
  /\ jobs \subseteq Jobs
  /\ torn \subseteq Viewers /\ spoiled \subseteq Viewers
  /\ \A v \in Viewers : Len(chunks[v]) <= ChunkQueue
  /\ \A v \in Viewers : (asking[v] = "waiting") <=> (id[v] # 0)
  /\ \A c \in Conns : Len(reqCh[c]) <= ReqQueue

LinesOf(v, from) == {o \in from .. (Live(v) - 1) : StartsLine(content[v], o)}

(* Older lines close up with the live view: whatever was asked, answered,  *)
(* late or refused, the page shows every line of the file from the lowest  *)
(* one it has on, and nothing else.  Excused are pages put together from a *)
(* spoiled answer or cleared while a request was under way                 *)
(* (fetchOlder, requestRemoteBackfill, handleBackfillReq, ReadLinesBefore).*)
ShownContiguous == \A v \in Viewers \ torn : shown[v] = LinesOf(v, lowest[v])

(* The same without excuses for spoiled answers: "pages are gap-free and   *)
(* never overlap" (backfill.go:17-20).                                     *)
PagesGapFree == resets = 0 => \A v \in Viewers : shown[v] = LinesOf(v, lowest[v])

(* A page that says "start of" a file begins with the file's first line,   *)
(* across chunks and pages (prependOlder's label, atStart).                *)
StartIsReal == \A v \in Viewers \ torn : v \in startShown => 0 \in shown[v]

(* Some page of v's file takes more chunks than the channel holds.         *)
Oversized(v) ==
  \E o \in 0 .. Live(v) :
    Cardinality(ReadLinesBefore(content[v], o, PageLines).lines) > ChunkQueue * ChunkLines

(* What spoils an answer: only a connection that broke, a server that      *)
(* ended, or a page of more chunks than its channel holds.  No timing of   *)
(* requests, chunks and timeouts does (routeBackfillResp, queueResp,       *)
(* handleBackfillReq, requestRemoteBackfill's channel).                   *)
LossHasCause == \A v \in spoiled : failures + epoch > 0 \/ Oversized(v)

(* Scrolling back implements PagedHistory: an answered page brings lines   *)
(* that were not there, never more than were asked for; lines go only when *)
(* the page clears them, and nothing follows the start of the file         *)
(* (fetchOlder, prependOlder, clearOlder, ReadLinesBefore).                *)
History == INSTANCE PagedHistory WITH
             history <- [v \in Viewers |-> LinesOf(v, 0)], excused <- torn

KeepsHistory == History!Spec

(* A client is reachable for scrollback until the handler of the very      *)
(* connection that is registered leaves, however old and new handlers      *)
(* overlap (removeConn).                                                   *)
RegisteredUntilItLeaves ==
  [][conns' = NoConn /\ conns # NoConn => handler[conns] = "leaving" \/ epoch' # epoch]_vars

(* An answer queued for a pump that sleeps will wake it, also when it was  *)
(* queued just before the pump slept or while there was no connection      *)
(* (queueResp, takeResps, wake).                                           *)
QueuedAnswersWake ==
  respQueue # <<>> /\ pump = "wait" => wake \/ \E j \in jobs : j.queued # "no"
=============================================================================
