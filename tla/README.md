# PeekAStokk, specified

PeekAStokk tails log files and container logs and shows them live in a browser;
a host can also run it headless and forward its lines to another instance.
These modules model its concurrent core in TLA+: TLC checks small instances and
TLAPS proves the main invariants for every size of them. Line numbers below are
those of the repository's sources.

## 1. The system

```
 files, containers
      |  tail.Tailer (one goroutine per source)
      v
   lines channel --> publisher goroutine (main.go:448)
      |                      |
      | hub.Publish          | forward.Client.Enqueue
      v                      v
   hub.Hub              retry ring --> Run / connectAndPump
      ^                                  |  POST /ingest, lines up, acks down
      |  hub.Publish                     v
      +------------------- Server.handleIngest        (another instance)
      |
      +--> Server.handleEvents --> EventSource in the page (web/index.html)
             GET /events, one stream per browser tab
```

| Part (source) | State | Operations | Met with | What makes it correct |
|---|---|---|---|---|
| Forwarding client (`internal/forward`) | retry ring under `mu`, one-slot `wake` channel; per connection `sentUpTo`, `pending` | `Enqueue`, `trimAcked`, the pump, `Run`, an ack reader per connection | publisher, ingest server | a line leaves the ring only when settled; every line is delivered in the end |
| Ingest server (`internal/server/ingest.go`) | per connection `highestSeq`, `allowed`; shared `conns`, pending scrollback requests | scan, register, publish, ack ticker; request and route scrollback | registry, hub, client | an ack never runs ahead of what the hub took; source cap |
| Registry, naming (`registry.go`, `namer.go`) | source IDs, `forwardCounts`, display names | `register`, `lookupID`, `countForwarded`; deduplication | ingest, API, hub IDs | IDs stay stable, names distinct, cap respected |
| Hub (`internal/hub`) | `nextSeq`, history ring, subscribers and their channels | `Publish`, `Subscribe`, `Close` of a subscriber and of the hub | publisher, ingest, event handlers | history is a window; no send on a closed channel |
| Event handler (`server.go:287-405`) | a subscriber, history to replay, the response | replay, write, heartbeat, return | hub, browser | nothing missing or twice between history and live |
| Page (`web/index.html`) | `es`, `lastSeq`, selected files, floors, lines | `connect`, `onLine`, `toggleFile`, scrollback, `init` | event handler, `/api/before` | no silent gap after evictions, breaks and reconnects |
| Tailer (`internal/tail`) | offset, open file, pending bytes | poll, open, read, split, emit | files written by others | each complete line once, across rotation and truncation |
| Backfill (`internal/backfill`, `server/backfill.go`) | none; a page read backwards | `ReadLinesBefore` | page, remote client | pages join without gap or overlap |
| Remote scrollback (`ingest.go`, `forward.go`) | request IDs, a bounded channel per pending request, a response queue | request, chunked answer, timeout, replacement of connections | both sides of `/ingest` | an answer is complete and belongs to its request |
| Discovery (`tailgroup`, `dockerwatch`, `main.go:303-445`) | running tailers by path, the previous scan | `Reconcile`, `Stop`, rescans | tailers, registry, namer | one tailer per wanted file; every line's source is registered |
| Lifecycle (`main.go:295-302, 447-537`) | the process | start, orderly shutdown, death | everything | nothing acked is lost by a shutdown; it does not get stuck |
| Auth, config, docker log format, status, installer | none that changes | pure checks, parsing, a read-only view | | |

What is hard here: two or three goroutines on every buffer; connections that
coexist with their replacements; acks, timeouts and redelivery; eviction of a
slow reader with data at four places at once; rings that wrap; numbers (Seq,
request IDs, offsets) that outlive the process or file they counted.
`PROJECT.json` lists the hazards one by one, each at its line and with the
properties that watch it, or the reason why none does yet.

## 2. Modules

| Module | Models | Remarks |
|---|---|---|
| `IngestWire` | one `POST /ingest` connection, both directions | external (net/http): FIFO streams that break and lose what is in flight |
| `ForwardClient` | `internal/forward/forward.go` | one action per critical section or channel operation |
| `Ingest` | `handleIngest`, the ack ticker, the server process | registry, hub and `highestSeq` are separate locks, hence separate steps |
| `Forwarding` | composition of the three, with failures and restarts | fairness and the properties |
| `AtLeastOnce` | the promise of forwarding | refined by `Forwarding` (`KeepsPromise`) |
| `Hub` | `internal/hub/hub.go` | every method holds `hub.mu` throughout, hence one step each |
| `EventStream` | `handleEvents`, `writeBatch`, `EventSource`, `connect`, `onLine`, deselecting, reloading | extends `Hub` |
| `ViewerFeed` | the promise to a viewer | refined by `EventStream` (`KeepsFeed`) |
| `LogFiles` | a log path, the files it names, their writer and rotation | external (the logging process, logrotate) |
| `Tail` | `internal/tail/tail.go` against `LogFiles` | one system call or one emitted line per step |
| `LineFeed` | the promise of tailing | refined by `Tail` (`KeepsFeed`) |
| `Backfill` | `internal/backfill/backfill.go` | operators on contents, no state |
| `RemoteBackfill` | scrollback of forwarded files: `fetchOlder`, `handleBefore`, `requestRemoteBackfill`, `routeBackfillResp`, `handleBackfillReq`, connections | extends `Backfill` |
| `PagedHistory` | the promise of scrollback | refined by `RemoteBackfill` (`KeepsHistory`) |
| `Registry` | `internal/server/registry.go` for local sources | names are sequences, so that "app.log #2" can itself be numbered |
| `Discovery` | static, Docker and watched sources, tailgroups, namer, the end of the process | extends `Registry` |
| `RingLemmas`, `ForwardingProofs`, `EventStreamProofs`, `TailProofs`, `DiscoveryProofs`, `BackfillProofs`, `RemoteBackfillProofs`, `ScrollbackProofs` | proofs | each of the last two extends the one before it |
| `MCForwarding`, `MCEventStream`, `MCTail`, `MCRemoteBackfill`, `MCDiscovery` | instances for TLC, symmetry sets | the `.cfg` files give the constants |

Definitions whose comment calls them a *slip* are wrong on purpose. No
specification uses them; substituted for the definition they stand above, each
makes one of the properties fail.

### Forwarding, state and steps

`ring`, `head`, `count`, `nextSeq` are the fields of `Client`; a slot holds the
Seq of its entry, 0 when zeroed. `Enqueue` is the critical section of
`forward.go:195-213`, `SignalWake` the select after it. The pump moves through
`pump`: "snapshot" is the locked loop of 401-410, "write" one `Encode` at a
time, "wait" the select; `Dial` stands for backoff, preflight and `Do` when they
succeed, since failing ones change nothing but the delay. `reader[c]` is the
ack-reader goroutine, which may outlive its connection.

On the server `handler[c]` is where the handler goroutine stands between its
locks: "cap" (`countForwarded`, 326), "register" and "bump" (the two locks of
`registerForwarded`), "publish", "store". `SendAck` is the ticker goroutine,
which reads `highestSeq` at any of these points. `Return` is every way out of
the handler: the deferred close waits for the ticker, so no ack follows.
`Exit` ends the process at any moment, with all its memory; `Shutdown` is
`hub.Close`, after which `Publish` refuses.

`published` and `ignored` are history variables: what any process so far handed
to its hub, and what the source cap skipped. `Settled` adds `dropped`, the lines
overwritten in a full buffer. Loss by overflow or over the cap is what the code
announces; everything else would be a bug.

### Event streams, state and steps

`Hub` keeps `events`, all that was published by this process, beside the ring,
so that an event is its Seq. `ch[c]` and `chClosed` are the Go channel and its
close; `subs` are the registered subscribers. An event passes through four
places: the history backlog or the channel, the handler, the wire, the page.
`WireWindow` bounds the wire: a page that does not read blocks its handler
(TCP), the channel fills behind it, and `Deliver` evicts the subscriber.

`Request` is the atomic part of `handleEvents`: `Subscribe` with the newer of
`?after=` and `Last-Event-ID`. `StreamLost` is what a browser does with an
ended stream; it keeps the URL it had, so `after` stays and `lastEventId` is
sent. `Reconnect` is `connect()`, with a new URL. `joined` remembers which
process a page was loaded from; `shown` and `missed` count for that process
only.

### Tailing, state and steps

`file`, `offset`, `pending`, `pendingStart`, `skipFirst`, `openedOnce` are the
fields of `Tailer`; `buf` and `cur` are the locals of `consume` while it splits.
A poll is the sequence `Open` (if need be), `StatPath`, then `Read` and
`EmitLine`, `EmitPiece`, `KeepRest` until `ReadEnds`, the `Read` that reports the
end of the file. If the path named another file when it was looked at, `FlushPending`
(which waits for the lines channel) and `CloseFile` follow. The writer, the rotation
and a failing call (`CallFails`) act between these steps. The rotation
renames the file away and makes a new one, which the writer opens at once or
later, or truncates it in place. `versions[f]` keeps what `f` held before each
truncation, and a byte carries its place, so that a line's text can be compared
with the Offset it is emitted with. `out`, `version` and `skipped` are history
variables, and so is `late`: the files that were written to after their end was seen
for the last time and before they were closed.

The code cannot see a truncation after which the file has grown to its old size
again by the next poll. `StaysBelowOffset` states this as an assumption on the
writer; nothing else restrains it.

### Scrollback, state and steps

A content is a sequence of bytes of which only newlines matter, and a line is
the offset of its first byte. `Backfill!ReadLinesBefore` is the whole function:
`ScanStop` is its block loop (63-77), after which the head is dropped through
the first newline unless the scan reached the start of the file.

A viewer is one page scrolling one file. `asking` is where its request stands:
`FindConn` is the page's fetch up to the lookup under `connMu`, `SendRequest`
takes an id, a channel and a place in the connection's queue, `Collect` is one
turn of the loop in `requestRemoteBackfill`, `Timeout` its other two cases. Every failure is
answered with an empty page at the start, after which the page asks no more
(`NoFurtherHistory`). `chunks[v]` is the channel under `pending[id[v]]`.
`handler[c]` is an ingest handler: "opening" once its header is flushed, which
is all a client waits for, "serving" from `addConn` on, "leaving" from the end
of the body to the deferred `removeConn`. On the client every request is a job of
its own; a chunk is queued (`QueueChunk`) before the pump is woken
(`SignalWake`), the pump takes all that is queued and writes it chunk by chunk
(`TakeResps`, `WriteResp`); with its connection the chunks it had taken are
gone, while those still queued go out on the next one.

`torn` and `spoiled` are history variables. A request is spoiled if one of its chunks was lost with a
connection, was dropped by a full channel or is overtaken by a later one on a
newer connection, or if it got a chunk meant for another process's request of
the same id. A page is torn if it was put together from such an answer, or
cleared while a request was under way. The code notices none of these, so
`ShownContiguous` and `StartIsReal` speak of the other pages, and
`PagesGapFree` shows what happens to these.

### Discovery, state and steps

A watcher goes through `step`: "scan", "add" (`namer.set` and `RegisterSource`
for each file found), "drop" (`namer.delete`, for watched files
`UnregisterSource` as well, for what the previous scan had and this one has not), `Reconcile`,
"wait" (the select), and after the end of the context "stop" (`Group.Stop`
waiting) and "done". Docker starts with a scan, the watched arguments with what
start-up found. A tailer is only what it sends: it may do so after it was
cancelled, until it looks at its context, and `no` tells it from its successor
for the same file. `keys`, `bases`, `names`, `removed` are the fields of
`registry`; `server.New` registers names that are deduplicated already
(`RegistryInit`).

## 3. What is checked

Constants are kept at the smallest values at which the interesting case
happens; each bound is a named constant.

| Run | Shows | Bounds, and why they are enough |
|---|---|---|
| `forwarding_safety` | `TypeOK`, `RingIsWindow`, `ReleasedOnlyIfSettled`, `AckClaimsOnlySettled`, `FirstCopiesInOrder`, `NoRepeatOnConnection` | ring of 2 and 3 lines: it wraps, overflows and is trimmed in part; 2 coexisting connections (the old one and its successor), 1 broken connection, at any moment; 1 ack in flight per connection; lines that do and do not fit; process ends are in the next run |
| `forwarding_live` | `KeepsPromise`: every step is a step of `AtLeastOnce`; `Delivered`, `Drains` | 2 sources against a cap of 1, ring of 1 (always overflowing), an orderly or abrupt exit and restart, which breaks every connection; no lines that do not fit, which is what the next run is about |
| `forwarding_wide_line` | violation of `Delivered` | one line that does not fit is enough |
| `forwarding_source_cap` | violation of `SourceCapHolds` | two connections, two sources, cap 1, one broken connection |
| `events_safety` | `TypeOK`, `HistoryIsWindow`, `SubscribersServed`, `NoSilentGap`, `KeepsFeed` | history of 2 and 3 events: it wraps; channel and wire of 1: eviction with events at every place; 2 streams: an old handler beside the new one; 2 files: filters and deselection; 1 failure, 1 restart with reload |
| `events_live` | `CatchesUp`, `AbandonedStreamsEnd` | the same without a restart |
| `events_after_restart` | violation of `ResumesAfterRestart` | one file, one restart |
| `tail_follow` | `TypeOK`, `OffsetsTrue`, `NothingSkipped`, `LinesWhole`, `RepeatedOnlyByErrors`, `LeavesNothing`, `CatchesUp`; `KeepsFeed`: every step is a step of `LineFeed` | 3 bytes, each text, CR or newline, in 2 files: lines and pieces of every shape around a line limit of 1 and a read size of 2; 1 byte replayed at first, so that the first open skips; 1 truncation and 1 failed call, at any moment |
| `tail_error_replay` | violation of `NothingRepeated` | one line, one failed call |
| `remote_backfill` | `TypeOK`, `ShownContiguous`, `StartIsReal`, `QueuedAnswersWake`, `LossHasCause`, `RegisteredUntilItLeaves`; `KeepsHistory`: every step is a step of `PagedHistory` | files of three empty lines and of a long line before a short one, blocks of 2 bytes and a budget of 4: the scan stops at its limit, at its budget, at a block's edge and at the start; pages of 2 lines in chunks of 1, so that a page takes two chunks and a file two pages; queues of 1, hence full ones; 2 connections (old and new), 1 failure, 1 restart, 1 clearing, 2 requests per process, at any moment |
| `remote_backfill_gaps` | violation of `PagesGapFree` | one connection, no failure, a page of three chunks |
| `discovery` | `TypeOK`, `OneReader`, `NoSendAfterClose`, `KnownWhenPublished`, `NamedWhileThere`, `NamesDistinct`, `FollowsFiles`, no deadlock | one static, one Docker and two watched files against a limit of one watched file, so that one pushes the other out; all of one base name; any initial files, 1 appearing or vanishing, 1 failed scan, which makes every file vanish and come back; a channel of 1; shutdown at any moment |

More lines, connections or failures repeat these situations; that no larger
instance behaves otherwise is what the proofs of section 4 are for.

`TypeOK` aside, each property is about several places at once.
`ReleasedOnlyIfSettled` relates the ring to what every process so far published,
and is broken only by a chain of snapshot, write, scan, publish, ack and trim in
a bad order. `AckClaimsOnlySettled` and `FirstCopiesInOrder` are about acks and
lines of abandoned connections as well. `NoSilentGap` compares what a page
showed with all that was published since it came. `SubscribersServed` rules out
the panic of sending on a closed channel and the handler that waits for ever.
`NothingSkipped`, `OffsetsTrue` and `LinesWhole` together say that the texts emitted for a file,
set end to end with their terminators, are the file; `RepeatedOnlyByErrors` that
it is emitted once, and once more at most for each failed call. `KeepsFeed` adds
the order of files and versions among each other, and that only the latest is
started again. `LeavesNothing` relates a file that is closed to what was read and
emitted of it by then: only a file in `late` may be longer than what was read, and
of what was read nothing is left over.
`ShownContiguous` relates what a page shows to the file, over several requests
and all that can happen to their answers; `LossHasCause` bounds the excuse that it has, and
`KeepsHistory` says what one page may add. `OneReader`, `KnownWhenPublished` and
`NoSendAfterClose` are about tailers that outlive their cancellation.
`NamesDistinct` has a condition: start-up numbers names (`server.go:124`) that the
registry then takes for base names, so that two later sources with such a name are
numbered from 1 once more and shown under the same names.
The symmetry of connection and stream names is used in runs without liveness
properties only, whose properties treat all names alike.

The runs of `MCEventStream` do not check for deadlock: with nothing left to
publish the system may rest, because heartbeats have no step of their own. Nor do
those of `MCTail`: with no file at the path, and a writer that is done, the tailer
only sleeps. Nor does `remote_backfill`, where requests are bounded and a page may have all there
is. `discovery` does: from any state, whatever the watchers are in the middle
of, the process can go on or has left `main`.

### Fairness

*Forwarding.* Weak fairness for each goroutine (`Signal`, `Pump`, and for every
connection `Reader`, `Handler` and `Ticker`), because Go runs every runnable
goroutine and each waits only for what its guard says; for `Connect`, because
`Run` loops until its context ends with delays that `backoff.go` bounds, and a
dial to a live server is taken to succeed in the end; for the exit of a process
whose hub is closed, because `main.go:519` bounds the shutdown by a timeout; and
for a restart, which is an assumption on the operator or supervisor. Nothing
owes a new line, a failure or a shutdown.

*Event streams.* Weak fairness for handlers and for the page (it reads what has
arrived; EventSource retries). A handler notices a gone client because its
context is cancelled or because a heartbeat fails to be written. Nothing owes a
line, a click or a failure.

*Tailing.* Weak fairness for the tailer's goroutine: `Run` polls until its context
ends, and the publisher keeps receiving from the lines channel (`main.go:448`).
Writing is bounded, so `CatchesUp` speaks of a writer that has come to rest.

*Discovery.* Weak fairness for the two watcher goroutines, whose tickers tick;
a scan fails a bounded number of times, files change a bounded number of times.

*Scrollback* states safety only: a request may always time out.

## 4. What is proved

All of `ForwardingProofs`, `EventStreamProofs`, `TailProofs`, `DiscoveryProofs`,
`BackfillProofs`, `RemoteBackfillProofs` and `ScrollbackProofs` is checked by TLAPS for every value of the constants that
the named assumptions allow (a positive ring, channel, wire and ack window; a
history of any size, 0 included; any set of connections, streams, viewers and
sources; any finite set of paths; any files, line limit, read size and start of
the replay; any contents, block, budget, page and chunk sizes of scrollback; any bounds on lines, changes, failures and
exits). So are the facts about `%` in `RingLemmas` that both rings rest on:
positions less than a capacity apart have different slots.

*Forwarding.* The properties are not inductive: whether an ack is right depends
on lines that are still on their way. `Inductive` adds, for every place a line
can be in, that all older ones are settled or ahead of it:

- `ReleasedSettled`: below the window of the ring everything is settled;
- `PumpSettled`: what the pump has taken on an unbroken connection is settled, in
  the handler's hand, on the wire or in `pending`;
- `WireSettled`: a line older than one on the wire is settled, in hand or ahead;
- `HandSettled`: what `highestSeq` claims is settled, and so is all that is older
  than the line in hand.

The pump feeds the wire, the wire the hand, the hand `highestSeq`, `highestSeq`
the acks, and the acks the ring, which closes the circle. Theorems
`ForwardingInductive`, `ForwardingTypes`, `RingSound`, `NothingReleasedEarly`,
`AcksSound`, `OrderSound` follow, and `ForwardingKeepsPromise`, the refinement of
`AtLeastOnce`, one case per action. `NoRepeats` needs the order of lines on a
wire as well (`Ordered`), which the others do not.

*Event streams.* `Inductive` follows each event a page has yet to see (`Due`):
it is underway on the page's stream (wire, backlog or channel), or the
subscriber is gone and nothing later is underway (`BringsAll`), so that the
stream ends before the gap could show. `InOrder` says that each place of a stream is sorted and
ahead of the next, `Brings` that nothing on the wire overtakes, `Resumes` that
what a page will ask for agrees with what it saw. Theorems
`EventStreamInductive`, `EventStreamTypes`, `HistorySound`, `SubscribersSound`,
`NoGaps`, and the refinement `StreamKeepsFeed`.

*Discovery.* `Inductive` says four things the properties rest on. `OwnPaths`: a
watcher's scans, drops and map hold its own paths only, so that what one drops
was never found by the other. `ScansNamed`: what a watcher has been through at
its present step is registered, listed and named, namely the previous scan until
the drops begin and of the present one what has been added; a tailer starts only
behind that. `Readers`: the tailers of a group that are not cancelled are one
for each path of its map (at least one only until the context ends). `Ended`: a
watcher that is done has no tailer, and the channel is closed only after both.
Theorems `DiscoveryTypes`, `SourcesKnown`, `FilesNamed`, `NothingSentAfterClose`
and `SingleReader` follow. The number that tells tailers of one path apart is a
choice among `0 .. Cardinality(used)`; that one is free, and so that the invariant
is kept, needs the tailers to be finitely many.

`NamesStayDistinct` is about `dedupeNames` in whatever order sources come: the
number a name gets is its place among the sources of its base name, so that two
of one base name differ, and of different base names only "app.log", numbered,
and a base name "app.log #2" can meet. `NamesFrom` carries what that needs: `names`
are those of `bases`, and a numbered base name stands beside the one that start-up
numbered 1, so that the condition of `NamesDistinct` speaks of it. The hypothesis `PlainNames` says that no file is itself
called "app.log #2". It is needed: two files app.log and one of that name, all
registered after start-up, are shown as "app.log #1", "app.log #2" and "app.log #2".

*Tailing.* `TailInv` is about the bytes in hand (`Held`, which start at `Start`):
they end at `offset`, each has the position and the version it should have
(`InHand`); they begin at the beginning of the file, where the last line emitted
of this version ended, or where the first open began (`Continues`); and the
version read is the file's own unless the offset is beyond its end (`Current`).
The last holds through a truncation only because of `StaysBelowOffset`: a file
that outgrew the old offset between two polls could not be told from one that
was appended to. `TailTypes`, `OffsetsHold` and `NoneSkipped` follow. `NoLineTorn`
needs `WholeInv` as well: the bytes in hand are those of the file and begin a line
or follow a full piece, the partial line holds no newline, and what was written
stays where it was (`Kept`). A line that ended with its file stays right since
a file moved away does not come back to the path (`MovedAway`), as rotated logs
do not. A line that was flushed has the same excuse from the moment it is emitted,
as the last one before the close. `NothingLeft` needs two parts more. `Closing`:
who is about to flush or close a file is draining it, which means that the path
names another one (`DrainsOldFile`), and has nothing in hand when it closes it. `Drained`:
its size is then not beyond the offset, or the writer was late. With nothing in
hand the last line ended at the offset (`Continues`).

`OncePerPass` counts how often a byte lies in an emitted line. `OnceInv` adds to
the others that what is yet to be read was emitted at most once for each failed
call (`Repeats`), which is one less than the bound; so was all of a file that the
path names and the tailer has not opened. `Newest`, that no line is from a later version
than the one being read, makes a truncation start afresh.

`TailKeepsFeed` is the refinement of `LineFeed`. Its invariant `TurnInv` adds to
`OnceInv` what a line that begins a file may follow: the last line emitted is of the
latest version of its file (`LastIsLatest`); and what is in hand starts at 0 only
if there is no line of that file or version yet, or there were fewer restarts than
failed calls (`InTurn`). A file that the path came to name has no
lines, unless it is the one that was read last.

*Scrollback.* `BackfillProofs` says what one page is, without blocks: every
line from its first on to the place asked about (`PageClosesUp`), as many as were asked
for unless it reaches the start or spends the budget (`PageIsFull`), which one
page exceeds by less than a block (`ScanBounded`). An empty page short of the
start is possible then, if a line is longer than the budget, and the page in the
browser asks no more.

`ShownContiguous` and `StartIsReal` speak of a page that is complete only after several
chunks came together, so `ScrollbackInv` follows the chunks. `IdsIssued` and
`ReadOnce`: an id is given once in the life of a process, its request is in one
queue until one goroutine reads for it. `Answered`: for a page that waits and is
not spoiled, what it has got, what is in its channel and what is on its way (a
request, a goroutine with lines left, the response queue, the pump, a wire) add up
to the page `ReadLinesBefore` returned (`AddUp`), with the final chunk behind all
others (`InOrder`), so that nothing is left when it is taken. `Closed`: before
`lowest` a line ends, what is shown is all from there on, and a request under way
asks for what is before it. Theorems `OlderLinesCloseUp` and `StartIsTheStart`
follow, with `PageClosesUp` for the step that shows a page. `ScrollbackTypes` is needed
throughout; to be inductive it needs `PumpInv`, that the pump has chunks in hand
exactly while it writes, and a connection unless it is off.

`ScrollbackKeepsHistory` is the refinement of `PagedHistory`. The same invariant carries
it; that a page that arrives adds at most as many lines as were asked for is
`PageIsFull`, and that it adds at least one follows since an answer without lines
ends the scrolling instead.

`ShownContiguous` excuses spoiled answers. `LossesHaveCauses` says when there are any:
a connection broke, a server process ended, or some page is of more chunks than the
channel of its request holds. So no order of goroutines, timeouts and clears loses
or mixes chunks. `SentOnce` says that the chunks of one answer share no line and
all but the last are full; `Counts`, that for a page that waits the full chunks in its channel and the lines yet to
arrive are no more than the page, so that a channel the page fits in has room; `Undisturbed`, that
while nothing breaks there is one connection and no answer is spoiled.
`GapFreeUndisturbed` concludes that a page then shows every line from its lowest on,
without excuse, where its pages fit the channel. Chunks are full when they hold
`ChunkLines` lines here; the code fills them by bytes (`forward.go:155-165`), so that what
fits depends on the length of lines there.

`AnswersWake` needs its invariant also while the pump writes, since
it goes to sleep without another look at the queue. `OnlyOwnHandlerUnregisters`
is about single steps.

Only model-checked: the liveness properties `Delivered`, `Drains`, `CatchesUp`
(of `EventStream` and of `Tail`), `AbandonedStreamsEnd` and `FollowsFiles`, since
liveness is beyond the prover, and the five violations. Every invariant, action
property and refinement of the passing runs is a theorem.

## 5. What the runs found

- **A line can be too long to forward** (`ingest.go:303`). The tailer's limit is
  256 KiB of text (`main.go:64`), the server's scanner has the same limit for the
  JSON around and within it. Such a line ends its connection unacked and is sent
  first on the next one: it and all lines behind it are never delivered, unless
  the buffer overflows. README.md:244-246 promises redelivery.
- **The source cap can be passed** (`ingest.go:326`, against the comment at
  20-22): handlers of an old and a new connection of one client check the count
  and register in separate critical sections.
- **A restarted server's lines are taken for replays** (`index.html:741`):
  README.md:102-103 says the browser "resumes exactly where it left off", but
  `hub.go:57` numbers from 1 in every process and the page keeps its `lastSeq`.
- **A failed read replays the file** (`tail.go:123`, against the comment at
  198-199): after any transient error the same file is opened again, and as this is
  not the first open it is emitted from its beginning, every line once more.

- **A page of older lines can have a hole** (`ingest.go:125-128`): a chunk is
  dropped when the channel of the waiting request is full, which a waiter that is merely slow
  lets happen, and the final chunk completes the page all the same.
  `server/backfill.go:18-20` and README.md:389-391 promise the contrary.

The tail model shows one more place where the code does less than its comment says, without
a run of its own. The package comment (`tail.go:8-10`) says that on a rotation "the
old handle is drained". It is read until a `Read` reports its end (`tail.go:237`),
then the unterminated line is handed over, which may wait for the lines channel, and the
file is closed (`tail.go:160`). What a process that still has the old file open appends
in between is never read, and the line just handed over lacks its rest. `late` records
it, and `LeavesNothing` excuses nothing else; `LinesWhole` excuses the last line of
any file that was closed.

In excusing spoiled pages, `RemoteBackfill` records three more ways to the same hole:
chunks the pump had taken are lost with a connection while the final one, queued
a moment later, goes out on the next connection; the final chunk is read on the new connection
before the handler of the old one has read the earlier ones; and a restarted
server, whose ids begin at 1 again, takes a chunk for an answer to its own
request.

## 6. Abstractions and limits

- Text, times, offsets and names are left out; a line is its Seq, its source and
  whether its encoding fits. Empty and malformed ingest lines are skipped by the
  code without a trace and do not occur.
- One forwarding client with a valid token; two clients share the server's
  registry and hub but no counter or buffer modelled here.
- `writeBatch` writes a batch in one go; here it is one event at a time, which
  allows every point at which a write can fail or block.
- A file keeps its ID across restarts. Lines of two files are told apart by file
  only.
- Event ids in flight when the server process dies are lost; had they arrived it
  could have been just before.
- Backfill requests ride on the same two streams as lines and acks
  (`forward.go:425-431`, `ingest.go:282-286`); they are left out, and are FIFO
  with them. An ack sent along with a request is an ack like the ticker's.
- A first open is one step, though it makes up to four system calls. So are the look
  at the path and the reset after a truncation that follows it: the size that is
  compared was read before, and the reset looks at nothing else. Docker envelopes are not unwrapped, and the end of `Run`'s
  context, which stops the tailer, is left out.
- A line of exactly the limit whose CR is read before its newline is emitted
  followed by an empty one (`tail.go:286-292`); the model does the same, and no
  property forbids it. The lost rest of a file that is rotated during a failed
  read, or of one that came to the path and left it between two polls, is not
  claimed to be emitted either.
- In `RemoteBackfill` a file does not change while it is scrolled, since older lines are
  below the live ones; its live lines begin where a line begins; a page that
  has no live line yet, and asks from the end of the file, is left out. The budget of a
  chunk counts lines. Lines and acks share the two streams and the pump with
  chunks and requests, but neither waits for the other, and they are left out
  like the ticker. The page inserts an answer in one step, and neither `backfill.MaxLines`
  nor the page's own limit on older lines is reached. A request refused for
  want of its source, and a read that fails, are the same to everyone.
  Reads from the local disk (`backfill.go:83-94`) are `ReadLinesBefore` alone.
- In `Discovery` naming and registering a file is one step, and so is unnaming
  and hiding it: no reader of the one looks at the other. Files keep their base
  names. A file wanted by both watchers, or by Docker and a static argument, would have
  two tailers (`staticIDs` is asked by the rescans only); the model keeps the
  three sets of paths apart. The abrupt end by `serveErr` (`main.go:510`) is an exit
  like any other kill.
- The page's floors and disk loads (selecting a further file) are not modelled.
- Not to be modelled: `auth`, `config`, `dockerlog` (sequential parsing or a pure
  check), the status endpoint (read-only), the installer, rendering.

## 7. Plan

Done: forwarding, event streams, the tailer, remote scrollback and discovery, each
but the last with an abstract specification that it implements. Next:

`Selection`: `toggleFile`'s await between disk load and reconnect, with floors,
composed with `Hub`. Property: no line is in neither the disk load nor the
stream. It would take the place of a smaller run.
