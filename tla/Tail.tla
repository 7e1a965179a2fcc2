-------------------------------- MODULE Tail --------------------------------
(***************************************************************************)
(* internal/tail: the polling tailer of one path.  Its goroutine makes one *)
(* system call, or hands over one line, per step; the writer and the       *)
(* rotation act in between.                                                *)
(*                                                                         *)
(* A byte is known by its place (version of the file, position), so that   *)
(* the text of an emitted line can be compared with the Offset it carries. *)
(* out is history: everything sent to the lines channel.  So are version   *)
(* and skipped, what the tailer believes to read, and where its very first *)
(* open of a file began to, and late, the files written to after the       *)
(* tailer saw their end for the last time.  Unwrapping of Docker's         *)
(* envelopes alters texts only and is left out.                            *)
(***************************************************************************)
EXTENDS LogFiles, Integers, FiniteSets

CONSTANTS
  MaxLineBytes,   \* Options.MaxLineBytes
  TailBytes,      \* Options.TailBytes; negative: start at the end
  ReadChunk,      \* bytes one Read returns at most (readChunkBytes)
  MaxBytes,       \* bound: bytes written, before the first open or later
  MaxTruncates,   \* bound: truncations
  MaxErrors       \* bound: system calls that fail

ASSUME TailAssumption ==
  MaxLineBytes \in Nat \ {0} /\ TailBytes \in Int \ {0} /\ ReadChunk \in Nat \ {0}
ASSUME BoundsAssumption ==
  MaxBytes \in Nat /\ MaxTruncates \in Nat /\ MaxErrors \in Nat

VARIABLES
  file,                    \* open file, or NoFile
  offset,                  \* file offset of the next Read
  pending, pendingStart,   \* bytes after the last newline, and where they start
  skipFirst,               \* opened mid-line
  openedOnce,
  buf, cur,                \* consume: bytes yet to be split, and where they start
  pc,                      \* "poll", "read", "split", "flush" or "close"
  draining,                \* the path names another file
  out, version, skipped, late,
  written, truncates, errors

readerVars == <<file, offset, pending, pendingStart, skipFirst, openedOnce>>
splitVars == <<buf, cur>>
stepVars == <<pc, draining>>
lineVars == <<out, version, skipped>>
envVars == <<written, truncates, errors, late>>
tailerVars == <<readerVars, splitVars, stepVars, lineVars>>
vars == <<fileVars, tailerVars, envVars>>

Bytes == [kind : Kinds, version : Nat, pos : Nat]

(* Bytes first .. last of what f holds now.                                *)
Span(f, first, last) ==
  [i \in 1 .. (last - first + 1) |->
     [kind |-> Content(f)[first + i - 1], version |-> Version(f), pos |-> first + i - 1]]

Init ==
  /\ FilesInit
  /\ file = NoFile /\ offset = 0
  /\ pending = <<>> /\ pendingStart = 0
  /\ skipFirst = FALSE /\ openedOnce = FALSE
  /\ buf = <<>> /\ cur = 0
  /\ pc = "poll" /\ draining = FALSE
  /\ out = <<>> /\ version = 0 /\ skipped = <<NoFile, 0>> /\ late = {}
  /\ written = 0 /\ truncates = 0 /\ errors = 0

-----------------------------------------------------------------------------
(* poll.                                                                   *)

(* Where a first open starts to read.                                      *)
ReplayStart(size) ==
  IF TailBytes < 0 THEN size ELSE IF size > TailBytes THEN size - TailBytes ELSE 0

(* A slip: a first open in the middle of a line takes its rest for a line. *)
OpenMidLine ==
  /\ pc = "poll" /\ file = NoFile /\ path # NoFile
  /\ file' = path /\ version' = Version(path)
  /\ offset' = IF openedOnce THEN 0 ELSE ReplayStart(Size(path))
  /\ skipFirst' = FALSE
  /\ skipped' = IF openedOnce THEN skipped ELSE <<path, version'>>
  /\ openedOnce' = TRUE
  /\ pending' = <<>> /\ pendingStart' = offset'
  /\ UNCHANGED <<splitVars, stepVars, out>>

(* A slip: a partial line outlives the file it was read from.              *)
OpenKeepsPending ==
  /\ pc = "poll" /\ file = NoFile /\ path # NoFile
  /\ file' = path /\ version' = Version(path)
  /\ \/ /\ openedOnce
        /\ offset' = 0 /\ skipFirst' = FALSE
        /\ UNCHANGED <<skipped, pending, pendingStart>>
     \/ /\ ~openedOnce
        /\ offset' = ReplayStart(Size(path))
        /\ skipFirst' = (offset' > 0 /\ Content(path)[offset'] # "newline")
        /\ skipped' = <<path, version'>>
        /\ pending' = <<>> /\ pendingStart' = offset'
  /\ openedOnce' = TRUE
  /\ UNCHANGED <<splitVars, stepVars, out>>

(* open: only the first one skips content, and it may land mid-line.       *)
Open ==
  /\ pc = "poll" /\ file = NoFile /\ path # NoFile
  /\ file' = path /\ version' = Version(path)
  /\ \/ /\ openedOnce
        /\ offset' = 0 /\ skipFirst' = FALSE
        /\ UNCHANGED skipped
     \/ /\ ~openedOnce
        /\ offset' = ReplayStart(Size(path))
        /\ skipFirst' = (offset' > 0 /\ Content(path)[offset'] # "newline")
        /\ skipped' = <<path, version'>>
  /\ openedOnce' = TRUE
  /\ pending' = <<>> /\ pendingStart' = offset'
  /\ UNCHANGED <<splitVars, stepVars, out>>

(* A slip: a shrunken file goes unnoticed.                                 *)
StatPathOnlyRotation ==
  /\ pc = "poll" /\ file # NoFile
  /\ pc' = "read"
  /\ draining' = (path # file)
  /\ UNCHANGED <<readerVars, splitVars, lineVars>>

(* A slip: the partial line survives a truncation.                         *)
StatPathKeepsPending ==
  /\ pc = "poll" /\ file # NoFile
  /\ pc' = "read"
  /\ draining' = (path # file)
  /\ \/ /\ path = file /\ Size(file) < offset
        /\ offset' = 0 /\ skipFirst' = FALSE
        /\ version' = Version(file)
        /\ UNCHANGED <<file, pending, pendingStart, openedOnce>>
     \/ (path # file \/ Size(file) >= offset) /\ UNCHANGED <<readerVars, version>>
  /\ UNCHANGED <<splitVars, out, skipped>>

(* A slip: a file with nothing new is taken for a truncated one.           *)
StatPathUnchanged ==
  /\ pc = "poll" /\ file # NoFile
  /\ pc' = "read"
  /\ draining' = (path # file)
  /\ \/ /\ path = file /\ Size(file) <= offset
        /\ offset' = 0 /\ pending' = <<>> /\ pendingStart' = 0 /\ skipFirst' = FALSE
        /\ version' = Version(file)
        /\ UNCHANGED <<file, openedOnce>>
     \/ (path # file \/ Size(file) > offset) /\ UNCHANGED <<readerVars, version>>
  /\ UNCHANGED <<splitVars, out, skipped>>

(* A slip: a file that was moved away is not read any more.                *)
StatPathNoDrain ==
  /\ pc = "poll" /\ file # NoFile
  /\ pc' = IF path # file THEN "flush" ELSE "read"
  /\ draining' = (path # file)
  /\ \/ /\ path = file /\ Size(file) < offset
        /\ offset' = 0 /\ pending' = <<>> /\ pendingStart' = 0 /\ skipFirst' = FALSE
        /\ version' = Version(file)
        /\ UNCHANGED <<file, openedOnce>>
     \/ (path # file \/ Size(file) >= offset) /\ UNCHANGED <<readerVars, version>>
  /\ UNCHANGED <<splitVars, out, skipped>>

(* The path is compared with the open file, and its size with the offset.  *)
StatPath ==
  /\ pc = "poll" /\ file # NoFile
  /\ pc' = "read"
  /\ draining' = (path # file)
  /\ \/ /\ path = file /\ Size(file) < offset
        /\ offset' = 0 /\ pending' = <<>> /\ pendingStart' = 0 /\ skipFirst' = FALSE
        /\ version' = Version(file)
        /\ UNCHANGED <<file, openedOnce>>
     \/ (path # file \/ Size(file) >= offset) /\ UNCHANGED <<readerVars, version>>
  /\ UNCHANGED <<splitVars, out, skipped>>

-----------------------------------------------------------------------------
(* read and consume.                                                       *)

FirstNewline(b, i) == b[i].kind = "newline" /\ \A j \in 1 .. (i - 1) : b[j].kind # "newline"

HasNewline(b) == \E i \in DOMAIN b : b[i].kind = "newline"

(* consume appends what was read to the partial line, if there is one.     *)
Consume(data, at) ==
  /\ buf' = pending \o data
  /\ cur' = IF pending = <<>> THEN at ELSE pendingStart
  /\ pc' = "split"

(* One Read; inside the first partial line its bytes are dropped.          *)
Read ==
  /\ pc = "read" /\ offset < Size(file)
  /\ LET left == Size(file) - offset
         n == IF left < ReadChunk THEN left ELSE ReadChunk
         data == Span(file, offset + 1, offset + n) IN
     /\ offset' = offset + n
     /\ \/ /\ ~skipFirst
           /\ Consume(data, offset)
           /\ UNCHANGED skipFirst
        \/ /\ skipFirst /\ ~HasNewline(data)
           /\ UNCHANGED <<splitVars, pc, skipFirst>>
        \/ /\ skipFirst
           /\ \E i \in 1 .. n :
                /\ FirstNewline(data, i)
                /\ Consume(SubSeq(data, i + 1, n), offset + i)
           /\ skipFirst' = FALSE
  /\ version' = IF offset = 0 THEN Version(file) ELSE version
  /\ UNCHANGED <<file, pending, pendingStart, openedOnce, draining, out, skipped>>

(* emit: the text, its Offset, and (history) how far into the file it goes.*)
Emit(text, off, next) ==
  out' = Append(out, [file |-> file, version |-> version, off |-> off, text |-> text, next |-> next])

(* Length of the first n bytes without a trailing carriage return.         *)
TextLength(b, n) == IF n > 0 /\ b[n].kind = "cr" THEN n - 1 ELSE n

(* A line that fits is emitted whole, without its terminator.              *)
EmitLine ==
  /\ pc = "split"
  /\ \E i \in DOMAIN buf :
       /\ FirstNewline(buf, i)
       /\ LET n == TextLength(buf, i - 1) IN
          /\ n <= MaxLineBytes
          /\ Emit(SubSeq(buf, 1, n), cur, cur + i)
       /\ buf' = SubSeq(buf, i + 1, Len(buf))
       /\ cur' = cur + i
  /\ UNCHANGED <<readerVars, stepVars, version, skipped>>

TooLong ==
  \/ \E i \in DOMAIN buf : FirstNewline(buf, i) /\ TextLength(buf, i - 1) > MaxLineBytes
  \/ ~HasNewline(buf) /\ Len(buf) > MaxLineBytes

(* A slip: the next piece starts one byte too far.                         *)
EmitPieceSkips ==
  /\ pc = "split" /\ TooLong
  /\ Emit(SubSeq(buf, 1, MaxLineBytes), cur, cur + MaxLineBytes)
  /\ buf' = SubSeq(buf, MaxLineBytes + 2, Len(buf))
  /\ cur' = cur + MaxLineBytes + 1
  /\ UNCHANGED <<readerVars, stepVars, version, skipped>>

(* A longer one, complete or not, gives up its first MaxLineBytes bytes.   *)
EmitPiece ==
  /\ pc = "split" /\ TooLong
  /\ Emit(SubSeq(buf, 1, MaxLineBytes), cur, cur + MaxLineBytes)
  /\ buf' = SubSeq(buf, MaxLineBytes + 1, Len(buf))
  /\ cur' = cur + MaxLineBytes
  /\ UNCHANGED <<readerVars, stepVars, version, skipped>>

(* A slip: a partial line may grow without bound.                          *)
KeepRestUnbounded ==
  /\ pc = "split" /\ ~HasNewline(buf)
  /\ pending' = buf /\ pendingStart' = cur
  /\ buf' = <<>> /\ cur' = 0
  /\ pc' = "read"
  /\ UNCHANGED <<file, offset, skipFirst, openedOnce, draining, lineVars>>

(* What is left becomes the partial line, and reading goes on.             *)
KeepRest ==
  /\ pc = "split" /\ ~HasNewline(buf) /\ ~TooLong
  /\ pending' = buf /\ pendingStart' = cur
  /\ buf' = <<>> /\ cur' = 0
  /\ pc' = "read"
  /\ UNCHANGED <<file, offset, skipFirst, openedOnce, draining, lineVars>>

(* End of file: sleep until the next poll, or, if the path has moved on,   *)
(* be done with this one.                                                  *)
ReadEnds ==
  /\ pc = "read" /\ offset >= Size(file)
  /\ pc' = IF draining THEN "flush" ELSE "poll"
  /\ UNCHANGED <<readerVars, splitVars, draining, lineVars>>

(* A slip: the last, unterminated line of a rotated file is dropped.       *)
FlushPendingDrops ==
  /\ pc = "flush"
  /\ pending' = <<>> /\ pc' = "close"
  /\ UNCHANGED <<file, offset, pendingStart, skipFirst, openedOnce, splitVars, draining, lineVars>>

(* The unterminated last line of a file that is done with.                 *)
FlushPending ==
  /\ pc = "flush"
  /\ \/ pending = <<>> /\ UNCHANGED out
     \/ /\ pending # <<>>
        /\ Emit(SubSeq(pending, 1, TextLength(pending, Len(pending))),
                pendingStart, pendingStart + Len(pending))
  /\ pending' = <<>> /\ pc' = "close"
  /\ UNCHANGED <<file, offset, pendingStart, skipFirst, openedOnce, splitVars, draining, version, skipped>>

(* What was written meanwhile is not looked at any more.                   *)
CloseFile ==
  /\ pc = "close"
  /\ file' = NoFile
  /\ pc' = "poll" /\ draining' = FALSE
  /\ UNCHANGED <<offset, pending, pendingStart, skipFirst, openedOnce, splitVars, lineVars>>

(* A stat or a read fails: Run closes the file and opens it again.         *)
CallFails ==
  /\ errors < MaxErrors
  /\ pc \in {"poll", "read"} /\ file # NoFile
  /\ errors' = errors + 1
  /\ file' = NoFile
  /\ pc' = "poll" /\ draining' = FALSE
  /\ UNCHANGED <<fileVars, offset, pending, pendingStart, skipFirst, openedOnce, splitVars,
                 lineVars, written, truncates, late>>

Tailer ==
  /\ \/ Open \/ StatPath \/ Read \/ EmitLine \/ EmitPiece \/ KeepRest
     \/ ReadEnds \/ FlushPending \/ CloseFile
  /\ UNCHANGED <<fileVars, envVars>>

-----------------------------------------------------------------------------
(* The environment.                                                        *)

(* What the tailer relies on, for it sees a file's size only once per      *)
(* poll: a truncated file stays below the old offset until it is noticed.  *)
StaysBelowOffset ==
  file = writing /\ offset > 0 /\ version # Version(file) => Size(file) + 1 < offset

WriterWrites ==
  /\ written < MaxBytes
  /\ StaysBelowOffset
  /\ \E k \in Kinds : Write(k)
  /\ written' = written + 1
  /\ late' = IF file = writing /\ pc \in {"flush", "close"} THEN late \cup {file} ELSE late
  /\ UNCHANGED <<tailerVars, truncates, errors>>

Rotation ==
  /\ MoveAway \/ Recreate \/ Reopen
  /\ UNCHANGED <<tailerVars, envVars>>

CopyTruncate ==
  /\ truncates < MaxTruncates
  /\ Truncate
  /\ truncates' = truncates + 1
  /\ UNCHANGED <<tailerVars, written, errors, late>>

Next == Tailer \/ CallFails \/ WriterWrites \/ Rotation \/ CopyTruncate

Spec == Init /\ [][Next]_vars

(* Run polls until its context ends, and the receiver of the lines channel *)
(* keeps receiving.                                                        *)
FairSpec == Spec /\ WF_vars(Tailer)

-----------------------------------------------------------------------------
(* Every variable holds a value of its kind, and a partial line takes no   *)
(* more memory than a whole one may.                                       *)
TypeOK ==
  /\ FilesTypeOK
  /\ file \in Files \cup {NoFile} /\ offset \in Nat
  /\ pending \in Seq(Bytes) /\ Len(pending) <= MaxLineBytes /\ pendingStart \in Nat
  /\ skipFirst \in BOOLEAN /\ openedOnce \in BOOLEAN
  /\ buf \in Seq(Bytes) /\ cur \in Nat
  /\ pc \in {"poll", "read", "split", "flush", "close"} /\ draining \in BOOLEAN
  /\ version \in Nat /\ skipped \in (Files \cup {NoFile}) \X Nat
  /\ late \subseteq Files
  /\ written \in Nat /\ truncates \in Nat /\ errors \in Nat

Emitted == DOMAIN out

(* The Offset of an emitted line is where its text stands in the file, and *)
(* all of the text stands there: through partial reads, pieces, rotations  *)
(* and truncations.  (The scrollback pages by these offsets.)              *)
OffsetsTrue ==
  \A i \in Emitted : \A j \in DOMAIN out[i].text :
    /\ out[i].text[j].pos = out[i].off + j
    /\ out[i].text[j].version = out[i].version

SameFile(i, j) == out[i].file = out[j].file /\ out[i].version = out[j].version

(* A line begins where an earlier one of the same file ended or at the     *)
(* beginning of the file; the first one may also begin where the tailer    *)
(* chose to start.                                                         *)
NothingSkipped ==
  \A j \in Emitted :
    \/ out[j].off = 0
    \/ \E i \in 1 .. (j - 1) : SameFile(i, j) /\ out[i].next = out[j].off
    \/ /\ \A i \in 1 .. (j - 1) : ~SameFile(i, j)
       /\ skipped = <<out[j].file, out[j].version>>

(* An emitted line starts at the start of a line, or where a full piece    *)
(* ended; it ends before a newline, when it is full, or where a file that  *)
(* is closed after it was read to.  Its text lacks nothing but its         *)
(* terminator.                                                             *)
LinesWhole ==
  \A j \in Emitted :
    LET content == versions[out[j].file][out[j].version] IN
    /\ \/ out[j].off = 0
       \/ content[out[j].off] = "newline"
       \/ \E i \in 1 .. (j - 1) : SameFile(i, j) /\ out[i].next = out[j].off
                                  /\ Len(out[i].text) = MaxLineBytes
    /\ \/ content[out[j].next] = "newline"
       \/ Len(out[j].text) = MaxLineBytes
       \/ file # out[j].file
       \/ pc = "close" /\ j = Len(out)
    /\ \A i \in DOMAIN out[j].text : out[j].text[i].kind # "newline"
    /\ LET end == out[j].off + Len(out[j].text) IN
       /\ end <= out[j].next /\ out[j].next <= end + 2
       /\ \A p \in (end + 1) .. out[j].next : content[p] \in {"cr", "newline"}

(* The emitted lines that byte p of a version of a file lies in (with its  *)
(* terminator).                                                            *)
Copies(f, v, p) ==
  {i \in Emitted : out[i].file = f /\ out[i].version = v /\ out[i].off < p /\ p <= out[i].next}

(* A line is emitted once, and once more at most for every call that       *)
(* failed: rotations, truncations, partial reads and pieces repeat nothing.*)
RepeatedOnlyByErrors ==
  \A i \in Emitted : \A p \in (out[i].off + 1) .. out[i].next :
    Cardinality(Copies(out[i].file, out[i].version, p)) <= errors + 1

(* Polling, reading and splitting are a way to keep the promise of         *)
(* LineFeed: each line emitted is the next one of the file that is read,   *)
(* or the first of the file or version that comes after it, and no line of *)
(* an earlier one follows.                                                 *)
Feed == INSTANCE LineFeed WITH
  lines <- [i \in Emitted |-> [file |-> out[i].file, version |-> out[i].version,
                               off |-> out[i].off, next |-> out[i].next]],
  failures <- errors

KeepsFeed == Feed!Spec

(* A file the tailer turns away from, other than to open it again after an *)
(* error, was read to its end but for what came after that was seen, and   *)
(* all that was read of it was emitted, its unterminated last line         *)
(* included, unless it was first opened within that line or behind it      *)
(* (poll, read, flushPending, closeFile).                                  *)
LeavesNothing ==
  [][file # NoFile /\ file' # file /\ errors' = errors =>
       /\ Size(file) <= offset \/ file \in late
       /\ \/ offset = 0
          \/ \E i \in DOMAIN out' :
               out'[i].file = file /\ out'[i].version = version /\ out'[i].next = offset
          \/ /\ skipped = <<file, version>>
             /\ \A i \in DOMAIN out' : out'[i].file # file]_vars

(* When the writer pauses, every complete line of the file the path names  *)
(* gets emitted.                                                           *)
CatchesUp ==
  <>[](path # NoFile => file = path /\ offset = Size(path) /\ buf = <<>>)

(* tail.go:198: only a rotation makes the tailer read a file in full; it   *)
(* never emits a line of it again.                                         *)
NothingRepeated ==
  \A i, j \in Emitted : i < j /\ SameFile(i, j) => out[i].next <= out[j].off
=============================================================================
