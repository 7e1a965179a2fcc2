------------------------------ MODULE Backfill ------------------------------
(***************************************************************************)
(* internal/backfill: one page of a file's older lines, read backwards in  *)
(* blocks.  A content is a sequence of bytes of which only the newlines    *)
(* matter; offsets count from 0.  A line is known by the offset of its     *)
(* first byte.  Cutting long texts and unwrapping Docker envelopes alter   *)
(* texts only and are left out.                                            *)
(***************************************************************************)
EXTENDS Naturals, Sequences, FiniteSets

CONSTANTS
  ScanBlock,   \* scanBlock
  MaxScan      \* maxScan

ASSUME ScanAssumption == ScanBlock \in Nat \ {0} /\ MaxScan \in Nat \ {0}

NewlineAt(content, off) == content[off + 1] = "newline"

StartsLine(content, off) == off = 0 \/ NewlineAt(content, off - 1)

Newlines(content, from, to) == {o \in from .. (to - 1) : NewlineAt(content, o)}

(* The scan stops at the first block boundary where it has seen limit + 1  *)
(* newlines, or at the start of the file, or with its budget spent.        *)
ScanStop(content, end, limit) ==
  LET Pos(k) == IF k * ScanBlock < end THEN end - k * ScanBlock ELSE 0
      Enough(k) == \/ Pos(k) = 0
                   \/ Cardinality(Newlines(content, Pos(k), end)) > limit
                   \/ end - Pos(k) >= MaxScan
  IN Pos(CHOOSE k \in 0 .. end : Enough(k) /\ \A j \in 0 .. (k - 1) : ~Enough(j))

(* Complete lines of the region start .. end - 1, which begins a line.     *)
LinesIn(content, start, end) ==
  {o \in start .. (end - 1) :
     /\ o = start \/ NewlineAt(content, o - 1)
     /\ Newlines(content, o, end) # {}}

(* A slip: one line too many is kept.                                      *)
LastLinesOneMore(lines, limit) ==
  {o \in lines : Cardinality({p \in lines : p > o}) <= limit}

(* The newest limit of some lines.                                         *)
LastLines(lines, limit) ==
  {o \in lines : Cardinality({p \in lines : p >= o}) <= limit}

(* A slip: the region is taken to begin a line wherever the scan stopped.  *)
ReadLinesKeepHead(content, before, limit) ==
  LET lines == LastLines(LinesIn(content, ScanStop(content, before, limit), before), limit)
  IN [lines |-> lines, atStart |-> before = 0 \/ 0 \in lines]

(* A slip: a scan that reaches the start of the file returns its start.    *)
ReadLinesClaimStart(content, before, limit) ==
  LET pos == ScanStop(content, before, limit)
      lines == LastLines(LinesIn(content, pos, before), limit)
  IN [lines |-> {o \in lines : StartsLine(content, o)}, atStart |-> pos = 0]

(* ReadLinesBefore: unless the scan reached the start of the file, its     *)
(* head is dropped through the first newline.                              *)
ReadLinesBefore(content, before, limit) ==
  LET pos == ScanStop(content, before, limit)
      breaks == Newlines(content, pos, before)
      heads == IF pos = 0 THEN {0}
               ELSE {o + 1 : o \in {n \in breaks : \A m \in breaks : n <= m}}
      lines == UNION {LastLines(LinesIn(content, h, before), limit) : h \in heads}
  IN [lines |-> lines, atStart |-> before = 0 \/ 0 \in lines]
=============================================================================
