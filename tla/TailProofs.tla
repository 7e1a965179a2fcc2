----------------------------- MODULE TailProofs ------------------------------
(***************************************************************************)
(* What the tailer emits, for any files, bytes, limits, rotations,         *)
(* truncations and errors: true offsets, no byte between two lines, no     *)
(* line torn, nothing repeated but after an error, and files and versions  *)
(* one after the other, as LineFeed has them.                              *)
(***************************************************************************)
EXTENDS Tail, SequenceTheorems, FiniteSetTheorems, TLAPS

Lines == [file : Files, version : Nat, off : Nat, text : Seq(Bytes), next : Nat]

Core ==
  /\ TypeOK /\ out \in Seq(Lines)
  /\ pc # "poll" => file # NoFile
  /\ file # NoFile => versions[file] # <<>>

-----------------------------------------------------------------------------
(* Files.                                                                  *)

LEMMA ContentType ==
  ASSUME FilesTypeOK, NEW f \in Files, versions[f] # <<>>
  PROVE  /\ Version(f) \in Nat \ {0} /\ Version(f) \in DOMAIN versions[f]
         /\ Content(f) \in Seq(Kinds) /\ Size(f) \in Nat
<1>1. versions[f] \in Seq(Seq(Kinds))
  BY DEF FilesTypeOK
<1>2. Version(f) \in Nat \ {0} /\ DOMAIN versions[f] = 1 .. Version(f)
  BY <1>1, EmptySeq, LenProperties DEF Version
<1>3. Content(f) \in Seq(Kinds)
  BY <1>1, <1>2, ElementOfSeq DEF Content, Version
<1> QED BY <1>2, <1>3, LenProperties DEF Size

(* The bytes a Read returns.                                               *)
LEMMA SpanBytes ==
  ASSUME FilesTypeOK, NEW f \in Files, versions[f] # <<>>,
         NEW at \in Nat, NEW n \in Nat, at + n <= Size(f)
  PROVE  LET data == Span(f, at + 1, at + n) IN
         /\ data \in Seq(Bytes) /\ Len(data) = n /\ DOMAIN data = 1 .. n
         /\ \A i \in 1 .. n : /\ data[i].pos = at + i /\ data[i].version = Version(f)
                              /\ data[i].kind = Content(f)[at + i]
<1> DEFINE data == Span(f, at + 1, at + n)
           e(i) == [kind |-> Content(f)[at + 1 + i - 1], version |-> Version(f), pos |-> at + 1 + i - 1]
<1>1. Version(f) \in Nat /\ Content(f) \in Seq(Kinds) /\ Size(f) \in Nat
  BY ContentType
<1>2. \A i \in 1 .. n : at + 1 + i - 1 = at + i /\ at + i \in 1 .. Size(f)
  BY <1>1
<1>3. (at + n) - (at + 1) + 1 = n
  OBVIOUS
<1>4. data = [i \in 1 .. n |-> e(i)]
  BY <1>3 DEF Span
<1>5. \A i \in 1 .. n : e(i) \in Bytes
  <2> SUFFICES ASSUME NEW i \in 1 .. n PROVE e(i) \in Bytes
    OBVIOUS
  <2>1. Content(f)[at + i] \in Kinds
    BY <1>1, <1>2, ElementOfSeq DEF Size
  <2> QED BY <1>1, <1>2, <2>1 DEF Bytes
<1>6. data \in Seq(Bytes)
  <2> HIDE DEF e
  <2>1. data \in [1 .. n -> Bytes]
    BY <1>4, <1>5
  <2> QED BY <2>1
<1> HIDE DEF data
<1>7. DOMAIN data = 1 .. n /\ Len(data) = n
  <2>1. DOMAIN data = 1 .. n
    BY <1>4
  <2> QED BY <1>6, <2>1, LenProperties
<1>8. \A i \in 1 .. n : /\ data[i].pos = at + i /\ data[i].version = Version(f)
                        /\ data[i].kind = Content(f)[at + i]
  BY <1>2, <1>4
<1> QED BY <1>6, <1>7, <1>8 DEF data

(* What is written stays where it is, until a truncation and after.        *)
Kept ==
  \A f \in Files : \A v \in DOMAIN versions[f] :
    /\ v \in DOMAIN versions'[f] /\ Len(versions[f][v]) <= Len(versions'[f][v])
    /\ \A p \in 1 .. Len(versions[f][v]) : versions'[f][v][p] = versions[f][v][p]

LEMMA WriteKeeps ==
  ASSUME FilesTypeOK, NEW k \in Kinds, Write(k)
  PROVE  /\ FilesTypeOK' /\ Kept
         /\ \A f \in Files : versions'[f] # <<>> <=> versions[f] # <<>>
         /\ \A f \in Files \ {writing} : versions'[f] = versions[f]
         /\ Version(writing)' = Version(writing) /\ Size(writing)' = Size(writing) + 1
<1> DEFINE w == writing
           v == Version(w)
           more == Append(Content(w), k)
<1>1. w \in Files /\ versions[w] \in Seq(Seq(Kinds)) /\ versions[w] # <<>>
  BY DEF FilesTypeOK
<1>2. v \in Nat \ {0} /\ v \in DOMAIN versions[w] /\ Content(w) \in Seq(Kinds) /\ Size(w) \in Nat
      /\ v \in 1 .. Len(versions[w])
  BY <1>1, ContentType DEF Version
<1>3. versions' = [versions EXCEPT ![w] = [versions[w] EXCEPT ![v] = more]]
  BY DEF Write, Content
<1>4. more \in Seq(Kinds) /\ Len(more) = Size(w) + 1
      /\ \A p \in 1 .. Size(w) : more[p] = Content(w)[p]
  BY <1>2, AppendProperties DEF Size
<1> HIDE DEF more
<1> DEFINE vs == [versions[w] EXCEPT ![v] = more]
<1>5. /\ vs \in Seq(Seq(Kinds)) /\ Len(vs) = Len(versions[w])
      /\ \A u \in 1 .. Len(versions[w]) : vs[u] = IF u = v THEN more ELSE versions[w][u]
  BY <1>1, <1>2, <1>4, ExceptSeq
<1>6. DOMAIN vs = DOMAIN versions[w] /\ DOMAIN versions[w] = 1 .. Len(versions[w])
  BY <1>1, <1>5, LenProperties
<1>7. vs # <<>>
  BY <1>1, <1>2, <1>5, EmptySeq
<1> HIDE DEF vs
<1>8. /\ versions'[w] = vs /\ \A f \in Files \ {w} : versions'[f] = versions[f]
      /\ versions' \in [Files -> Seq(Seq(Kinds))]
  BY <1>1, <1>3, <1>5 DEF FilesTypeOK, vs
<1>9. UNCHANGED <<path, writing>>
  BY DEF Write
<1>10. FilesTypeOK'
  BY <1>7, <1>8, <1>9 DEF FilesTypeOK
<1>11. Version(w)' = v /\ Size(w)' = Size(w) + 1
  BY <1>2, <1>4, <1>5, <1>8, <1>9 DEF Version, Size, Content
<1>12. Kept
  <2> SUFFICES ASSUME NEW f \in Files, NEW u \in DOMAIN versions[f]
               PROVE  /\ u \in DOMAIN versions'[f] /\ Len(versions[f][u]) <= Len(versions'[f][u])
                      /\ \A p \in 1 .. Len(versions[f][u]) : versions'[f][u][p] = versions[f][u][p]
    BY DEF Kept
  <2>1. versions[f][u] \in Seq(Kinds) /\ Len(versions[f][u]) \in Nat
    BY ElementOfSeq, LenProperties DEF FilesTypeOK
  <2>2. CASE f # w
    BY <1>8, <2>1, <2>2
  <2>3. CASE f = w /\ u # v
    BY <1>5, <1>6, <1>8, <2>1, <2>3
  <2>4. CASE f = w /\ u = v
    BY <1>2, <1>4, <1>5, <1>6, <1>8, <2>1, <2>4 DEF Content, Size
  <2> QED BY <2>2, <2>3, <2>4
<1> QED BY <1>1, <1>7, <1>8, <1>10, <1>11, <1>12

LEMMA TruncateKeeps ==
  ASSUME FilesTypeOK, Truncate
  PROVE  /\ FilesTypeOK' /\ Kept
         /\ \A f \in Files : versions'[f] # <<>> <=> versions[f] # <<>>
         /\ \A f \in Files \ {path} : versions'[f] = versions[f]
         /\ Version(path)' = Version(path) + 1 /\ Size(path)' = 0
<1>1. path \in Files /\ versions[path] \in Seq(Seq(Kinds)) /\ versions[path] # <<>>
  BY DEF FilesTypeOK, Truncate
<1> DEFINE vs == Append(versions[path], <<>>)
<1>2. versions' = [versions EXCEPT ![path] = vs] /\ UNCHANGED <<path, writing>>
  BY DEF Truncate
<1>3. /\ vs \in Seq(Seq(Kinds)) /\ vs # <<>> /\ Len(vs) = Len(versions[path]) + 1
      /\ \A u \in 1 .. Len(versions[path]) : vs[u] = versions[path][u]
      /\ vs[Len(versions[path]) + 1] = <<>>
  <2>1. <<>> \in Seq(Kinds)
    BY EmptySeq
  <2> QED BY <1>1, <2>1, AppendProperties
<1>4. DOMAIN vs = 1 .. Len(vs) /\ DOMAIN versions[path] = 1 .. Len(versions[path])
      /\ Len(versions[path]) \in Nat
  BY <1>1, <1>3, LenProperties
<1> HIDE DEF vs
<1>5. /\ versions'[path] = vs /\ \A f \in Files \ {path} : versions'[f] = versions[f]
      /\ versions' \in [Files -> Seq(Seq(Kinds))]
  BY <1>1, <1>2, <1>3 DEF FilesTypeOK
<1>6. FilesTypeOK'
  BY <1>1, <1>2, <1>3, <1>5 DEF FilesTypeOK
<1>7. Version(path)' = Version(path) + 1 /\ Size(path)' = 0
  BY <1>2, <1>3, <1>5, EmptySeq DEF Version, Size, Content
<1>8. Kept
  <2> SUFFICES ASSUME NEW f \in Files, NEW u \in DOMAIN versions[f]
               PROVE  /\ u \in DOMAIN versions'[f] /\ versions'[f][u] = versions[f][u]
                      /\ Len(versions[f][u]) \in Nat
    BY DEF Kept
  <2>1. versions[f][u] \in Seq(Kinds) /\ Len(versions[f][u]) \in Nat
    BY ElementOfSeq, LenProperties DEF FilesTypeOK
  <2>2. CASE f # path
    BY <1>5, <2>1, <2>2
  <2>3. CASE f = path
    <3>1. u \in 1 .. Len(versions[path])
      BY <1>4, <2>3
    <3>2. u \in 1 .. Len(vs)
      BY <1>3, <1>4, <3>1
    <3>3. u \in DOMAIN vs /\ vs[u] = versions[path][u]
      BY <1>3, <1>4, <3>1, <3>2
    <3> QED BY <1>5, <2>1, <2>3, <3>3
  <2> QED BY <2>2, <2>3
<1> QED BY <1>1, <1>3, <1>5, <1>6, <1>7, <1>8

(* A file that was moved away does not come back to the path.              *)
MovedAway == \A f \in Files : versions[f] # <<>> /\ path # f => path' # f

Environment == WriterWrites \/ Rotation \/ CopyTruncate

LEMMA EnvironmentKeeps ==
  ASSUME TypeOK, Environment
  PROVE  /\ FilesTypeOK' /\ Kept /\ MovedAway /\ UNCHANGED tailerVars
         /\ \A f \in Files : versions[f] # <<>> => versions'[f] # <<>>
         /\ written' \in Nat /\ truncates' \in Nat /\ errors' \in Nat /\ late' \subseteq Files
<1>1. \A f \in Files : \A v \in DOMAIN versions[f] : Len(versions[f][v]) \in Nat
  BY ElementOfSeq, LenProperties DEF TypeOK, FilesTypeOK
<1>2. CASE WriterWrites
  <2>1. PICK k \in Kinds : Write(k)
    BY <1>2 DEF WriterWrites
  <2>2. MovedAway
    BY <2>1 DEF Write, MovedAway
  <2>3. FilesTypeOK' /\ Kept /\ \A f \in Files : versions[f] # <<>> => versions'[f] # <<>>
    BY <2>1, WriteKeeps DEF TypeOK
  <2>4. late' \subseteq Files
    <3>1. file = writing => file \in Files
      BY DEF TypeOK, FilesTypeOK
    <3> QED BY <1>2, <3>1 DEF WriterWrites, TypeOK
  <2> QED BY <1>2, <2>2, <2>3, <2>4 DEF WriterWrites, TypeOK
<1>3. CASE CopyTruncate
  <2>1. MovedAway
    BY <1>3 DEF CopyTruncate, Truncate, MovedAway
  <2> QED BY <1>3, <2>1, TruncateKeeps DEF CopyTruncate, TypeOK
<1>4. CASE Rotation /\ (MoveAway \/ Reopen)
  <2>1. FilesTypeOK'
    BY <1>4 DEF MoveAway, Reopen, TypeOK, FilesTypeOK
  <2>2. Kept
    BY <1>1, <1>4 DEF MoveAway, Reopen, Kept
  <2>3. MovedAway
    BY <1>4, NoFileAssumption DEF MoveAway, Reopen, MovedAway
  <2> QED BY <1>4, <2>1, <2>2, <2>3 DEF Rotation, MoveAway, Reopen, envVars, TypeOK
<1>5. CASE Rotation /\ Recreate
  <2>1. PICK f \in Files : /\ versions[f] = <<>> /\ versions' = [versions EXCEPT ![f] = << <<>> >>]
                           /\ path = NoFile /\ path' = f /\ writing' \in {writing, f}
    BY <1>5 DEF Recreate
  <2>2. << <<>> >> \in Seq(Seq(Kinds)) /\ << <<>> >> # <<>>
    BY EmptySeq
  <2>3. /\ versions' \in [Files -> Seq(Seq(Kinds))] /\ versions'[f] # <<>>
        /\ \A g \in Files \ {f} : versions'[g] = versions[g]
    BY <2>1, <2>2 DEF TypeOK, FilesTypeOK
  <2>4. FilesTypeOK'
    BY <2>1, <2>3 DEF TypeOK, FilesTypeOK
  <2>5. Kept
    <3> SUFFICES ASSUME NEW g \in Files, NEW v \in DOMAIN versions[g]
                 PROVE  g # f
      BY <1>1, <2>3 DEF Kept
    <3>1. DOMAIN versions[f] = {}
      BY <2>1
    <3> QED BY <3>1
  <2>6. MovedAway
    BY <2>1 DEF MovedAway
  <2> QED BY <1>5, <2>1, <2>3, <2>4, <2>5, <2>6 DEF Rotation, envVars, TypeOK
<1> QED BY <1>2, <1>3, <1>4, <1>5 DEF Environment, Rotation

-----------------------------------------------------------------------------
(* The steps of read and consume.                                          *)

LEMMA RestOf ==
  ASSUME NEW b \in Seq(Bytes), NEW i \in 0 .. Len(b)
  PROVE  LET rest == SubSeq(b, i + 1, Len(b)) IN
         /\ rest \in Seq(Bytes) /\ Len(rest) = Len(b) - i
         /\ \A k \in 1 .. Len(b) - i : rest[k] = b[i + k] /\ i + k \in 1 .. Len(b)
<1>1. Len(b) \in Nat /\ DOMAIN b = 1 .. Len(b)
  BY LenProperties
<1>2. \A k \in i + 1 .. Len(b) : b[k] \in Bytes
  BY <1>1, ElementOfSeq
<1>3. \A k \in 1 .. Len(b) - i : (i + 1) + k - 1 = i + k /\ i + k \in 1 .. Len(b)
  BY <1>1
<1>4. Len(b) - (i + 1) + 1 = Len(b) - i
  BY <1>1
<1> QED BY <1>1, <1>2, <1>3, <1>4, SubSeqProperties

LEMMA StartOf ==
  ASSUME NEW b \in Seq(Bytes), NEW n \in 0 .. Len(b)
  PROVE  LET text == SubSeq(b, 1, n) IN
         /\ text \in Seq(Bytes) /\ Len(text) = n /\ DOMAIN text = 1 .. n
         /\ \A k \in 1 .. n : text[k] = b[k]
<1>1. Len(b) \in Nat
  BY LenProperties
<1>2. \A k \in 1 .. n : b[k] \in Bytes
  BY <1>1, ElementOfSeq
<1>3. SubSeq(b, 1, n) \in Seq(Bytes) /\ Len(SubSeq(b, 1, n)) = n
      /\ \A k \in 1 .. n : SubSeq(b, 1, n)[k] = b[k]
  <2>1. n \in Int /\ n - 1 + 1 = n /\ (1 <= n \/ n = 0) /\ \A k \in 1 .. n : 1 + k - 1 = k
    BY <1>1
  <2> QED BY <1>2, <2>1, SubSeqProperties
<1> QED BY <1>3, LenProperties

(* Read moves on by n bytes, of which it drops the first i or all.         *)
LEMMA ReadSteps ==
  ASSUME Core, Read
  PROVE  \E n \in Nat \ {0} :
           /\ offset + n <= Size(file) /\ offset' = offset + n
           /\ \/ skipFirst /\ skipFirst' /\ UNCHANGED <<splitVars, pc>>
              \/ \E i \in 0 .. n, rest \in Seq(Bytes) :
                   /\ \/ ~skipFirst /\ i = 0
                      \/ skipFirst /\ i # 0 /\ Content(file)[offset + i] = "newline"
                   /\ Len(rest) = n - i
                   /\ \A k \in 1 .. n - i :
                        /\ rest[k].pos = offset + i + k /\ rest[k].version = Version(file)
                        /\ rest[k].kind = Content(file)[offset + i + k]
                   /\ ~skipFirst' /\ Consume(rest, offset + i)
<1> DEFINE left == Size(file) - offset
           n == IF left < ReadChunk THEN left ELSE ReadChunk
           data == Span(file, offset + 1, offset + n)
<1>1. file \in Files /\ versions[file] # <<>> /\ FilesTypeOK /\ offset \in Nat /\ skipFirst \in BOOLEAN
  BY DEF Core, TypeOK, Read
<1>2. Size(file) \in Nat /\ offset < Size(file)
  BY <1>1, ContentType DEF Read
<1>3. n \in Nat \ {0} /\ offset + n <= Size(file)
  BY <1>1, <1>2, TailAssumption
<1>4. /\ data \in Seq(Bytes) /\ Len(data) = n /\ DOMAIN data = 1 .. n
      /\ \A k \in 1 .. n : /\ data[k].pos = offset + k /\ data[k].version = Version(file)
                           /\ data[k].kind = Content(file)[offset + k]
  BY <1>1, <1>3, SpanBytes
<1>5. /\ offset' = offset + n
      /\ \/ ~skipFirst /\ Consume(data, offset) /\ UNCHANGED skipFirst
         \/ skipFirst /\ UNCHANGED <<splitVars, pc, skipFirst>>
         \/ /\ skipFirst /\ skipFirst' = FALSE
            /\ \E i \in 1 .. n : FirstNewline(data, i) /\ Consume(SubSeq(data, i + 1, n), offset + i)
  BY DEF Read
<1> HIDE DEF n, data
<1> DEFINE Reads ==
             \E i \in 0 .. n, rest \in Seq(Bytes) :
               /\ \/ ~skipFirst /\ i = 0
                  \/ skipFirst /\ i # 0 /\ Content(file)[offset + i] = "newline"
               /\ Len(rest) = n - i
               /\ \A k \in 1 .. n - i :
                    /\ rest[k].pos = offset + i + k /\ rest[k].version = Version(file)
                    /\ rest[k].kind = Content(file)[offset + i + k]
               /\ ~skipFirst' /\ Consume(rest, offset + i)
<1>6. ASSUME ~skipFirst, Consume(data, offset), UNCHANGED skipFirst PROVE Reads
  <2>1. offset + 0 = offset /\ n - 0 = n /\ 0 \in 0 .. n
    BY <1>1, <1>3
  <2>2. \A k \in 1 .. n : offset + 0 + k = offset + k
    BY <1>1, <1>3
  <2> QED BY <1>3, <1>4, <1>6, <2>1, <2>2
<1>7. ASSUME skipFirst, skipFirst' = FALSE, NEW i \in 1 .. n, FirstNewline(data, i),
             Consume(SubSeq(data, i + 1, n), offset + i)
      PROVE  Reads
  <2> DEFINE rest == SubSeq(data, i + 1, n)
  <2>1. /\ rest \in Seq(Bytes) /\ Len(rest) = n - i
        /\ \A k \in 1 .. n - i : rest[k] = data[i + k] /\ i + k \in 1 .. n
    BY <1>3, <1>4, RestOf
  <2>2. Consume(rest, offset + i)
    BY <1>7
  <2>3. i \in 0 .. n /\ i # 0 /\ \A k \in 1 .. n - i : offset + (i + k) = offset + i + k
    BY <1>1, <1>3
  <2>4. Content(file)[offset + i] = "newline"
    BY <1>4, <1>7 DEF FirstNewline
  <2> HIDE DEF rest
  <2>5. \A k \in 1 .. n - i :
          /\ rest[k].pos = offset + i + k /\ rest[k].version = Version(file)
          /\ rest[k].kind = Content(file)[offset + i + k]
    BY <1>4, <2>1, <2>3
  <2> QED BY <1>7, <2>1, <2>2, <2>3, <2>4, <2>5
<1>8. Reads \/ (skipFirst /\ skipFirst' /\ UNCHANGED <<splitVars, pc>>)
  <2> HIDE DEF Reads
  <2>1. CASE ~skipFirst /\ Consume(data, offset) /\ UNCHANGED skipFirst
    BY <1>6, <2>1
  <2>2. CASE /\ skipFirst /\ skipFirst' = FALSE
             /\ \E i \in 1 .. n : FirstNewline(data, i) /\ Consume(SubSeq(data, i + 1, n), offset + i)
    <3>1. PICK i \in 1 .. n : FirstNewline(data, i) /\ Consume(SubSeq(data, i + 1, n), offset + i)
      BY <2>2
    <3> QED BY <1>7, <2>2, <3>1
  <2>3. CASE skipFirst /\ UNCHANGED <<splitVars, pc, skipFirst>>
    <3>1. UNCHANGED <<splitVars, pc>> /\ skipFirst' = skipFirst
      BY <2>3
    <3>2. skipFirst = TRUE /\ skipFirst' = TRUE
      BY <1>1, <2>3, <3>1
    <3> QED BY <3>1, <3>2, Zenon
  <2> QED BY <1>5, <2>1, <2>2, <2>3
<1> QED BY <1>3, <1>5, <1>8

(* A line gives up its first i bytes, and n of them are its text.          *)
LEMMA EmitSteps ==
  ASSUME Core, EmitLine \/ EmitPiece
  PROVE  \E i \in 1 .. Len(buf), n \in 0 .. MaxLineBytes :
           /\ n <= i
           /\ Emit(SubSeq(buf, 1, n), cur, cur + i)
           /\ buf' = SubSeq(buf, i + 1, Len(buf)) /\ cur' = cur + i
           /\ \A k \in 1 .. n : buf[k].kind # "newline"
           /\ \/ n = MaxLineBytes /\ i = n
              \/ /\ buf[i].kind = "newline"
                 /\ n = i - 1 \/ (n = i - 2 /\ buf[i - 1].kind = "cr")
<1> DEFINE Gives(i, n) ==
             /\ n <= i
             /\ Emit(SubSeq(buf, 1, n), cur, cur + i)
             /\ buf' = SubSeq(buf, i + 1, Len(buf)) /\ cur' = cur + i
             /\ \A k \in 1 .. n : buf[k].kind # "newline"
             /\ \/ n = MaxLineBytes /\ i = n
                \/ /\ buf[i].kind = "newline"
                   /\ n = i - 1 \/ (n = i - 2 /\ buf[i - 1].kind = "cr")
<1>1. buf \in Seq(Bytes) /\ Len(buf) \in Nat /\ DOMAIN buf = 1 .. Len(buf) /\ MaxLineBytes \in Nat \ {0}
  BY LenProperties, TailAssumption DEF Core, TypeOK
<1>2. \A i \in 1 .. Len(buf) : /\ TextLength(buf, i - 1) \in Nat /\ TextLength(buf, i - 1) <= i - 1
                               /\ \/ TextLength(buf, i - 1) = i - 1
                                  \/ TextLength(buf, i - 1) = i - 2 /\ buf[i - 1].kind = "cr"
  BY <1>1 DEF TextLength
<1>3. CASE EmitLine
  <2>1. PICK i \in 1 .. Len(buf) :
          /\ FirstNewline(buf, i)
          /\ TextLength(buf, i - 1) <= MaxLineBytes
          /\ Emit(SubSeq(buf, 1, TextLength(buf, i - 1)), cur, cur + i)
          /\ buf' = SubSeq(buf, i + 1, Len(buf)) /\ cur' = cur + i
    BY <1>1, <1>3 DEF EmitLine
  <2> DEFINE n == TextLength(buf, i - 1)
  <2>2. n \in Nat /\ n <= i - 1 /\ n <= MaxLineBytes
        /\ (n = i - 1 \/ (n = i - 2 /\ buf[i - 1].kind = "cr"))
    BY <1>2, <2>1
  <2>3. Emit(SubSeq(buf, 1, n), cur, cur + i)
    BY <2>1
  <2> HIDE DEF n
  <2>4. n \in 0 .. MaxLineBytes /\ n <= i /\ \A k \in 1 .. n : k \in 1 .. (i - 1)
    <3>1. i \in Nat /\ i - 1 <= i /\ MaxLineBytes \in Nat
      BY <1>1
    <3>2. n \in Nat /\ n <= i - 1 /\ n <= MaxLineBytes
      BY <2>2
    <3> QED BY <3>1, <3>2
  <2>5. buf[i].kind = "newline" /\ \A k \in 1 .. n : buf[k].kind # "newline"
    BY <2>1, <2>4 DEF FirstNewline
  <2>6. Gives(i, n)
    BY <2>1, <2>2, <2>3, <2>4, <2>5
  <2> HIDE DEF Gives
  <2>7. \E j \in 1 .. Len(buf), m \in 0 .. MaxLineBytes : Gives(j, m)
    BY <2>4, <2>6
  <2> QED BY <2>7 DEF Gives
<1>4. CASE EmitPiece
  <2>1. /\ TooLong
        /\ Emit(SubSeq(buf, 1, MaxLineBytes), cur, cur + MaxLineBytes)
        /\ buf' = SubSeq(buf, MaxLineBytes + 1, Len(buf)) /\ cur' = cur + MaxLineBytes
    BY <1>4 DEF EmitPiece
  <2>2. MaxLineBytes \in 1 .. Len(buf) /\ \A k \in 1 .. MaxLineBytes : buf[k].kind # "newline"
    <3>1. CASE \E i \in DOMAIN buf : FirstNewline(buf, i) /\ TextLength(buf, i - 1) > MaxLineBytes
      <4>1. PICK i \in 1 .. Len(buf) : FirstNewline(buf, i) /\ TextLength(buf, i - 1) > MaxLineBytes
        BY <1>1, <3>1
      <4>2. MaxLineBytes < i
        BY <1>1, <1>2, <4>1
      <4> QED BY <1>1, <4>1, <4>2 DEF FirstNewline
    <3>2. CASE ~HasNewline(buf) /\ Len(buf) > MaxLineBytes
      BY <1>1, <3>2 DEF HasNewline
    <3> QED BY <2>1, <3>1, <3>2 DEF TooLong
  <2>3. Gives(MaxLineBytes, MaxLineBytes)
    BY <1>1, <2>1, <2>2
  <2> HIDE DEF Gives
  <2>4. \E j \in 1 .. Len(buf), m \in 0 .. MaxLineBytes : Gives(j, m)
    BY <1>1, <2>2, <2>3
  <2> QED BY <2>4 DEF Gives
<1> QED BY <1>3, <1>4

LEMMA EmitType ==
  ASSUME Core, file # NoFile, NEW text \in Seq(Bytes), NEW off \in Nat, NEW next \in Nat,
         Emit(text, off, next)
  PROVE  LET line == [file |-> file, version |-> version, off |-> off, text |-> text, next |-> next] IN
         /\ out' \in Seq(Lines) /\ Len(out') = Len(out) + 1 /\ Len(out) \in Nat
         /\ DOMAIN out = 1 .. Len(out) /\ DOMAIN out' = 1 .. Len(out) + 1
         /\ out'[Len(out) + 1] = line
         /\ \A i \in DOMAIN out : out'[i] = out[i]
<1> DEFINE line == [file |-> file, version |-> version, off |-> off, text |-> text, next |-> next]
<1>1. line \in Lines
  BY DEF Lines, Core, TypeOK
<1>2. out' = Append(out, line) /\ out \in Seq(Lines)
  BY DEF Emit, Core
<1> HIDE DEF line
<1>3. Len(out) \in Nat /\ DOMAIN out = 1 .. Len(out)
  BY <1>2, LenProperties
<1>4. out' \in Seq(Lines) /\ Len(out') = Len(out) + 1 /\ out'[Len(out) + 1] = line
      /\ \A i \in 1 .. Len(out) : out'[i] = out[i]
  BY <1>1, <1>2, AppendProperties
<1>5. DOMAIN out' = 1 .. Len(out) + 1
  BY <1>4, LenProperties
<1> QED BY <1>3, <1>4, <1>5 DEF line

-----------------------------------------------------------------------------
(* The inductive invariant.                                                *)

(* The bytes read that are not in a line yet, and where they start.        *)
Held == IF pc = "split" THEN buf ELSE pending

Start == IF pc = "split" THEN cur ELSE IF pending = <<>> THEN offset ELSE pendingStart

InHand ==
  /\ pc = "split" => cur + Len(buf) = offset /\ skipFirst = FALSE
  /\ pc # "split" /\ pending # <<>> => pendingStart + Len(pending) = offset
  /\ file # NoFile /\ skipFirst = TRUE => offset > 0 /\ pending = <<>>
  /\ file # NoFile /\ offset = 0 => pending = <<>>
  /\ file # NoFile => \A i \in 1 .. Len(Held) : Held[i].pos = Start + i /\ Held[i].version = version

(* The version read is the file's, unless a truncation is yet to be seen.  *)
Current ==
  file # NoFile => version = Version(file) \/ offset = 0 \/ Size(file) < offset

Here(i) == out[i].file = file /\ out[i].version = version

(* The next line starts where the last one of its file ended, at the       *)
(* beginning of the file, or where the first open began to read.           *)
Continues ==
  /\ openedOnce = FALSE => out = <<>> /\ file = NoFile
  /\ file # NoFile =>
       \/ Start = 0 /\ skipFirst = FALSE
       \/ skipFirst = FALSE /\ \E i \in Emitted : Here(i) /\ out[i].next = Start
       \/ skipped = <<file, version>> /\ out = <<>>

TailInv == Core /\ InHand /\ Current /\ Continues /\ OffsetsTrue /\ NothingSkipped

LEMMA HeldType ==
  ASSUME Core
  PROVE  /\ Held \in Seq(Bytes) /\ Len(Held) \in Nat /\ Start \in Nat
         /\ Len(buf) \in Nat /\ Len(pending) \in Nat /\ pc \in {"poll", "read", "split", "flush", "close"}
         /\ out \in Seq(Lines) /\ Len(out) \in Nat /\ Emitted = 1 .. Len(out)
  BY LenProperties DEF Core, TypeOK, Held, Start, Emitted

(* A line made of the first bytes in hand.                                 *)
LEMMA EmitKeeps ==
  ASSUME TailInv, file # NoFile, skipFirst = FALSE, UNCHANGED skipped,
         NEW n \in 0 .. Len(Held), NEW next \in Nat, Emit(SubSeq(Held, 1, n), Start, next)
  PROVE  /\ out' \in Seq(Lines) /\ OffsetsTrue' /\ NothingSkipped'
         /\ \E i \in Emitted' : out'[i].file = file /\ out'[i].version = version /\ out'[i].next = next
<1> DEFINE text == SubSeq(Held, 1, n)
           line == [file |-> file, version |-> version, off |-> Start, text |-> text, next |-> next]
           last == Len(out) + 1
<1>1. Core /\ Held \in Seq(Bytes) /\ Len(Held) \in Nat /\ Start \in Nat
  BY HeldType DEF TailInv
<1>2. text \in Seq(Bytes) /\ DOMAIN text = 1 .. n /\ \A k \in 1 .. n : text[k] = Held[k]
  BY <1>1, StartOf
<1>3. /\ out' \in Seq(Lines) /\ Len(out) \in Nat /\ Emitted = 1 .. Len(out) /\ Emitted' = 1 .. last
      /\ out'[last] = line /\ \A i \in Emitted : out'[i] = out[i]
  BY <1>1, <1>2, EmitType DEF Emitted
<1>4. \A k \in 1 .. n : text[k].pos = Start + k /\ text[k].version = version
  BY <1>1, <1>2 DEF TailInv, InHand
<1> HIDE DEF text
<1>5. /\ line.file = file /\ line.version = version /\ line.off = Start
      /\ line.text = text /\ line.next = next
  OBVIOUS
<1> HIDE DEF line
<1>6. last \in Emitted' /\ \A i \in Emitted' : i \in Emitted \/ i = last
  BY <1>3
<1>7. OffsetsTrue'
  <2> SUFFICES ASSUME NEW i \in Emitted', NEW j \in DOMAIN out'[i].text
               PROVE  /\ out'[i].text[j].pos = out'[i].off + j
                      /\ out'[i].text[j].version = out'[i].version
    BY DEF OffsetsTrue
  <2>1. CASE i \in Emitted
    BY <1>3, <2>1 DEF TailInv, OffsetsTrue
  <2>2. CASE i = last
    BY <1>2, <1>3, <1>4, <1>5, <2>2
  <2> QED BY <1>6, <2>1, <2>2
<1>8. NothingSkipped'
  <2> SUFFICES ASSUME NEW j \in Emitted'
               PROVE  \/ out'[j].off = 0
                      \/ \E i \in 1 .. (j - 1) : SameFile(i, j)' /\ out'[i].next = out'[j].off
                      \/ /\ \A i \in 1 .. (j - 1) : ~SameFile(i, j)'
                         /\ skipped = <<out'[j].file, out'[j].version>>
    BY DEF NothingSkipped
  <2>1. CASE j \in Emitted
    <3>1. \A i \in 1 .. (j - 1) : i \in Emitted
      BY <1>3, <2>1
    <3> QED BY <1>3, <2>1, <3>1 DEF TailInv, NothingSkipped, SameFile
  <2>2. CASE j = last
    <3>1. 1 .. (j - 1) = Emitted
      BY <1>3, <2>2
    <3> QED BY <1>3, <1>5, <2>2, <3>1 DEF TailInv, Continues, SameFile, Here
  <2> QED BY <1>6, <2>1, <2>2
<1> QED BY <1>3, <1>5, <1>6, <1>7, <1>8

(* What a step that emits nothing leaves as it is.                         *)
LEMMA QuietKeeps ==
  ASSUME TailInv, UNCHANGED <<out, skipped>>
  PROVE  OffsetsTrue' /\ NothingSkipped'
BY DEF TailInv, OffsetsTrue, NothingSkipped, SameFile, Emitted

LEMMA OpenKeeps ==
  ASSUME TailInv, Open, UNCHANGED <<fileVars, envVars>>
  PROVE  TailInv'
<1>1. /\ Core /\ path \in Files /\ path # NoFile /\ versions[path] # <<>> /\ FilesTypeOK
      /\ file' = path /\ version' = Version(path) /\ openedOnce' = TRUE
      /\ pending' = <<>> /\ pendingStart' = offset' /\ pc = "poll"
      /\ UNCHANGED <<versions, path, writing, buf, cur, pc, draining, out, written, truncates, errors, late>>
  BY DEF TailInv, Core, TypeOK, FilesTypeOK, Open, fileVars, envVars, splitVars, stepVars
<1>2. Size(path) \in Nat /\ Version(path) \in Nat /\ Content(path) \in Seq(Kinds)
  BY <1>1, ContentType
<1>3. ReplayStart(Size(path)) \in Nat
  BY <1>2, TailAssumption DEF ReplayStart
<1>4. \/ /\ openedOnce = TRUE /\ offset' = 0 /\ skipFirst' = FALSE /\ UNCHANGED skipped
      \/ /\ openedOnce = FALSE /\ offset' = ReplayStart(Size(path))
         /\ skipFirst' \in BOOLEAN /\ (skipFirst' = TRUE => offset' > 0)
         /\ skipped' = <<path, version'>>
  BY <1>1 DEF Open, Core, TypeOK
<1>5. offset' \in Nat /\ skipFirst' \in BOOLEAN /\ skipped' \in (Files \cup {NoFile}) \X Nat
  <2>1. offset' \in Nat
    BY <1>3, <1>4
  <2>2. skipFirst' \in BOOLEAN
    <3>1. skipFirst' = FALSE => skipFirst' \in BOOLEAN
      OBVIOUS
    <3> QED BY <1>4, <3>1, Zenon
  <2>3. skipped \in (Files \cup {NoFile}) \X Nat
    BY <1>1 DEF Core, TypeOK
  <2>4. <<path, version'>> \in (Files \cup {NoFile}) \X Nat
    BY <1>1, <1>2
  <2> QED BY <1>4, <2>1, <2>2, <2>3, <2>4
<1>6. <<>> \in Seq(Bytes) /\ Len(<<>>) = 0
  BY EmptySeq
<1>7. Core'
  <2>1. /\ FilesTypeOK' /\ file' \in Files \cup {NoFile} /\ pending' \in Seq(Bytes) /\ pendingStart' \in Nat
        /\ Len(pending') <= MaxLineBytes /\ version' \in Nat /\ openedOnce' \in BOOLEAN
    BY <1>1, <1>2, <1>5, <1>6, TailAssumption DEF FilesTypeOK
  <2>2. /\ buf' \in Seq(Bytes) /\ cur' \in Nat /\ draining' \in BOOLEAN /\ out' \in Seq(Lines)
        /\ late' \subseteq Files /\ written' \in Nat /\ truncates' \in Nat /\ errors' \in Nat /\ pc' = "poll"
    BY <1>1 DEF Core, TypeOK
  <2> QED BY <1>1, <1>5, <2>1, <2>2 DEF Core, TypeOK
<1>8. Held' = <<>> /\ Start' = offset'
  BY <1>1 DEF Held, Start
<1>9. InHand'
  BY <1>1, <1>4, <1>5, <1>6, <1>8 DEF InHand
<1>10. Current'
  BY <1>1 DEF Current, Version
<1>11. Continues'
  <2>1. CASE openedOnce = TRUE
    BY <1>1, <1>4, <1>8, <2>1 DEF Continues
  <2>2. CASE openedOnce = FALSE
    <3>1. out' = <<>> /\ DOMAIN out' = {}
      BY <1>1, <2>2 DEF TailInv, Continues
    <3> QED BY <1>1, <1>4, <2>2, <3>1 DEF Continues, Emitted
  <2> QED BY <1>1, <2>1, <2>2 DEF Core, TypeOK
<1>12. OffsetsTrue' /\ NothingSkipped'
  <2>1. CASE openedOnce = TRUE
    BY <1>1, <1>4, <2>1, QuietKeeps
  <2>2. CASE openedOnce = FALSE
    <3>1. out' = <<>> /\ DOMAIN out' = {}
      BY <1>1, <2>2 DEF TailInv, Continues
    <3> QED BY <3>1 DEF OffsetsTrue, NothingSkipped, Emitted
  <2> QED BY <1>1, <2>1, <2>2 DEF Core, TypeOK
<1> QED BY <1>7, <1>9, <1>10, <1>11, <1>12 DEF TailInv

LEMMA StatPathKeeps ==
  ASSUME TailInv, StatPath, UNCHANGED <<fileVars, envVars>>
  PROVE  TailInv'
<1>1. /\ Core /\ file \in Files /\ file # NoFile /\ versions[file] # <<>> /\ FilesTypeOK
      /\ pc = "poll" /\ pc' = "read" /\ draining' \in BOOLEAN
      /\ UNCHANGED <<versions, path, writing, file, openedOnce, buf, cur, out, skipped,
                     written, truncates, errors, late>>
  BY DEF TailInv, Core, TypeOK, StatPath, fileVars, envVars, splitVars, readerVars
<1>2. OffsetsTrue' /\ NothingSkipped'
  BY <1>1, QuietKeeps
<1>3. Size(file) \in Nat /\ Version(file) \in Nat /\ offset \in Nat
      /\ Size(file)' = Size(file) /\ Version(file)' = Version(file)
  BY <1>1, ContentType DEF Core, TypeOK, Size, Version, Content
<1>4. CASE offset' = 0 /\ pending' = <<>> /\ pendingStart' = 0 /\ skipFirst' = FALSE
           /\ version' = Version(file)
  <2>1. <<>> \in Seq(Bytes) /\ Len(<<>>) = 0
    BY EmptySeq
  <2>2. Core'
    <3>1. offset' \in Nat /\ skipFirst' \in BOOLEAN /\ version' \in Nat
      BY <1>3, <1>4
    <3>2. pending' \in Seq(Bytes) /\ Len(pending') <= MaxLineBytes /\ pendingStart' \in Nat
      BY <1>4, <2>1, TailAssumption
    <3> QED BY <1>1, <3>1, <3>2 DEF Core, TypeOK, FilesTypeOK
  <2>3. Held' = <<>> /\ Start' = 0
    BY <1>1, <1>4 DEF Held, Start
  <2>4. InHand' /\ Current' /\ Continues'
    BY <1>1, <1>3, <1>4, <2>1, <2>3 DEF TailInv, InHand, Current, Continues
  <2> QED BY <1>2, <2>2, <2>4 DEF TailInv
<1>5. CASE UNCHANGED <<offset, pending, pendingStart, skipFirst, version>>
  <2>1. Core'
    BY <1>1, <1>5 DEF Core, TypeOK, FilesTypeOK
  <2>2. Held' = Held /\ Start' = Start
    BY <1>1, <1>5 DEF Held, Start
  <2>3. InHand' /\ Current' /\ Continues'
    BY <1>1, <1>3, <1>5, <2>2 DEF TailInv, InHand, Current, Continues, Emitted, Here
  <2> QED BY <1>2, <2>1, <2>3 DEF TailInv
<1> QED BY <1>4, <1>5 DEF StatPath, readerVars

LEMMA ReadKeeps ==
  ASSUME TailInv, Read, UNCHANGED <<fileVars, envVars>>
  PROVE  TailInv'
<1>1. /\ Core /\ InHand /\ Current /\ Continues
      /\ file \in Files /\ file # NoFile /\ versions[file] # <<>> /\ FilesTypeOK
      /\ pc = "read" /\ offset < Size(file)
      /\ version' = IF offset = 0 THEN Version(file) ELSE version
      /\ UNCHANGED <<versions, path, writing, file, pending, pendingStart, openedOnce, draining,
                     out, skipped, written, truncates, errors, late>>
  BY DEF TailInv, Core, TypeOK, Read, fileVars, envVars
<1>2. /\ Size(file) \in Nat /\ Version(file) \in Nat /\ offset \in Nat /\ skipFirst \in BOOLEAN
      /\ pending \in Seq(Bytes) /\ Len(pending) \in Nat /\ pendingStart \in Nat
      /\ Size(file)' = Size(file) /\ Version(file)' = Version(file)
  BY <1>1, ContentType, LenProperties DEF Core, TypeOK, Size, Version, Content
<1>3. version' = Version(file)
  BY <1>1, <1>2 DEF Current
<1>4. version' = version \/ offset = 0
  BY <1>1
<1>5. OffsetsTrue' /\ NothingSkipped'
  BY <1>1, QuietKeeps
<1>6. Start = IF pending = <<>> THEN offset ELSE pendingStart
  BY <1>1 DEF Start
<1>7. Held = pending /\ \A k \in 1 .. Len(pending) : pending[k].pos = Start + k /\ pending[k].version = version
  BY <1>1 DEF Held, InHand
<1>8. Current'
  BY <1>1, <1>2, <1>3 DEF Current
<1>9. PICK n \in Nat \ {0} :
        /\ offset + n <= Size(file) /\ offset' = offset + n
        /\ \/ skipFirst /\ skipFirst' /\ UNCHANGED <<splitVars, pc>>
           \/ \E i \in 0 .. n, rest \in Seq(Bytes) :
                /\ \/ ~skipFirst /\ i = 0
                   \/ skipFirst /\ i # 0 /\ Content(file)[offset + i] = "newline"
                /\ Len(rest) = n - i
                /\ \A k \in 1 .. n - i :
                     /\ rest[k].pos = offset + i + k /\ rest[k].version = Version(file)
                     /\ rest[k].kind = Content(file)[offset + i + k]
                /\ ~skipFirst' /\ Consume(rest, offset + i)
  BY <1>1, ReadSteps
<1>10. offset' = offset + n /\ offset' \in Nat /\ offset' > 0 /\ version' \in Nat
  BY <1>2, <1>3, <1>9
<1>11. skipFirst' \in BOOLEAN
  BY <1>2 DEF Read
<1>12. CASE skipFirst /\ skipFirst' /\ UNCHANGED <<splitVars, pc>>
  <2>1. skipFirst = TRUE /\ skipFirst' = TRUE /\ UNCHANGED <<buf, cur, pc>>
    BY <1>2, <1>11, <1>12 DEF splitVars
  <2>2. pending = <<>> /\ offset # 0 /\ Len(pending) = 0 /\ version' = version
    BY <1>1, <1>4, <2>1, EmptySeq DEF InHand
  <2>3. Core'
    BY <1>1, <1>10, <1>11, <2>1 DEF Core, TypeOK, FilesTypeOK
  <2>4. InHand'
    BY <1>1, <1>10, <2>1, <2>2 DEF InHand, Held, Start
  <2>5. Continues'
    BY <1>1, <2>1, <2>2 DEF Continues, Here, Emitted
  <2> QED BY <1>5, <1>8, <2>3, <2>4, <2>5 DEF TailInv
<1>13. ASSUME NEW i \in 0 .. n, NEW rest \in Seq(Bytes),
              (~skipFirst /\ i = 0) \/ (skipFirst /\ i # 0),
              Len(rest) = n - i,
              \A k \in 1 .. n - i : rest[k].pos = offset + i + k /\ rest[k].version = Version(file),
              ~skipFirst', Consume(rest, offset + i)
       PROVE  TailInv'
  <2>1. /\ buf' = pending \o rest /\ pc' = "split" /\ skipFirst' = FALSE
        /\ cur' = IF pending = <<>> THEN offset + i ELSE pendingStart
    BY <1>11, <1>13 DEF Consume
  <2>2. pending # <<>> => i = 0 /\ pendingStart + Len(pending) = offset
    BY <1>1, <1>2, <1>13 DEF InHand
  <2>3. pending = <<>> => Len(pending) = 0
    BY EmptySeq
  <2>4. i \in Nat /\ i <= n /\ n \in Nat /\ cur' \in Nat
    BY <1>2, <1>9, <2>1
  <2>5. cur' + Len(pending) = offset + i
    <3>1. CASE pending = <<>>
      BY <1>2, <2>1, <2>3, <2>4, <3>1
    <3>2. CASE pending # <<>>
      BY <1>2, <2>1, <2>2, <3>2
    <3> QED BY <3>1, <3>2
  <2>6. /\ buf' \in Seq(Bytes) /\ Len(buf') = Len(pending) + (n - i)
        /\ \A k \in 1 .. Len(pending) : buf'[k] = pending[k]
        /\ \A k \in 1 .. Len(rest) : buf'[Len(pending) + k] = rest[k]
    <3>1. pending \in Seq(Bytes) /\ rest \in Seq(Bytes) /\ buf' = pending \o rest
      BY <1>2, <2>1
    <3>2. /\ buf' \in Seq(Bytes) /\ Len(buf') = Len(pending) + Len(rest)
          /\ \A k \in 1 .. Len(pending) : buf'[k] = pending[k]
          /\ \A k \in 1 .. Len(rest) : buf'[Len(pending) + k] = rest[k]
      BY <3>1, ConcatProperties
    <3> QED BY <1>13, <3>2
  <2>7. Core'
    BY <1>1, <1>10, <1>11, <2>1, <2>4, <2>6 DEF Core, TypeOK, FilesTypeOK
  <2>8. \A k \in 1 .. Len(buf') : buf'[k].pos = cur' + k /\ buf'[k].version = version'
    <3> SUFFICES ASSUME NEW k \in 1 .. Len(buf')
                 PROVE  buf'[k].pos = cur' + k /\ buf'[k].version = version'
      OBVIOUS
    <3>1. CASE k <= Len(pending)
      <4>1. k \in 1 .. Len(pending) /\ pending # <<>> /\ offset # 0
        BY <1>1, <1>2, <2>3, <3>1 DEF InHand
      <4>2. cur' = Start /\ version' = version
        BY <1>4, <1>6, <2>1, <4>1
      <4> QED BY <1>7, <2>6, <4>1, <4>2
    <3>2. CASE k > Len(pending)
      <4> DEFINE m == k - Len(pending)
      <4>1. m \in 1 .. n - i /\ k = Len(pending) + m
        BY <1>2, <2>4, <2>6, <3>2
      <4>2. buf'[k] = rest[m]
        BY <1>13, <2>6, <4>1
      <4>3. rest[m].pos = offset + i + m /\ rest[m].version = Version(file)
        BY <1>13, <4>1
      <4>4. offset + i + m = cur' + k
        <5>1. m \in Nat /\ cur' + (Len(pending) + m) = (cur' + Len(pending)) + m
          BY <1>2, <2>4, <4>1
        <5> HIDE DEF m
        <5> QED BY <2>5, <4>1, <5>1
      <4> QED BY <1>3, <4>2, <4>3, <4>4
    <3> QED BY <1>2, <2>4, <2>6, <3>1, <3>2
  <2>9. InHand'
    <3>1. cur' + Len(buf') = offset'
      <4>1. Len(buf') = Len(pending) + (n - i)
        BY <2>6
      <4>2. offset' = offset + n
        BY <1>10
      <4> QED BY <1>2, <2>4, <2>5, <4>1, <4>2
    <3>2. Held' = buf' /\ Start' = cur'
      BY <2>1 DEF Held, Start
    <3> QED BY <1>10, <2>1, <2>8, <3>1, <3>2 DEF InHand
  <2>10. Continues'
    <3>1. Start' = cur'
      BY <2>1 DEF Start
    <3>2. CASE skipFirst = FALSE
      <4>1. Start' = Start /\ (offset = 0 => Start = 0)
        <5>1. i = 0
          BY <1>13, <3>2
        <5>2. offset = 0 => pending = <<>>
          BY <1>1 DEF InHand
        <5> QED BY <1>2, <1>6, <2>1, <3>1, <5>1, <5>2
      <4> QED BY <1>1, <1>4, <2>1, <3>2, <4>1 DEF Continues, Here, Emitted
    <3>3. CASE skipFirst = TRUE
      <4>1. version' = version
        BY <1>1, <1>4, <3>3 DEF InHand
      <4> QED BY <1>1, <2>1, <3>3, <4>1 DEF Continues, Here, Emitted
    <3> QED BY <1>2, <3>2, <3>3
  <2> QED BY <1>5, <1>8, <2>7, <2>9, <2>10 DEF TailInv
<1>14. ASSUME \E i \in 0 .. n, rest \in Seq(Bytes) :
                /\ \/ ~skipFirst /\ i = 0
                   \/ skipFirst /\ i # 0 /\ Content(file)[offset + i] = "newline"
                /\ Len(rest) = n - i
                /\ \A k \in 1 .. n - i :
                     /\ rest[k].pos = offset + i + k /\ rest[k].version = Version(file)
                     /\ rest[k].kind = Content(file)[offset + i + k]
                /\ ~skipFirst' /\ Consume(rest, offset + i)
       PROVE  TailInv'
  <2>1. PICK i \in 0 .. n, rest \in Seq(Bytes) :
                /\ (~skipFirst /\ i = 0) \/ (skipFirst /\ i # 0)
                /\ Len(rest) = n - i
                /\ \A k \in 1 .. n - i : rest[k].pos = offset + i + k /\ rest[k].version = Version(file)
                /\ ~skipFirst' /\ Consume(rest, offset + i)
    BY <1>14
  <2> QED BY <1>13, <2>1
<1> QED BY <1>9, <1>12, <1>14

LEMMA EmitLineKeeps ==
  ASSUME TailInv, EmitLine \/ EmitPiece, UNCHANGED <<fileVars, envVars>>
  PROVE  TailInv'
<1>1. /\ Core /\ InHand /\ Current /\ Continues /\ file # NoFile /\ file \in Files /\ pc = "split"
      /\ buf \in Seq(Bytes) /\ cur \in Nat /\ Len(buf) \in Nat
      /\ UNCHANGED <<versions, path, writing, file, offset, pending, pendingStart, skipFirst,
                     openedOnce, pc, draining, version, skipped, written, truncates, errors, late>>
  BY LenProperties DEF TailInv, Core, TypeOK, EmitLine, EmitPiece, fileVars, envVars, readerVars, stepVars
<1>2. cur + Len(buf) = offset /\ skipFirst = FALSE
  BY <1>1 DEF InHand
<1>3. Held = buf /\ Start = cur /\ Held' = buf' /\ Start' = cur'
  BY <1>1 DEF Held, Start
<1>4. PICK i \in 1 .. Len(buf), n \in 0 .. MaxLineBytes :
        /\ n <= i
        /\ Emit(SubSeq(buf, 1, n), cur, cur + i)
        /\ buf' = SubSeq(buf, i + 1, Len(buf)) /\ cur' = cur + i
  BY <1>1, EmitSteps
<1>5. i \in Nat /\ i <= Len(buf) /\ n \in 0 .. Len(buf) /\ cur + i \in Nat /\ i \in 0 .. Len(buf)
  BY <1>1, <1>4, TailAssumption
<1>6. /\ out' \in Seq(Lines) /\ OffsetsTrue' /\ NothingSkipped'
      /\ \E k \in Emitted' : out'[k].file = file /\ out'[k].version = version /\ out'[k].next = cur + i
  BY <1>1, <1>2, <1>3, <1>4, <1>5, EmitKeeps
<1>7. /\ buf' \in Seq(Bytes) /\ Len(buf') = Len(buf) - i
      /\ \A k \in 1 .. Len(buf) - i : buf'[k] = buf[i + k] /\ i + k \in 1 .. Len(buf)
  BY <1>1, <1>4, <1>5, RestOf
<1>8. Core'
  BY <1>1, <1>4, <1>5, <1>6, <1>7 DEF Core, TypeOK, FilesTypeOK
<1>9. \A k \in 1 .. Len(buf') : buf'[k].pos = cur' + k /\ buf'[k].version = version
  <2> SUFFICES ASSUME NEW k \in 1 .. Len(buf) - i
               PROVE  buf'[k].pos = cur' + k /\ buf'[k].version = version
    BY <1>7
  <2>1. buf'[k] = buf[i + k] /\ i + k \in 1 .. Len(buf) /\ cur + (i + k) = cur + i + k
    BY <1>1, <1>5, <1>7
  <2>2. buf[i + k].pos = cur + (i + k) /\ buf[i + k].version = version
    BY <1>1, <1>3, <2>1 DEF InHand
  <2> QED BY <1>4, <2>1, <2>2
<1>10. InHand'
  <2>1. cur' + Len(buf') = offset
    BY <1>1, <1>2, <1>4, <1>5, <1>7
  <2> QED BY <1>1, <1>2, <1>3, <1>9, <2>1 DEF InHand
<1>11. Current'
  BY <1>1 DEF Current, Version, Size, Content
<1>12. Continues'
  BY <1>1, <1>2, <1>3, <1>4, <1>6 DEF Continues, Here
<1> QED BY <1>6, <1>8, <1>10, <1>11, <1>12 DEF TailInv

LEMMA KeepRestKeeps ==
  ASSUME TailInv, KeepRest, UNCHANGED <<fileVars, envVars>>
  PROVE  TailInv'
<1>1. /\ Core /\ InHand /\ Current /\ Continues /\ file # NoFile /\ file \in Files /\ pc = "split"
      /\ buf \in Seq(Bytes) /\ cur \in Nat /\ Len(buf) \in Nat /\ offset \in Nat
      /\ pending' = buf /\ pendingStart' = cur /\ buf' = <<>> /\ cur' = 0 /\ pc' = "read"
      /\ UNCHANGED <<versions, path, writing, file, offset, skipFirst, openedOnce, draining,
                     out, version, skipped, written, truncates, errors, late>>
  BY LenProperties DEF TailInv, Core, TypeOK, KeepRest, fileVars, envVars, lineVars
<1>2. Len(buf) <= MaxLineBytes
  BY <1>1, TailAssumption DEF KeepRest, TooLong
<1>3. cur + Len(buf) = offset /\ skipFirst = FALSE
  BY <1>1 DEF InHand
<1>4. buf = <<>> <=> Len(buf) = 0
  BY <1>1, EmptySeq
<1>5. Held' = Held /\ Start' = Start
  BY <1>1, <1>3, <1>4 DEF Held, Start
<1>6. OffsetsTrue' /\ NothingSkipped'
  BY <1>1, QuietKeeps
<1>7. <<>> \in Seq(Bytes)
  BY EmptySeq
<1>8. Core'
  BY <1>1, <1>2, <1>7 DEF Core, TypeOK, FilesTypeOK
<1>9. InHand'
  BY <1>1, <1>3, <1>4, <1>5 DEF InHand
<1>10. Current' /\ Continues'
  BY <1>1, <1>5 DEF Current, Version, Size, Content, Continues, Here, Emitted
<1> QED BY <1>6, <1>8, <1>9, <1>10 DEF TailInv

LEMMA ReadEndsKeeps ==
  ASSUME TailInv, ReadEnds, UNCHANGED <<fileVars, envVars>>
  PROVE  TailInv'
<1>1. /\ Core /\ InHand /\ Current /\ Continues /\ file # NoFile /\ pc = "read" /\ pc' \in {"flush", "poll"}
      /\ UNCHANGED <<versions, path, writing, file, offset, pending, pendingStart, skipFirst, openedOnce, buf,
                     cur, draining, out, version, skipped, written, truncates, errors, late>>
  BY DEF TailInv, Core, ReadEnds, fileVars, envVars, readerVars, splitVars, lineVars
<1>2. Held' = Held /\ Start' = Start
  BY <1>1 DEF Held, Start
<1>3. OffsetsTrue' /\ NothingSkipped'
  BY <1>1, QuietKeeps
<1>4. Core'
  BY <1>1 DEF Core, TypeOK, FilesTypeOK
<1>5. InHand' /\ Current' /\ Continues'
  BY <1>1, <1>2 DEF InHand, Current, Version, Size, Content, Continues, Here, Emitted
<1> QED BY <1>3, <1>4, <1>5 DEF TailInv

LEMMA FlushPendingKeeps ==
  ASSUME TailInv, FlushPending, UNCHANGED <<fileVars, envVars>>
  PROVE  TailInv'
<1>1. /\ Core /\ InHand /\ Current /\ Continues /\ file # NoFile /\ file \in Files
      /\ pc = "flush" /\ pc' = "close" /\ pending' = <<>>
      /\ pending \in Seq(Bytes) /\ Len(pending) \in Nat /\ pendingStart \in Nat
      /\ skipFirst \in BOOLEAN
      /\ UNCHANGED <<versions, path, writing, file, offset, pendingStart, skipFirst, openedOnce, buf, cur,
                     draining, version, skipped, written, truncates, errors, late>>
  BY LenProperties DEF TailInv, Core, TypeOK, FlushPending, fileVars, envVars, splitVars
<1>2. Held' = <<>> /\ Start' = offset
  BY <1>1 DEF Held, Start
<1>3. <<>> \in Seq(Bytes) /\ Len(<<>>) = 0
  BY EmptySeq
<1>4. InHand' /\ Current'
  BY <1>1, <1>2, <1>3 DEF InHand, Current, Version, Size, Content
<1>5. ASSUME out' \in Seq(Lines) PROVE Core'
  <2>1. pending' \in Seq(Bytes) /\ Len(pending') <= MaxLineBytes
    BY <1>1, <1>3, TailAssumption
  <2> QED BY <1>1, <1>5, <2>1 DEF Core, TypeOK, FilesTypeOK
<1>6. CASE pending = <<>>
  <2>1. UNCHANGED out /\ Start = offset
    BY <1>1, <1>6 DEF FlushPending, Start
  <2>2. OffsetsTrue' /\ NothingSkipped'
    BY <1>1, <2>1, QuietKeeps
  <2>3. Continues'
    BY <1>1, <1>2, <2>1 DEF Continues, Here, Emitted
  <2> QED BY <1>1, <1>4, <1>5, <2>1, <2>2, <2>3 DEF TailInv, Core
<1>7. CASE pending # <<>>
  <2> DEFINE n == TextLength(pending, Len(pending))
  <2>1. Emit(SubSeq(pending, 1, n), pendingStart, pendingStart + Len(pending))
    BY <1>1, <1>7 DEF FlushPending
  <2>2. Held = pending /\ Start = pendingStart /\ skipFirst = FALSE /\ pendingStart + Len(pending) = offset
    BY <1>1, <1>7 DEF Held, Start, InHand
  <2>3. n \in 0 .. Len(pending) /\ pendingStart + Len(pending) \in Nat
    BY <1>1 DEF TextLength
  <2> HIDE DEF n
  <2>4. /\ out' \in Seq(Lines) /\ OffsetsTrue' /\ NothingSkipped'
        /\ \E i \in Emitted' : out'[i].file = file /\ out'[i].version = version /\ out'[i].next = offset
    BY <1>1, <2>1, <2>2, <2>3, EmitKeeps
  <2>5. openedOnce = TRUE
    BY <1>1 DEF Continues, Core, TypeOK
  <2>6. Continues'
    BY <1>1, <1>2, <2>2, <2>4, <2>5 DEF Continues, Here
  <2> QED BY <1>4, <1>5, <2>4, <2>6 DEF TailInv
<1> QED BY <1>6, <1>7

LEMMA CloseFileKeeps ==
  ASSUME TailInv, CloseFile, UNCHANGED <<fileVars, envVars>>
  PROVE  TailInv'
<1>1. /\ Core /\ InHand /\ Current /\ Continues /\ file # NoFile
      /\ file' = NoFile /\ pc = "close" /\ pc' = "poll" /\ draining' = FALSE
      /\ UNCHANGED <<versions, path, writing, offset, pending, pendingStart, skipFirst, openedOnce,
                     buf, cur, out, version, skipped, written, truncates, errors, late>>
  BY DEF TailInv, Core, TypeOK, CloseFile, fileVars, envVars, splitVars, lineVars
<1>2. Core'
  BY <1>1 DEF Core, TypeOK, FilesTypeOK
<1>3. InHand' /\ Current' /\ Continues'
  BY <1>1 DEF InHand, Current, Continues
<1>4. OffsetsTrue' /\ NothingSkipped'
  BY <1>1, QuietKeeps
<1> QED BY <1>2, <1>3, <1>4 DEF TailInv

LEMMA CallFailsKeeps ==
  ASSUME TailInv, CallFails
  PROVE  TailInv'
<1>1. /\ Core /\ InHand /\ Current /\ Continues /\ file # NoFile
      /\ file' = NoFile /\ pc # "split" /\ pc' = "poll" /\ draining' = FALSE /\ errors' \in Nat
      /\ UNCHANGED <<versions, path, writing, offset, pending, pendingStart, skipFirst, openedOnce,
                     buf, cur, out, version, skipped, written, truncates, late>>
  BY DEF TailInv, Core, TypeOK, CallFails, fileVars, splitVars, lineVars
<1>2. Core'
  BY <1>1 DEF Core, TypeOK, FilesTypeOK
<1>3. InHand' /\ Current' /\ Continues'
  BY <1>1 DEF InHand, Current, Continues
<1>4. OffsetsTrue' /\ NothingSkipped'
  BY <1>1, QuietKeeps
<1> QED BY <1>2, <1>3, <1>4 DEF TailInv

(* A truncation not yet seen leaves the file below the offset, and what is *)
(* written then keeps it there.                                            *)
LEMMA EnvironmentIsCurrent ==
  ASSUME TailInv, Environment
  PROVE  Current'
<1>1. TypeOK /\ FilesTypeOK /\ UNCHANGED <<file, version, offset>> /\ offset \in Nat
  BY EnvironmentKeeps DEF TailInv, Core, TypeOK, tailerVars, readerVars, lineVars
<1> SUFFICES ASSUME file # NoFile
             PROVE  version = Version(file)' \/ offset = 0 \/ Size(file)' < offset
  BY <1>1 DEF Current
<1>2. /\ file \in Files /\ versions[file] # <<>> /\ Size(file) \in Nat
      /\ version = Version(file) \/ offset = 0 \/ Size(file) < offset
  BY <1>1, ContentType DEF TailInv, Core, TypeOK, Current
<1>3. CASE versions'[file] = versions[file]
  BY <1>1, <1>2, <1>3 DEF Version, Size, Content
<1>4. CASE WriterWrites /\ versions'[file] # versions[file]
  <2>1. PICK k \in Kinds : Write(k)
    BY <1>4 DEF WriterWrites
  <2>2. file = writing
    BY <1>1, <1>2, <1>4, <2>1, WriteKeeps
  <2>3. Version(writing)' = Version(writing) /\ Size(writing)' = Size(writing) + 1 /\ writing' = writing
    BY <1>1, <2>1, WriteKeeps DEF Write
  <2>4. Version(file)' = Version(file) /\ Size(file)' = Size(file) + 1
    BY <1>1, <2>2, <2>3
  <2>5. offset > 0 /\ version # Version(file) => Size(file) + 1 < offset
    BY <1>4, <2>2 DEF WriterWrites, StaysBelowOffset
  <2> QED BY <1>1, <1>2, <2>4, <2>5
<1>5. CASE CopyTruncate /\ versions'[file] # versions[file]
  <2>1. Truncate
    BY <1>5 DEF CopyTruncate
  <2>2. file = path
    BY <1>1, <1>2, <1>5, <2>1, TruncateKeeps
  <2>3. Size(path)' = 0 /\ path' = path
    BY <1>1, <2>1, TruncateKeeps DEF Truncate
  <2> QED BY <1>1, <2>2, <2>3
<1>6. CASE Rotation /\ versions'[file] # versions[file]
  <2>1. PICK f \in Files : versions[f] = <<>> /\ versions' = [versions EXCEPT ![f] = << <<>> >>]
    BY <1>6 DEF Rotation, MoveAway, Reopen, Recreate
  <2> QED BY <1>1, <1>2, <1>6, <2>1 DEF FilesTypeOK
<1> QED BY <1>3, <1>4, <1>5, <1>6 DEF Environment

LEMMA EnvironmentKeepsInv ==
  ASSUME TailInv, Environment
  PROVE  TailInv'
<1>1. /\ FilesTypeOK' /\ written' \in Nat /\ truncates' \in Nat /\ errors' \in Nat /\ late' \subseteq Files
      /\ \A f \in Files : versions[f] # <<>> => versions'[f] # <<>>
      /\ UNCHANGED <<file, offset, pending, pendingStart, skipFirst, openedOnce, buf, cur, pc,
                     draining, out, version, skipped>>
  BY EnvironmentKeeps DEF TailInv, Core, tailerVars, readerVars, splitVars, stepVars, lineVars
<1>2. Core'
  BY <1>1 DEF TailInv, Core, TypeOK
<1>3. InHand' /\ Continues'
  BY <1>1 DEF TailInv, InHand, Held, Start, Continues, Here, Emitted
<1>4. OffsetsTrue' /\ NothingSkipped'
  BY <1>1, QuietKeeps
<1> QED BY <1>2, <1>3, <1>4, EnvironmentIsCurrent DEF TailInv

-----------------------------------------------------------------------------
LEMMA InitEstablishes == Init => TailInv
<1> SUFFICES ASSUME Init PROVE TailInv
  OBVIOUS
<1>1. /\ FilesInit /\ file = NoFile /\ offset = 0 /\ pending = <<>> /\ pendingStart = 0
      /\ skipFirst = FALSE /\ openedOnce = FALSE /\ buf = <<>> /\ cur = 0 /\ pc = "poll"
      /\ draining = FALSE /\ out = <<>> /\ version = 0 /\ skipped = <<NoFile, 0>>
      /\ written = 0 /\ truncates = 0 /\ errors = 0 /\ late = {}
  BY DEF Init
<1>2. FilesTypeOK
  <2>1. << <<>> >> \in Seq(Seq(Kinds)) /\ <<>> \in Seq(Seq(Kinds)) /\ << <<>> >> # <<>>
    BY EmptySeq
  <2>2. versions = [f \in Files |-> IF f = writing THEN << <<>> >> ELSE <<>>]
        /\ writing \in Files /\ path = writing
    BY <1>1 DEF FilesInit
  <2> QED BY <2>1, <2>2 DEF FilesTypeOK
<1>3. <<>> \in Seq(Bytes) /\ Len(<<>>) = 0 /\ <<>> \in Seq(Lines) /\ DOMAIN <<>> = {}
  BY EmptySeq
<1>4. skipFirst \in BOOLEAN /\ openedOnce \in BOOLEAN /\ draining \in BOOLEAN
  BY <1>1
<1>5. Core
  BY <1>1, <1>2, <1>3, <1>4, TailAssumption DEF Core, TypeOK
<1>6. InHand /\ Current /\ Continues
  BY <1>1 DEF InHand, Current, Continues
<1>7. OffsetsTrue /\ NothingSkipped
  BY <1>1, <1>3 DEF OffsetsTrue, NothingSkipped, Emitted
<1> QED BY <1>5, <1>6, <1>7 DEF TailInv

LEMMA TailNext ==
  ASSUME TailInv, [Next]_vars
  PROVE  TailInv'
<1>1. CASE Tailer
  <2>1. UNCHANGED <<fileVars, envVars>>
    BY <1>1 DEF Tailer
  <2>2. CASE Open
    BY <2>1, <2>2, OpenKeeps
  <2>3. CASE StatPath
    BY <2>1, <2>3, StatPathKeeps
  <2>4. CASE Read
    BY <2>1, <2>4, ReadKeeps
  <2>5. CASE EmitLine \/ EmitPiece
    BY <2>1, <2>5, EmitLineKeeps
  <2>6. CASE KeepRest
    BY <2>1, <2>6, KeepRestKeeps
  <2>7. CASE ReadEnds
    BY <2>1, <2>7, ReadEndsKeeps
  <2>8. CASE FlushPending
    BY <2>1, <2>8, FlushPendingKeeps
  <2>9. CASE CloseFile
    BY <2>1, <2>9, CloseFileKeeps
  <2> QED BY <1>1, <2>2, <2>3, <2>4, <2>5, <2>6, <2>7, <2>8, <2>9 DEF Tailer
<1>2. CASE CallFails
  BY <1>2, CallFailsKeeps
<1>3. CASE Environment
  BY <1>3, EnvironmentKeepsInv
<1>4. CASE UNCHANGED vars
  <2>1. UNCHANGED <<versions, path, writing, file, offset, pending, pendingStart, skipFirst,
                    openedOnce, buf, cur, pc, draining, out, version, skipped, written,
                    truncates, errors, late>>
    BY <1>4 DEF vars, fileVars, tailerVars, readerVars, splitVars, stepVars, lineVars, envVars
  <2>2. Core'
    BY <2>1 DEF TailInv, Core, TypeOK, FilesTypeOK
  <2>3. InHand' /\ Current' /\ Continues'
    BY <2>1 DEF TailInv, InHand, Held, Start, Current, Version, Size, Content, Continues, Here, Emitted
  <2>4. OffsetsTrue' /\ NothingSkipped'
    BY <2>1, QuietKeeps
  <2> QED BY <2>2, <2>3, <2>4 DEF TailInv
<1> QED BY <1>1, <1>2, <1>3, <1>4 DEF Next, Environment

-----------------------------------------------------------------------------
(* Whole lines: a second invariant, on top of the first.                   *)

WholeLine(j) ==
  LET line == out[j]
      content == versions[line.file][line.version]
      end == line.off + Len(line.text) IN
  /\ line.version \in DOMAIN versions[line.file]
  /\ line.off <= line.next /\ line.next \in 1 .. Len(content)
  /\ \/ line.off = 0
     \/ content[line.off] = "newline"
     \/ \E i \in 1 .. (j - 1) : SameFile(i, j) /\ out[i].next = line.off
                                /\ Len(out[i].text) = MaxLineBytes
  /\ \/ content[line.next] = "newline"
     \/ Len(line.text) = MaxLineBytes
     \/ path # line.file /\ (file # line.file \/ (pc = "close" /\ j = Len(out)))
  /\ \A i \in DOMAIN line.text : line.text[i].kind # "newline"
  /\ end <= line.next /\ line.next <= end + 2
  /\ \A p \in (end + 1) .. line.next : content[p] \in {"cr", "newline"}

WholeLines == \A j \in Emitted : WholeLine(j)

(* The bytes in hand are the file's, and start a line or follow a piece;   *)
(* there is none any more when a file is about to be closed.               *)
HeldTrue ==
  file # NoFile =>
    /\ version \in DOMAIN versions[file] /\ offset <= Len(versions[file][version])
    /\ \A i \in 1 .. Len(Held) : Held[i].kind = versions[file][version][Start + i]
    /\ skipFirst = FALSE /\ pc # "close" =>
         \/ Start = 0
         \/ versions[file][version][Start] = "newline"
         \/ \E i \in Emitted : Here(i) /\ out[i].next = Start /\ Len(out[i].text) = MaxLineBytes

NoNewlineHeld == \A i \in 1 .. Len(pending) : pending[i].kind # "newline"

DrainsOldFile == draining = TRUE => file # NoFile /\ path # file

Closing == /\ pc \in {"flush", "close"} => draining = TRUE
           /\ pc = "close" => pending = <<>>

WholeInv == TailInv /\ WholeLines /\ HeldTrue /\ NoNewlineHeld /\ DrainsOldFile /\ Closing

LEMMA HeldEnds ==
  ASSUME TailInv, file # NoFile
  PROVE  Start + Len(Held) = offset /\ Start \in Nat /\ Len(Held) \in Nat /\ offset \in Nat
<1>1. Core /\ InHand /\ Start \in Nat /\ Len(Held) \in Nat /\ offset \in Nat
  BY HeldType DEF TailInv, Core, TypeOK
<1>2. CASE pc = "split"
  BY <1>1, <1>2 DEF InHand, Held, Start
<1>3. CASE pc # "split" /\ pending = <<>>
  <2>1. Len(<<>>) = 0
    OBVIOUS
  <2> QED BY <1>1, <1>3, <2>1 DEF Held, Start
<1>4. CASE pc # "split" /\ pending # <<>>
  BY <1>1, <1>4 DEF InHand, Held, Start
<1> QED BY <1>1, <1>2, <1>3, <1>4

LEMMA LineType ==
  ASSUME Core, NEW j \in Emitted
  PROVE  /\ out[j] \in Lines /\ out[j].file \in Files /\ out[j].off \in Nat /\ out[j].next \in Nat
         /\ Len(out[j].text) \in Nat /\ DOMAIN out[j].text = 1 .. Len(out[j].text)
         /\ j \in Nat /\ \A i \in 1 .. (j - 1) : i \in Emitted
<1>1. out \in Seq(Lines) /\ Emitted = 1 .. Len(out) /\ Len(out) \in Nat
  BY HeldType
<1>2. out[j] \in Lines
  BY <1>1, ElementOfSeq
<1>3. /\ out[j].file \in Files /\ out[j].off \in Nat /\ out[j].next \in Nat
      /\ out[j].text \in Seq(Bytes)
  BY <1>2 DEF Lines
<1>4. Len(out[j].text) \in Nat /\ DOMAIN out[j].text = 1 .. Len(out[j].text)
  BY <1>3, LenProperties
<1>5. j \in Nat /\ \A i \in 1 .. (j - 1) : i \in Emitted
  BY <1>1
<1> QED BY <1>2, <1>3, <1>4, <1>5

(* Lines stay whole while nothing is emitted.                              *)
LEMMA WholeStays ==
  ASSUME Core, WholeLines, Kept, MovedAway, UNCHANGED out,
         file' \in {file, NoFile} \/ (file' = path /\ path' = path),
         pc = "close" => pc' = "close" \/ file' = NoFile
  PROVE  WholeLines'
<1> SUFFICES ASSUME NEW j \in Emitted
             PROVE  WholeLine(j)'
  BY DEF WholeLines, Emitted
<1> DEFINE f == out[j].file
           v == out[j].version
           end == out[j].off + Len(out[j].text)
<1>1. f \in Files /\ out[j].off \in Nat /\ out[j].next \in Nat /\ Len(out[j].text) \in Nat
  BY LineType
<1>2. WholeLine(j)
  BY DEF WholeLines
<1>3. v \in DOMAIN versions[f] /\ out[j].off <= out[j].next /\ out[j].next \in 1 .. Len(versions[f][v])
  BY <1>2 DEF WholeLine
<1>4. Len(versions[f][v]) \in Nat
  BY <1>1, <1>3, ElementOfSeq, LenProperties DEF Core, TypeOK, FilesTypeOK
<1>5. /\ v \in DOMAIN versions'[f] /\ Len(versions[f][v]) <= Len(versions'[f][v])
      /\ \A p \in 1 .. Len(versions[f][v]) : versions'[f][v][p] = versions[f][v][p]
  BY <1>1, <1>3 DEF Kept
<1>6. out[j].next \in 1 .. Len(versions'[f][v])
  <2>1. Len(versions'[f][v]) \in Int
    BY <1>5 DEF Kept
  <2>2. \A a, b, c \in Int : a \in 1 .. b /\ b <= c => a \in 1 .. c
    OBVIOUS
  <2> QED BY <1>1, <1>3, <1>4, <1>5, <2>1, <2>2
<1>7. path # f /\ (file # f \/ (pc = "close" /\ j = Len(out)))
        => path' # f /\ (file' # f \/ (pc' = "close" /\ j = Len(out)'))
  <2>1. versions[f] # <<>>
    <3>1. DOMAIN <<>> = {}
      OBVIOUS
    <3> QED BY <1>3, <3>1
  <2> QED BY <1>1, <2>1, NoFileAssumption DEF MovedAway
<1>8. versions'[f][v][out[j].next] = versions[f][v][out[j].next]
  BY <1>3, <1>5
<1>9. out[j].off # 0 => versions'[f][v][out[j].off] = versions[f][v][out[j].off]
  <2>1. out[j].off # 0 => out[j].off \in 1 .. Len(versions[f][v])
    BY <1>1, <1>3, <1>4
  <2> QED BY <1>5, <2>1
<1>10. \A p \in (end + 1) .. out[j].next : versions'[f][v][p] = versions[f][v][p]
  <2>1. \A p \in (end + 1) .. out[j].next : p \in 1 .. Len(versions[f][v])
    BY <1>1, <1>3, <1>4
  <2> QED BY <1>5, <2>1
<1> QED BY <1>2, <1>3, <1>5, <1>6, <1>7, <1>8, <1>9, <1>10 DEF WholeLine, SameFile

(* A line is whole if its text lacks only its terminator.                  *)
LEMMA EmitWhole ==
  ASSUME WholeInv, file # NoFile, skipFirst = FALSE, pc # "close",
         UNCHANGED <<versions, path, file>>,
         NEW n \in 0 .. Len(Held), NEW m \in 1 .. Len(Held), n <= m, m <= n + 2,
         Emit(SubSeq(Held, 1, n), Start, Start + m),
         \A k \in 1 .. n : Held[k].kind # "newline",
         \A k \in (n + 1) .. m : Held[k].kind \in {"cr", "newline"},
         \/ Held[m].kind = "newline"
         \/ n = MaxLineBytes
         \/ pc' = "close" /\ path # file
  PROVE  /\ WholeLines'
         /\ \E i \in Emitted' : /\ out'[i].file = file /\ out'[i].version = version
                                /\ out'[i].next = Start + m /\ Len(out'[i].text) = n
<1> DEFINE text == SubSeq(Held, 1, n)
           line == [file |-> file, version |-> version, off |-> Start, text |-> text, next |-> Start + m]
           content == versions[file][version]
<1>1. /\ Core /\ Held \in Seq(Bytes) /\ Len(Held) \in Nat /\ Start \in Nat /\ offset \in Nat
      /\ Start + Len(Held) = offset /\ file \in Files
  BY HeldType, HeldEnds DEF WholeInv, TailInv, Core, TypeOK
<1>2. text \in Seq(Bytes) /\ Len(text) = n /\ DOMAIN text = 1 .. n /\ \A k \in 1 .. n : text[k] = Held[k]
  BY <1>1, StartOf
<1>3. Start + m \in Nat /\ m \in Nat /\ n \in Nat
  BY <1>1
<1> Emit(text, Start, Start + m)
  OBVIOUS
<1> HIDE DEF text
<1>4. PICK last \in Nat :
        /\ last = Len(out) + 1 /\ Len(out) \in Nat /\ Len(out') = last
        /\ Emitted = 1 .. Len(out) /\ Emitted' = 1 .. last
        /\ out'[last] = line /\ \A i \in Emitted : out'[i] = out[i]
  <2>1. /\ Core /\ file # NoFile /\ text \in Seq(Bytes) /\ Start \in Nat /\ Start + m \in Nat
        /\ Emit(text, Start, Start + m)
    BY <1>1, <1>2, <1>3
  <2>2. /\ Len(out) \in Nat /\ Len(out') = Len(out) + 1
        /\ DOMAIN out = 1 .. Len(out) /\ DOMAIN out' = 1 .. (Len(out) + 1)
        /\ out'[Len(out) + 1] = line /\ \A i \in DOMAIN out : out'[i] = out[i]
    BY <2>1, EmitType
  <2> HIDE DEF line
  <2> QED BY <2>2 DEF Emitted
<1>5. /\ line.file = file /\ line.version = version /\ line.off = Start
      /\ line.text = text /\ line.next = Start + m
  OBVIOUS
<1> HIDE DEF line
<1>6. /\ version \in DOMAIN versions[file] /\ offset <= Len(content)
      /\ \A i \in 1 .. Len(Held) : Held[i].kind = content[Start + i]
      /\ \/ Start = 0
         \/ content[Start] = "newline"
         \/ \E i \in Emitted : Here(i) /\ out[i].next = Start /\ Len(out[i].text) = MaxLineBytes
  BY DEF WholeInv, HeldTrue
<1>7. Len(content) \in Nat
  BY <1>1, <1>6, ElementOfSeq, LenProperties DEF Core, TypeOK, FilesTypeOK
<1> HIDE DEF content
<1>8. last \in Emitted' /\ \A i \in Emitted' : i \in Emitted \/ i = last
  BY <1>4
<1>9. ASSUME NEW j \in Emitted PROVE WholeLine(j)'
  <2>1. \A i \in 1 .. (j - 1) : i \in Emitted
    BY <1>1, LineType
  <2>2. WholeLine(j)
    BY DEF WholeInv, WholeLines
  <2> QED BY <1>4, <2>1, <2>2 DEF WholeLine, SameFile
<1>10. WholeLine(last)'
  <2>1. Start + m \in 1 .. Len(content) /\ Start <= Start + m
    BY <1>1, <1>3, <1>6, <1>7
  <2>2. \/ Start = 0
        \/ content[Start] = "newline"
        \/ \E i \in 1 .. (last - 1) : SameFile(i, last)' /\ out'[i].next = Start
                                      /\ Len(out'[i].text) = MaxLineBytes
    <3>1. 1 .. (last - 1) = Emitted
      BY <1>4
    <3> QED BY <1>4, <1>5, <1>6, <3>1 DEF SameFile, Here
  <2>3. \/ content[Start + m] = "newline"
        \/ n = MaxLineBytes
        \/ path' # file /\ pc' = "close" /\ last = Len(out)'
    BY <1>4, <1>6
  <2>4. Start + n <= Start + m /\ Start + m <= Start + n + 2
    BY <1>1, <1>3
  <2>5. \A p \in (Start + n + 1) .. (Start + m) : content[p] \in {"cr", "newline"}
    <3> SUFFICES ASSUME NEW p \in (Start + n + 1) .. (Start + m)
                 PROVE  content[p] \in {"cr", "newline"}
      OBVIOUS
    <3>1. p - Start \in (n + 1) .. m /\ p - Start \in 1 .. Len(Held) /\ Start + (p - Start) = p
      BY <1>1, <1>3
    <3> QED BY <1>6, <3>1
  <2>6. \A k \in DOMAIN text : text[k].kind # "newline"
    BY <1>2
  <2>7. versions'[file][version] = content /\ version \in DOMAIN versions'[file]
    BY <1>6 DEF content
  <2> QED BY <1>2, <1>4, <1>5, <2>1, <2>2, <2>3, <2>4, <2>5, <2>6, <2>7 DEF WholeLine
<1>11. WholeLines'
  BY <1>8, <1>9, <1>10 DEF WholeLines
<1> QED BY <1>2, <1>4, <1>5, <1>8, <1>11

LEMMA FilesStay ==
  ASSUME FilesTypeOK, UNCHANGED <<versions, path>>
  PROVE  Kept /\ MovedAway
<1>1. \A f \in Files : \A v \in DOMAIN versions[f] : Len(versions[f][v]) \in Nat
  BY ElementOfSeq, LenProperties DEF FilesTypeOK
<1> QED BY <1>1 DEF Kept, MovedAway

(* The bytes in hand stay what the file held, whatever is written to it.   *)
LEMMA HeldStays ==
  ASSUME TailInv, HeldTrue, Kept, UNCHANGED <<file, version, offset, skipFirst, out>>,
         Held' = Held, Start' = Start, pc = "close" => pc' = "close"
  PROVE  HeldTrue'
<1> SUFFICES ASSUME file # NoFile PROVE HeldTrue'
  BY DEF HeldTrue
<1>1. /\ Start + Len(Held) = offset /\ Start \in Nat /\ Len(Held) \in Nat /\ offset \in Nat
      /\ file \in Files
  BY HeldEnds DEF TailInv, Core, TypeOK
<1> DEFINE content == versions[file][version]
           new == versions'[file][version]
<1>2. /\ version \in DOMAIN versions[file] /\ offset <= Len(content)
      /\ \A i \in 1 .. Len(Held) : Held[i].kind = content[Start + i]
  BY DEF HeldTrue
<1>3. Len(content) \in Nat
  BY <1>1, <1>2, ElementOfSeq, LenProperties DEF TailInv, Core, TypeOK, FilesTypeOK
<1>4. /\ version \in DOMAIN versions'[file] /\ Len(content) <= Len(new)
      /\ \A p \in 1 .. Len(content) : new[p] = content[p]
  BY <1>1, <1>2 DEF Kept
<1>5. Len(new) \in Int
  BY <1>4 DEF Kept
<1> HIDE DEF content, new
<1>6. offset <= Len(new)
  BY <1>1, <1>2, <1>3, <1>4, <1>5
<1>7. \A i \in 1 .. Len(Held) : Held[i].kind = new[Start + i]
  <2>1. \A i \in 1 .. Len(Held) : Start + i \in 1 .. Len(content)
    BY <1>1, <1>2, <1>3
  <2> QED BY <1>2, <1>4, <2>1
<1>8. Start # 0 => new[Start] = content[Start]
  <2>1. Start # 0 => Start \in 1 .. Len(content)
    BY <1>1, <1>2, <1>3
  <2> QED BY <1>4, <2>1
<1> QED BY <1>4, <1>6, <1>7, <1>8 DEF HeldTrue, content, new, Emitted, Here

LEMMA OpenWhole ==
  ASSUME WholeInv, Open, UNCHANGED fileVars
  PROVE  (WholeLines /\ HeldTrue /\ NoNewlineHeld /\ DrainsOldFile)'
<1>1. /\ TailInv /\ Core /\ path \in Files /\ versions[path] # <<>> /\ FilesTypeOK
      /\ file = NoFile /\ file' = path /\ version' = Version(path)
      /\ pending' = <<>> /\ pendingStart' = offset' /\ pc = "poll"
      /\ UNCHANGED <<versions, path, buf, cur, pc, draining, out>>
  BY DEF WholeInv, TailInv, Core, TypeOK, FilesTypeOK, Open, fileVars, splitVars, stepVars
<1>2. Size(path) \in Nat /\ Version(path) \in DOMAIN versions[path]
  BY <1>1, ContentType
<1>3. Held' = <<>> /\ Start' = offset' /\ Len(<<>>) = 0
  BY <1>1 DEF Held, Start
<1>4. ReplayStart(Size(path)) \in Nat /\ ReplayStart(Size(path)) <= Size(path)
  BY <1>2, TailAssumption DEF ReplayStart
<1>5. offset' \in Nat /\ offset' <= Size(path)
  BY <1>2, <1>4 DEF Open
<1>6. skipFirst' = FALSE => offset' = 0 \/ Content(path)[offset'] = "newline"
  <2>1. CASE offset' = 0
    BY <2>1
  <2>2. CASE skipFirst' = (offset' > 0 /\ Content(path)[offset'] # "newline")
    <3> DEFINE MidLine == offset' > 0 /\ Content(path)[offset'] # "newline"
    <3>1. MidLine \in BOOLEAN /\ skipFirst' = MidLine
      BY <2>2
    <3>2. ~MidLine => offset' = 0 \/ Content(path)[offset'] = "newline"
      BY <1>5
    <3> HIDE DEF MidLine
    <3> QED BY <3>1, <3>2, Zenon
  <2> QED BY <2>1, <2>2 DEF Open
<1>7. HeldTrue'
  BY <1>1, <1>2, <1>3, <1>5, <1>6 DEF HeldTrue, Version, Size, Content
<1>8. WholeLines'
  BY <1>1, FilesStay, WholeStays DEF WholeInv
<1>9. NoNewlineHeld' /\ DrainsOldFile'
  BY <1>1, <1>3 DEF WholeInv, NoNewlineHeld, DrainsOldFile
<1> QED BY <1>7, <1>8, <1>9

LEMMA StatPathWhole ==
  ASSUME WholeInv, StatPath, UNCHANGED fileVars
  PROVE  (WholeLines /\ HeldTrue /\ NoNewlineHeld /\ DrainsOldFile)'
<1>1. /\ TailInv /\ Core /\ file \in Files /\ file # NoFile /\ versions[file] # <<>> /\ FilesTypeOK
      /\ pc = "poll" /\ pc' = "read" /\ draining' = (path # file)
      /\ UNCHANGED <<versions, path, file, out>>
  BY DEF WholeInv, TailInv, Core, TypeOK, StatPath, fileVars, readerVars
<1>2. WholeLines' /\ Kept
  BY <1>1, FilesStay, WholeStays DEF WholeInv
<1>3. DrainsOldFile'
  BY <1>1 DEF DrainsOldFile
<1>4. CASE offset' = 0 /\ pending' = <<>> /\ pendingStart' = 0 /\ version' = Version(file)
  <2>1. Held' = <<>> /\ Start' = 0 /\ Len(<<>>) = 0
    BY <1>1, <1>4 DEF Held, Start
  <2>2. Version(file) \in DOMAIN versions[file] /\ Size(file) \in Nat
    BY <1>1, ContentType
  <2>3. HeldTrue' /\ NoNewlineHeld'
    BY <1>1, <1>4, <2>1, <2>2 DEF HeldTrue, NoNewlineHeld, Version, Size, Content
  <2> QED BY <1>2, <1>3, <2>3
<1>5. CASE UNCHANGED <<offset, pending, pendingStart, skipFirst, version>>
  <2>1. Held' = Held /\ Start' = Start
    BY <1>1, <1>5 DEF Held, Start
  <2>2. HeldTrue'
    BY <1>1, <1>2, <1>5, <2>1, HeldStays DEF WholeInv
  <2> QED BY <1>2, <1>3, <1>5, <2>2 DEF WholeInv, NoNewlineHeld
<1> QED BY <1>4, <1>5 DEF StatPath, readerVars

LEMMA ReadWhole ==
  ASSUME WholeInv, Read, UNCHANGED fileVars
  PROVE  (WholeLines /\ HeldTrue /\ NoNewlineHeld /\ DrainsOldFile)'
<1>1. /\ TailInv /\ Core /\ InHand /\ Current /\ HeldTrue /\ FilesTypeOK
      /\ file \in Files /\ file # NoFile /\ versions[file] # <<>> /\ pc = "read"
      /\ version' = IF offset = 0 THEN Version(file) ELSE version
      /\ offset < Size(file)
      /\ UNCHANGED <<versions, path, file, pending, pendingStart, draining, out>>
  BY DEF WholeInv, TailInv, Core, TypeOK, Read, fileVars
<1>2. WholeLines' /\ NoNewlineHeld' /\ DrainsOldFile'
  BY <1>1, FilesStay, WholeStays DEF WholeInv, NoNewlineHeld, DrainsOldFile
<1>3. /\ Size(file) \in Nat /\ Version(file) \in DOMAIN versions[file] /\ offset \in Nat
      /\ skipFirst \in BOOLEAN /\ pending \in Seq(Bytes) /\ Len(pending) \in Nat /\ pendingStart \in Nat
  BY <1>1, ContentType, LenProperties DEF Core, TypeOK
<1> DEFINE content == Content(file)
<1>4. version' = Version(file) /\ (version' = version \/ offset = 0)
  BY <1>1, <1>3 DEF Current
<1>5. /\ file' = file /\ version' \in DOMAIN versions'[file]
      /\ content = versions'[file][version'] /\ Size(file) = Len(content)
  BY <1>1, <1>3, <1>4 DEF Content, Size, Version
<1>6. offset # 0 => content = versions[file][version]
  BY <1>4 DEF Content
<1>7. Held = pending /\ Start = IF pending = <<>> THEN offset ELSE pendingStart
  BY <1>1 DEF Held, Start
<1>8. Len(<<>>) = 0
  OBVIOUS
<1> HIDE DEF content
<1>9. PICK n \in Nat \ {0} :
        /\ offset + n <= Size(file) /\ offset' = offset + n
        /\ \/ skipFirst /\ skipFirst' /\ UNCHANGED <<splitVars, pc>>
           \/ \E i \in 0 .. n, rest \in Seq(Bytes) :
                /\ \/ ~skipFirst /\ i = 0
                   \/ skipFirst /\ i # 0 /\ content[offset + i] = "newline"
                /\ Len(rest) = n - i
                /\ \A k \in 1 .. n - i :
                     /\ rest[k].pos = offset + i + k /\ rest[k].version = Version(file)
                     /\ rest[k].kind = content[offset + i + k]
                /\ ~skipFirst' /\ Consume(rest, offset + i)
  BY <1>1, ReadSteps DEF content
<1>10. offset' <= Len(content) /\ skipFirst' \in BOOLEAN
  BY <1>3, <1>5, <1>9 DEF Read
<1>11. CASE skipFirst /\ skipFirst' /\ UNCHANGED <<splitVars, pc>>
  <2>1. skipFirst = TRUE /\ skipFirst' = TRUE /\ UNCHANGED <<buf, cur, pc>>
    BY <1>3, <1>10, <1>11 DEF splitVars
  <2>2. pending = <<>>
    BY <1>1, <2>1 DEF InHand
  <2>3. Held' = <<>>
    BY <1>1, <2>1, <2>2 DEF Held
  <2> QED BY <1>2, <1>5, <1>8, <1>10, <2>1, <2>3 DEF HeldTrue
<1>12. ASSUME NEW i \in 0 .. n, NEW rest \in Seq(Bytes),
              (~skipFirst /\ i = 0) \/ (skipFirst /\ i # 0 /\ content[offset + i] = "newline"),
              Len(rest) = n - i,
              \A k \in 1 .. n - i : rest[k].kind = content[offset + i + k],
              Consume(rest, offset + i)
       PROVE  HeldTrue'
  <2>1. /\ buf' = pending \o rest /\ pc' = "split"
        /\ cur' = IF pending = <<>> THEN offset + i ELSE pendingStart
    BY <1>12 DEF Consume
  <2>2. Held' = buf' /\ Start' = cur'
    BY <2>1 DEF Held, Start
  <2>3. pending # <<>> => i = 0 /\ pendingStart + Len(pending) = offset /\ offset # 0
    BY <1>1, <1>3, <1>12 DEF InHand
  <2>4. cur' + Len(pending) = offset + i /\ cur' \in Nat /\ i \in Nat
    <3>1. CASE pending = <<>>
      BY <1>3, <1>8, <2>1, <3>1
    <3>2. CASE pending # <<>>
      BY <1>3, <2>1, <2>3, <3>2
    <3> QED BY <3>1, <3>2
  <2>5. /\ Len(buf') = Len(pending) + (n - i)
        /\ \A k \in 1 .. Len(pending) : buf'[k] = pending[k]
        /\ \A k \in 1 .. n - i : buf'[Len(pending) + k] = rest[k]
    <3>1. pending \in Seq(Bytes) /\ rest \in Seq(Bytes) /\ buf' = pending \o rest
      BY <1>3, <2>1
    <3>2. /\ Len(buf') = Len(pending) + Len(rest)
          /\ \A k \in 1 .. Len(pending) : buf'[k] = pending[k]
          /\ \A k \in 1 .. Len(rest) : buf'[Len(pending) + k] = rest[k]
      BY <3>1, ConcatProperties
    <3> QED BY <1>12, <3>2
  <2>6. \A k \in 1 .. Len(buf') : buf'[k].kind = content[cur' + k]
    <3> SUFFICES ASSUME NEW k \in 1 .. Len(buf') PROVE buf'[k].kind = content[cur' + k]
      OBVIOUS
    <3>1. CASE k <= Len(pending)
      <4>1. k \in 1 .. Len(pending) /\ pending # <<>>
        BY <1>3, <1>8, <3>1
      <4>2. pending[k].kind = content[Start + k] /\ cur' = Start
        BY <1>1, <1>6, <1>7, <2>1, <2>3, <4>1 DEF HeldTrue
      <4> QED BY <2>5, <4>1, <4>2
    <3>2. CASE k > Len(pending)
      <4> DEFINE m == k - Len(pending)
      <4>1. m \in 1 .. n - i /\ k = Len(pending) + m
        BY <1>3, <2>4, <2>5, <3>2
      <4>2. buf'[k] = rest[m] /\ rest[m].kind = content[offset + i + m]
        BY <1>12, <2>5, <4>1
      <4>3. offset + i + m = cur' + k
        <5>1. m \in Nat /\ cur' + (Len(pending) + m) = (cur' + Len(pending)) + m
          BY <1>3, <2>4, <4>1
        <5> HIDE DEF m
        <5> QED BY <2>4, <4>1, <5>1
      <4> QED BY <4>2, <4>3
    <3> QED BY <1>3, <2>4, <2>5, <3>1, <3>2
  <2>7. \/ cur' = 0
        \/ content[cur'] = "newline"
        \/ \E k \in Emitted' : Here(k)' /\ out'[k].next = cur' /\ Len(out'[k].text) = MaxLineBytes
    <3>1. CASE skipFirst = TRUE
      BY <1>12, <2>1, <2>3, <3>1
    <3>2. CASE skipFirst = FALSE
      <4>1. i = 0
        BY <1>12, <3>2
      <4>2. cur' = Start
        BY <1>3, <1>7, <2>1, <4>1
      <4>3. offset = 0 => Start = 0
        BY <1>1, <1>7 DEF InHand
      <4> QED BY <1>1, <1>4, <1>6, <3>2, <4>2, <4>3 DEF HeldTrue, Here, Emitted
    <3> QED BY <1>3, <3>1, <3>2
  <2> QED BY <1>5, <1>10, <2>2, <2>6, <2>7 DEF HeldTrue
<1>13. ASSUME \E i \in 0 .. n, rest \in Seq(Bytes) :
                /\ \/ ~skipFirst /\ i = 0
                   \/ skipFirst /\ i # 0 /\ content[offset + i] = "newline"
                /\ Len(rest) = n - i
                /\ \A k \in 1 .. n - i :
                     /\ rest[k].pos = offset + i + k /\ rest[k].version = Version(file)
                     /\ rest[k].kind = content[offset + i + k]
                /\ ~skipFirst' /\ Consume(rest, offset + i)
       PROVE  HeldTrue'
  <2>1. PICK i \in 0 .. n, rest \in Seq(Bytes) :
          /\ (~skipFirst /\ i = 0) \/ (skipFirst /\ i # 0 /\ content[offset + i] = "newline")
          /\ Len(rest) = n - i
          /\ \A k \in 1 .. n - i : rest[k].kind = content[offset + i + k]
          /\ Consume(rest, offset + i)
    BY <1>13
  <2> QED BY <1>12, <2>1
<1> QED BY <1>2, <1>9, <1>11, <1>13

LEMMA EmitLineWhole ==
  ASSUME WholeInv, EmitLine \/ EmitPiece, UNCHANGED fileVars
  PROVE  (WholeLines /\ HeldTrue /\ NoNewlineHeld /\ DrainsOldFile)'
<1>1. /\ TailInv /\ Core /\ InHand /\ file # NoFile /\ file \in Files /\ pc = "split"
      /\ buf \in Seq(Bytes) /\ cur \in Nat /\ Len(buf) \in Nat
      /\ UNCHANGED <<versions, path, file, offset, pending, pendingStart, skipFirst, pc, draining, version>>
  BY LenProperties
     DEF WholeInv, TailInv, Core, TypeOK, EmitLine, EmitPiece, fileVars, readerVars, stepVars
<1>2. Held = buf /\ Start = cur /\ Held' = buf' /\ Start' = cur' /\ skipFirst = FALSE
  BY <1>1 DEF Held, Start, InHand
<1>3. PICK i \in 1 .. Len(buf), n \in 0 .. MaxLineBytes :
        /\ n <= i
        /\ Emit(SubSeq(buf, 1, n), cur, cur + i)
        /\ buf' = SubSeq(buf, i + 1, Len(buf)) /\ cur' = cur + i
        /\ \A k \in 1 .. n : buf[k].kind # "newline"
        /\ \/ n = MaxLineBytes /\ i = n
           \/ /\ buf[i].kind = "newline"
              /\ n = i - 1 \/ (n = i - 2 /\ buf[i - 1].kind = "cr")
  BY <1>1, EmitSteps
<1>4. i \in Nat /\ n \in Nat /\ n <= i /\ i <= Len(buf) /\ n \in 0 .. Len(buf) /\ i \in 0 .. Len(buf)
      /\ MaxLineBytes \in Nat
  BY <1>1, <1>3, TailAssumption
<1>5. i <= n + 2 /\ (\A k \in (n + 1) .. i : buf[k].kind \in {"cr", "newline"})
      /\ (buf[i].kind = "newline" \/ n = MaxLineBytes)
  <2>1. CASE n = MaxLineBytes /\ i = n
    BY <1>4, <2>1
  <2>2. CASE buf[i].kind = "newline" /\ n = i - 1
    <3>1. \A k \in (n + 1) .. i : k = i
      BY <1>4, <2>2
    <3> QED BY <1>4, <2>2, <3>1
  <2>3. CASE buf[i].kind = "newline" /\ n = i - 2 /\ buf[i - 1].kind = "cr"
    <3>1. \A k \in (n + 1) .. i : k = i \/ k = i - 1
      BY <1>4, <2>3
    <3> QED BY <1>4, <2>3, <3>1
  <2> QED BY <1>3, <2>1, <2>2, <2>3
<1>6. /\ WholeLines'
      /\ \E k \in Emitted' : /\ out'[k].file = file /\ out'[k].version = version
                             /\ out'[k].next = cur + i /\ Len(out'[k].text) = n
  <2>1. i \in 1 .. Len(Held) /\ n \in 0 .. Len(Held) /\ Emit(SubSeq(Held, 1, n), Start, Start + i)
    BY <1>2, <1>3, <1>4
  <2>2. /\ \A k \in 1 .. n : Held[k].kind # "newline"
        /\ \A k \in (n + 1) .. i : Held[k].kind \in {"cr", "newline"}
        /\ Held[i].kind = "newline" \/ n = MaxLineBytes
    BY <1>2, <1>3, <1>5
  <2>3. Start + i = cur + i
    BY <1>2
  <2> HIDE DEF Held, Start
  <2> QED BY <1>1, <1>2, <1>4, <1>5, <2>1, <2>2, <2>3, EmitWhole
<1>7. /\ buf' \in Seq(Bytes) /\ Len(buf') = Len(buf) - i
      /\ \A k \in 1 .. Len(buf) - i : buf'[k] = buf[i + k] /\ i + k \in 1 .. Len(buf)
  BY <1>1, <1>3, <1>4, RestOf
<1> DEFINE content == versions[file][version]
<1>8. /\ version \in DOMAIN versions[file] /\ offset <= Len(content)
      /\ \A k \in 1 .. Len(buf) : buf[k].kind = content[cur + k]
  BY <1>1, <1>2 DEF WholeInv, HeldTrue
<1> HIDE DEF content
<1>9. \A k \in 1 .. Len(buf') : buf'[k].kind = content[cur' + k]
  <2> SUFFICES ASSUME NEW k \in 1 .. Len(buf) - i PROVE buf'[k].kind = content[cur' + k]
    BY <1>7
  <2>1. buf'[k] = buf[i + k] /\ i + k \in 1 .. Len(buf) /\ cur + (i + k) = cur' + k
    BY <1>1, <1>3, <1>4, <1>7
  <2> QED BY <1>8, <2>1
<1>10. \/ content[cur'] = "newline"
       \/ \E k \in Emitted' : Here(k)' /\ out'[k].next = cur' /\ Len(out'[k].text) = MaxLineBytes
  <2>1. CASE buf[i].kind = "newline"
    BY <1>3, <1>8, <2>1
  <2>2. CASE n = MaxLineBytes
    BY <1>1, <1>3, <1>6, <2>2 DEF Here
  <2> QED BY <1>5, <2>1, <2>2
<1>11. HeldTrue'
  <2>1. /\ version' \in DOMAIN versions'[file'] /\ offset' <= Len(versions'[file'][version'])
        /\ versions'[file'][version'] = content
    BY <1>1, <1>8 DEF content
  <2> QED BY <1>2, <1>9, <1>10, <2>1 DEF HeldTrue
<1>12. NoNewlineHeld' /\ DrainsOldFile'
  BY <1>1 DEF WholeInv, NoNewlineHeld, DrainsOldFile
<1> QED BY <1>6, <1>11, <1>12

LEMMA KeepRestWhole ==
  ASSUME WholeInv, KeepRest, UNCHANGED fileVars
  PROVE  (WholeLines /\ HeldTrue /\ NoNewlineHeld /\ DrainsOldFile)'
<1>1. /\ TailInv /\ Core /\ InHand /\ FilesTypeOK /\ pc = "split" /\ pc' = "read"
      /\ buf \in Seq(Bytes) /\ Len(buf) \in Nat /\ DOMAIN buf = 1 .. Len(buf)
      /\ cur \in Nat /\ offset \in Nat
      /\ pending' = buf /\ pendingStart' = cur /\ ~HasNewline(buf)
      /\ UNCHANGED <<versions, path, file, offset, skipFirst, draining, out, version>>
  BY LenProperties DEF WholeInv, TailInv, Core, TypeOK, KeepRest, fileVars, lineVars
<1>2. WholeLines' /\ Kept
  BY <1>1, FilesStay, WholeStays DEF WholeInv
<1>3. cur + Len(buf) = offset /\ (buf = <<>> => Len(buf) = 0)
  BY <1>1 DEF InHand
<1>4. Held' = Held /\ Start' = Start
  BY <1>1, <1>3 DEF Held, Start
<1>5. HeldTrue'
  BY <1>1, <1>2, <1>4, HeldStays DEF WholeInv
<1>6. NoNewlineHeld' /\ DrainsOldFile'
  BY <1>1 DEF WholeInv, NoNewlineHeld, DrainsOldFile, HasNewline
<1> QED BY <1>2, <1>5, <1>6

LEMMA ReadEndsWhole ==
  ASSUME WholeInv, ReadEnds, UNCHANGED fileVars
  PROVE  (WholeLines /\ HeldTrue /\ NoNewlineHeld /\ DrainsOldFile)'
<1>1. /\ TailInv /\ Core /\ FilesTypeOK /\ pc = "read" /\ pc' \in {"flush", "poll"}
      /\ UNCHANGED <<versions, path, file, offset, pending, pendingStart, skipFirst, draining, out, version>>
  BY DEF WholeInv, TailInv, Core, TypeOK, ReadEnds, fileVars, readerVars, lineVars
<1>2. Held' = Held /\ Start' = Start
  BY <1>1 DEF Held, Start
<1>3. WholeLines' /\ Kept
  BY <1>1, FilesStay, WholeStays DEF WholeInv
<1>4. HeldTrue'
  BY <1>1, <1>2, <1>3, HeldStays DEF WholeInv
<1> QED BY <1>1, <1>3, <1>4 DEF WholeInv, NoNewlineHeld, DrainsOldFile

(* The unterminated last line of a file that is about to be closed.        *)
LEMMA FlushPendingWhole ==
  ASSUME WholeInv, FlushPending, UNCHANGED fileVars
  PROVE  (WholeLines /\ HeldTrue /\ NoNewlineHeld /\ DrainsOldFile)'
<1>1. /\ TailInv /\ Core /\ InHand /\ FilesTypeOK /\ file # NoFile /\ pc = "flush" /\ pc' = "close"
      /\ pending \in Seq(Bytes) /\ Len(pending) \in Nat /\ pending' = <<>>
      /\ UNCHANGED <<versions, path, file, offset, pendingStart, skipFirst, draining, version>>
  BY LenProperties DEF WholeInv, TailInv, Core, TypeOK, FlushPending, fileVars
<1>2. path # file /\ DrainsOldFile'
  BY <1>1 DEF WholeInv, Closing, DrainsOldFile
<1>3. HeldTrue' /\ NoNewlineHeld'
  <2>1. Len(<<>>) = 0 /\ Held' = <<>>
    BY <1>1 DEF Held
  <2> QED BY <1>1, <2>1 DEF WholeInv, HeldTrue, NoNewlineHeld
<1>4. CASE pending = <<>>
  <2>1. UNCHANGED out
    BY <1>4 DEF FlushPending
  <2> QED BY <1>1, <1>2, <1>3, <2>1, FilesStay, WholeStays DEF WholeInv
<1>5. CASE pending # <<>>
  <2> DEFINE m == Len(pending)
             n == TextLength(pending, m)
  <2>1. Held = pending /\ Start = pendingStart /\ skipFirst = FALSE
    BY <1>1, <1>5 DEF Held, Start, InHand, Core, TypeOK
  <2>2. m \in Nat /\ m # 0
    BY <1>1, <1>5, EmptySeq
  <2>3. n \in Nat /\ n <= m /\ m <= n + 2 /\ (n = m \/ (n = m - 1 /\ pending[m].kind = "cr"))
    BY <2>2 DEF TextLength
  <2>4. Emit(SubSeq(Held, 1, n), Start, Start + m)
    BY <1>5, <2>1 DEF FlushPending
  <2>5. m = Len(Held)
    BY <2>1
  <2> HIDE DEF m, n
  <2>6. m \in 1 .. Len(Held) /\ n \in 0 .. Len(Held)
    BY <2>2, <2>3, <2>5
  <2>7. \A k \in 1 .. n : Held[k].kind # "newline"
    <3>1. \A k \in 1 .. n : k \in 1 .. Len(pending)
      BY <2>1, <2>2, <2>3, <2>5
    <3> QED BY <2>1, <3>1 DEF WholeInv, NoNewlineHeld
  <2>8. \A k \in (n + 1) .. m : Held[k].kind \in {"cr", "newline"}
    <3>1. \A k \in (n + 1) .. m : k = m /\ n # m
      BY <2>2, <2>3
    <3> QED BY <2>1, <2>3, <3>1
  <2>9. WholeLines'
    BY <1>1, <1>2, <2>1, <2>3, <2>4, <2>6, <2>7, <2>8, EmitWhole
  <2> QED BY <1>2, <1>3, <2>9
<1> QED BY <1>4, <1>5

LEMMA CloseFileWhole ==
  ASSUME WholeInv, CloseFile, UNCHANGED fileVars
  PROVE  (WholeLines /\ HeldTrue /\ NoNewlineHeld /\ DrainsOldFile)'
<1>1. /\ Core /\ FilesTypeOK /\ file' = NoFile /\ draining' = FALSE
      /\ UNCHANGED <<versions, path, pending, out>>
  BY DEF WholeInv, TailInv, Core, TypeOK, CloseFile, fileVars, lineVars
<1>2. WholeLines'
  BY <1>1, FilesStay, WholeStays DEF WholeInv
<1> QED BY <1>1, <1>2 DEF WholeInv, HeldTrue, NoNewlineHeld, DrainsOldFile

LEMMA ClosingNext ==
  ASSUME WholeInv, [Next]_vars
  PROVE  Closing'
<1>1. draining \in BOOLEAN
  BY DEF WholeInv, TailInv, Core, TypeOK
<1>2. CASE Open \/ StatPath \/ Read \/ EmitLine \/ EmitPiece \/ KeepRest \/ CloseFile \/ CallFails
  <2>1. pc' \in {"poll", "read", "split"}
    BY <1>2 DEF Open, StatPath, Read, Consume, EmitLine, EmitPiece, KeepRest, CloseFile, CallFails,
                stepVars, splitVars
  <2> QED BY <2>1 DEF Closing
<1>3. CASE ReadEnds
  BY <1>1, <1>3 DEF ReadEnds, Closing
<1>4. CASE FlushPending
  BY <1>4 DEF FlushPending, WholeInv, Closing
<1>5. CASE Environment \/ UNCHANGED vars
  <2>1. UNCHANGED tailerVars
    BY <1>5 DEF Environment, WriterWrites, Rotation, CopyTruncate, vars
  <2> QED BY <2>1 DEF WholeInv, Closing, tailerVars, stepVars, readerVars
<1> QED BY <1>2, <1>3, <1>4, <1>5 DEF Next, Tailer, Environment

LEMMA OthersWhole ==
  ASSUME WholeInv, CallFails \/ Environment \/ UNCHANGED vars
  PROVE  (WholeLines /\ HeldTrue /\ NoNewlineHeld /\ DrainsOldFile)'
<1>1. TailInv /\ Core /\ TypeOK /\ FilesTypeOK
  BY DEF WholeInv, TailInv, Core, TypeOK
<1>2. CASE CallFails
  <2>1. /\ file' = NoFile /\ draining' = FALSE /\ pc' = "poll"
        /\ UNCHANGED <<versions, path, pending, out>>
    BY <1>2 DEF CallFails, fileVars, lineVars
  <2>2. WholeLines'
    BY <1>1, <2>1, FilesStay, WholeStays DEF WholeInv
  <2> QED BY <2>1, <2>2 DEF WholeInv, HeldTrue, NoNewlineHeld, DrainsOldFile
<1>3. CASE Environment \/ UNCHANGED vars
  <2>1. /\ Kept /\ MovedAway
        /\ UNCHANGED <<file, offset, pending, pendingStart, skipFirst, buf, cur, pc, draining, out, version>>
    <3>1. CASE Environment
      BY <1>1, <3>1, EnvironmentKeeps DEF tailerVars, readerVars, splitVars, stepVars, lineVars
    <3>2. CASE UNCHANGED vars
      BY <1>1, <3>2, FilesStay DEF vars, fileVars, tailerVars, readerVars, splitVars, stepVars, lineVars
    <3> QED BY <1>3, <3>1, <3>2
  <2>2. WholeLines'
    BY <1>1, <2>1, WholeStays DEF WholeInv
  <2>3. Held' = Held /\ Start' = Start
    BY <2>1 DEF Held, Start
  <2>4. HeldTrue'
    BY <1>1, <2>1, <2>3, HeldStays DEF WholeInv
  <2>5. DrainsOldFile'
    <3> SUFFICES ASSUME draining = TRUE PROVE file # NoFile /\ path' # file
      BY <2>1 DEF DrainsOldFile
    <3>1. file \in Files /\ path # file /\ file # NoFile /\ versions[file] # <<>>
      BY <1>1 DEF WholeInv, DrainsOldFile, Core, TypeOK
    <3> QED BY <2>1, <3>1 DEF MovedAway
  <2> QED BY <2>1, <2>2, <2>4, <2>5 DEF WholeInv, NoNewlineHeld
<1> QED BY <1>2, <1>3

LEMMA WholeInit == Init => WholeInv
<1> SUFFICES ASSUME Init PROVE WholeInv
  OBVIOUS
<1>1. out = <<>> /\ file = NoFile /\ pending = <<>> /\ draining = FALSE /\ TailInv
  BY InitEstablishes DEF Init
<1>2. DOMAIN <<>> = {} /\ Len(<<>>) = 0
  OBVIOUS
<1>3. pc = "poll"
  BY DEF Init
<1> QED BY <1>1, <1>2, <1>3 DEF WholeInv, WholeLines, HeldTrue, NoNewlineHeld, DrainsOldFile, Closing, Emitted

LEMMA WholeNext ==
  ASSUME WholeInv, [Next]_vars
  PROVE  WholeInv'
<1>1. TailInv' /\ Closing'
  BY TailNext, ClosingNext DEF WholeInv
<1>2. CASE Tailer
  <2>1. UNCHANGED fileVars
    BY <1>2 DEF Tailer
  <2> QED BY <1>1, <1>2, <2>1, OpenWhole, StatPathWhole, ReadWhole, EmitLineWhole, KeepRestWhole,
             ReadEndsWhole, FlushPendingWhole, CloseFileWhole
          DEF Tailer, WholeInv
<1>3. CASE CallFails \/ Environment \/ UNCHANGED vars
  BY <1>1, <1>3, OthersWhole DEF WholeInv
<1> QED BY <1>2, <1>3 DEF Next, Environment

(* Whatever is written, rotated, truncated or fails to be read, what the   *)
(* tailer has in hand is what the file held right after the last line it   *)
(* emitted, and nothing of a version that the file no longer has is added  *)
(* to it (tail.go: open, poll, read, consume, emit).                       *)
THEOREM TailInductive == Spec => []TailInv
<1>1. TailInv /\ [Next]_vars => TailInv'
  BY TailNext
<1> QED BY InitEstablishes, <1>1, PTL DEF Spec

(* The tailer's state keeps its type, and the partial line it holds never  *)
(* exceeds MaxLineBytes (consume).                                         *)
THEOREM TailTypes == Spec => []TypeOK
<1>1. TailInv => TypeOK
  BY DEF TailInv, Core
<1> QED BY <1>1, TailInductive, PTL

(* The Offset of every line ever emitted is where its text stands in the   *)
(* version of the file it was read from.                                   *)
THEOREM OffsetsHold == Spec => []OffsetsTrue
<1>1. TailInv => OffsetsTrue
  BY DEF TailInv
<1> QED BY <1>1, TailInductive, PTL

(* Two consecutive lines of a file have no byte between them, and only the *)
(* first open of all starts elsewhere than at the beginning (poll, read).  *)
THEOREM NoneSkipped == Spec => []NothingSkipped
<1>1. TailInv => NothingSkipped
  BY DEF TailInv
<1> QED BY <1>1, TailInductive, PTL

(* An emitted line starts at the start of a line, or where a full piece    *)
(* ended, ends before a newline, when it is full, or where a file that is  *)
(* closed was read to, and lacks nothing but its terminator: no line of    *)
(* the file is torn or merged with another (consume, emit, flushPending).  *)
THEOREM NoLineTorn == Spec => []LinesWhole
<1>1. Init => WholeInv
  BY WholeInit
<1>2. WholeInv /\ [Next]_vars => WholeInv'
  BY WholeNext
<1>3. WholeInv => LinesWhole
  BY DEF WholeInv, WholeLines, WholeLine, LinesWhole
<1> QED BY <1>1, <1>2, <1>3, PTL DEF Spec

(* What is written to a file after its end was seen for the last time is   *)
(* remembered in late.                                                     *)
Drained == pc \in {"flush", "close"} => Size(file) <= offset \/ file \in late

LEMMA DrainedNext ==
  ASSUME WholeInv, Drained, [Next]_vars
  PROVE  Drained'
<1>1. CASE Open \/ StatPath \/ Read \/ EmitLine \/ EmitPiece \/ KeepRest \/ CloseFile \/ CallFails
  <2>1. pc' \in {"poll", "read", "split"} \/ (pc' = pc /\ pc \in {"poll", "read", "split"})
    BY <1>1 DEF Open, StatPath, Read, Consume, EmitLine, EmitPiece, KeepRest, CloseFile, CallFails,
                stepVars, splitVars
  <2> QED BY <2>1 DEF Drained
<1>2. CASE ReadEnds /\ UNCHANGED fileVars
  BY <1>2 DEF ReadEnds, Drained, readerVars, fileVars, Size, Content, Version,
     WholeInv, TailInv, Core, TypeOK
<1>3. CASE FlushPending /\ UNCHANGED <<fileVars, envVars>>
  BY <1>3 DEF FlushPending, Drained, fileVars, envVars, Size, Content, Version
<1>4. CASE Environment
  <2>1. UNCHANGED <<file, pc, offset>> /\ late \subseteq late'
    BY <1>4 DEF Environment, WriterWrites, Rotation, CopyTruncate, envVars, tailerVars, readerVars, stepVars
  <2> SUFFICES ASSUME pc \in {"flush", "close"} PROVE Size(file)' <= offset \/ file \in late'
    BY <2>1 DEF Drained
  <2>2. /\ file \in Files /\ path # file /\ versions[file] # <<>> /\ TypeOK /\ FilesTypeOK
    BY DEF WholeInv, Closing, DrainsOldFile, TailInv, Core, TypeOK
  <2>3. CASE versions'[file] = versions[file]
    BY <2>1, <2>3 DEF Drained, Size, Content, Version
  <2>4. CASE WriterWrites /\ versions'[file] # versions[file]
    <3>1. PICK k \in Kinds : Write(k)
      BY <2>4 DEF WriterWrites
    <3>2. file = writing
      BY <2>2, <2>4, <3>1, WriteKeeps
    <3> QED BY <2>4, <3>2 DEF WriterWrites
  <2>5. CASE CopyTruncate /\ versions'[file] # versions[file]
    <3>1. file = path
      BY <2>2, <2>5, TruncateKeeps DEF CopyTruncate
    <3> QED BY <2>2, <3>1
  <2>6. CASE Rotation /\ versions'[file] # versions[file]
    <3>1. PICK f \in Files : versions[f] = <<>> /\ versions' = [versions EXCEPT ![f] = << <<>> >>]
      BY <2>6 DEF Rotation, MoveAway, Reopen, Recreate
    <3> QED BY <2>2, <2>6, <3>1 DEF FilesTypeOK
  <2> QED BY <1>4, <2>3, <2>4, <2>5, <2>6 DEF Environment
<1>5. CASE UNCHANGED vars
  BY <1>5 DEF Drained, Size, Content, Version, vars, fileVars, tailerVars, readerVars, stepVars, envVars
<1> QED BY <1>1, <1>2, <1>3, <1>4, <1>5 DEF Next, Tailer, Environment

(* A file that is closed because the path has moved on was read to its end *)
(* but for what was written after that was seen, and what was read of it   *)
(* was emitted, its unterminated last line included, unless nothing came   *)
(* after the place where the first open began (poll, read, flushPending,   *)
(* closeFile).                                                             *)
THEOREM NothingLeft == Spec => LeavesNothing
<1> DEFINE Emptied ==
             file # NoFile /\ file' # file /\ errors' = errors =>
               /\ Size(file) <= offset \/ file \in late
               /\ \/ offset = 0
                  \/ \E i \in DOMAIN out' :
                       out'[i].file = file /\ out'[i].version = version /\ out'[i].next = offset
                  \/ /\ skipped = <<file, version>>
                     /\ \A i \in DOMAIN out' : out'[i].file # file
<1>1. ASSUME WholeInv, Drained, [Next]_vars PROVE [Emptied]_vars
  <2> SUFFICES ASSUME file # NoFile, file' # file, errors' = errors
               PROVE  /\ Size(file) <= offset \/ file \in late
                      /\ \/ offset = 0
                         \/ \E i \in Emitted' :
                              out'[i].file = file /\ out'[i].version = version /\ out'[i].next = offset
                         \/ /\ skipped = <<file, version>>
                            /\ \A i \in Emitted' : out'[i].file # file
    BY DEF Emitted
  <2>1. Core /\ Continues /\ errors \in Nat
    BY <1>1 DEF WholeInv, TailInv, Core, TypeOK
  <2>2. CloseFile
    <3>1. ~CallFails
      BY <2>1 DEF CallFails
    <3>2. ~Environment
      BY <2>1, EnvironmentKeeps DEF Core, tailerVars, readerVars
    <3>3. Tailer
      BY <1>1, <3>1, <3>2 DEF Next, Environment, vars, tailerVars, readerVars
    <3> QED BY <3>3 DEF Tailer, Open, StatPath, Read, EmitLine, EmitPiece, KeepRest, ReadEnds, FlushPending,
                        readerVars
  <2>3. pc = "close" /\ UNCHANGED out
    BY <2>2 DEF CloseFile, lineVars
  <2>4. Start = offset
    BY <1>1, <2>3 DEF WholeInv, Closing, Start
  <2>5. Size(file) <= offset \/ file \in late
    BY <1>1, <2>3 DEF Drained
  <2> QED BY <2>1, <2>3, <2>4, <2>5 DEF Continues, Here, Emitted
<1>2. Spec => [][Emptied]_vars
  <2>1. Init => WholeInv /\ Drained
    BY WholeInit DEF Init, Drained
  <2>2. WholeInv /\ Drained /\ [Next]_vars => (WholeInv /\ Drained)'
    BY WholeNext, DrainedNext
  <2>3. WholeInv /\ Drained /\ [Next]_vars => [Emptied]_vars
    BY <1>1
  <2> HIDE DEF Emptied
  <2> QED BY <2>1, <2>2, <2>3, PTL DEF Spec
<1> QED BY <1>2 DEF LeavesNothing

-----------------------------------------------------------------------------
(* Repetitions: a third invariant, on top of the other two.                *)

Count(f, v, p) == Cardinality(Copies(f, v, p))

(* What is still to be read has been emitted once for every failed call at *)
(* most, and so has all of a file that is yet to be opened.                *)
Repeats ==
  \A f \in Files, v \in Nat, p \in Nat :
    /\ Count(f, v, p) <= errors + 1
    /\ f = file /\ v = version /\ Start < p => Count(f, v, p) <= errors
    /\ f = path /\ f # file => Count(f, v, p) <= errors

(* The version that is read is the newest one that lines are from.         *)
Newest == \A i \in Emitted : out[i].file = file => out[i].version <= version

OnceInv == WholeInv /\ Repeats /\ Newest

LEMMA CountType ==
  ASSUME Core, NEW f, NEW v, NEW p
  PROVE  IsFiniteSet(Copies(f, v, p)) /\ Count(f, v, p) \in Nat
<1>1. Emitted = 1 .. Len(out) /\ Len(out) \in Nat
  BY HeldType
<1>2. IsFiniteSet(Emitted)
  BY <1>1, FS_Interval
<1>3. Copies(f, v, p) \subseteq Emitted
  BY DEF Copies
<1> QED BY <1>2, <1>3, FS_Subset, FS_CardinalityType DEF Count

LEMMA CountStays ==
  ASSUME UNCHANGED out, NEW f, NEW v, NEW p
  PROVE  Count(f, v, p)' = Count(f, v, p)
BY DEF Count, Copies, Emitted

LEMMA CountNone ==
  ASSUME NEW f, NEW v, NEW p, \A i \in Emitted : ~ (out[i].file = f /\ out[i].version = v)
  PROVE  Count(f, v, p) = 0
<1>1. Copies(f, v, p) = {}
  BY DEF Copies
<1> QED BY <1>1, FS_EmptySet DEF Count

(* A line adds one copy of the bytes it stands for.                        *)
LEMMA CountEmit ==
  ASSUME Core, file # NoFile, NEW text \in Seq(Bytes), NEW off \in Nat, NEW next \in Nat,
         Emit(text, off, next), NEW f, NEW v, NEW p
  PROVE  /\ Count(f, v, p)' <= Count(f, v, p) + 1
         /\ ~ (f = file /\ v = version /\ off < p /\ p <= next) => Count(f, v, p)' = Count(f, v, p)
<1> DEFINE last == Len(out) + 1
           line == [file |-> file, version |-> version, off |-> off, text |-> text, next |-> next]
<1>1. /\ Emitted = 1 .. Len(out) /\ Emitted' = 1 .. last /\ Len(out) \in Nat
      /\ out'[last] = line /\ \A i \in Emitted : out'[i] = out[i]
  BY EmitType DEF Emitted
<1>2. line.file = file /\ line.version = version /\ line.off = off /\ line.next = next
  OBVIOUS
<1> HIDE DEF line
<1>3. IsFiniteSet(Copies(f, v, p)) /\ Count(f, v, p) \in Nat
  BY CountType
<1>4. last \notin Copies(f, v, p)
  BY <1>1 DEF Copies
<1>5. last \in Emitted' /\ \A i : i \in Emitted' <=> (i \in Emitted \/ i = last)
  BY <1>1
<1> HIDE DEF last
<1>6. CASE f = file /\ v = version /\ off < p /\ p <= next
  <2>1. Copies(f, v, p)' = Copies(f, v, p) \cup {last}
    BY <1>1, <1>2, <1>5, <1>6 DEF Copies
  <2>2. Cardinality(Copies(f, v, p) \cup {last}) = Cardinality(Copies(f, v, p)) + 1
    BY <1>3, <1>4, FS_AddElement
  <2>3. Count(f, v, p)' = Count(f, v, p) + 1
    BY <2>1, <2>2 DEF Count
  <2> QED BY <1>3, <1>6, <2>3
<1>7. CASE ~ (f = file /\ v = version /\ off < p /\ p <= next)
  <2>1. Copies(f, v, p)' = Copies(f, v, p)
    BY <1>1, <1>2, <1>5, <1>7 DEF Copies
  <2>2. Count(f, v, p)' = Count(f, v, p)
    BY <2>1 DEF Count
  <2> QED BY <1>3, <1>7, <2>2
<1> QED BY <1>6, <1>7

(* Steps that emit nothing, and do not go back in the file.                *)
LEMMA OnceQuiet ==
  ASSUME OnceInv, UNCHANGED <<out, file, version, errors, path>>, Start' \in Nat, Start <= Start'
  PROVE  Repeats' /\ Newest'
<1>1. Newest'
  BY DEF OnceInv, Newest, Emitted
<1>2. Start \in Nat
  BY HeldType DEF OnceInv, WholeInv, TailInv
<1>3. ASSUME NEW f \in Files, NEW v \in Nat, NEW p \in Nat
      PROVE  /\ Count(f, v, p)' <= errors' + 1
             /\ f = file' /\ v = version' /\ Start' < p => Count(f, v, p)' <= errors'
             /\ f = path' /\ f # file' => Count(f, v, p)' <= errors'
  <2>1. Count(f, v, p)' = Count(f, v, p) /\ (Start' < p => Start < p)
    BY <1>2, CountStays
  <2> QED BY <2>1 DEF OnceInv, Repeats
<1> QED BY <1>1, <1>3 DEF Repeats

(* Steps that begin to read a newer version.                               *)
LEMMA OnceNewer ==
  ASSUME OnceInv, UNCHANGED <<out, file, errors, path>>, file # NoFile,
         version' \in Nat, version < version'
  PROVE  Repeats' /\ Newest'
<1>1. Core /\ version \in Nat /\ errors \in Nat
  BY DEF OnceInv, WholeInv, TailInv, Core, TypeOK
<1>2. \A i \in Emitted : out[i].version \in Nat
  BY <1>1, LineType DEF Lines
<1>3. Newest'
  BY <1>1, <1>2 DEF OnceInv, Newest, Emitted
<1>4. ASSUME NEW f \in Files, NEW v \in Nat, NEW p \in Nat
      PROVE  /\ Count(f, v, p)' <= errors' + 1
             /\ f = file' /\ v = version' /\ Start' < p => Count(f, v, p)' <= errors'
             /\ f = path' /\ f # file' => Count(f, v, p)' <= errors'
  <2>1. Count(f, v, p)' = Count(f, v, p)
    BY CountStays
  <2>2. f = file' /\ v = version' => Count(f, v, p) = 0
    <3> SUFFICES ASSUME f = file, v = version' PROVE Count(f, v, p) = 0
      OBVIOUS
    <3>1. \A i \in Emitted : ~ (out[i].file = f /\ out[i].version = v)
      BY <1>1, <1>2 DEF OnceInv, Newest
    <3> QED BY <3>1, CountNone
  <2> QED BY <1>1, <2>1, <2>2 DEF OnceInv, Repeats
<1> QED BY <1>3, <1>4 DEF Repeats

(* A line of what is in hand.                                              *)
LEMMA OnceEmit ==
  ASSUME OnceInv, file # NoFile, NEW text \in Seq(Bytes), NEW next \in Nat, Emit(text, Start, next),
         Start <= next, UNCHANGED <<version, errors, path>>,
         file' = file, Start' = next
  PROVE  Repeats' /\ Newest'
<1>1. Core /\ Start \in Nat /\ errors \in Nat /\ version \in Nat
  BY HeldType DEF OnceInv, WholeInv, TailInv, Core, TypeOK
<1>2. \A i \in Emitted' : out'[i].file \in Files /\ (out'[i].file = file => out'[i].version <= version)
  <2>1. /\ Emitted = 1 .. Len(out) /\ Emitted' = 1 .. Len(out) + 1 /\ Len(out) \in Nat
        /\ out'[Len(out) + 1] = [file |-> file, version |-> version, off |-> Start, text |-> text, next |-> next]
        /\ \A i \in Emitted : out'[i] = out[i]
    BY <1>1, EmitType DEF Emitted
  <2>2. \A i \in Emitted : out[i].file \in Files /\ (out[i].file = file => out[i].version <= version)
    BY <1>1, LineType DEF OnceInv, Newest
  <2>3. file \in Files
    BY <1>1 DEF Core, TypeOK
  <2>4. \A i \in Emitted' : i \in Emitted \/ i = Len(out) + 1
    BY <2>1
  <2>5. out'[Len(out) + 1].file = file /\ out'[Len(out) + 1].version = version
    BY <2>1
  <2> QED BY <1>1, <2>1, <2>2, <2>3, <2>4, <2>5
<1>3. Newest'
  BY <1>2, NoFileAssumption DEF Newest
<1>4. ASSUME NEW f \in Files, NEW v \in Nat, NEW p \in Nat
      PROVE  /\ Count(f, v, p)' <= errors' + 1
             /\ f = file' /\ v = version' /\ Start' < p => Count(f, v, p)' <= errors'
             /\ f = path' /\ f # file' => Count(f, v, p)' <= errors'
  <2>1. /\ Count(f, v, p)' <= Count(f, v, p) + 1
        /\ ~ (f = file /\ v = version /\ Start < p /\ p <= next) => Count(f, v, p)' = Count(f, v, p)
    BY <1>1, CountEmit
  <2>2. Count(f, v, p) \in Nat /\ Count(f, v, p)' \in Int
    <3>1. Count(f, v, p) \in Nat
      BY <1>1, CountType
    <3>2. out' \in Seq(Lines) /\ Len(out') \in Nat /\ Emitted' = 1 .. Len(out')
      BY <1>1, EmitType, LenProperties DEF Emitted
    <3>3. IsFiniteSet(Copies(f, v, p)')
      <4>1. IsFiniteSet(Emitted')
        BY <3>2, FS_Interval
      <4>2. Copies(f, v, p)' \subseteq Emitted'
        BY DEF Copies
      <4> QED BY <4>1, <4>2, FS_Subset
    <3>4. Count(f, v, p)' \in Nat
      BY <3>3, FS_CardinalityType DEF Count
    <3> QED BY <3>1, <3>4
  <2>3. /\ Count(f, v, p) <= errors + 1
        /\ f = file /\ v = version /\ Start < p => Count(f, v, p) <= errors
        /\ f = path /\ f # file => Count(f, v, p) <= errors
    BY DEF OnceInv, Repeats
  <2>4. Count(f, v, p)' <= errors' + 1
    BY <1>1, <2>1, <2>2, <2>3
  <2>5. f = file' /\ v = version' /\ Start' < p => Count(f, v, p)' <= errors'
    <3> SUFFICES ASSUME f = file', v = version', Start' < p PROVE Count(f, v, p)' <= errors'
      OBVIOUS
    <3>1. f = file /\ Start' = next
      OBVIOUS
    <3>2. ~ (p <= next) /\ Start < p
      BY <1>1, <3>1
    <3> QED BY <2>1, <2>3, <3>1, <3>2
  <2>6. f = path' /\ f # file' => Count(f, v, p)' <= errors'
    <3> SUFFICES ASSUME f = path, f # file' PROVE Count(f, v, p)' <= errors'
      OBVIOUS
    <3>1. f # file
      OBVIOUS
    <3> QED BY <2>1, <2>3, <3>1
  <2> QED BY <2>4, <2>5, <2>6
<1> QED BY <1>3, <1>4 DEF Repeats

(* The steps of the tailer.                                                *)
LEMMA OnceOpen ==
  ASSUME OnceInv, Open, UNCHANGED <<fileVars, envVars>>
  PROVE  Repeats' /\ Newest'
<1>1. /\ Core /\ file = NoFile /\ path \in Files /\ path # NoFile
      /\ file' = path /\ version' = Version(path)
      /\ UNCHANGED <<versions, path, out, errors>>
  BY DEF OnceInv, WholeInv, TailInv, Core, TypeOK, FilesTypeOK, Open, fileVars, envVars
<1>2. Newest'
  <2> SUFFICES ASSUME NEW i \in Emitted, out[i].file = path
               PROVE  out[i].version <= Version(path)
    BY <1>1 DEF Newest, Emitted
  <2>1. out[i].version \in DOMAIN versions[path]
    BY DEF OnceInv, WholeInv, WholeLines, WholeLine
  <2>2. versions[path] \in Seq(Seq(Kinds))
    BY <1>1 DEF Core, TypeOK, FilesTypeOK
  <2> QED BY <2>1, <2>2, LenProperties DEF Version
<1>3. ASSUME NEW f \in Files, NEW v \in Nat, NEW p \in Nat
      PROVE  /\ Count(f, v, p)' <= errors' + 1
             /\ f = file' /\ v = version' /\ Start' < p => Count(f, v, p)' <= errors'
             /\ f = path' /\ f # file' => Count(f, v, p)' <= errors'
  <2>1. Count(f, v, p)' = Count(f, v, p)
    BY <1>1, CountStays
  <2> QED BY <1>1, <2>1 DEF OnceInv, Repeats
<1> QED BY <1>2, <1>3 DEF Repeats

LEMMA OnceStatPath ==
  ASSUME OnceInv, StatPath, UNCHANGED <<fileVars, envVars>>
  PROVE  Repeats' /\ Newest'
<1>1. /\ Core /\ file \in Files /\ file # NoFile /\ versions[file] # <<>> /\ FilesTypeOK /\ offset \in Nat
      /\ pc = "poll" /\ pc' = "read" /\ version \in Nat /\ Start \in Nat
      /\ UNCHANGED <<path, file, out, errors>>
  <2>1. Core /\ Start \in Nat
    BY HeldType DEF OnceInv, WholeInv, TailInv
  <2> QED BY <2>1 DEF Core, TypeOK, StatPath, fileVars, envVars, readerVars
<1>2. CASE Size(file) < offset /\ version' = Version(file)
  <2>1. version \in DOMAIN versions[file] /\ offset <= Len(versions[file][version])
    BY <1>1 DEF OnceInv, WholeInv, HeldTrue
  <2>2. Version(file) \in Nat /\ Size(file) \in Nat /\ DOMAIN versions[file] = 1 .. Version(file)
    BY <1>1, ContentType, LenProperties DEF FilesTypeOK, Version
  <2>3. version # Version(file)
    <3> SUFFICES ASSUME version = Version(file) PROVE FALSE
      OBVIOUS
    <3>1. offset <= Size(file)
      BY <2>1 DEF Size, Content
    <3> QED BY <1>1, <1>2, <2>2, <3>1
  <2>4. version' \in Nat /\ version < version'
    BY <1>1, <1>2, <2>1, <2>2, <2>3
  <2> QED BY <1>1, <2>4, OnceNewer
<1>3. CASE UNCHANGED <<readerVars, version>>
  <2>1. Start' = Start
    BY <1>1, <1>3 DEF Start, readerVars
  <2> QED BY <1>1, <1>3, <2>1, OnceQuiet
<1> QED BY <1>2, <1>3 DEF StatPath

LEMMA OnceRead ==
  ASSUME OnceInv, Read, UNCHANGED <<fileVars, envVars>>
  PROVE  Repeats' /\ Newest'
<1>1. /\ Core /\ InHand /\ file \in Files /\ file # NoFile /\ versions[file] # <<>> /\ FilesTypeOK
      /\ pc = "read" /\ version \in Nat /\ offset \in Nat /\ pendingStart \in Nat /\ skipFirst \in BOOLEAN
      /\ version' = IF offset = 0 THEN Version(file) ELSE version
      /\ UNCHANGED <<path, file, pending, pendingStart, out, errors>>
  BY DEF OnceInv, WholeInv, TailInv, Core, TypeOK, Read, fileVars, envVars
<1>2. version' \in Nat /\ version <= version'
  <2>1. version \in DOMAIN versions[file]
    BY <1>1 DEF OnceInv, WholeInv, HeldTrue
  <2>2. Version(file) \in Nat /\ DOMAIN versions[file] = 1 .. Version(file)
    BY <1>1, ContentType, LenProperties DEF FilesTypeOK, Version
  <2> QED BY <1>1, <2>1, <2>2
<1>3. CASE version < version'
  BY <1>1, <1>2, <1>3, OnceNewer
<1>4. CASE version' = version
  <2>1. PICK n \in Nat \ {0} :
          /\ offset' = offset + n
          /\ \/ skipFirst /\ skipFirst' /\ UNCHANGED <<splitVars, pc>>
             \/ \E i \in 0 .. n, rest \in Seq(Bytes) : Consume(rest, offset + i)
    BY <1>1, ReadSteps
  <2>2. Start = IF pending = <<>> THEN offset ELSE pendingStart
    BY <1>1 DEF Start
  <2>3. CASE skipFirst /\ skipFirst' /\ UNCHANGED <<splitVars, pc>>
    <3>1. pending = <<>> /\ pc' = "read"
      BY <1>1, <2>3 DEF InHand
    <3>2. Start' = offset + n
      BY <1>1, <2>1, <3>1 DEF Start
    <3>3. Start' \in Nat /\ Start <= Start'
      BY <1>1, <2>2, <3>1, <3>2
    <3> QED BY <1>1, <1>4, <3>3, OnceQuiet
  <2>4. CASE \E i \in 0 .. n, rest \in Seq(Bytes) : Consume(rest, offset + i)
    <3>1. PICK i \in 0 .. n : cur' = (IF pending = <<>> THEN offset + i ELSE pendingStart) /\ pc' = "split"
      BY <2>4 DEF Consume
    <3>2. Start' = cur'
      BY <3>1 DEF Start
    <3>3. Start' \in Nat /\ Start <= Start'
      BY <1>1, <2>2, <3>1, <3>2
    <3> QED BY <1>1, <1>4, <3>3, OnceQuiet
  <2> QED BY <2>1, <2>3, <2>4
<1> QED BY <1>1, <1>2, <1>3, <1>4

LEMMA OnceSplit ==
  ASSUME OnceInv, EmitLine \/ EmitPiece \/ KeepRest, UNCHANGED <<fileVars, envVars>>
  PROVE  Repeats' /\ Newest'
<1>1. /\ Core /\ InHand /\ file # NoFile /\ pc = "split" /\ buf \in Seq(Bytes) /\ cur \in Nat /\ Len(buf) \in Nat
      /\ Start = cur /\ UNCHANGED <<path, file, version, errors>>
  BY LenProperties DEF OnceInv, WholeInv, TailInv, Core, TypeOK, Start, EmitLine, EmitPiece, KeepRest,
                       fileVars, envVars, readerVars, lineVars
<1>2. CASE EmitLine \/ EmitPiece
  <2>1. PICK i \in 1 .. Len(buf), n \in 0 .. MaxLineBytes :
          n <= i /\ Emit(SubSeq(buf, 1, n), cur, cur + i) /\ cur' = cur + i
    BY <1>1, <1>2, EmitSteps
  <2>2. SubSeq(buf, 1, n) \in Seq(Bytes)
    <3>1. n \in 0 .. Len(buf)
      BY <1>1, <2>1, TailAssumption
    <3> QED BY <1>1, <3>1, StartOf
  <2>3. Start' = cur + i
    <3>1. pc' = "split"
      BY <1>1, <1>2 DEF EmitLine, EmitPiece, stepVars
    <3> QED BY <2>1, <3>1 DEF Start
  <2>4. cur + i \in Nat /\ cur <= cur + i
    BY <1>1, <2>1
  <2> QED BY <1>1, <2>1, <2>2, <2>3, <2>4, OnceEmit
<1>3. CASE KeepRest
  <2>1. /\ pending' = buf /\ pendingStart' = cur /\ pc' = "read" /\ UNCHANGED <<offset, out>>
        /\ cur + Len(buf) = offset
    BY <1>1, <1>3 DEF KeepRest, lineVars, InHand
  <2>2. buf = <<>> => Len(buf) = 0
    BY EmptySeq
  <2>3. Start' = Start
    BY <1>1, <2>1, <2>2 DEF Start
  <2> QED BY <1>1, <2>1, <2>3, OnceQuiet
<1> QED BY <1>2, <1>3

LEMMA OnceReadEnds ==
  ASSUME OnceInv, ReadEnds, UNCHANGED <<fileVars, envVars>>
  PROVE  Repeats' /\ Newest'
<1>1. /\ pc = "read" /\ pc' \in {"flush", "poll"} /\ Start \in Nat
      /\ UNCHANGED <<path, file, version, errors, offset, pending, pendingStart, out>>
  BY HeldType DEF OnceInv, WholeInv, TailInv, ReadEnds, fileVars, envVars, readerVars, lineVars
<1>2. Start' = Start
  BY <1>1 DEF Start
<1> QED BY <1>1, <1>2, OnceQuiet

LEMMA OnceFlushPending ==
  ASSUME OnceInv, FlushPending, UNCHANGED <<fileVars, envVars>>
  PROVE  Repeats' /\ Newest'
<1>1. /\ Core /\ InHand /\ file # NoFile /\ pc = "flush" /\ pc' = "close" /\ pending' = <<>>
      /\ pending \in Seq(Bytes) /\ Len(pending) \in Nat /\ Start \in Nat /\ offset \in Nat
      /\ UNCHANGED <<path, file, version, errors, offset, pendingStart>>
  BY LenProperties, HeldType DEF OnceInv, WholeInv, TailInv, Core, TypeOK, FlushPending, fileVars, envVars
<1>2. Start' = offset
  BY <1>1 DEF Start
<1>3. CASE pending = <<>>
  <2>1. UNCHANGED out /\ Start = offset
    BY <1>1, <1>3 DEF FlushPending, Start
  <2> QED BY <1>1, <1>2, <2>1, OnceQuiet
<1>4. CASE pending # <<>>
  <2> DEFINE n == TextLength(pending, Len(pending))
  <2>1. Emit(SubSeq(pending, 1, n), pendingStart, pendingStart + Len(pending)) /\ Start = pendingStart
    BY <1>1, <1>4 DEF FlushPending, Start
  <2>2. n \in 0 .. Len(pending)
    BY <1>1 DEF TextLength
  <2> HIDE DEF n
  <2>3. SubSeq(pending, 1, n) \in Seq(Bytes)
    BY <1>1, <2>2, StartOf
  <2>4. /\ Start + Len(pending) \in Nat /\ Start <= Start + Len(pending)
        /\ Start' = Start + Len(pending)
    BY <1>1, <1>2, <1>4, <2>1 DEF InHand
  <2> QED BY <1>1, <2>1, <2>3, <2>4, OnceEmit
<1> QED BY <1>3, <1>4

LEMMA OnceCloseFile ==
  ASSUME OnceInv, CloseFile, UNCHANGED <<fileVars, envVars>>
  PROVE  Repeats' /\ Newest'
<1>1. /\ Core /\ path # file /\ file' = NoFile /\ UNCHANGED <<path, version, errors, out>>
  BY DEF OnceInv, WholeInv, TailInv, Closing, DrainsOldFile, CloseFile, fileVars, envVars, lineVars
<1>2. Newest'
  <2>1. \A i \in Emitted : out[i].file \in Files
    BY <1>1, LineType
  <2> QED BY <1>1, <2>1, NoFileAssumption DEF Newest, Emitted
<1>3. ASSUME NEW f \in Files, NEW v \in Nat, NEW p \in Nat
      PROVE  /\ Count(f, v, p)' <= errors' + 1
             /\ f = file' /\ v = version' /\ Start' < p => Count(f, v, p)' <= errors'
             /\ f = path' /\ f # file' => Count(f, v, p)' <= errors'
  <2>1. Count(f, v, p)' = Count(f, v, p)
    BY <1>1, CountStays
  <2> QED BY <1>1, <2>1, NoFileAssumption DEF OnceInv, Repeats
<1> QED BY <1>2, <1>3 DEF Repeats

(* A failed call leaves room for one more copy of everything.              *)
LEMMA OnceCallFails ==
  ASSUME OnceInv, CallFails
  PROVE  Repeats' /\ Newest'
<1>1. Core /\ errors \in Nat /\ errors' = errors + 1 /\ file' = NoFile /\ UNCHANGED out
  BY DEF OnceInv, WholeInv, TailInv, Core, TypeOK, CallFails, lineVars
<1>2. Newest'
  <2>1. \A i \in Emitted : out[i].file \in Files
    BY <1>1, LineType
  <2> QED BY <1>1, <2>1, NoFileAssumption DEF Newest, Emitted
<1>3. ASSUME NEW f \in Files, NEW v \in Nat, NEW p \in Nat
      PROVE  /\ Count(f, v, p)' <= errors' + 1
             /\ f = file' /\ v = version' /\ Start' < p => Count(f, v, p)' <= errors'
             /\ f = path' /\ f # file' => Count(f, v, p)' <= errors'
  <2>1. Count(f, v, p)' = Count(f, v, p) /\ Count(f, v, p) \in Nat
    BY <1>1, CountStays, CountType
  <2>2. Count(f, v, p) <= errors + 1
    BY DEF OnceInv, Repeats
  <2> QED BY <1>1, <2>1, <2>2
<1> QED BY <1>2, <1>3 DEF Repeats

(* A file that comes to the path is new.                                   *)
LEMMA OnceEnvironment ==
  ASSUME OnceInv, Environment \/ UNCHANGED vars
  PROVE  Repeats' /\ Newest'
<1>1. /\ Core /\ TypeOK /\ Start \in Nat /\ errors \in Nat
      /\ path' = path \/ (\A f \in Files : path' = f => versions[f] = <<>>)
      /\ UNCHANGED <<file, offset, pending, pendingStart, cur, pc, out, version, errors>>
  <2>1. Core /\ TypeOK /\ Start \in Nat /\ errors \in Nat
    BY HeldType DEF OnceInv, WholeInv, TailInv, Core, TypeOK
  <2>2. path' = path \/ (\A f \in Files : path' = f => versions[f] = <<>>)
    BY NoFileAssumption DEF Environment, WriterWrites, Write, Rotation, MoveAway, Recreate, Reopen, CopyTruncate,
       Truncate, vars, fileVars
  <2>3. UNCHANGED <<tailerVars, errors>>
    BY DEF Environment, WriterWrites, Rotation, CopyTruncate, vars, envVars
  <2> QED BY <2>1, <2>2, <2>3 DEF tailerVars, readerVars, splitVars, stepVars, lineVars
<1>2. Start' = Start
  BY <1>1 DEF Start
<1>3. CASE path' = path
  BY <1>1, <1>2, <1>3, OnceQuiet
<1>4. CASE \A f \in Files : path' = f => versions[f] = <<>>
  <2>1. Newest'
    BY <1>1 DEF OnceInv, Newest, Emitted
  <2>2. ASSUME NEW f \in Files, NEW v \in Nat, NEW p \in Nat
        PROVE  /\ Count(f, v, p)' <= errors' + 1
               /\ f = file' /\ v = version' /\ Start' < p => Count(f, v, p)' <= errors'
               /\ f = path' /\ f # file' => Count(f, v, p)' <= errors'
    <3>1. Count(f, v, p)' = Count(f, v, p)
      BY <1>1, CountStays
    <3>2. f = path' => Count(f, v, p) = 0
      <4> SUFFICES ASSUME f = path' PROVE Count(f, v, p) = 0
        OBVIOUS
      <4>1. DOMAIN versions[f] = {}
        BY <1>4
      <4>2. \A i \in Emitted : out[i].version \in DOMAIN versions[out[i].file]
        BY DEF OnceInv, WholeInv, WholeLines, WholeLine
      <4> QED BY <4>1, <4>2, CountNone
    <3> QED BY <1>1, <1>2, <3>1, <3>2 DEF OnceInv, Repeats
  <2> QED BY <2>1, <2>2 DEF Repeats
<1> QED BY <1>1, <1>3, <1>4

LEMMA OnceInit == Init => Repeats /\ Newest
<1> SUFFICES ASSUME Init PROVE Repeats /\ Newest
  OBVIOUS
<1>1. out = <<>> /\ DOMAIN out = {} /\ errors = 0
  BY DEF Init
<1>2. Newest
  BY <1>1 DEF Newest, Emitted
<1>3. \A f \in Files, v \in Nat, p \in Nat : Count(f, v, p) = 0
  BY <1>1, CountNone DEF Emitted
<1> QED BY <1>1, <1>2, <1>3 DEF Repeats

LEMMA OnceNext == OnceInv /\ [Next]_vars => OnceInv'
<1> SUFFICES ASSUME OnceInv, [Next]_vars PROVE OnceInv'
  OBVIOUS
<1>1. WholeInv'
  BY WholeNext DEF OnceInv
<1>2. CASE Tailer
  <2>1. UNCHANGED <<fileVars, envVars>>
    BY <1>2 DEF Tailer
  <2> QED BY <1>1, <1>2, <2>1, OnceOpen, OnceStatPath, OnceRead, OnceSplit, OnceReadEnds, OnceFlushPending, OnceCloseFile
          DEF Tailer, OnceInv
<1>3. CASE CallFails
  BY <1>1, <1>3, OnceCallFails DEF OnceInv
<1>4. CASE Environment \/ UNCHANGED vars
  BY <1>1, <1>4, OnceEnvironment DEF OnceInv
<1> QED BY <1>2, <1>3, <1>4 DEF Next, Environment

(* Every byte is emitted at most once, and once more for each call that    *)
(* failed: whatever is written, rotated or truncated, only the reopening   *)
(* after an error goes back over what was read (Run, poll, open).          *)
THEOREM OncePerPass == Spec => []RepeatedOnlyByErrors
<1>1. Init => OnceInv
  BY WholeInit, OnceInit DEF OnceInv
<1>2. OnceInv => RepeatedOnlyByErrors
  <2> SUFFICES ASSUME OnceInv, NEW i \in Emitted, NEW p \in (out[i].off + 1) .. out[i].next
               PROVE  Cardinality(Copies(out[i].file, out[i].version, p)) <= errors + 1
    BY DEF RepeatedOnlyByErrors
  <2>1. out[i].file \in Files /\ out[i].version \in Nat /\ p \in Nat
    <3>1. Core
      BY DEF OnceInv, WholeInv, TailInv
    <3>2. out[i] \in Lines /\ out[i].off \in Nat /\ out[i].next \in Nat /\ out[i].file \in Files
      BY <3>1, LineType
    <3>3. out[i].version \in Nat
      BY <3>2 DEF Lines
    <3> QED BY <3>2, <3>3
  <2> QED BY <2>1 DEF OnceInv, Repeats, Count
<1> QED BY <1>1, <1>2, OnceNext, PTL DEF Spec
-----------------------------------------------------------------------------
(* Files in turn: a fourth invariant, and the refinement of LineFeed.      *)

LastLine == out[Len(out)]

Restarted == {i \in Emitted : i > 1 /\ out[i].off = 0 /\ SameFile(i, i - 1)}

Restarts == Cardinality(Restarted)

NoneOf(f) == \A i \in Emitted : out[i].file # f

Fresh == \A i \in Emitted : ~ Here(i)

(* The last line is from the latest version; a file at the path that lines *)
(* are from was read last, and is opened again only if a call failed.      *)
LastIsLatest ==
  out # <<>> =>
    /\ \A i \in Emitted : out[i].file = LastLine.file => out[i].version <= LastLine.version
    /\ NoneOf(path) \/ (LastLine.file = path /\ (file = NoFile => Restarts < errors))

(* The open file is the one of the last line or a new one, and is read on, *)
(* for the first time, or once more after an error.                        *)
InTurn ==
  out # <<>> /\ file # NoFile =>
    /\ file # path => NoneOf(path)
    /\ NoneOf(file) \/ LastLine.file = file
    /\ \/ Fresh /\ Start = 0
       \/ Here(Len(out)) /\ LastLine.next = Start
       \/ Here(Len(out)) /\ Start = 0 /\ Restarts < errors

Turns == Restarts <= errors /\ LastIsLatest /\ InTurn

TurnInv == OnceInv /\ Turns

LEMMA RestartsType ==
  ASSUME Core
  PROVE  IsFiniteSet(Restarted) /\ Restarts \in Nat
<1>1. Emitted = 1 .. Len(out) /\ Len(out) \in Nat
  BY HeldType
<1>2. IsFiniteSet(Emitted)
  BY <1>1, FS_Interval
<1>3. Restarted \subseteq Emitted
  BY DEF Restarted
<1> QED BY <1>2, <1>3, FS_Subset, FS_CardinalityType DEF Restarts

(* Steps that emit nothing and change nothing that matters here.           *)
LEMMA TurnQuiet ==
  ASSUME Turns, UNCHANGED <<out, file, version, errors, path>>, Start' = Start
  PROVE  Turns'
<1>1. Restarts' = Restarts /\ LastLine' = LastLine /\ (NoneOf(path)' <=> NoneOf(path))
      /\ (NoneOf(file)' <=> NoneOf(file)) /\ (Fresh' <=> Fresh) /\ (Here(Len(out))' <=> Here(Len(out)))
  BY DEF Restarts, Restarted, Emitted, SameFile, LastLine, NoneOf, Fresh, Here
<1>2. LastIsLatest'
  BY <1>1 DEF Turns, LastIsLatest, Emitted
<1>3. InTurn'
  BY <1>1 DEF Turns, InTurn
<1> QED BY <1>1, <1>2, <1>3 DEF Turns

(* Steps that begin to read a newer version.                               *)
LEMMA TurnNewer ==
  ASSUME OnceInv, Turns, UNCHANGED <<out, file, errors, path>>, file # NoFile,
         version' \in Nat, version < version', Start' = 0
  PROVE  Turns'
<1>1. Restarts' = Restarts /\ LastLine' = LastLine /\ (NoneOf(path)' <=> NoneOf(path))
      /\ (NoneOf(file)' <=> NoneOf(file))
  BY DEF Restarts, Restarted, Emitted, SameFile, LastLine, NoneOf
<1>2. LastIsLatest'
  BY <1>1 DEF Turns, LastIsLatest, Emitted
<1>3. Fresh'
  <2>1. Core /\ version \in Nat
    BY DEF OnceInv, WholeInv, TailInv, Core, TypeOK
  <2>2. \A i \in Emitted : out[i].version \in Nat
    BY <2>1, LineType DEF Lines
  <2> QED BY <2>1, <2>2 DEF OnceInv, Newest, Fresh, Here, Emitted
<1>4. InTurn'
  BY <1>1, <1>3 DEF Turns, InTurn
<1> QED BY <1>1, <1>2, <1>4 DEF Turns
(* A line that is emitted restarts its version only where InTurn allows it.*)
LEMMA RestartsEmit ==
  ASSUME OnceInv, Turns, file # NoFile, NEW text \in Seq(Bytes), NEW next \in Nat, Emit(text, Start, next)
  PROVE  /\ Restarts' <= Restarts + 1
         /\ ~ (out # <<>> /\ Here(Len(out)) /\ Start = 0 /\ Restarts < errors) => Restarts' = Restarts
         /\ Restarts' \in Nat
<1> DEFINE last == Len(out) + 1
           line == [file |-> file, version |-> version, off |-> Start, text |-> text, next |-> next]
<1>1. /\ Core /\ Start \in Nat /\ out \in Seq(Lines)
      /\ Emitted = 1 .. Len(out) /\ Emitted' = 1 .. last /\ Len(out) \in Nat
      /\ out'[last] = line /\ \A i \in Emitted : out'[i] = out[i]
  <2>1. Core /\ Start \in Nat
    BY HeldType DEF OnceInv, WholeInv, TailInv
  <2> QED BY <2>1, EmitType DEF Emitted, Core
<1>2. line.file = file /\ line.version = version /\ line.off = Start /\ line.next = next
  OBVIOUS
<1> HIDE DEF line
<1>3. IsFiniteSet(Restarted) /\ Restarts \in Nat
  BY <1>1, RestartsType
<1>4. \A i : i \in Emitted' <=> (i \in Emitted \/ i = last)
  BY <1>1
<1>5. \A i \in Emitted : i > 1 => i - 1 \in Emitted
  BY <1>1
<1>6. \A i \in Emitted : i \in Restarted' <=> i \in Restarted
  BY <1>1, <1>4, <1>5 DEF Restarted, SameFile
<1>7. last \notin Restarted
  BY <1>1 DEF Restarted
<1>8. CASE last \in Restarted'
  <2>1. last - 1 = Len(out) /\ Len(out) \in Emitted /\ out # <<>>
    <3>1. last > 1
      BY <1>8 DEF Restarted
    <3> QED BY <1>1, <3>1, EmptySeq
  <2>2. Here(Len(out)) /\ Start = 0
    BY <1>1, <1>2, <1>8, <2>1 DEF Restarted, SameFile, Here
  <2>3. LastLine.next # 0
    <3>1. WholeLine(Len(out))
      BY <2>1 DEF OnceInv, WholeInv, WholeLines
    <3>2. LastLine.next \in 1 .. Len(versions[LastLine.file][LastLine.version])
      BY <3>1 DEF WholeLine, LastLine
    <3> QED BY <3>2
  <2>4. ~ Fresh
    BY <2>1, <2>2 DEF Fresh
  <2>5. Restarts < errors
    BY <2>1, <2>2, <2>3, <2>4 DEF Turns, InTurn
  <2>6. Restarted' = Restarted \cup {last}
    BY <1>4, <1>6, <1>7, <1>8 DEF Restarted
  <2>7. Cardinality(Restarted \cup {last}) = Cardinality(Restarted) + 1
    BY <1>3, <1>7, FS_AddElement
  <2>8. Restarts' = Restarts + 1
    BY <2>6, <2>7 DEF Restarts
  <2> QED BY <1>3, <2>1, <2>2, <2>5, <2>8
<1>9. CASE last \notin Restarted'
  <2>1. Restarted' = Restarted
    BY <1>4, <1>6, <1>7, <1>9 DEF Restarted
  <2>2. Restarts' = Restarts
    BY <2>1 DEF Restarts
  <2> QED BY <1>3, <2>2
<1> QED BY <1>8, <1>9

LEMMA TurnEmit ==
  ASSUME OnceInv, Turns, file # NoFile, NEW text \in Seq(Bytes), NEW next \in Nat, Emit(text, Start, next),
         UNCHANGED <<version, errors, path>>,
         file' = file, Start' = next
  PROVE  Turns'
<1> DEFINE last == Len(out) + 1
           line == [file |-> file, version |-> version, off |-> Start, text |-> text, next |-> next]
<1>1. /\ Core /\ Start \in Nat /\ errors \in Nat /\ version \in Nat /\ file \in Files
      /\ Emitted = 1 .. Len(out) /\ Emitted' = 1 .. last /\ Len(out) \in Nat /\ Len(out') = last
      /\ out'[last] = line /\ \A i \in Emitted : out'[i] = out[i]
  <2>1. Core /\ Start \in Nat
    BY HeldType DEF OnceInv, WholeInv, TailInv
  <2>2. errors \in Nat /\ version \in Nat /\ file \in Files
    BY <2>1 DEF Core, TypeOK
  <2> QED BY <2>1, <2>2, EmitType DEF Emitted
<1>2. line.file = file /\ line.version = version /\ line.off = Start /\ line.next = next
  OBVIOUS
<1> HIDE DEF line
<1>3. \A i \in Emitted' : i \in Emitted \/ i = last
  BY <1>1
<1>4. LastLine' = line
  BY <1>1 DEF LastLine
<1>5. Restarts' <= errors'
  <2>1. Restarts \in Nat
    BY <1>1, RestartsType
  <2> QED BY <1>1, <2>1, RestartsEmit DEF Turns
<1>6. path # file => NoneOf(path)
  <2>1. CASE out = <<>>
    BY <1>1, <2>1, EmptySeq DEF NoneOf
  <2>2. CASE out # <<>>
    BY <2>2 DEF Turns, InTurn
  <2> QED BY <2>1, <2>2
<1>7. path # file => NoneOf(path)'
  BY <1>1, <1>2, <1>3, <1>6 DEF NoneOf
<1>8. LastIsLatest'
  <2>1. \A i \in Emitted' : out'[i].file = line.file => out'[i].version <= line.version
    BY <1>1, <1>2, <1>3 DEF OnceInv, Newest
  <2>2. path = file => file' # NoFile
    BY <1>1, NoFileAssumption
  <2> QED BY <1>2, <1>4, <1>7, <2>1, <2>2 DEF LastIsLatest
<1>9. ASSUME file' # NoFile
      PROVE  /\ file' # path' => NoneOf(path)'
             /\ LastLine'.file = file'
             /\ Here(Len(out))' /\ LastLine'.next = Start'
  <2>1. Here(Len(out))'
    BY <1>1, <1>2 DEF Here
  <2> QED BY <1>2, <1>4, <1>7, <2>1
<1>10. InTurn'
  BY <1>9 DEF InTurn
<1> QED BY <1>5, <1>8, <1>10 DEF Turns

(* The steps of the tailer.                                                *)
LEMMA TurnOpen ==
  ASSUME OnceInv, Turns, Open, UNCHANGED <<fileVars, envVars>>
  PROVE  Turns'
<1>1. /\ Core /\ file = NoFile /\ path \in Files /\ path # NoFile /\ versions[path] # <<>>
      /\ file' = path /\ version' = Version(path)
      /\ pc = "poll" /\ pc' = "poll" /\ pending' = <<>>
      /\ UNCHANGED <<versions, path, out, errors>>
  BY DEF OnceInv, WholeInv, TailInv, Core, TypeOK, FilesTypeOK, Open, fileVars, envVars, stepVars
<1>2. Restarts' = Restarts /\ LastLine' = LastLine /\ (NoneOf(path)' <=> NoneOf(path))
  BY <1>1 DEF Restarts, Restarted, Emitted, SameFile, LastLine, NoneOf
<1>3. LastIsLatest'
  BY <1>1, <1>2 DEF Turns, LastIsLatest, Emitted
<1>4. ASSUME out # <<>>
      PROVE  /\ NoneOf(file)' \/ LastLine'.file = file'
             /\ \/ Fresh' /\ Start' = 0
                \/ Here(Len(out))' /\ Start' = 0 /\ Restarts' < errors'
  <2>1. openedOnce
    <3>1. openedOnce # FALSE
      BY <1>4 DEF OnceInv, WholeInv, TailInv, Continues
    <3> QED BY <1>1, <3>1 DEF Core, TypeOK
  <2>2. offset' = 0
    BY <2>1 DEF Open
  <2>3. Start' = 0
    BY <1>1, <2>2 DEF Start
  <2>4. NoneOf(path) \/ (LastLine.file = path /\ Restarts < errors)
    BY <1>1, <1>4 DEF Turns, LastIsLatest
  <2>5. CASE NoneOf(path)
    BY <1>1, <1>2, <2>3, <2>5 DEF NoneOf, Fresh, Here, Emitted
  <2>6. CASE LastLine.file = path /\ Restarts < errors
    <3>1. CASE Fresh'
      BY <1>1, <1>2, <2>3, <2>6, <3>1
    <3>2. CASE ~ Fresh'
      <4>1. PICK i \in Emitted : out[i].file = path /\ out[i].version = Version(path)
        BY <1>1, <3>2 DEF Fresh, Here, Emitted
      <4>2. /\ Emitted = 1 .. Len(out) /\ Len(out) \in Nat /\ Len(out) \in Emitted
        <5>1. Emitted = 1 .. Len(out) /\ Len(out) \in Nat /\ out \in Seq(Lines)
          BY <1>1, HeldType
        <5> QED BY <1>4, <5>1, EmptySeq
      <4>3. Version(path) <= LastLine.version
        BY <1>4, <2>6, <4>1 DEF Turns, LastIsLatest
      <4>4. LastLine.version \in Nat /\ LastLine.version <= Version(path) /\ Version(path) \in Nat
        <5>1. WholeLine(Len(out))
          BY <4>2 DEF OnceInv, WholeInv, WholeLines
        <5>2. LastLine.version \in DOMAIN versions[path]
          BY <2>6, <5>1 DEF WholeLine, LastLine
        <5>3. versions[path] \in Seq(Seq(Kinds))
          BY <1>1 DEF Core, TypeOK, FilesTypeOK
        <5> QED BY <5>2, <5>3, LenProperties DEF Version
      <4>5. LastLine.version = Version(path)
        BY <4>3, <4>4
      <4>6. Here(Len(out))'
        BY <1>1, <2>6, <4>5 DEF Here, LastLine
      <4> QED BY <1>1, <1>2, <2>3, <2>6, <4>6
    <3> QED BY <3>1, <3>2
  <2> QED BY <2>4, <2>5, <2>6
<1>5. InTurn'
  BY <1>1, <1>4 DEF InTurn
<1> QED BY <1>1, <1>2, <1>3, <1>5 DEF Turns
LEMMA TurnStatPath ==
  ASSUME OnceInv, Turns, StatPath, UNCHANGED <<fileVars, envVars>>
  PROVE  Turns'
<1>1. /\ Core /\ file \in Files /\ file # NoFile /\ versions[file] # <<>> /\ FilesTypeOK /\ offset \in Nat
      /\ pc = "poll" /\ pc' = "read" /\ version \in Nat
      /\ UNCHANGED <<path, file, out, errors>>
  BY DEF OnceInv, WholeInv, TailInv, Core, TypeOK, StatPath, fileVars, envVars, readerVars
<1>2. CASE Size(file) < offset /\ version' = Version(file) /\ offset' = 0 /\ pending' = <<>>
  <2>1. version \in DOMAIN versions[file] /\ offset <= Len(versions[file][version])
    BY <1>1 DEF OnceInv, WholeInv, HeldTrue
  <2>2. Version(file) \in Nat /\ Size(file) \in Nat /\ DOMAIN versions[file] = 1 .. Version(file)
    BY <1>1, ContentType, LenProperties DEF FilesTypeOK, Version
  <2>3. version # Version(file)
    <3> SUFFICES ASSUME version = Version(file) PROVE FALSE
      OBVIOUS
    <3>1. offset <= Size(file)
      BY <2>1 DEF Size, Content
    <3> QED BY <1>1, <1>2, <2>2, <3>1
  <2>4. version' \in Nat /\ version < version'
    BY <1>1, <1>2, <2>1, <2>2, <2>3
  <2>5. Start' = 0
    BY <1>1, <1>2 DEF Start
  <2> QED BY <1>1, <2>4, <2>5, TurnNewer
<1>3. CASE UNCHANGED <<readerVars, version>>
  <2>1. Start' = Start
    BY <1>1, <1>3 DEF Start, readerVars
  <2> QED BY <1>1, <1>3, <2>1, TurnQuiet
<1> QED BY <1>2, <1>3 DEF StatPath

LEMMA TurnRead ==
  ASSUME OnceInv, Turns, Read, UNCHANGED <<fileVars, envVars>>
  PROVE  Turns'
<1>1. /\ Core /\ InHand /\ file \in Files /\ file # NoFile /\ versions[file] # <<>> /\ FilesTypeOK
      /\ pc = "read" /\ version \in Nat /\ offset \in Nat /\ pendingStart \in Nat /\ skipFirst \in BOOLEAN
      /\ version' = IF offset = 0 THEN Version(file) ELSE version
      /\ UNCHANGED <<path, file, pending, pendingStart, out, errors>>
  BY DEF OnceInv, WholeInv, TailInv, Core, TypeOK, Read, fileVars, envVars
<1>2. version' \in Nat /\ version <= version'
  <2>1. version \in DOMAIN versions[file]
    BY <1>1 DEF OnceInv, WholeInv, HeldTrue
  <2>2. Version(file) \in Nat /\ DOMAIN versions[file] = 1 .. Version(file)
    BY <1>1, ContentType, LenProperties DEF FilesTypeOK, Version
  <2> QED BY <1>1, <2>1, <2>2
<1>3. CASE skipFirst = TRUE
  <2>1. out = <<>> /\ DOMAIN out = {}
    <3>1. out = <<>>
      BY <1>1, <1>3 DEF OnceInv, WholeInv, TailInv, Continues
    <3> QED BY <3>1
  <2>2. Restarts' = Restarts
    BY <1>1 DEF Restarts, Restarted, Emitted, SameFile
  <2>3. LastIsLatest' /\ InTurn'
    BY <1>1, <2>1 DEF LastIsLatest, InTurn
  <2> QED BY <1>1, <2>2, <2>3 DEF Turns
<1>4. CASE skipFirst = FALSE
  <2>1. cur' = (IF pending = <<>> THEN offset ELSE pendingStart) /\ pc' = "split"
    BY <1>4 DEF Read, Consume
  <2>2. Start' = Start
    BY <1>1, <2>1 DEF Start
  <2>3. CASE version' = version
    BY <1>1, <2>2, <2>3, TurnQuiet
  <2>4. CASE version < version'
    <3>1. offset = 0 /\ pending = <<>>
      BY <1>1, <2>4 DEF InHand
    <3>2. Start' = 0
      BY <2>1, <3>1 DEF Start
    <3> QED BY <1>1, <1>2, <2>4, <3>2, TurnNewer
  <2> QED BY <1>1, <1>2, <2>3, <2>4
<1> QED BY <1>1, <1>3, <1>4

(* What the tailer emits is what it has in hand, and never nothing.        *)
LEMMA EmitsOnward ==
  ASSUME OnceInv, EmitLine \/ EmitPiece \/ FlushPending, UNCHANGED <<fileVars, envVars>>
  PROVE  \/ UNCHANGED out
         \/ /\ file # NoFile /\ UNCHANGED <<path, version, errors>>
            /\ \E text \in Seq(Bytes), next \in Nat :
                 /\ Start < next /\ Emit(text, Start, next)
                 /\ file' = file /\ Start' = next
<1>1. /\ Core /\ file # NoFile /\ Start \in Nat /\ Len(buf) \in Nat /\ Len(pending) \in Nat
      /\ UNCHANGED <<path, version, errors>>
  <2>1. Core /\ Start \in Nat /\ Len(buf) \in Nat /\ Len(pending) \in Nat
    BY HeldType DEF OnceInv, WholeInv, TailInv
  <2>2. pc # "poll" /\ UNCHANGED <<path, version, errors>>
    BY DEF EmitLine, EmitPiece, FlushPending, fileVars, envVars
  <2> QED BY <2>1, <2>2 DEF Core
<1>2. CASE EmitLine \/ EmitPiece
  <2>1. /\ pc = "split" /\ pc' = "split" /\ buf \in Seq(Bytes) /\ cur \in Nat /\ Start = cur /\ file' = file
    BY <1>1, <1>2 DEF EmitLine, EmitPiece, stepVars, readerVars, Core, TypeOK, Start
  <2>2. PICK i \in 1 .. Len(buf), n \in 0 .. MaxLineBytes :
          n <= i /\ Emit(SubSeq(buf, 1, n), cur, cur + i) /\ cur' = cur + i
    BY <1>1, <1>2, EmitSteps
  <2>3. SubSeq(buf, 1, n) \in Seq(Bytes)
    <3>1. n \in 0 .. Len(buf)
      BY <1>1, <2>2, TailAssumption
    <3> QED BY <2>1, <3>1, StartOf
  <2>4. Start' = cur + i /\ cur + i \in Nat /\ cur < cur + i
    BY <1>1, <2>1, <2>2 DEF Start
  <2> QED BY <1>1, <2>1, <2>2, <2>3, <2>4
<1>3. CASE FlushPending /\ pending # <<>>
  <2> DEFINE n == TextLength(pending, Len(pending))
  <2>1. /\ Emit(SubSeq(pending, 1, n), pendingStart, pendingStart + Len(pending)) /\ Start = pendingStart
        /\ pc = "flush" /\ pc' = "close" /\ pending' = <<>> /\ file' = file /\ offset' = offset
    BY <1>3 DEF FlushPending, Start
  <2>2. n \in 0 .. Len(pending)
    BY <1>1 DEF TextLength
  <2> HIDE DEF n
  <2>3. pending \in Seq(Bytes) /\ Len(pending) > 0
    <3>1. pending \in Seq(Bytes)
      BY <1>1 DEF Core, TypeOK
    <3> QED BY <1>1, <1>3, <3>1, EmptySeq
  <2>4. SubSeq(pending, 1, n) \in Seq(Bytes)
    BY <2>2, <2>3, StartOf
  <2>5. Start + Len(pending) \in Nat /\ Start < Start + Len(pending)
    BY <1>1, <2>3
  <2>6. Start' = Start + Len(pending)
    <3>1. Start' = offset
      BY <2>1 DEF Start
    <3>2. pendingStart + Len(pending) = offset
      BY <1>3, <2>1 DEF OnceInv, WholeInv, TailInv, InHand
    <3> QED BY <2>1, <3>1, <3>2
  <2> QED BY <1>1, <2>1, <2>4, <2>5, <2>6
<1>4. CASE FlushPending /\ pending = <<>>
  BY <1>4 DEF FlushPending
<1> QED BY <1>2, <1>3, <1>4

LEMMA TurnSplit ==
  ASSUME OnceInv, Turns, EmitLine \/ EmitPiece \/ KeepRest, UNCHANGED <<fileVars, envVars>>
  PROVE  Turns'
<1>1. CASE EmitLine \/ EmitPiece
  <2>1. out' # out
    <3>1. Core /\ out \in Seq(Lines) /\ Len(out) \in Nat
      BY HeldType DEF OnceInv, WholeInv, TailInv
    <3>2. PICK i \in 1 .. Len(buf), n \in 0 .. MaxLineBytes : Emit(SubSeq(buf, 1, n), cur, cur + i)
      BY <1>1, <3>1, EmitSteps
    <3> QED BY <3>1, <3>2 DEF Emit
  <2> QED BY <1>1, <2>1, EmitsOnward, TurnEmit
<1>2. CASE KeepRest
  <2>1. /\ InHand /\ pc = "split" /\ buf \in Seq(Bytes) /\ Len(buf) \in Nat /\ cur \in Nat
        /\ UNCHANGED <<path, file, version, errors, out>>
    BY <1>2, LenProperties DEF OnceInv, WholeInv, TailInv, Core, TypeOK, KeepRest, fileVars, envVars, lineVars
  <2>2. /\ pending' = buf /\ pendingStart' = cur /\ pc' = "read" /\ UNCHANGED offset
        /\ cur + Len(buf) = offset
    BY <1>2, <2>1 DEF KeepRest, InHand
  <2>3. buf = <<>> => Len(buf) = 0
    BY EmptySeq
  <2>4. Start' = Start
    BY <2>1, <2>2, <2>3 DEF Start
  <2> QED BY <2>1, <2>4, TurnQuiet
<1> QED BY <1>1, <1>2

LEMMA TurnReadEnds ==
  ASSUME OnceInv, Turns, ReadEnds, UNCHANGED <<fileVars, envVars>>
  PROVE  Turns'
<1>1. /\ pc = "read" /\ pc' \in {"flush", "poll"}
      /\ UNCHANGED <<path, file, version, errors, offset, pending, pendingStart, out>>
  BY DEF ReadEnds, fileVars, envVars, readerVars, lineVars
<1>2. Start' = Start
  BY <1>1 DEF Start
<1> QED BY <1>1, <1>2, TurnQuiet

LEMMA TurnFlushPending ==
  ASSUME OnceInv, Turns, FlushPending, UNCHANGED <<fileVars, envVars>>
  PROVE  Turns'
<1>1. CASE out' # out
  BY <1>1, EmitsOnward, TurnEmit
<1>2. CASE out' = out
  <2>1. Core /\ out \in Seq(Lines) /\ Len(out) \in Nat
    BY HeldType DEF OnceInv, WholeInv, TailInv
  <2>2. pending = <<>>
    BY <1>2, <2>1 DEF FlushPending, Emit
  <2>3. /\ pc = "flush" /\ pc' = "close" /\ pending' = <<>>
        /\ UNCHANGED <<path, file, version, errors, offset>>
    BY DEF FlushPending, fileVars, envVars
  <2>4. Start' = Start
    BY <2>2, <2>3 DEF Start
  <2> QED BY <1>2, <2>3, <2>4, TurnQuiet
<1> QED BY <1>1, <1>2

LEMMA TurnCloseFile ==
  ASSUME OnceInv, Turns, CloseFile, UNCHANGED <<fileVars, envVars>>
  PROVE  Turns'
<1>1. /\ file # NoFile /\ path # file /\ file' = NoFile /\ UNCHANGED <<path, version, errors, out>>
  BY DEF OnceInv, WholeInv, Closing, DrainsOldFile, CloseFile, fileVars, envVars, lineVars
<1>2. Restarts' = Restarts /\ LastLine' = LastLine /\ (NoneOf(path)' <=> NoneOf(path))
  BY <1>1 DEF Restarts, Restarted, Emitted, SameFile, LastLine, NoneOf
<1>3. out # <<>> => NoneOf(path)
  BY <1>1 DEF Turns, InTurn
<1>4. LastIsLatest'
  BY <1>1, <1>2, <1>3 DEF Turns, LastIsLatest, Emitted
<1> QED BY <1>1, <1>2, <1>4 DEF Turns, InTurn

LEMMA TurnCallFails ==
  ASSUME OnceInv, Turns, CallFails
  PROVE  Turns'
<1>1. Core /\ errors \in Nat /\ errors' = errors + 1 /\ file # NoFile /\ file' = NoFile
      /\ UNCHANGED <<out, path>>
  BY DEF OnceInv, WholeInv, TailInv, Core, TypeOK, CallFails, lineVars, fileVars
<1>2. Restarts' = Restarts /\ LastLine' = LastLine /\ (NoneOf(path)' <=> NoneOf(path)) /\ Restarts \in Nat
  BY <1>1, RestartsType DEF Restarts, Restarted, Emitted, SameFile, LastLine, NoneOf
<1>3. Restarts < errors'
  BY <1>1, <1>2 DEF Turns
<1>4. LastIsLatest'
  BY <1>1, <1>2, <1>3 DEF Turns, LastIsLatest, Emitted
<1>5. InTurn'
  BY <1>1 DEF InTurn
<1>6. Restarts' <= errors'
  BY <1>1, <1>2, <1>3
<1> QED BY <1>4, <1>5, <1>6 DEF Turns

(* A file that comes to the path is new.                                   *)
LEMMA TurnEnvironment ==
  ASSUME OnceInv, Turns, Environment \/ UNCHANGED vars
  PROVE  Turns'
<1>1. /\ path' = path \/ NoneOf(path')
      /\ UNCHANGED <<file, offset, pending, pendingStart, cur, pc, out, version, errors>>
  <2>1. path' = path \/ (\A f \in Files : path' = f => versions[f] = <<>>)
    BY NoFileAssumption DEF Environment, WriterWrites, Write, Rotation, MoveAway, Recreate, Reopen, CopyTruncate,
       Truncate, vars, fileVars
  <2>2. UNCHANGED <<tailerVars, errors>>
    BY DEF Environment, WriterWrites, Rotation, CopyTruncate, vars, envVars
  <2>3. ASSUME NEW i \in Emitted, out[i].file = path', ~ (path' = path)
        PROVE  FALSE
    <3>1. out[i].file \in Files
      BY LineType DEF OnceInv, WholeInv, TailInv
    <3>2. DOMAIN versions[out[i].file] = {}
      BY <2>1, <2>3, <3>1
    <3>3. out[i].version \in DOMAIN versions[out[i].file]
      BY DEF OnceInv, WholeInv, WholeLines, WholeLine
    <3> QED BY <3>2, <3>3
  <2> QED BY <2>2, <2>3 DEF tailerVars, readerVars, splitVars, stepVars, lineVars, NoneOf
<1>2. Start' = Start
  BY <1>1 DEF Start
<1>3. CASE path' = path
  BY <1>1, <1>2, <1>3, TurnQuiet
<1>4. CASE NoneOf(path')
  <2>1. /\ Restarts' = Restarts /\ LastLine' = LastLine /\ NoneOf(path)' /\ (NoneOf(file)' <=> NoneOf(file))
        /\ (Fresh' <=> Fresh) /\ (Here(Len(out))' <=> Here(Len(out)))
    BY <1>1, <1>4 DEF Restarts, Restarted, Emitted, SameFile, LastLine, NoneOf, Fresh, Here
  <2>2. LastIsLatest'
    BY <1>1, <2>1 DEF Turns, LastIsLatest, Emitted
  <2>3. InTurn'
    BY <1>1, <1>2, <2>1 DEF Turns, InTurn
  <2> QED BY <1>1, <2>1, <2>2, <2>3 DEF Turns
<1> QED BY <1>1, <1>3, <1>4

LEMMA TurnInit == Init => Turns
<1> SUFFICES ASSUME Init PROVE Turns
  OBVIOUS
<1>1. out = <<>> /\ DOMAIN out = {} /\ errors = 0
  BY DEF Init
<1>2. Restarted = {}
  BY <1>1 DEF Restarted, Emitted
<1>3. Restarts = 0
  BY <1>2, FS_EmptySet DEF Restarts
<1> QED BY <1>1, <1>3 DEF Turns, LastIsLatest, InTurn

LEMMA TurnNext == TurnInv /\ [Next]_vars => TurnInv'
<1> SUFFICES ASSUME TurnInv, [Next]_vars PROVE TurnInv'
  OBVIOUS
<1>1. OnceInv /\ Turns /\ OnceInv'
  BY OnceNext DEF TurnInv
<1>2. CASE Tailer
  <2>1. UNCHANGED <<fileVars, envVars>>
    BY <1>2 DEF Tailer
  <2> QED BY <1>1, <1>2, <2>1, TurnOpen, TurnStatPath, TurnRead, TurnSplit, TurnReadEnds,
             TurnFlushPending, TurnCloseFile
          DEF Tailer, TurnInv
<1>3. CASE CallFails
  BY <1>1, <1>3, TurnCallFails DEF TurnInv
<1>4. CASE Environment \/ UNCHANGED vars
  BY <1>1, <1>4, TurnEnvironment DEF TurnInv
<1> QED BY <1>2, <1>3, <1>4 DEF Next, Environment

(* The places of the lines: what LineFeed speaks of.                       *)
Place(l) == [file |-> l.file, version |-> l.version, off |-> l.off, next |-> l.next]

Placed == [i \in Emitted |-> Place(out[i])]

LEMMA PlacedType ==
  ASSUME Core
  PROVE  /\ Len(Placed) = Len(out) /\ DOMAIN Placed = Emitted
         /\ \A i \in Emitted : Placed[i] = Place(out[i])
<1>1. Emitted = 1 .. Len(out) /\ Len(out) \in Nat
  BY HeldType
<1>2. DOMAIN Placed = 1 .. Len(out)
  BY <1>1 DEF Placed
<1>3. Placed \in Seq({Place(out[i]) : i \in Emitted})
  BY <1>1 DEF Placed
<1> QED BY <1>1, <1>2, <1>3, LenProperties DEF Placed

LEMMA PlacedMeans ==
  /\ \A l : Placed # <<>> /\ l.file = Placed[Len(Placed)].file /\ l.version = Placed[Len(Placed)].version
             /\ l.off = Placed[Len(Placed)].next => Feed!Continues(l)
  /\ \A l : Placed # <<>> /\ l.off = 0 /\ (\A i \in DOMAIN Placed : Placed[i].file # l.file) => Feed!TurnsTo(l)
  /\ \A l : Placed # <<>> /\ l.off = 0 /\ l.file = Placed[Len(Placed)].file
             /\ l.version > Placed[Len(Placed)].version => Feed!TurnsTo(l)
  /\ \A l : Placed # <<>> /\ l.off = 0 /\ l.file = Placed[Len(Placed)].file
             /\ l.version = Placed[Len(Placed)].version /\ Cardinality(Feed!Restarts) < errors => Feed!StartsAgain(l)
<1>1. \A l : Feed!SameSource(l, Placed[Len(Placed)]) <=>
               l.file = Placed[Len(Placed)].file /\ l.version = Placed[Len(Placed)].version
  BY Zenon DEF Feed!SameSource
<1>2. \A l : Feed!Continues(l) <=>
               Placed # <<>> /\ Feed!SameSource(l, Placed[Len(Placed)]) /\ l.off = Placed[Len(Placed)].next
  BY Zenon DEF Feed!Continues, Placed, Place
<1>3. \A l : Feed!TurnsTo(l) <=>
               /\ Placed # <<>> /\ l.off = 0
               /\ \/ \A i \in DOMAIN Placed : Placed[i].file # l.file
                  \/ l.file = Placed[Len(Placed)].file /\ l.version > Placed[Len(Placed)].version
  BY Zenon DEF Feed!TurnsTo, Placed, Place
<1>4. \A l : Feed!StartsAgain(l) <=>
               /\ Placed # <<>> /\ l.off = 0 /\ Feed!SameSource(l, Placed[Len(Placed)])
               /\ Cardinality(Feed!Restarts) < errors
  <2> SUFFICES ASSUME NEW l
               PROVE  Feed!StartsAgain(l) <=>
                        /\ Placed # <<>> /\ l.off = 0 /\ Feed!SameSource(l, Placed[Len(Placed)])
                        /\ Cardinality(Feed!Restarts) < errors
    OBVIOUS
  <2>1. Placed = [i \in Emitted |-> [file |-> out[i].file, version |-> out[i].version,
                                    off |-> out[i].off, next |-> out[i].next]]
    BY DEF Placed, Place
  <2>2. Feed!Cardinality(Feed!Restarts) = Cardinality(Feed!Restarts)
    BY DEF Feed!Cardinality, Cardinality
  <2> QED BY <2>1, <2>2 DEF Feed!StartsAgain
<1> QED BY <1>1, <1>2, <1>3, <1>4, Zenon

LEMMA RestartsMeans ==
  ASSUME Core
  PROVE  Cardinality(Feed!Restarts) = Restarts
<1>1. DOMAIN Placed = Emitted /\ \A i \in Emitted : Placed[i] = Place(out[i])
  BY PlacedType
<1>2. \A i \in Emitted : Placed[i].file = out[i].file /\ Placed[i].version = out[i].version
                         /\ Placed[i].off = out[i].off
  BY <1>1 DEF Place
<1>3. \A i \in Emitted : i > 1 => i - 1 \in Emitted
  BY HeldType
<1>4. Feed!Restarts = {i \in DOMAIN Placed : i > 1 /\ Placed[i].off = 0
                                            /\ Placed[i].file = Placed[i - 1].file
                                            /\ Placed[i].version = Placed[i - 1].version}
  BY DEF Feed!Restarts, Feed!SameSource, Placed, Place
<1>5. Feed!Restarts = Restarted
  BY <1>1, <1>2, <1>3, <1>4 DEF Restarted, SameFile
<1> QED BY <1>5 DEF Restarts

LEMMA AppendIs ==
  ASSUME NEW S, NEW s \in Seq(S), NEW x \in S, NEW t \in Seq(S), Len(t) = Len(s) + 1,
         t[Len(s) + 1] = x, \A i \in 1 .. Len(s) : t[i] = s[i]
  PROVE  t = Append(s, x)
<1>1. Append(s, x) \in Seq(S) /\ Len(Append(s, x)) = Len(s) + 1 /\ Append(s, x)[Len(s) + 1] = x
      /\ \A i \in 1 .. Len(s) : Append(s, x)[i] = s[i]
  BY AppendProperties
<1>2. Len(s) \in Nat /\ \A i \in 1 .. Len(t) : i \in 1 .. Len(s) \/ i = Len(s) + 1
  BY LenProperties
<1> QED BY <1>1, <1>2, SeqEqual

LEMMA FeedEmit ==
  ASSUME TurnInv, file # NoFile, NEW text \in Seq(Bytes), NEW next \in Nat, Emit(text, Start, next),
         Start < next, UNCHANGED errors
  PROVE  Feed!HandOver
<1> DEFINE last == Len(out) + 1
           line == [file |-> file, version |-> version, off |-> Start, text |-> text, next |-> next]
<1>1. /\ Core /\ Start \in Nat /\ version \in Nat /\ file \in Files
      /\ Emitted = 1 .. Len(out) /\ Emitted' = 1 .. last /\ Len(out) \in Nat /\ Len(out') = last
      /\ out'[last] = line /\ \A i \in Emitted : out'[i] = out[i]
  <2>1. Core /\ Start \in Nat
    BY HeldType DEF TurnInv, OnceInv, WholeInv, TailInv
  <2>2. version \in Nat /\ file \in Files
    BY <2>1 DEF Core, TypeOK
  <2> QED BY <2>1, <2>2, EmitType DEF Emitted
<1>2. line.file = file /\ line.version = version /\ line.off = Start /\ line.next = next
  OBVIOUS
<1> HIDE DEF line
<1> DEFINE l == Place(line)
<1>3. l.file = file /\ l.version = version /\ l.off = Start /\ l.next = next
  BY <1>2 DEF Place
<1>4. /\ Len(Placed) = Len(out) /\ DOMAIN Placed = Emitted /\ \A i \in Emitted : Placed[i] = Place(out[i])
  BY <1>1, PlacedType
<1>5. Placed' = [i \in 1 .. last |-> Place(out'[i])]
  BY <1>1 DEF Placed
<1>6. Placed'[last] = l /\ \A i \in Emitted : Placed'[i] = Placed[i]
  BY <1>1, <1>4, <1>5
<1>7. Placed' # <<>> /\ Len(Placed') = last
  <2>1. Placed' \in Seq({Place(out'[i]) : i \in 1 .. last}) /\ DOMAIN Placed' = 1 .. last
    BY <1>1, <1>5
  <2> QED BY <1>1, <2>1, LenProperties, EmptySeq
<1> HIDE DEF l
<1>8. Placed' = Append(Placed, l)
  <2> DEFINE S == {Place(out[i]) : i \in Emitted} \cup {l}
  <2>1. Placed \in Seq(S) /\ l \in S
    BY <1>1 DEF Placed
  <2>2. \A i \in 1 .. last : Placed'[i] \in S
    <3>1. \A i \in Emitted : Placed'[i] \in S
      BY <1>4, <1>6
    <3> QED BY <1>1, <1>6, <2>1, <3>1
  <2>3. Placed' \in [1 .. last -> S]
    <3> HIDE DEF S
    <3> QED BY <1>5, <2>2
  <2>4. Placed' \in Seq(S)
    <3> HIDE DEF S
    <3> QED BY <1>1, <2>3
  <2> HIDE DEF S
  <2> QED BY <1>1, <1>4, <1>6, <1>7, <2>1, <2>4, AppendIs
<1> DEFINE before == Placed[Len(Placed)]
<1>9. CASE out = <<>>
  <2>1. Placed = <<>>
    <3>1. Len(Placed) = 0 /\ Placed \in Seq({Place(out[i]) : i \in Emitted})
      BY <1>1, <1>4, <1>9 DEF Placed
    <3> QED BY <3>1, EmptySeq
  <2> QED BY <1>3, <1>6, <1>7, <1>8, <2>1 DEF Feed!HandOver, Feed!First, Placed, Place
<1>11. ASSUME Feed!Continues(l) \/ Feed!TurnsTo(l) \/ Feed!StartsAgain(l)
       PROVE  Feed!HandOver
  <2>1. Placed' # <<>> /\ Placed'[Len(Placed')] = l /\ Placed' = Append(Placed, l) /\ l.off < l.next
    BY <1>3, <1>6, <1>7, <1>8
  <2> QED BY <1>11, <2>1 DEF Feed!HandOver, Placed, Place
<1>10. CASE out # <<>>
  <2>1. Len(out) \in Emitted
    BY <1>1, <1>10, EmptySeq
  <2>2. /\ before = Place(LastLine)
        /\ before.file = LastLine.file /\ before.version = LastLine.version /\ before.next = LastLine.next
    BY <1>4, <2>1 DEF LastLine, Place
  <2>3. Placed # <<>>
    BY <1>4, <2>1
  <2> HIDE DEF before
  <2>4. CASE Fresh /\ Start = 0 /\ NoneOf(file)
    <3>1. \A i \in DOMAIN Placed : Placed[i].file # l.file
      BY <1>3, <1>4, <2>4 DEF NoneOf, Place
    <3>2. Feed!TurnsTo(l)
      BY <1>3, <2>3, <2>4, <3>1, PlacedMeans
    <3> QED BY <1>11, <3>2
  <2>5. CASE Fresh /\ Start = 0 /\ LastLine.file = file
    <3>1. LastLine.version < version
      <4>1. LastLine.version \in Nat
        BY <1>1, <2>1, LineType DEF LastLine, Lines
      <4>2. LastLine.version <= version /\ LastLine.version # version
        BY <2>1, <2>5 DEF TurnInv, OnceInv, Newest, Fresh, Here, LastLine
      <4> QED BY <1>1, <4>1, <4>2
    <3>2. l.version > before.version
      BY <1>1, <1>3, <2>2, <3>1
    <3>3. Feed!TurnsTo(l)
      BY <1>3, <2>2, <2>3, <2>5, <3>2, PlacedMeans DEF before
    <3> QED BY <1>11, <3>3
  <2>6. CASE Here(Len(out)) /\ LastLine.next = Start
    <3>1. Feed!Continues(l)
      BY <1>3, <2>2, <2>3, <2>6, PlacedMeans DEF before, Here, LastLine
    <3> QED BY <1>11, <3>1
  <2>7. CASE Here(Len(out)) /\ Start = 0 /\ Restarts < errors
    <3>1. Cardinality(Feed!Restarts) < errors
      BY <1>1, <2>7, RestartsMeans
    <3>2. Feed!StartsAgain(l)
      BY <1>3, <2>2, <2>3, <2>7, <3>1, PlacedMeans DEF before, Here, LastLine
    <3> QED BY <1>11, <3>2
  <2> QED BY <1>10, <2>4, <2>5, <2>6, <2>7 DEF TurnInv, Turns, InTurn
<1> QED BY <1>9, <1>10

(* Lines come file by file and version by version, each where the one      *)
(* before it ended, and a version again only after an error: every step of *)
(* the tailer, the writer and the rotation is one of LineFeed or leaves it *)
(* unchanged (poll, open, read, consume, Run).                             *)
THEOREM TailKeepsFeed == Spec => KeepsFeed
<1>1. Init => TurnInv
  BY WholeInit, OnceInit, TurnInit DEF TurnInv, OnceInv
<1>2. Init => Feed!Init
  BY DEF Init, Feed!Init, Emitted
<1>3. TurnInv /\ [Next]_vars => [Feed!Next]_Feed!vars
  <2> SUFFICES ASSUME TurnInv, [Next]_vars PROVE [Feed!Next]_Feed!vars
    OBVIOUS
  <2>1. ASSUME UNCHANGED <<out, errors>> PROVE [Feed!Next]_Feed!vars
    BY <2>1 DEF Feed!vars, Emitted
  <2>2. CASE Tailer
    <3>1. UNCHANGED <<fileVars, envVars>> /\ UNCHANGED errors
      BY <2>2 DEF Tailer, envVars
    <3>2. CASE Open \/ StatPath \/ Read \/ KeepRest \/ ReadEnds \/ CloseFile
      BY <2>1, <3>1, <3>2 DEF Open, StatPath, Read, KeepRest, ReadEnds, CloseFile, lineVars
    <3>3. CASE EmitLine \/ EmitPiece \/ FlushPending
      <4>1. CASE UNCHANGED out
        BY <2>1, <3>1, <4>1
      <4>2. CASE out' # out
        <5>1. Feed!HandOver
          BY <3>1, <3>3, <4>2, EmitsOnward, FeedEmit DEF TurnInv
        <5> QED BY <5>1 DEF Feed!Next
      <4> QED BY <4>1, <4>2
    <3> QED BY <2>2, <3>2, <3>3 DEF Tailer
  <2>3. CASE CallFails
    BY <2>3 DEF CallFails, lineVars, Feed!Next, Feed!Fail, Emitted
  <2>4. CASE Environment \/ UNCHANGED vars
    BY <2>1, <2>4 DEF Environment, WriterWrites, Rotation, CopyTruncate, vars, envVars, tailerVars, lineVars
  <2> QED BY <2>2, <2>3, <2>4 DEF Next, Environment
<1> QED BY <1>1, <1>2, <1>3, TurnNext, PTL DEF Spec, KeepsFeed, Feed!Spec
=============================================================================
