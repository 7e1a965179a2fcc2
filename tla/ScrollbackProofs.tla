-------------------------- MODULE ScrollbackProofs --------------------------
(***************************************************************************)
(* The older lines on a page close up with its live view, for any pages,   *)
(* files, page and chunk sizes, queues, failures and restarts; scrolling   *)
(* keeps what PagedHistory promises; and answers are lost or mixed only    *)
(* where something broke, or a page does not fit its channel.              *)
(***************************************************************************)
EXTENDS RemoteBackfillProofs

(* Where a request and its answer are.                                     *)

Elems(s) == {s[i] : i \in DOMAIN s}

Same(a, b) == a.id = b.id /\ a.epoch = b.epoch

Apart(s) == \A i, j \in DOMAIN s : Same(s[i], s[j]) => i = j

NoneSame(S, T) == \A a \in S : \A b \in T : ~ Same(a, b)

(* Requests that no goroutine has read for; chunks that no channel has.    *)
Unread == UNION {Elems(reqCh[c]) \cup Elems(down[c]) : c \in Conns}
Outside == Elems(respQueue) \cup Elems(taken) \cup UNION {Elems(up[c]) : c \in Conns}

(* Ids are given once in the life of a process.                            *)
Issued(x) == x.epoch <= epoch /\ (x.epoch = epoch => x.id <= reqID)

IdsIssued ==
  /\ \A x \in Unread \cup jobs \cup Outside : Issued(x)
  /\ \A v \in Viewers : id[v] <= reqID
  /\ \A u, v \in Viewers : id[u] = id[v] /\ id[u] # 0 => u = v

(* A request is in one place until it is read, and is read by one goroutine*)
(* which has lines left until it is about to end.                          *)
ReadOnce ==
  /\ \A c \in Conns : Apart(reqCh[c]) /\ Apart(down[c])
  /\ \A c, d \in Conns : NoneSame(Elems(reqCh[c]), Elems(down[d]))
  /\ \A c, d \in Conns : c # d => /\ NoneSame(Elems(reqCh[c]), Elems(reqCh[d]))
                                  /\ NoneSame(Elems(down[c]), Elems(down[d]))
  /\ NoneSame(Unread, jobs \cup Outside)
  /\ \A j, k \in jobs : Same(j, k) => j = k
  /\ \A j \in jobs : j.queued = "last" => j.lines = {}

(* Nothing has come for a page that does not wait.                         *)
Idle == \A v \in Viewers : asking[v] # "waiting" => got[v] = {} /\ gotStart[v] = FALSE /\ chunks[v] = <<>>

Book == IdsIssued /\ ReadOnce /\ Idle

LEMMA ElemsEmpty == Elems(<<>>) = {} /\ Apart(<<>>)
BY DEF Elems, Apart

LEMMA AppendShape ==
  ASSUME NEW S, NEW s \in Seq(S), NEW x \in S
  PROVE  /\ DOMAIN s \subseteq DOMAIN Append(s, x)
         /\ \A i \in DOMAIN Append(s, x) : i \in DOMAIN s \/ i = Len(s) + 1
         /\ \A i \in DOMAIN s : Append(s, x)[i] = s[i] /\ i \in Nat /\ i < Len(s) + 1
         /\ Len(s) + 1 \in DOMAIN Append(s, x) /\ Append(s, x)[Len(s) + 1] = x
         /\ Len(s) + 1 \in Nat
OBVIOUS

LEMMA ElemsAppend ==
  ASSUME NEW S, NEW s \in Seq(S), NEW x \in S
  PROVE  Elems(Append(s, x)) = Elems(s) \cup {x}
<1> DEFINE t == Append(s, x)
           n == Len(s) + 1
<1>1. /\ DOMAIN s \subseteq DOMAIN t
      /\ \A i \in DOMAIN t : i \in DOMAIN s \/ i = n
      /\ \A i \in DOMAIN s : t[i] = s[i]
      /\ n \in DOMAIN t /\ t[n] = x
  BY AppendShape
<1> HIDE DEF t, n
<1>2. ASSUME NEW y \in Elems(t) PROVE y \in Elems(s) \cup {x}
  BY <1>1 DEF Elems
<1>3. ASSUME NEW y \in Elems(s) PROVE y \in Elems(t)
  <2>1. PICK i \in DOMAIN s : y = s[i]
    BY DEF Elems
  <2>2. i \in DOMAIN t /\ t[i] = y
    BY <1>1, <2>1
  <2> QED BY <2>2 DEF Elems
<1>4. x \in Elems(t)
  BY <1>1 DEF Elems
<1>5. Elems(t) = Elems(s) \cup {x}
  BY <1>2, <1>3, <1>4
<1> QED BY <1>5 DEF t

LEMMA ApartAppend ==
  ASSUME NEW S, NEW s \in Seq(S), NEW x \in S, Apart(s), NoneSame(Elems(s), {x})
  PROVE  Apart(Append(s, x))
<1> DEFINE t == Append(s, x)
           n == Len(s) + 1
<1>1. /\ \A i \in DOMAIN t : i \in DOMAIN s \/ i = n
      /\ \A i \in DOMAIN s : t[i] = s[i]
      /\ t[n] = x
  BY AppendShape
<1> HIDE DEF t, n
<1>2. \A i \in DOMAIN s : ~ Same(s[i], x) /\ ~ Same(x, s[i])
  BY DEF NoneSame, Elems, Same
<1>3. ASSUME NEW i \in DOMAIN t, NEW j \in DOMAIN t, Same(t[i], t[j]) PROVE i = j
  BY <1>1, <1>2, <1>3 DEF Apart
<1> QED BY <1>3 DEF Apart, t

LEMMA ElemsTail ==
  ASSUME NEW S, NEW s \in Seq(S), s # <<>>
  PROVE  /\ Elems(s) = Elems(Tail(s)) \cup {Head(s)}
         /\ Apart(s) => Apart(Tail(s)) /\ NoneSame(Elems(Tail(s)), {Head(s)})
<1> DEFINE t == Tail(s)
<1>1. /\ DOMAIN s = 1 .. Len(s) /\ Len(s) \in Nat \ {0} /\ DOMAIN t = 1 .. (Len(s) - 1)
      /\ \A i \in 1 .. (Len(s) - 1) : t[i] = s[i + 1]
      /\ Head(s) = s[1]
  OBVIOUS
<1> HIDE DEF t
<1>2. \A i \in DOMAIN t : i + 1 \in DOMAIN s /\ t[i] = s[i + 1] /\ i \in Nat /\ i + 1 # 1
  BY <1>1
<1>3. \A i \in DOMAIN s : i = 1 \/ (i - 1 \in DOMAIN t /\ t[i - 1] = s[i])
  <2> SUFFICES ASSUME NEW i \in DOMAIN s, i # 1
               PROVE  i - 1 \in DOMAIN t /\ t[i - 1] = s[i]
    OBVIOUS
  <2>1. i - 1 \in 1 .. (Len(s) - 1) /\ (i - 1) + 1 = i
    BY <1>1
  <2> QED BY <1>1, <2>1
<1>4. 1 \in DOMAIN s
  BY <1>1
<1>5. Elems(s) = Elems(t) \cup {Head(s)}
  <2>1. ASSUME NEW y \in Elems(s) PROVE y \in Elems(t) \cup {Head(s)}
    <3>1. PICK i \in DOMAIN s : y = s[i]
      BY DEF Elems
    <3> QED BY <1>1, <1>3, <3>1 DEF Elems
  <2>2. ASSUME NEW y \in Elems(t) PROVE y \in Elems(s)
    BY <1>2 DEF Elems
  <2>3. Head(s) \in Elems(s)
    BY <1>1, <1>4 DEF Elems
  <2> QED BY <2>1, <2>2, <2>3
<1>6. ASSUME Apart(s) PROVE Apart(t) /\ NoneSame(Elems(t), {Head(s)})
  <2>1. ASSUME NEW i \in DOMAIN t, NEW j \in DOMAIN t, Same(t[i], t[j]) PROVE i = j
    <3>1. i + 1 = j + 1
      BY <1>2, <1>6, <2>1 DEF Apart
    <3> QED BY <1>2, <3>1
  <2>2. ASSUME NEW i \in DOMAIN t PROVE ~ Same(t[i], Head(s))
    BY <1>1, <1>2, <1>4, <1>6 DEF Apart
  <2> QED BY <2>1, <2>2 DEF Apart, NoneSame, Elems
<1> QED BY <1>5, <1>6 DEF t

(* Elements have the type of the sequence.                                 *)
LEMMA ElemsType ==
  ASSUME NEW S, NEW s \in Seq(S)
  PROVE  Elems(s) \subseteq S
<1> SUFFICES ASSUME NEW i \in DOMAIN s
             PROVE  s[i] \in S
  BY DEF Elems
<1>1. s \in [1 .. Len(s) -> S]
  OBVIOUS
<1> QED BY <1>1

LEMMA ItemTypes ==
  ASSUME Types
  PROVE  /\ Unread \subseteq Requests /\ jobs \subseteq Jobs /\ Outside \subseteq Chunks
         /\ \A x \in Unread \cup jobs \cup Outside : x.id \in Nat /\ x.epoch \in Nat
<1>1. ASSUME NEW c \in Conns
      PROVE  /\ Elems(reqCh[c]) \subseteq Requests /\ Elems(down[c]) \subseteq Requests
             /\ Elems(up[c]) \subseteq Chunks
  BY ElemsType DEF Types, ServerTypes, WireTypes
<1>2. Elems(respQueue) \subseteq Chunks /\ Elems(taken) \subseteq Chunks
  BY ElemsType DEF Types, ClientTypes
<1>3. Unread \subseteq Requests
  BY <1>1 DEF Unread
<1>4. Outside \subseteq Chunks
  BY <1>1, <1>2 DEF Outside
<1>5. jobs \subseteq Jobs
  BY DEF Types, ClientTypes
<1>6. \A x \in Requests \cup Jobs \cup Chunks : x.id \in Nat /\ x.epoch \in Nat
  BY DEF Requests, Jobs, Chunks
<1> QED BY <1>3, <1>4, <1>5, <1>6

LEMMA BookInit == Init => Book
<1> SUFFICES ASSUME Init
             PROVE  Book
  OBVIOUS
<1>1. /\ \A c \in Conns : reqCh[c] = <<>> /\ down[c] = <<>> /\ up[c] = <<>>
      /\ respQueue = <<>> /\ taken = <<>> /\ jobs = {} /\ reqID = 0
      /\ \A v \in Viewers : id[v] = 0 /\ got[v] = {} /\ gotStart[v] = FALSE /\ chunks[v] = <<>>
  BY DEF Init
<1>2. Unread = {} /\ Outside = {}
  BY <1>1, ElemsEmpty DEF Unread, Outside
<1>3. IdsIssued
  BY <1>1, <1>2 DEF IdsIssued
<1>4. ReadOnce
  <2>1. \A c \in Conns : Elems(reqCh[c]) = {} /\ Elems(down[c]) = {} /\ Apart(reqCh[c]) /\ Apart(down[c])
    BY <1>1, ElemsEmpty
  <2> QED BY <1>1, <1>2, <2>1 DEF ReadOnce, NoneSame
<1> QED BY <1>1, <1>3, <1>4 DEF Book, Idle

(* Queues are left alone, emptied, or lose chunks.                         *)
LEMMA ReadOnceShrinks ==
  ASSUME ReadOnce,
         \A c \in Conns : reqCh'[c] = reqCh[c] \/ reqCh'[c] = <<>>,
         \A c \in Conns : down'[c] = down[c] \/ down'[c] = <<>>,
         jobs' = jobs, Outside' \subseteq Outside
  PROVE  ReadOnce' /\ Unread' \subseteq Unread
<1>1. ASSUME NEW c \in Conns
      PROVE  /\ Elems(reqCh'[c]) \subseteq Elems(reqCh[c]) /\ Elems(down'[c]) \subseteq Elems(down[c])
             /\ Apart(reqCh'[c]) /\ Apart(down'[c])
  BY ElemsEmpty DEF ReadOnce
<1>2. Unread' \subseteq Unread
  BY <1>1 DEF Unread
<1>3. ASSUME NEW c \in Conns, NEW d \in Conns
      PROVE  /\ NoneSame(Elems(reqCh'[c]), Elems(down'[d]))
             /\ c # d => /\ NoneSame(Elems(reqCh'[c]), Elems(reqCh'[d]))
                         /\ NoneSame(Elems(down'[c]), Elems(down'[d]))
  BY <1>1 DEF ReadOnce, NoneSame
<1>4. NoneSame(Unread', jobs' \cup Outside')
  BY <1>2 DEF ReadOnce, NoneSame
<1> QED BY <1>1, <1>2, <1>3, <1>4 DEF ReadOnce

(* Which steps leave the queues of the client and the wire as they are.    *)
LEMMA OutsideSame ==
  ASSUME UNCHANGED <<respQueue, taken, up>>
  PROVE  Outside' = Outside
BY DEF Outside

LEMMA BookShrinks ==
  ASSUME IdsIssued, ReadOnce,
         \A c \in Conns : reqCh'[c] = reqCh[c] \/ reqCh'[c] = <<>>,
         \A c \in Conns : down'[c] = down[c] \/ down'[c] = <<>>,
         jobs' = jobs, Outside' \subseteq Outside, UNCHANGED <<reqID, epoch>>,
         \A v \in Viewers : id'[v] = id[v] \/ id'[v] = 0, reqID \in Nat
  PROVE  IdsIssued' /\ ReadOnce'
<1>1. ReadOnce' /\ Unread' \subseteq Unread
  BY ReadOnceShrinks
<1>2. \A x \in Unread' \cup jobs' \cup Outside' : Issued(x)'
  BY <1>1 DEF IdsIssued, Issued
<1>3. \A v \in Viewers : id'[v] <= reqID'
  BY DEF IdsIssued
<1>4. \A u, v \in Viewers : id'[u] = id'[v] /\ id'[u] # 0 => u = v
  BY DEF IdsIssued
<1> QED BY <1>1, <1>2, <1>3, <1>4 DEF IdsIssued

LEMMA OutsideScans ==
  ASSUME Types, NEW c \in Conns, HandlerScans(c)
  PROVE  /\ up[c] # <<>> /\ Head(up[c]) \in Elems(up[c]) /\ Head(up[c]) \in Outside
         /\ Elems(up[c]) = Elems(up'[c]) \cup {Head(up[c])}
         /\ up'[c] = Tail(up[c])
         /\ \A d \in Conns \ {c} : up'[d] = up[d]
         /\ UNCHANGED <<respQueue, taken>>
         /\ Outside' \subseteq Outside
<1>1. /\ up[c] # <<>> /\ up' = [up EXCEPT ![c] = Tail(@)] /\ UNCHANGED <<respQueue, taken>>
  BY DEF HandlerScans, clientVars
<1>2. up[c] \in Seq(Chunks) /\ up'[c] = Tail(up[c]) /\ \A d \in Conns \ {c} : up'[d] = up[d]
  BY <1>1 DEF Types, WireTypes
<1>3. Elems(up[c]) = Elems(up'[c]) \cup {Head(up[c])}
  BY <1>1, <1>2, ElemsTail
<1>4. \A d \in Conns : Elems(up'[d]) \subseteq Elems(up[d])
  BY <1>2, <1>3
<1> QED BY <1>1, <1>2, <1>3, <1>4 DEF Outside

LEMMA OutsideEnds ==
  ASSUME Types, NEW c \in Conns, HandlerEnds(c)
  PROVE  /\ Elems(up'[c]) = {} /\ up'[c] = <<>>
         /\ \A d \in Conns \ {c} : up'[d] = up[d]
         /\ UNCHANGED <<respQueue, taken>>
         /\ Outside' \subseteq Outside
<1>1. /\ up' = [up EXCEPT ![c] = <<>>] /\ UNCHANGED <<respQueue, taken>>
  BY DEF HandlerEnds, clientVars
<1>2. up'[c] = <<>> /\ \A d \in Conns \ {c} : up'[d] = up[d]
  BY <1>1 DEF Types, WireTypes
<1>3. \A d \in Conns : Elems(up'[d]) \subseteq Elems(up[d])
  BY <1>2, ElemsEmpty
<1> QED BY <1>1, <1>2, <1>3, ElemsEmpty DEF Outside

LEMMA OutsideTake ==
  ASSUME Types, TakeResps
  PROVE  taken = <<>> /\ taken' = respQueue /\ respQueue' = <<>> /\ up' = up /\ Outside' = Outside
<1>1. taken = <<>> /\ taken' = respQueue /\ respQueue' = <<>> /\ up' = up
  BY DEF TakeResps, wireVars, Types, PumpInv
<1> QED BY <1>1, ElemsEmpty DEF Outside

LEMMA OutsideWrite ==
  ASSUME Types, WriteResp
  PROVE  /\ taken # <<>> /\ taken \in Seq(Chunks) /\ taken' = Tail(taken)
         /\ Elems(taken) = Elems(taken') \cup {Head(taken)}
         /\ current \in Conns /\ up'[current] = Append(up[current], Head(taken))
         /\ Elems(up'[current]) = Elems(up[current]) \cup {Head(taken)}
         /\ \A d \in Conns \ {current} : up'[d] = up[d]
         /\ respQueue' = respQueue /\ Outside' = Outside
<1>1. /\ taken # <<>> /\ taken \in Seq(Chunks) /\ current \in Conns /\ taken' = Tail(taken)
      /\ up' = [up EXCEPT ![current] = Append(@, Head(taken))] /\ respQueue' = respQueue
  BY DEF WriteResp, Types, PumpInv, ClientTypes
<1>2. Elems(taken) = Elems(taken') \cup {Head(taken)} /\ Head(taken) \in Chunks
  BY <1>1, ElemsTail, TailType
<1>3. /\ up'[current] = Append(up[current], Head(taken))
      /\ \A d \in Conns \ {current} : up'[d] = up[d]
      /\ up[current] \in Seq(Chunks)
  BY <1>1 DEF Types, WireTypes
<1>4. Elems(up'[current]) = Elems(up[current]) \cup {Head(taken)}
  BY <1>2, <1>3, ElemsAppend
<1>5. Outside' = Outside
  <2>1. UNION {Elems(up'[d]) : d \in Conns} = (UNION {Elems(up[d]) : d \in Conns}) \cup {Head(taken)}
    BY <1>1, <1>3, <1>4
  <2> QED BY <1>1, <1>2, <2>1 DEF Outside
<1> QED BY <1>1, <1>2, <1>3, <1>4, <1>5

LEMMA OutsideStream ==
  ASSUME Types, StreamEnded
  PROVE  taken' = <<>> /\ respQueue' = respQueue /\ up' = up /\ Outside' \subseteq Outside
<1>1. taken' = <<>> /\ respQueue' = respQueue /\ up' = up
  BY DEF StreamEnded, wireVars
<1> QED BY <1>1, ElemsEmpty DEF Outside

LEMMA OutsideQueue ==
  ASSUME Types, NEW j \in jobs, QueueChunk(j)
  PROVE  /\ respQueue' = Append(respQueue, ChunkOf(j)) /\ ChunkOf(j) \in Chunks
         /\ Elems(respQueue') = Elems(respQueue) \cup {ChunkOf(j)}
         /\ UNCHANGED <<taken, up>>
         /\ Outside' = Outside \cup {ChunkOf(j)}
<1>1. respQueue' = Append(respQueue, ChunkOf(j)) /\ UNCHANGED <<taken, up>>
  BY QueueChunkStep DEF wireVars
<1>2. j \in Jobs /\ respQueue \in Seq(Chunks)
  BY DEF Types, ClientTypes
<1>3. ChunkOf(j) \in Chunks
  BY <1>2, ChunkOfType
<1>4. Elems(respQueue') = Elems(respQueue) \cup {ChunkOf(j)}
  BY <1>1, <1>2, <1>3, ElemsAppend
<1> QED BY <1>1, <1>3, <1>4 DEF Outside

LEMMA IssuedSend == \A v \in Viewers : Types /\ IdsIssued /\ ReadOnce /\ SendRequest(v) => IdsIssued' /\ ReadOnce'
<1> SUFFICES ASSUME NEW v \in Viewers, Types, IdsIssued, ReadOnce, SendRequest(v)
             PROVE  IdsIssued' /\ ReadOnce'
  OBVIOUS
<1>0. PICK q : q = [id |-> reqID', epoch |-> epoch, viewer |-> v, before |-> before[v]]
  OBVIOUS
<1>1. /\ reqID' = reqID + 1 /\ epoch' = epoch /\ jobs' = jobs /\ down' = down
      /\ Outside' = Outside /\ reqID \in Nat /\ epoch \in Nat
  BY OutsideSame DEF SendRequest, wireVars, clientVars, boundVars, Types, ServerTypes
<1>2. CASE NoFurtherHistory({v}) /\ UNCHANGED reqCh
  <2>1. ReadOnce' /\ Unread' \subseteq Unread
    BY <1>1, <1>2, ReadOnceShrinks
  <2>2. \A x \in Unread' \cup jobs' \cup Outside' : Issued(x)'
    <3>1. ASSUME NEW x \in Unread \cup jobs \cup Outside PROVE Issued(x)'
      <4>1. Issued(x)
        BY DEF IdsIssued
      <4>2. x.epoch = epoch => x.id \in Nat
        BY ItemTypes
      <4> QED BY <1>1, <4>1, <4>2 DEF Issued
    <3> QED BY <1>1, <2>1, <3>1
  <2>3. \A u \in Viewers : id'[u] = id[u] \/ id'[u] = 0
    BY <1>2 DEF NoFurtherHistory, Forget
  <2>4. \A u \in Viewers : id[u] \in Nat /\ id[u] <= reqID
    BY DEF IdsIssued, Types, AskTypes
  <2>5. \A u \in Viewers : id'[u] <= reqID'
    BY <1>1, <2>3, <2>4
  <2>6. \A t, u \in Viewers : id'[t] = id'[u] /\ id'[t] # 0 => t = u
    BY <2>3 DEF IdsIssued
  <2> QED BY <2>1, <2>2, <2>5, <2>6 DEF IdsIssued
<1>3. CASE /\ reqCh' = [reqCh EXCEPT ![via[v]] = Append(@, q)]
           /\ id' = [id EXCEPT ![v] = reqID']
  <2>1. q \in Requests /\ q.id = reqID + 1 /\ q.epoch = epoch
    BY <1>0, <1>1 DEF Types, AskTypes, Requests
  <2>2. ASSUME NEW c \in Conns
        PROVE  /\ c # via[v] => reqCh'[c] = reqCh[c]
               /\ c = via[v] => reqCh'[c] = Append(reqCh[c], q)
               /\ Elems(reqCh'[c]) \subseteq Elems(reqCh[c]) \cup {q}
               /\ c # via[v] => Elems(reqCh'[c]) = Elems(reqCh[c])
    <3>1. reqCh \in [Conns -> Seq(Requests)]
      BY DEF Types, ServerTypes
    <3>2. c # via[v] => reqCh'[c] = reqCh[c]
      BY <1>3, <3>1
    <3>3. c = via[v] => reqCh'[c] = Append(reqCh[c], q)
      BY <1>3, <3>1
    <3>5. reqCh[c] \in Seq(Requests)
      BY <3>1
    <3>4. Elems(Append(reqCh[c], q)) = Elems(reqCh[c]) \cup {q}
      BY <2>1, <3>5, ElemsAppend
    <3> QED BY <3>2, <3>3, <3>4
  <2>3. ASSUME NEW x \in Unread \cup jobs \cup Outside
        PROVE  Issued(x)' /\ ~ Same(x, q) /\ ~ Same(q, x)
    <3>1. Issued(x)
      BY DEF IdsIssued
    <3>2. x.id \in Nat
      BY ItemTypes
    <3>3. x.epoch = epoch => x.id <= reqID
      BY <3>1 DEF Issued
    <3>4. x.epoch = epoch => x.id <= reqID + 1 /\ x.id # reqID + 1
      BY <1>1, <3>2, <3>3
    <3> QED BY <1>1, <2>1, <3>1, <3>4 DEF Issued, Same
  <2>4. Unread' \subseteq Unread \cup {q}
    BY <1>1, <2>2 DEF Unread
  <2>5. Issued(q)'
    BY <1>1, <2>1 DEF Issued
  <2>6. IdsIssued'
    <3>1. \A x \in Unread' \cup jobs' \cup Outside' : Issued(x)'
      BY <1>1, <2>3, <2>4, <2>5
    <3>2. ASSUME NEW u \in Viewers PROVE id'[u] = (IF u = v THEN reqID + 1 ELSE id[u])
      BY <1>1, <1>3 DEF Types, AskTypes
    <3>3. ASSUME NEW u \in Viewers PROVE id[u] \in Nat /\ id[u] <= reqID
      BY DEF IdsIssued, Types, AskTypes
    <3>4. ASSUME NEW u \in Viewers PROVE id'[u] <= reqID' /\ (id'[u] = reqID + 1 => u = v)
      BY <1>1, <3>2, <3>3
    <3>5. ASSUME NEW t \in Viewers, NEW u \in Viewers, id'[t] = id'[u], id'[t] # 0 PROVE t = u
      <4>1. CASE t = v \/ u = v
        BY <3>2, <3>4, <3>5, <4>1
      <4>2. CASE t # v /\ u # v
        BY <3>2, <3>5, <4>2 DEF IdsIssued
      <4> QED BY <4>1, <4>2
    <3> QED BY <3>1, <3>4, <3>5 DEF IdsIssued
  <2>7. ASSUME NEW c \in Conns
        PROVE  /\ Apart(reqCh'[c]) /\ Apart(down'[c]) /\ Elems(reqCh[c]) \subseteq Unread /\ Elems(down[c]) \subseteq Unread
    <3>1. Elems(reqCh[c]) \subseteq Unread /\ Elems(down[c]) \subseteq Unread
      BY DEF Unread
    <3>2. reqCh[c] \in Seq(Requests) /\ Apart(reqCh[c]) /\ Apart(down[c])
      BY DEF Types, ServerTypes, ReadOnce
    <3>3. NoneSame(Elems(reqCh[c]), {q})
      BY <2>3, <3>1 DEF NoneSame
    <3>4. Apart(Append(reqCh[c], q))
      BY <2>1, <3>2, <3>3, ApartAppend
    <3> QED BY <1>1, <2>2, <3>1, <3>2, <3>4
  <2>8. ASSUME NEW c \in Conns, NEW d \in Conns
        PROVE  /\ NoneSame(Elems(reqCh'[c]), Elems(down'[d]))
               /\ c # d => /\ NoneSame(Elems(reqCh'[c]), Elems(reqCh'[d]))
                           /\ NoneSame(Elems(down'[c]), Elems(down'[d]))
    <3>1. NoneSame(Elems(reqCh'[c]), Elems(down'[d]))
      BY <1>1, <2>2, <2>3, <2>7 DEF ReadOnce, NoneSame
    <3>2. c # d => NoneSame(Elems(reqCh'[c]), Elems(reqCh'[d]))
      BY <2>2, <2>3, <2>7 DEF ReadOnce, NoneSame
    <3>3. c # d => NoneSame(Elems(down'[c]), Elems(down'[d]))
      BY <1>1 DEF ReadOnce
    <3> QED BY <3>1, <3>2, <3>3
  <2>9. NoneSame(Unread', jobs' \cup Outside')
    BY <1>1, <2>3, <2>4 DEF ReadOnce, NoneSame
  <2> QED BY <1>1, <2>6, <2>7, <2>8, <2>9 DEF ReadOnce
<1> QED BY <1>0, <1>2, <1>3 DEF SendRequest

LEMMA WriterMoves ==
  ASSUME Types, NEW c \in Conns, WriterSends(c)
  PROVE  /\ Elems(reqCh[c]) = Elems(reqCh'[c]) \cup {Head(reqCh[c])}
         /\ Elems(down'[c]) = Elems(down[c]) \cup {Head(reqCh[c])}
         /\ \A d \in Conns \ {c} : reqCh'[d] = reqCh[d] /\ down'[d] = down[d]
         /\ Apart(reqCh[c]) => Apart(reqCh'[c]) /\ NoneSame(Elems(reqCh'[c]), {Head(reqCh[c])})
         /\ Apart(down[c]) /\ NoneSame(Elems(down[c]), {Head(reqCh[c])}) => Apart(down'[c])
         /\ Unread' = Unread
<1>1. /\ reqCh[c] # <<>> /\ reqCh[c] \in Seq(Requests) /\ down[c] \in Seq(Requests)
      /\ down'[c] = Append(down[c], Head(reqCh[c])) /\ reqCh'[c] = Tail(reqCh[c])
      /\ \A d \in Conns \ {c} : reqCh'[d] = reqCh[d] /\ down'[d] = down[d]
  BY DEF WriterSends, Types, ServerTypes, WireTypes
<1>2. Head(reqCh[c]) \in Requests
  BY <1>1, TailType
<1>3. /\ Elems(reqCh[c]) = Elems(reqCh'[c]) \cup {Head(reqCh[c])}
      /\ Apart(reqCh[c]) => Apart(reqCh'[c]) /\ NoneSame(Elems(reqCh'[c]), {Head(reqCh[c])})
  BY <1>1, ElemsTail
<1>4. /\ Elems(down'[c]) = Elems(down[c]) \cup {Head(reqCh[c])}
      /\ Apart(down[c]) /\ NoneSame(Elems(down[c]), {Head(reqCh[c])}) => Apart(down'[c])
  BY <1>1, <1>2, ElemsAppend, ApartAppend
<1>5. \A d \in Conns : Elems(reqCh'[d]) \cup Elems(down'[d]) = Elems(reqCh[d]) \cup Elems(down[d])
  BY <1>1, <1>3, <1>4
<1>6. Unread' = Unread
  BY <1>5 DEF Unread
<1> QED BY <1>1, <1>3, <1>4, <1>6

LEMMA ReadOnceWriter == \A c \in Conns : Types /\ IdsIssued /\ ReadOnce /\ WriterSends(c) => IdsIssued' /\ ReadOnce'
<1> SUFFICES ASSUME NEW c \in Conns, Types, IdsIssued, ReadOnce, WriterSends(c)
             PROVE  IdsIssued' /\ ReadOnce'
  OBVIOUS
<1> DEFINE h == Head(reqCh[c])
<1>1. /\ Elems(reqCh[c]) = Elems(reqCh'[c]) \cup {h}
      /\ Elems(down'[c]) = Elems(down[c]) \cup {h}
      /\ \A d \in Conns \ {c} : reqCh'[d] = reqCh[d] /\ down'[d] = down[d]
      /\ Apart(reqCh[c]) => Apart(reqCh'[c]) /\ NoneSame(Elems(reqCh'[c]), {h})
      /\ Apart(down[c]) /\ NoneSame(Elems(down[c]), {h}) => Apart(down'[c])
      /\ Unread' = Unread
  BY WriterMoves
<1>2. UNCHANGED <<reqID, epoch, jobs, id>> /\ Outside' = Outside
  BY OutsideSame DEF WriterSends, clientVars, askVars, boundVars
<1> HIDE DEF h
<1>3. IdsIssued'
  BY <1>1, <1>2 DEF IdsIssued, Issued
<1>4. NoneSame(Elems(down[c]), {h})
  BY <1>1 DEF ReadOnce, NoneSame, Same
<1>5. ASSUME NEW d \in Conns PROVE Apart(reqCh'[d]) /\ Apart(down'[d])
  BY <1>1, <1>4 DEF ReadOnce
<1>6. ASSUME NEW d \in Conns, NEW e \in Conns
      PROVE  /\ NoneSame(Elems(reqCh'[d]), Elems(down'[e]))
             /\ d # e => /\ NoneSame(Elems(reqCh'[d]), Elems(reqCh'[e]))
                         /\ NoneSame(Elems(down'[d]), Elems(down'[e]))
  <2>1. ASSUME NEW x \in Elems(reqCh'[d]) PROVE x \in Elems(reqCh[d]) /\ ~ Same(x, h)
    <3>1. CASE d = c
      BY <1>1, <2>1, <3>1 DEF ReadOnce, NoneSame
    <3>2. CASE d # c
      BY <1>1, <2>1, <3>2 DEF ReadOnce, NoneSame
    <3> QED BY <3>1, <3>2
  <2>2. Elems(reqCh'[e]) \subseteq Elems(reqCh[e])
    BY <1>1
  <2>3. NoneSame(Elems(reqCh'[d]), Elems(down'[e]))
    BY <1>1, <2>1 DEF ReadOnce, NoneSame
  <2>4. d # e => NoneSame(Elems(reqCh'[d]), Elems(reqCh'[e]))
    BY <2>1, <2>2 DEF ReadOnce, NoneSame
  <2>5. d # e => NoneSame(Elems(down'[d]), Elems(down'[e]))
    <3> SUFFICES ASSUME d # e
                 PROVE  NoneSame(Elems(down'[d]), Elems(down'[e]))
      OBVIOUS
    <3>1. CASE d = c
      <4>1. NoneSame({h}, Elems(down[e]))
        BY <1>1 DEF ReadOnce, NoneSame
      <4> QED BY <1>1, <3>1, <4>1 DEF ReadOnce, NoneSame
    <3>2. CASE e = c
      <4>1. NoneSame(Elems(down[d]), {h})
        BY <1>1 DEF ReadOnce, NoneSame, Same
      <4> QED BY <1>1, <3>2, <4>1 DEF ReadOnce, NoneSame
    <3>3. CASE d # c /\ e # c
      BY <1>1, <3>3 DEF ReadOnce
    <3> QED BY <3>1, <3>2, <3>3
  <2> QED BY <2>3, <2>4, <2>5
<1>7. NoneSame(Unread', jobs' \cup Outside')
  BY <1>1, <1>2 DEF ReadOnce
<1> QED BY <1>2, <1>3, <1>5, <1>6, <1>7 DEF ReadOnce

(* The goroutine a request starts: it has read the page, or was refused.   *)
ReadFor(q, k) ==
  LET page == ReadLinesBefore(content[q.viewer], q.before, PageLines) IN
  /\ k.id = q.id /\ k.epoch = q.epoch /\ k.queued = "no"
  /\ \/ k.lines = page.lines /\ k.atStart = page.atStart /\ k.err = FALSE
     \/ k.lines = {} /\ k.atStart = FALSE /\ k.err = TRUE

LEMMA ReaderMoves ==
  ASSUME Types, NEW c \in Conns, ReaderGets(c)
  PROVE  /\ \E k : ReadFor(Head(down[c]), k) /\ jobs' = jobs \cup {k}
         /\ Head(down[c]) \in Requests
         /\ Elems(down[c]) = Elems(down'[c]) \cup {Head(down[c])}
         /\ Apart(down[c]) => Apart(down'[c]) /\ NoneSame(Elems(down'[c]), {Head(down[c])})
         /\ \A d \in Conns \ {c} : down'[d] = down[d]
         /\ UNCHANGED <<reqCh, respQueue, taken, up, reqID, epoch, id>>
<1>1. /\ down[c] # <<>> /\ down[c] \in Seq(Requests) /\ down'[c] = Tail(down[c])
      /\ \A d \in Conns \ {c} : down'[d] = down[d]
      /\ UNCHANGED <<reqCh, respQueue, taken, up, reqID, epoch, id>>
  BY DEF ReaderGets, Types, WireTypes, askVars, serverVars, boundVars
<1>2. /\ Head(down[c]) \in Requests
      /\ Elems(down[c]) = Elems(down'[c]) \cup {Head(down[c])}
      /\ Apart(down[c]) => Apart(down'[c]) /\ NoneSame(Elems(down'[c]), {Head(down[c])})
  <2>1. Head(down[c]) \in Requests
    BY <1>1, TailType
  <2> QED BY <1>1, <2>1, ElemsTail
<1>3. \E k : ReadFor(Head(down[c]), k) /\ jobs' = jobs \cup {k}
  <2> DEFINE q == Head(down[c])
             page == ReadLinesBefore(content[q.viewer], q.before, PageLines)
             Job(lines, start, err) ==
               [id |-> q.id, epoch |-> q.epoch, lines |-> lines, atStart |-> start, err |-> err, queued |-> "no"]
  <2>1. \/ jobs' = jobs \cup {Job(page.lines, page.atStart, FALSE)}
        \/ jobs' = jobs \cup {Job({}, FALSE, TRUE)}
    BY DEF ReaderGets
  <2>2. ReadFor(q, Job(page.lines, page.atStart, FALSE)) /\ ReadFor(q, Job({}, FALSE, TRUE))
    BY DEF ReadFor
  <2> HIDE DEF Job, page, q
  <2>3. \E k : ReadFor(q, k) /\ jobs' = jobs \cup {k}
    BY <2>1, <2>2
  <2> QED BY <2>3 DEF q
<1> QED BY <1>1, <1>2, <1>3

LEMMA BookReader == \A c \in Conns : Types /\ IdsIssued /\ ReadOnce /\ ReaderGets(c) => IdsIssued' /\ ReadOnce'
<1> SUFFICES ASSUME NEW c \in Conns, Types, IdsIssued, ReadOnce, ReaderGets(c)
             PROVE  IdsIssued' /\ ReadOnce'
  OBVIOUS
<1> DEFINE h == Head(down[c])
<1>1. /\ Elems(down[c]) = Elems(down'[c]) \cup {h}
      /\ Apart(down'[c]) /\ NoneSame(Elems(down'[c]), {h})
      /\ \A d \in Conns \ {c} : down'[d] = down[d]
      /\ UNCHANGED <<reqCh, reqID, epoch, id>> /\ Outside' = Outside
  BY ReaderMoves, OutsideSame DEF ReadOnce
<1>2. PICK k : Same(k, h) /\ k.queued = "no" /\ jobs' = jobs \cup {k}
  BY ReaderMoves DEF ReadFor, Same
<1> HIDE DEF h
<1>3. h \in Elems(down[c]) /\ h \in Unread
  BY <1>1 DEF Unread
<1>4. \A d \in Conns : Elems(down'[d]) \subseteq Elems(down[d])
  BY <1>1
<1>5. Unread' \subseteq Unread
  BY <1>1, <1>4 DEF Unread
<1>6. IdsIssued'
  <2>1. Issued(k)
    BY <1>2, <1>3 DEF IdsIssued, Issued, Same
  <2>2. \A x \in Unread' \cup jobs' \cup Outside' : Issued(x)
    BY <1>1, <1>2, <1>5, <2>1 DEF IdsIssued
  <2> QED BY <1>1, <2>2 DEF IdsIssued, Issued
<1>7. ASSUME NEW d \in Conns PROVE Apart(reqCh'[d]) /\ Apart(down'[d])
  BY <1>1 DEF ReadOnce
<1>8. ASSUME NEW d \in Conns, NEW e \in Conns
      PROVE  /\ NoneSame(Elems(reqCh'[d]), Elems(down'[e]))
             /\ d # e => /\ NoneSame(Elems(reqCh'[d]), Elems(reqCh'[e]))
                         /\ NoneSame(Elems(down'[d]), Elems(down'[e]))
  BY <1>1, <1>4 DEF ReadOnce, NoneSame
<1>9. ASSUME NEW x \in Unread' PROVE ~ Same(x, h)
  <2>1. PICK d \in Conns : x \in Elems(reqCh[d]) \/ x \in Elems(down'[d])
    BY <1>1 DEF Unread
  <2>2. CASE x \in Elems(reqCh[d])
    BY <1>3, <2>2 DEF ReadOnce, NoneSame
  <2>3. CASE x \in Elems(down'[d]) /\ d = c
    BY <1>1, <2>3 DEF NoneSame
  <2>4. CASE x \in Elems(down'[d]) /\ d # c
    BY <1>1, <1>3, <2>4 DEF ReadOnce, NoneSame
  <2> QED BY <2>1, <2>2, <2>3, <2>4
<1>10. NoneSame(Unread', jobs' \cup Outside')
  <2>1. ASSUME NEW x \in Unread', NEW y \in jobs' \cup Outside' PROVE ~ Same(x, y)
    <3>1. CASE y = k
      BY <1>2, <1>9, <3>1 DEF Same
    <3>2. CASE y # k
      BY <1>1, <1>2, <1>5, <3>2 DEF ReadOnce, NoneSame
    <3> QED BY <3>1, <3>2
  <2> QED BY <2>1 DEF NoneSame
<1>11. \A x \in jobs : ~ Same(x, k)
  <2>1. \A x \in jobs : ~ Same(h, x)
    BY <1>3 DEF ReadOnce, NoneSame
  <2> QED BY <1>2, <2>1 DEF Same
<1>12. \A x, y \in jobs' : Same(x, y) => x = y
  BY <1>2, <1>11 DEF ReadOnce, Same
<1>13. \A x \in jobs' : x.queued = "last" => x.lines = {}
  BY <1>2 DEF ReadOnce
<1> QED BY <1>6, <1>7, <1>8, <1>10, <1>12, <1>13 DEF ReadOnce

(* A goroutine goes on under the same id; its chunks have that id.         *)
LEMMA BookQueue == \A j \in jobs : Types /\ IdsIssued /\ ReadOnce /\ QueueChunk(j) => IdsIssued' /\ ReadOnce'
<1> SUFFICES ASSUME NEW j \in jobs, Types, IdsIssued, ReadOnce, QueueChunk(j)
             PROVE  IdsIssued' /\ ReadOnce'
  OBVIOUS
<1>1. /\ jobs' = (jobs \ {j}) \cup {RestOf(j)} /\ Outside' = Outside \cup {ChunkOf(j)}
      /\ UNCHANGED <<reqCh, down, reqID, epoch, id>>
  BY QueueChunkStep, OutsideQueue DEF askVars, serverVars, wireVars, boundVars
<1>2. /\ Same(RestOf(j), j) /\ Same(ChunkOf(j), j)
      /\ RestOf(j).queued = "last" => RestOf(j).lines = {}
  <2>1. j \in Jobs
    BY DEF Types, ClientTypes
  <2>2. RestOf(j) = [id |-> j.id, epoch |-> j.epoch, lines |-> j.lines \ NextLines(j), atStart |-> j.atStart,
                     err |-> j.err, queued |-> IF j.lines \subseteq NextLines(j) THEN "last" ELSE "more"]
    BY <2>1, ChunkOfType
  <2>3. ChunkOf(j).id = j.id /\ ChunkOf(j).epoch = j.epoch
    BY DEF ChunkOf
  <2> QED BY <2>2, <2>3 DEF Same
<1>3. Unread' = Unread
  BY <1>1 DEF Unread
<1>4. IdsIssued'
  <2>1. \A x \in Unread' \cup jobs' \cup Outside' : Issued(x)
    BY <1>1, <1>2, <1>3 DEF IdsIssued, Issued, Same
  <2> QED BY <1>1, <2>1 DEF IdsIssued, Issued
<1>5. NoneSame(Unread', jobs' \cup Outside')
  <2>1. ASSUME NEW x \in Unread PROVE ~ Same(x, j)
    BY DEF ReadOnce, NoneSame
  <2>2. ASSUME NEW x \in Unread, NEW y \in jobs' \cup Outside' PROVE ~ Same(x, y)
    <3>1. CASE Same(y, j)
      BY <2>1, <3>1 DEF Same
    <3>2. CASE ~ Same(y, j)
      BY <1>1, <1>2, <3>2 DEF ReadOnce, NoneSame
    <3> QED BY <3>1, <3>2
  <2> QED BY <1>3, <2>2 DEF NoneSame
<1>6. \A x, y \in jobs' : Same(x, y) => x = y
  <2>1. \A x \in jobs \ {j} : ~ Same(x, j) /\ ~ Same(j, x)
    BY DEF ReadOnce
  <2>2. \A x \in jobs \ {j} : ~ Same(x, RestOf(j)) /\ ~ Same(RestOf(j), x)
    BY <1>2, <2>1 DEF Same
  <2> QED BY <1>1, <2>2 DEF ReadOnce
<1>7. \A x \in jobs' : x.queued = "last" => x.lines = {}
  BY <1>1, <1>2 DEF ReadOnce
<1> QED BY <1>1, <1>4, <1>5, <1>6, <1>7 DEF ReadOnce

LEMMA SignalStep ==
  ASSUME Types, NEW j \in jobs, SignalWake(j)
  PROVE  /\ j.queued # "no"
         /\ \/ j.queued = "last" /\ jobs' = jobs \ {j}
            \/ j.queued # "last" /\ \E k : /\ jobs' = (jobs \ {j}) \cup {k} /\ k.id = j.id /\ k.epoch = j.epoch
                                           /\ k.lines = j.lines /\ k.atStart = j.atStart /\ k.err = j.err
                                           /\ k.queued = "no"
         /\ UNCHANGED <<content, pageVars, askVars, serverVars, wireVars, current, pump, taken, respQueue,
                        historyVars, boundVars>>
<1>1. /\ j.queued # "no"
      /\ jobs' = (jobs \ {j}) \cup (IF j.queued = "last" THEN {} ELSE {[j EXCEPT !.queued = "no"]})
      /\ UNCHANGED <<content, pageVars, askVars, serverVars, wireVars, current, pump, taken, respQueue,
                     historyVars, boundVars>>
  BY DEF SignalWake
<1>2. CASE j.queued = "last"
  BY <1>1, <1>2
<1>3. CASE j.queued # "last"
  <2> DEFINE k == [j EXCEPT !.queued = "no"]
  <2>1. /\ k.id = j.id /\ k.epoch = j.epoch /\ k.lines = j.lines /\ k.atStart = j.atStart /\ k.err = j.err
        /\ k.queued = "no"
    BY DEF Types, ClientTypes, Jobs
  <2>2. jobs' = (jobs \ {j}) \cup {k}
    BY <1>1, <1>3
  <2> HIDE DEF k
  <2> QED BY <1>1, <1>3, <2>1, <2>2
<1> QED BY <1>2, <1>3

LEMMA BookSignal == \A j \in jobs : Types /\ IdsIssued /\ ReadOnce /\ SignalWake(j) => IdsIssued' /\ ReadOnce'
<1> SUFFICES ASSUME NEW j \in jobs, Types, IdsIssued, ReadOnce, SignalWake(j)
             PROVE  IdsIssued' /\ ReadOnce'
  OBVIOUS
<1>1. /\ Outside' = Outside /\ Unread' = Unread /\ UNCHANGED <<reqCh, down, reqID, epoch, id>>
      /\ \A x \in jobs' : x \in jobs \ {j} \/ (Same(x, j) /\ x.queued = "no")
      /\ \A x, y \in jobs' : Same(x, j) /\ Same(y, j) => x = y
  <2>1. UNCHANGED <<reqCh, down, reqID, epoch, id, respQueue, taken, up>>
    BY SignalStep DEF askVars, serverVars, wireVars, boundVars
  <2>2. \A x \in jobs \ {j} : ~ Same(x, j) /\ ~ Same(j, x)
    BY DEF ReadOnce
  <2>3. /\ \A x \in jobs' : x \in jobs \ {j} \/ (Same(x, j) /\ x.queued = "no")
        /\ \A x, y \in jobs' : Same(x, j) /\ Same(y, j) => x = y
    <3>1. CASE jobs' = jobs \ {j}
      BY <2>2, <3>1
    <3>2. CASE \E k : jobs' = (jobs \ {j}) \cup {k} /\ k.id = j.id /\ k.epoch = j.epoch /\ k.queued = "no"
      BY <2>2, <3>2 DEF Same
    <3> QED BY <3>1, <3>2, SignalStep
  <2> QED BY <2>1, <2>3, OutsideSame DEF Unread
<1>2. IdsIssued'
  <2>1. \A x \in Unread' \cup jobs' \cup Outside' : Issued(x)
    BY <1>1 DEF IdsIssued, Issued, Same
  <2> QED BY <1>1, <2>1 DEF IdsIssued, Issued
<1>3. NoneSame(Unread', jobs' \cup Outside')
  <2>1. ASSUME NEW x \in Unread, NEW y \in jobs' \cup Outside' PROVE ~ Same(x, y)
    <3>1. ~ Same(x, j)
      BY DEF ReadOnce, NoneSame
    <3>2. CASE Same(y, j)
      BY <3>1, <3>2 DEF Same
    <3>3. CASE ~ Same(y, j)
      BY <1>1, <3>3 DEF ReadOnce, NoneSame
    <3> QED BY <3>2, <3>3
  <2> QED BY <1>1, <2>1 DEF NoneSame
<1>4. ASSUME NEW x \in jobs', NEW y \in jobs', Same(x, y) PROVE x = y
  <2>1. CASE Same(x, j) \/ Same(y, j)
    BY <1>1, <1>4, <2>1 DEF Same
  <2>2. CASE ~ Same(x, j) /\ ~ Same(y, j)
    BY <1>1, <1>4, <2>2 DEF ReadOnce
  <2> QED BY <2>1, <2>2
<1>5. \A x \in jobs' : x.queued = "last" => x.lines = {}
  BY <1>1 DEF ReadOnce
<1> QED BY <1>1, <1>2, <1>3, <1>4, <1>5 DEF ReadOnce

(* The ids of the next process start again; no request of it exists yet.   *)
LEMMA BookRestart == Types /\ IdsIssued /\ ReadOnce /\ Restart => IdsIssued' /\ ReadOnce'
<1> SUFFICES ASSUME Types, IdsIssued, ReadOnce, Restart
             PROVE  IdsIssued' /\ ReadOnce'
  OBVIOUS
<1>1. /\ epoch' = epoch + 1 /\ reqID' = 0 /\ epoch \in Nat
      /\ \A c \in Conns : reqCh'[c] = <<>> /\ up'[c] = <<>>
      /\ UNCHANGED <<down, respQueue, taken, jobs>>
      /\ NoFurtherHistory({v \in Viewers : asking[v] # "no"})
  BY DEF Restart, clientVars, Types
<1>2. Outside' \subseteq Outside
  BY <1>1, ElemsEmpty DEF Outside
<1>3. ReadOnce' /\ Unread' \subseteq Unread
  BY <1>1, <1>2, ReadOnceShrinks
<1>4. ASSUME NEW x \in Unread \cup jobs \cup Outside PROVE Issued(x)'
  <2>1. x.epoch \in Nat /\ x.epoch <= epoch
    BY ItemTypes DEF IdsIssued, Issued
  <2>2. x.epoch <= epoch + 1 /\ x.epoch # epoch + 1
    BY <1>1, <2>1
  <2> QED BY <1>1, <2>2 DEF Issued
<1>5. \A v \in Viewers : id'[v] = 0
  BY <1>1 DEF NoFurtherHistory, Forget, Types, AskTypes
<1>6. \A x \in Unread' \cup jobs' \cup Outside' : Issued(x)'
  BY <1>1, <1>2, <1>3, <1>4
<1> QED BY <1>1, <1>3, <1>5, <1>6 DEF IdsIssued

(* Every step keeps the books.                                             *)
LEMMA BookStep == Types /\ IdsIssued /\ ReadOnce /\ [Next]_vars => IdsIssued' /\ ReadOnce'
<1> SUFFICES ASSUME Types, IdsIssued, ReadOnce, [Next]_vars
             PROVE  IdsIssued' /\ ReadOnce'
  OBVIOUS
<1>1. reqID \in Nat
  BY DEF Types, ServerTypes
<1>2. ASSUME NEW v \in Viewers, FindConn(v) \/ Collect(v) \/ Timeout(v) \/ ClearOlder(v)
      PROVE  IdsIssued' /\ ReadOnce'
  <2>1. /\ UNCHANGED <<reqCh, down, jobs, reqID, epoch, respQueue, taken, up>>
        /\ \A u \in Viewers : id'[u] = id[u] \/ id'[u] = 0
    BY <1>2 DEF FindConn, Collect, Timeout, ClearOlder, NoFurtherHistory, Forget, askVars,
                serverVars, wireVars, clientVars, boundVars, Types, AskTypes
  <2>2. Outside' = Outside
    BY <2>1, OutsideSame
  <2> QED BY <1>1, <2>1, <2>2, BookShrinks
<1>3. ASSUME NEW c \in Conns, Accept(c) \/ AddConn(c) \/ RemoveConn(c) \/ BreakConn(c) \/ ReaderEnds(c)
      PROVE  IdsIssued' /\ ReadOnce'
  <2>1. /\ UNCHANGED <<jobs, reqID, epoch, id, respQueue, taken, up>>
        /\ \A d \in Conns : reqCh'[d] = reqCh[d] \/ reqCh'[d] = <<>>
        /\ \A d \in Conns : down'[d] = down[d] \/ down'[d] = <<>>
    BY <1>3 DEF Accept, AddConn, RemoveConn, BreakConn, ReaderEnds, askVars, serverVars, wireVars, clientVars,
                boundVars, Types, ServerTypes, WireTypes
  <2>2. Outside' = Outside
    BY <2>1, OutsideSame
  <2> QED BY <1>1, <2>1, <2>2, BookShrinks
<1>4. ASSUME NEW c \in Conns, HandlerScans(c) \/ HandlerEnds(c)
      PROVE  IdsIssued' /\ ReadOnce'
  <2>1. UNCHANGED <<reqCh, down, jobs, reqID, epoch, id>>
    BY <1>4 DEF HandlerScans, HandlerEnds, askVars, serverVars, clientVars, boundVars
  <2>2. Outside' \subseteq Outside
    BY <1>4, OutsideScans, OutsideEnds
  <2> QED BY <1>1, <2>1, <2>2, BookShrinks
<1>5. ASSUME TakeResps \/ WriteResp \/ WakeUp \/ StreamEnded
      PROVE  IdsIssued' /\ ReadOnce'
  <2>1. UNCHANGED <<reqCh, down, jobs, reqID, epoch, id>>
    BY <1>5 DEF TakeResps, WriteResp, WakeUp, StreamEnded, askVars, serverVars, wireVars, boundVars
  <2>2. WakeUp => Outside' = Outside
    BY OutsideSame DEF WakeUp, wireVars
  <2>3. Outside' \subseteq Outside
    BY <1>5, <2>2, OutsideTake, OutsideWrite, OutsideStream
  <2> QED BY <1>1, <2>1, <2>3, BookShrinks
<1>6. CASE UNCHANGED vars
  <2>1. UNCHANGED <<reqCh, down, jobs, reqID, epoch, id, respQueue, taken, up>>
    BY <1>6 DEF vars, askVars, serverVars, wireVars, clientVars, boundVars
  <2>2. Outside' = Outside
    BY <2>1, OutsideSame
  <2> QED BY <1>1, <2>1, <2>2, BookShrinks
<1> QED BY <1>2, <1>3, <1>4, <1>5, <1>6, IssuedSend, ReadOnceWriter, BookReader, BookQueue, BookSignal, BookRestart
        DEF Next

LEMMA IdleStep == Types /\ Idle /\ [Next]_vars => Idle'
<1> SUFFICES ASSUME Types, Idle, [Next]_vars
             PROVE  Idle'
  OBVIOUS
<1>1. ASSUME UNCHANGED askVars PROVE Idle'
  BY <1>1 DEF Idle, askVars
<1>2. ASSUME NEW S, Forget(S) PROVE Idle'
  BY <1>2 DEF Idle, Forget, Types, AskTypes
<1>3. ASSUME NEW v \in Viewers,
             FindConn(v) \/ SendRequest(v) \/ Collect(v) \/ Timeout(v) \/ ClearOlder(v)
      PROVE  Idle'
  <2>1. CASE \E S : Forget(S)
    BY <1>2, <2>1
  <2>2. CASE UNCHANGED askVars
    BY <1>1, <2>2
  <2>3. CASE /\ \A u \in Viewers \ {v} : /\ asking'[u] = asking[u] /\ got'[u] = got[u]
                                         /\ gotStart'[u] = gotStart[u] /\ chunks'[u] = chunks[u]
             /\ asking'[v] = "waiting" \/ (asking[v] # "waiting" /\ UNCHANGED <<got, gotStart, chunks>>)
    BY <2>3 DEF Idle
  <2> QED BY <1>3, <2>1, <2>2, <2>3
          DEF FindConn, SendRequest, Collect, Timeout, ClearOlder, NoFurtherHistory, Types, AskTypes
<1>4. ASSUME NEW c \in Conns, HandlerScans(c) PROVE Idle'
  <2>1. UNCHANGED <<asking, got, gotStart>>
    BY <1>4 DEF HandlerScans
  <2>2. \A v \in Viewers : chunks'[v] = chunks[v] \/ asking[v] = "waiting"
    BY <1>4 DEF HandlerScans
  <2> QED BY <2>1, <2>2 DEF Idle
<1>5. ASSUME NEW c \in Conns,
             \/ Accept(c) \/ AddConn(c) \/ WriterSends(c) \/ HandlerEnds(c) \/ RemoveConn(c)
             \/ ReaderGets(c) \/ ReaderEnds(c) \/ BreakConn(c)
      PROVE  UNCHANGED askVars
  BY <1>5 DEF Accept, AddConn, WriterSends, HandlerEnds, RemoveConn, ReaderGets, ReaderEnds, BreakConn
<1>6. ASSUME NEW j \in jobs, QueueChunk(j) \/ SignalWake(j) PROVE UNCHANGED askVars
  BY <1>6 DEF QueueChunk, SignalWake
<1>7. ASSUME TakeResps \/ WriteResp \/ WakeUp \/ StreamEnded PROVE UNCHANGED askVars
  BY <1>7 DEF TakeResps, WriteResp, WakeUp, StreamEnded
<1>8. ASSUME Restart PROVE Idle'
  BY <1>2, <1>8 DEF Restart, NoFurtherHistory
<1>9. ASSUME UNCHANGED vars PROVE UNCHANGED askVars
  BY <1>9 DEF vars
<1> QED BY <1>1, <1>3, <1>4, <1>5, <1>6, <1>7, <1>8, <1>9 DEF Next

LEMMA BookNext == Types /\ Book /\ [Next]_vars => Book'
BY BookStep, IdleStep DEF Book

-----------------------------------------------------------------------------
(* What has come of an answer, and what is under way.                      *)

Bears(n, e, x) == x.id = n /\ x.epoch = e

(* Chunks of one request are in order: none comes after a final one.       *)
FinalLast(n, e, s) ==
  \A i, j \in DOMAIN s : i < j /\ Bears(n, e, s[i]) /\ Bears(n, e, s[j]) => ~ s[i].final

None(n, e, S) == \A x \in S : ~ Bears(n, e, x)

Over(n, e, S) == \E x \in S : Bears(n, e, x) /\ x.final

(* So it is along the way from the goroutine to the waiting handler, whose *)
(* channel holds s: respQueue, taken, the connections, s.                  *)
InOrder(n, e, s) ==
  /\ FinalLast(n, e, respQueue) /\ FinalLast(n, e, taken) /\ FinalLast(n, e, s)
  /\ \A c \in Conns : FinalLast(n, e, up[c])
  /\ \A x \in Elems(s) : Bears(n, e, x)
  /\ Over(n, e, Elems(s)) => None(n, e, Outside)
  /\ \A c \in Conns : Over(n, e, Elems(up[c])) => None(n, e, Elems(taken) \cup Elems(respQueue))
  /\ Over(n, e, Elems(taken)) => None(n, e, Elems(respQueue))
  /\ Over(n, e, Elems(s) \cup Outside) => \A j \in jobs : Bears(n, e, j) => j.queued = "last"

(* The chunks and goroutines of a request that are still under way.        *)
Parts(n, e, s) == {x \in Elems(s) \cup Outside \cup jobs : Bears(n, e, x)}

(* The lines that came and those under way are lines of the page, and all  *)
(* of them unless the request was refused.                                 *)
AddUp(page, lines, start, parts) ==
  /\ lines \subseteq page.lines /\ (start => page.atStart)
  /\ \A x \in parts : x.lines \subseteq page.lines /\ (x.atStart => page.atStart)
  /\ (\E x \in parts : ~ x.err) => \A o \in page.lines : o \in lines \/ \E x \in parts : o \in x.lines

(* A request not read yet asks for the page, and nothing has come for it.  *)
Asked(v) ==
  \A q \in Unread : Bears(id[v], epoch, q) =>
    /\ q.viewer = v /\ q.before = before[v]
    /\ chunks[v] = <<>> /\ got[v] = {} /\ gotStart[v] = FALSE

PageOf(v) == ReadLinesBefore(content[v], before[v], PageLines)

Answered(v) ==
  /\ Asked(v)
  /\ AddUp(PageOf(v), got[v], gotStart[v], Parts(id[v], epoch, chunks[v]))
  /\ InOrder(id[v], epoch, chunks[v])

Answers == \A v \in Viewers : asking[v] = "waiting" /\ v \notin spoiled => Answered(v)

AskKept(v) ==
  /\ content' = content /\ epoch' = epoch /\ id'[v] = id[v] /\ before'[v] = before[v]
  /\ got'[v] = got[v] /\ gotStart'[v] = gotStart[v] /\ chunks'[v] = chunks[v]

LEMMA FinalLastEmpty == \A n, e : FinalLast(n, e, <<>>) /\ ~ Over(n, e, Elems(<<>>)) /\ None(n, e, Elems(<<>>))
BY ElemsEmpty DEF FinalLast, Over, None

LEMMA FinalLastAppend ==
  ASSUME NEW n, NEW e, NEW S, NEW s \in Seq(S), NEW x \in S, FinalLast(n, e, s),
         Bears(n, e, x) => ~ Over(n, e, Elems(s))
  PROVE  FinalLast(n, e, Append(s, x))
<1> DEFINE t == Append(s, x)
           m == Len(s) + 1
<1>1. /\ \A i \in DOMAIN t : i \in DOMAIN s \/ i = m
      /\ \A i \in DOMAIN s : t[i] = s[i] /\ ~ (m < i)
      /\ t[m] = x /\ ~ (m < m)
  BY AppendShape
<1> HIDE DEF t, m
<1>2. Bears(n, e, x) => \A i \in DOMAIN s : Bears(n, e, s[i]) => ~ s[i].final
  BY DEF Over, Elems
<1>3. ASSUME NEW i \in DOMAIN t, NEW j \in DOMAIN t, i < j, Bears(n, e, t[i]), Bears(n, e, t[j])
      PROVE  ~ t[i].final
  BY <1>1, <1>2, <1>3 DEF FinalLast
<1> QED BY <1>3 DEF FinalLast, t

LEMMA FinalLastTail ==
  ASSUME NEW n, NEW e, NEW S, NEW s \in Seq(S), s # <<>>, FinalLast(n, e, s)
  PROVE  /\ FinalLast(n, e, Tail(s))
         /\ Bears(n, e, Head(s)) /\ Head(s).final => None(n, e, Elems(Tail(s)))
<1> DEFINE t == Tail(s)
<1>1. /\ \A i \in DOMAIN t : i \in Nat /\ i + 1 \in DOMAIN s /\ t[i] = s[i + 1] /\ 1 < i + 1
      /\ 1 \in DOMAIN s /\ Head(s) = s[1]
  OBVIOUS
<1> HIDE DEF t
<1>2. ASSUME NEW i \in DOMAIN t, NEW j \in DOMAIN t, i < j, Bears(n, e, t[i]), Bears(n, e, t[j])
      PROVE  ~ t[i].final
  <2>1. i + 1 < j + 1
    BY <1>1, <1>2
  <2> QED BY <1>1, <1>2, <2>1 DEF FinalLast
<1>3. FinalLast(n, e, t)
  BY <1>2 DEF FinalLast
<1>4. ASSUME Bears(n, e, Head(s)), Head(s).final, NEW i \in DOMAIN t PROVE ~ Bears(n, e, t[i])
  BY <1>1, <1>4 DEF FinalLast
<1>5. Bears(n, e, Head(s)) /\ Head(s).final => None(n, e, Elems(t))
  BY <1>4 DEF None, Elems
<1> QED BY <1>3, <1>5 DEF t

(* Lists that lose elements.                                               *)
LEMMA NoneOver ==
  ASSUME NEW n, NEW e, NEW S, NEW T, S \subseteq T
  PROVE  (None(n, e, T) => None(n, e, S)) /\ (Over(n, e, S) => Over(n, e, T))
BY DEF None, Over

LEMMA NoneSameBears ==
  ASSUME NEW n, NEW e, NEW S, NEW T, NoneSame(S, T), NEW x \in S, Bears(n, e, x)
  PROVE  None(n, e, T)
BY DEF NoneSame, None, Same, Bears

(* Steps that leave a request and what is under way for it alone.          *)
LEMMA AnsweredFrame ==
  ASSUME NEW v \in Viewers, Answered(v), AskKept(v), UNCHANGED <<respQueue, taken, up, jobs>>,
         \A q \in Unread' : Bears(id[v], epoch, q) => q \in Unread
  PROVE  Answered(v)'
<1>1. Asked(v)'
  BY DEF Answered, Asked, AskKept
<1>2. PageOf(v)' = PageOf(v)
  BY DEF PageOf, AskKept
<1>3. Parts(id[v], epoch, chunks[v])' = Parts(id[v], epoch, chunks[v])
  BY OutsideSame DEF Parts, AskKept
<1>4. InOrder(id[v], epoch, chunks[v])'
  BY OutsideSame DEF Answered, InOrder, AskKept
<1> QED BY <1>1, <1>2, <1>3, <1>4 DEF Answered, AskKept

LEMMA ForgetOthers ==
  ASSUME Types, NEW v \in Viewers, Forget({v})
  PROVE  /\ asking'[v] = "no"
         /\ \A u \in Viewers \ {v} :
              /\ asking'[u] = asking[u] /\ id'[u] = id[u] /\ before'[u] = before[u]
              /\ got'[u] = got[u] /\ gotStart'[u] = gotStart[u] /\ chunks'[u] = chunks[u]
BY DEF Forget, Types, AskTypes

(* The page's own steps.                                                   *)
LEMMA AnswersFindConn == \A v \in Viewers : Types /\ Answers /\ FindConn(v) => Answers'
<1> SUFFICES ASSUME NEW v \in Viewers, Types, Answers, FindConn(v),
                    NEW u \in Viewers, asking'[u] = "waiting", u \notin spoiled'
             PROVE  Answered(u)'
  BY DEF Answers
<1>1. /\ UNCHANGED <<content, epoch, reqCh, down, respQueue, taken, up, jobs, spoiled>>
      /\ asking'[v] # "waiting"
      /\ u # v => /\ asking'[u] = asking[u] /\ id'[u] = id[u] /\ before'[u] = before[u]
                  /\ got'[u] = got[u] /\ gotStart'[u] = gotStart[u] /\ chunks'[u] = chunks[u]
  BY DEF FindConn, NoFurtherHistory, Forget, serverVars, wireVars, clientVars, historyVars, boundVars,
         Types, AskTypes
<1>2. AskKept(u) /\ Answered(u)
  BY <1>1 DEF AskKept, Answers
<1>3. Unread' = Unread
  BY <1>1 DEF Unread
<1> QED BY <1>1, <1>2, <1>3, AnsweredFrame

LEMMA AnswersTimeout == \A v \in Viewers : Types /\ Answers /\ Timeout(v) => Answers'
<1> SUFFICES ASSUME NEW v \in Viewers, Types, Answers, Timeout(v),
                    NEW u \in Viewers, asking'[u] = "waiting", u \notin spoiled'
             PROVE  Answered(u)'
  BY DEF Answers
<1>1. /\ UNCHANGED <<content, epoch, reqCh, down, respQueue, taken, up, jobs, spoiled>>
      /\ asking'[v] # "waiting"
      /\ u # v => /\ asking'[u] = asking[u] /\ id'[u] = id[u] /\ before'[u] = before[u]
                  /\ got'[u] = got[u] /\ gotStart'[u] = gotStart[u] /\ chunks'[u] = chunks[u]
  BY DEF Timeout, NoFurtherHistory, Forget, serverVars, wireVars, clientVars, historyVars, boundVars,
         Types, AskTypes
<1>2. AskKept(u) /\ Answered(u)
  BY <1>1 DEF AskKept, Answers
<1>3. Unread' = Unread
  BY <1>1 DEF Unread
<1> QED BY <1>1, <1>2, <1>3, AnsweredFrame

(* A request gets an id that nothing under way bears.                      *)
LEMMA AnswersSend == \A v \in Viewers : Types /\ Book /\ Answers /\ SendRequest(v) => Answers'
<1> SUFFICES ASSUME NEW v \in Viewers, Types, Book, Answers, SendRequest(v),
                    NEW u \in Viewers, asking'[u] = "waiting", u \notin spoiled'
             PROVE  Answered(u)'
  BY DEF Answers
<1>0. PICK q : q = [id |-> reqID', epoch |-> epoch, viewer |-> v, before |-> before[v]]
  OBVIOUS
<1>1. /\ UNCHANGED <<content, epoch, down, respQueue, taken, up, jobs>>
      /\ spoiled' = spoiled \ {v} /\ reqID' = reqID + 1 /\ reqID \in Nat
      /\ q.id = reqID + 1 /\ q.epoch = epoch /\ q.viewer = v /\ q.before = before[v]
  BY <1>0 DEF SendRequest, wireVars, clientVars, boundVars, Types, ServerTypes
<1>2. u # v => /\ asking'[u] = asking[u] /\ id'[u] = id[u] /\ before'[u] = before[u]
               /\ got'[u] = got[u] /\ gotStart'[u] = gotStart[u] /\ chunks'[u] = chunks[u]
  <2>1. CASE Forget({v})
    BY <2>1, ForgetOthers
  <2>2. CASE /\ asking' = [asking EXCEPT ![v] = "waiting"]
             /\ id' = [id EXCEPT ![v] = reqID']
             /\ UNCHANGED <<before, got, gotStart, chunks>>
    BY <2>2 DEF Types, AskTypes
  <2> QED BY <2>1, <2>2 DEF SendRequest, NoFurtherHistory
<1>3. Unread' \subseteq Unread \cup {q}
  <2>1. CASE reqCh' = reqCh
    BY <1>1, <2>1 DEF Unread
  <2>2. CASE reqCh' = [reqCh EXCEPT ![via[v]] = Append(@, q)]
    <3>1. q \in Requests
      BY <1>0, <1>1 DEF Types, AskTypes, Requests
    <3>2. ASSUME NEW c \in Conns PROVE Elems(reqCh'[c]) \subseteq Elems(reqCh[c]) \cup {q}
      <4>1. reqCh[c] \in Seq(Requests)
        BY DEF Types, ServerTypes
      <4>2. Elems(Append(reqCh[c], q)) = Elems(reqCh[c]) \cup {q}
        BY <3>1, <4>1, ElemsAppend
      <4>3. reqCh'[c] = reqCh[c] \/ reqCh'[c] = Append(reqCh[c], q)
        BY <2>2 DEF Types, ServerTypes
      <4> QED BY <4>2, <4>3
    <3> QED BY <1>1, <3>2 DEF Unread
  <2> QED BY <1>0, <2>1, <2>2 DEF SendRequest
<1>4. ASSUME NEW x \in Unread \cup jobs \cup Outside PROVE ~ Bears(reqID + 1, epoch, x)
  <2>1. x.id \in Nat /\ (x.epoch = epoch => x.id <= reqID)
    BY ItemTypes DEF Book, IdsIssued, Issued
  <2> QED BY <1>1, <2>1 DEF Bears
<1>5. CASE u # v
  <2>1. AskKept(u) /\ Answered(u)
    BY <1>1, <1>2, <1>5 DEF AskKept, Answers
  <2>2. id[u] \in Nat /\ id[u] <= reqID
    BY DEF Types, AskTypes, Book, IdsIssued
  <2>3. ~ Bears(id[u], epoch, q)
    BY <1>1, <2>2 DEF Bears
  <2> QED BY <1>1, <1>3, <2>1, <2>3, AnsweredFrame
<1>6. CASE u = v
  <2>1. /\ asking[v] = "routed"
        /\ id'[v] = reqID + 1 /\ UNCHANGED <<before, got, gotStart, chunks>>
    BY <1>1, <1>6 DEF SendRequest, NoFurtherHistory, Forget, Types, AskTypes
  <2>2. chunks[v] = <<>> /\ got[v] = {} /\ gotStart[v] = FALSE
    BY <2>1 DEF Book, Idle
  <2>3. Asked(v)'
    BY <1>1, <1>3, <1>4, <2>1, <2>2 DEF Asked
  <2>4. Outside' = Outside
    BY <1>1, OutsideSame
  <2>5. Parts(id[v], epoch, chunks[v])' = {}
    BY <1>1, <1>4, <2>1, <2>2, <2>4, ElemsEmpty DEF Parts
  <2>6. AddUp(PageOf(v), got[v], gotStart[v], Parts(id[v], epoch, chunks[v]))'
    BY <2>1, <2>2, <2>5 DEF AddUp
  <2>7. InOrder(reqID + 1, epoch, <<>>)
    <3>1. /\ Elems(respQueue) \subseteq Outside /\ Elems(taken) \subseteq Outside
          /\ \A c \in Conns : Elems(up[c]) \subseteq Outside
      BY DEF Outside
    <3>2. ASSUME NEW s, Elems(s) \subseteq Outside
          PROVE  FinalLast(reqID + 1, epoch, s) /\ ~ Over(reqID + 1, epoch, Elems(s))
      BY <1>4, <3>2 DEF FinalLast, Over, Elems
    <3>3. ~ Over(reqID + 1, epoch, Outside) /\ ~ Over(reqID + 1, epoch, Elems(<<>>) \cup Outside)
      BY <1>4, ElemsEmpty DEF Over
    <3> QED BY <3>1, <3>2, <3>3, FinalLastEmpty, ElemsEmpty DEF InOrder
  <2>8. InOrder(id[v], epoch, chunks[v])'
    BY <1>1, <2>1, <2>2, <2>4, <2>7 DEF InOrder
  <2> QED BY <1>6, <2>3, <2>6, <2>8 DEF Answered
<1> QED BY <1>5, <1>6

(* A chunk that is not the last joins the lines that came.                 *)
LEMMA AnswersCollect == \A v \in Viewers : Types /\ Book /\ Answers /\ Collect(v) => Answers'
<1> SUFFICES ASSUME NEW v \in Viewers, Types, Book, Answers, Collect(v),
                    NEW u \in Viewers, asking'[u] = "waiting", u \notin spoiled'
             PROVE  Answered(u)'
  BY DEF Answers
<1> DEFINE r == Head(chunks[v])
<1>1. /\ UNCHANGED <<content, epoch, reqCh, down, respQueue, taken, up, jobs, spoiled>>
      /\ chunks[v] # <<>> /\ asking[v] = "waiting"
      /\ u # v => /\ asking'[u] = asking[u] /\ id'[u] = id[u] /\ before'[u] = before[u]
                  /\ got'[u] = got[u] /\ gotStart'[u] = gotStart[u] /\ chunks'[u] = chunks[u]
  <2>1. /\ UNCHANGED <<content, epoch, reqCh, down, respQueue, taken, up, jobs, spoiled>>
        /\ chunks[v] # <<>> /\ asking[v] = "waiting"
    BY DEF Collect, serverVars, wireVars, clientVars, boundVars
  <2>2. CASE Forget({v})
    BY <2>1, <2>2, ForgetOthers
  <2>3. CASE /\ \E y : got' = [got EXCEPT ![v] = y]
             /\ \E y : gotStart' = [gotStart EXCEPT ![v] = y]
             /\ chunks' = [chunks EXCEPT ![v] = Tail(@)]
             /\ UNCHANGED <<asking, before, id>>
    BY <2>1, <2>3 DEF Types, AskTypes
  <2> QED BY <2>2, <2>3 DEF Collect, NoFurtherHistory
<1>2. Unread' = Unread /\ Outside' = Outside
  BY <1>1, OutsideSame DEF Unread
<1>3. CASE u # v
  <2>1. AskKept(u) /\ Answered(u)
    BY <1>1, <1>3 DEF AskKept, Answers
  <2> QED BY <1>1, <1>2, <2>1, AnsweredFrame
<1>4. CASE u = v
  <2>1. /\ got'[v] = got[v] \cup r.lines /\ gotStart'[v] = (gotStart[v] \/ r.atStart)
        /\ chunks'[v] = Tail(chunks[v]) /\ UNCHANGED <<before, id>>
    BY <1>4 DEF Collect, NoFurtherHistory, Forget, Types, AskTypes
  <2>2. Answered(v)
    BY <1>1, <1>4 DEF Answers
  <2>3. chunks[v] \in Seq(Chunks) /\ Elems(chunks[v]) = Elems(Tail(chunks[v])) \cup {r}
    BY <1>1, ElemsTail DEF Types, AskTypes
  <2> HIDE DEF r
  <2>4. PICK n, e, s, t, page : /\ n = id[v] /\ e = epoch /\ s = chunks[v] /\ t = Tail(chunks[v])
                                /\ page = PageOf(v)
    OBVIOUS
  <2>5. Asked(v)'
    BY <1>1, <1>2, <2>1, <2>2 DEF Answered, Asked
  <2>6. /\ AddUp(page, got[v], gotStart[v], Parts(n, e, s)) /\ InOrder(n, e, s)
        /\ s \in Seq(Chunks) /\ s # <<>> /\ t = Tail(s) /\ Elems(s) = Elems(t) \cup {r} /\ r = Head(s)
    BY <1>1, <2>2, <2>3, <2>4 DEF Answered, r
  <2>7. Bears(n, e, r)
    BY <2>6 DEF InOrder
  <2>8. r \in Parts(n, e, s) /\ Parts(n, e, t) \subseteq Parts(n, e, s)
        /\ Parts(n, e, s) \subseteq Parts(n, e, t) \cup {r}
    BY <2>6, <2>7 DEF Parts
  <2>9. AddUp(page, got[v] \cup r.lines, gotStart[v] \/ r.atStart, Parts(n, e, t))
    BY <2>6, <2>8 DEF AddUp
  <2>10. InOrder(n, e, t)
    <3>1. FinalLast(n, e, t)
      BY <2>6, FinalLastTail DEF InOrder
    <3>2. /\ Over(n, e, Elems(t)) => Over(n, e, Elems(s))
          /\ Over(n, e, Elems(t) \cup Outside) => Over(n, e, Elems(s) \cup Outside)
      BY <2>6, NoneOver
    <3> QED BY <2>6, <3>1, <3>2 DEF InOrder
  <2>11. PageOf(v)' = page /\ Parts(n, e, t)' = Parts(n, e, t)
    BY <1>1, <1>2, <2>1, <2>4 DEF PageOf, Parts
  <2>12. InOrder(n, e, t)'
    BY <1>1, <1>2, <2>10 DEF InOrder
  <2>13. id'[v] = n /\ epoch' = e /\ chunks'[v] = t
    BY <1>1, <2>1, <2>4
  <2>14. AddUp(PageOf(v), got[v], gotStart[v], Parts(id[v], epoch, chunks[v]))'
    BY <2>1, <2>9, <2>11, <2>13
  <2>15. InOrder(id[v], epoch, chunks[v])'
    BY <2>12, <2>13
  <2> QED BY <1>4, <2>5, <2>14, <2>15 DEF Answered
<1> QED BY <1>3, <1>4

(* Steps that touch neither the waiting requests nor their answers.        *)
LEMMA AnswersOthers ==
  ASSUME Types, Answers, UNCHANGED <<content, askVars, epoch, spoiled, respQueue, taken, up, jobs>>,
         Unread' \subseteq Unread
  PROVE  Answers'
<1> SUFFICES ASSUME NEW u \in Viewers, asking'[u] = "waiting", u \notin spoiled'
             PROVE  Answered(u)'
  BY DEF Answers
<1>1. AskKept(u) /\ Answered(u)
  BY DEF askVars, AskKept, Answers
<1> QED BY <1>1, AnsweredFrame

LEMMA AnswersQuiet ==
  Types /\ Book /\ Answers
    /\ (\/ \E v \in Viewers : ClearOlder(v)
        \/ \E c \in Conns : Accept(c) \/ AddConn(c) \/ WriterSends(c) \/ RemoveConn(c) \/ ReaderEnds(c) \/ BreakConn(c)
        \/ WakeUp \/ UNCHANGED vars)
  => Answers'
<1> SUFFICES ASSUME Types, Book, Answers
             PROVE  (\/ \E v \in Viewers : ClearOlder(v)
                     \/ \E c \in Conns : \/ Accept(c) \/ AddConn(c) \/ WriterSends(c) \/ RemoveConn(c)
                                         \/ ReaderEnds(c) \/ BreakConn(c)
                     \/ WakeUp \/ UNCHANGED vars)
                    => Answers'
  OBVIOUS
<1>1. ASSUME NEW v \in Viewers, ClearOlder(v) PROVE Answers'
  <2>1. UNCHANGED <<content, askVars, epoch, spoiled, respQueue, taken, up, jobs, reqCh, down>>
    BY <1>1 DEF ClearOlder, serverVars, wireVars, clientVars
  <2>2. Unread' = Unread
    BY <2>1 DEF Unread
  <2> QED BY <2>1, <2>2, AnswersOthers
<1>2. ASSUME NEW c \in Conns, Accept(c) \/ AddConn(c) \/ RemoveConn(c) \/ ReaderEnds(c) \/ BreakConn(c)
      PROVE  Answers'
  <2>1. /\ UNCHANGED <<content, askVars, epoch, spoiled, respQueue, taken, up, jobs>>
        /\ \A d \in Conns : reqCh'[d] = reqCh[d] \/ reqCh'[d] = <<>>
        /\ \A d \in Conns : down'[d] = down[d] \/ down'[d] = <<>>
    BY <1>2 DEF Accept, AddConn, RemoveConn, BreakConn, ReaderEnds, serverVars, wireVars, clientVars,
                historyVars, boundVars, Types, ServerTypes, WireTypes
  <2>2. \A d \in Conns : Elems(reqCh'[d]) \subseteq Elems(reqCh[d]) /\ Elems(down'[d]) \subseteq Elems(down[d])
    BY <2>1, ElemsEmpty
  <2>3. Unread' \subseteq Unread
    BY <2>2 DEF Unread
  <2> QED BY <2>1, <2>3, AnswersOthers
<1>3. ASSUME NEW c \in Conns, WriterSends(c) PROVE Answers'
  <2>1. UNCHANGED <<content, askVars, epoch, spoiled, respQueue, taken, up, jobs>>
    BY <1>3 DEF WriterSends, clientVars, historyVars, boundVars
  <2>2. Unread' = Unread
    BY <1>3, WriterMoves
  <2> QED BY <2>1, <2>2, AnswersOthers
<1>4. ASSUME WakeUp PROVE Answers'
  <2>1. UNCHANGED <<content, askVars, epoch, spoiled, respQueue, taken, up, jobs, reqCh, down>>
    BY <1>4 DEF WakeUp, serverVars, wireVars, historyVars, boundVars
  <2>2. Unread' = Unread
    BY <2>1 DEF Unread
  <2> QED BY <2>1, <2>2, AnswersOthers
<1>5. ASSUME UNCHANGED vars PROVE Answers'
  <2>1. UNCHANGED <<content, askVars, epoch, spoiled, respQueue, taken, up, jobs, reqCh, down>>
    BY <1>5 DEF vars, serverVars, wireVars, clientVars, historyVars, boundVars
  <2>2. Unread' = Unread
    BY <2>1 DEF Unread
  <2> QED BY <2>1, <2>2, AnswersOthers
<1> QED BY <1>1, <1>2, <1>3, <1>4, <1>5

(* Nobody of the next process waits yet.                                   *)
LEMMA AnswersRestart == Types /\ Restart => Answers'
<1> SUFFICES ASSUME Types, Restart
             PROVE  Answers'
  OBVIOUS
<1>1. \A v \in Viewers : asking'[v] = "no"
  BY DEF Restart, NoFurtherHistory, Forget, Types, AskTypes
<1> QED BY <1>1 DEF Answers

(* A chunk reaches the channel of the request whose id it bears.           *)
LEMMA AnswersScan == \A c \in Conns : Types /\ Book /\ Answers /\ HandlerScans(c) => Answers'
<1> SUFFICES ASSUME NEW c \in Conns, Types, Book, Answers, HandlerScans(c),
                    NEW u \in Viewers, asking'[u] = "waiting", u \notin spoiled'
             PROVE  Answered(u)'
  BY DEF Answers
<1>0. PICK r : r = Head(up[c])
  OBVIOUS
<1>1. /\ UNCHANGED <<content, asking, before, id, got, gotStart, epoch, reqCh, down, respQueue, taken, jobs>>
      /\ spoiled \subseteq spoiled'
  BY DEF HandlerScans, serverVars, clientVars, boundVars
<1>2. /\ up[c] # <<>> /\ r \in Elems(up[c]) /\ r \in Outside
      /\ Elems(up[c]) = Elems(up'[c]) \cup {r}
      /\ up'[c] = Tail(up[c]) /\ up[c] \in Seq(Chunks) /\ r \in Chunks
      /\ \A d \in Conns \ {c} : up'[d] = up[d]
      /\ Outside' \subseteq Outside
  <2>1. up[c] \in Seq(Chunks)
    BY DEF Types, WireTypes
  <2>2. r \in Chunks
    BY <1>0, <2>1, OutsideScans, TailType
  <2> QED BY <1>0, <2>1, <2>2, OutsideScans
<1>3. Outside \subseteq Outside' \cup {r}
  <2>1. \A d \in Conns : Elems(up[d]) \subseteq Elems(up'[d]) \cup {r}
    BY <1>2
  <2> QED BY <1>1, <2>1 DEF Outside
<1>4. Unread' = Unread
  BY <1>1 DEF Unread
<1>5. Answered(u) /\ asking[u] = "waiting"
  BY <1>1 DEF Answers
<1>6. PICK n, e, s : n = id[u] /\ e = epoch /\ s = chunks[u]
  OBVIOUS
<1>7. /\ AddUp(PageOf(u), got[u], gotStart[u], Parts(n, e, s)) /\ InOrder(n, e, s) /\ s \in Seq(Chunks)
  BY <1>5, <1>6 DEF Answered, Types, AskTypes
<1>8. PageOf(u)' = PageOf(u)
  BY <1>1 DEF PageOf
<1>9. \A d \in Conns : Over(n, e, Elems(up'[d])) => Over(n, e, Elems(up[d]))
  BY <1>2 DEF Over
<1>10. \A d \in Conns : FinalLast(n, e, up'[d])
  BY <1>2, <1>7, FinalLastTail DEF InOrder
<1>11. CASE ~ Bears(n, e, r)
  <2>1. chunks'[u] = s
    <3>1. id[u] # r.id \/ r.epoch # epoch
      BY <1>6, <1>11 DEF Bears
    <3>2. CASE id[u] # r.id
      BY <1>0, <1>6, <3>2 DEF HandlerScans
    <3>3. CASE id[u] = r.id /\ r.epoch # epoch
      <4>1. u \in spoiled'
        BY <1>0, <1>5, <3>3 DEF HandlerScans
      <4> QED BY <4>1
    <3> QED BY <3>1, <3>2, <3>3
  <2>2. Asked(u)'
    BY <1>1, <1>4, <1>5, <1>6, <2>1 DEF Answered, Asked
  <2>3. Parts(n, e, s)' = Parts(n, e, s)
    BY <1>1, <1>2, <1>3, <1>11 DEF Parts
  <2>4. InOrder(n, e, s)'
    BY <1>1, <1>2, <1>7, <1>9, <1>10, NoneOver DEF InOrder, None, Over
  <2> QED BY <1>1, <1>6, <1>7, <1>8, <2>1, <2>2, <2>3, <2>4 DEF Answered
<1>12. CASE Bears(n, e, r)
  <2>1. chunks'[u] = Append(s, r)
    <3>1. asking[u] = "waiting" /\ id[u] = r.id
      BY <1>5, <1>6, <1>12 DEF Bears
    <3>2. CASE Len(chunks[u]) < ChunkQueue
      BY <1>0, <1>6, <3>1, <3>2 DEF HandlerScans
    <3>3. CASE ~ (Len(chunks[u]) < ChunkQueue)
      <4>1. u \in spoiled'
        BY <1>0, <3>1, <3>3 DEF HandlerScans
      <4> QED BY <4>1
    <3> QED BY <3>2, <3>3
  <2>2. \A d \in Conns \ {c} : None(n, e, Elems(up[d]))
    <3> SUFFICES ASSUME NEW d \in Conns \ {c}, NEW x \in Elems(up[d]), Bears(n, e, x)
                 PROVE  FALSE
      BY DEF None
    <3>1. x.id = id[u] /\ x.epoch = epoch
      BY <1>6 DEF Bears
    <3>2. x \in {up[d][i] : i \in DOMAIN up[d]}
      BY DEF Elems
    <3>3. u \in Losing({up[d][i] : i \in DOMAIN up[d]})
      BY <1>5, <3>1, <3>2 DEF Losing
    <3>4. u \in UNION {Losing({up[k][i] : i \in DOMAIN up[k]}) : k \in Conns \ {c}}
      BY <3>3
    <3>5. asking[u] = "waiting" /\ id[u] = r.id
      BY <1>5, <1>6, <1>12 DEF Bears
    <3>6. u \in spoiled'
      BY <1>0, <3>4, <3>5 DEF HandlerScans
    <3> QED BY <3>6
  <2>3. NoneSame(Unread, Outside)
    BY DEF Book, ReadOnce, NoneSame
  <2>4. None(n, e, Unread)
    BY <1>2, <1>12, <2>3 DEF NoneSame, None, Same, Bears
  <2>5. Asked(u)'
    BY <1>1, <1>4, <1>6, <2>4 DEF None, Asked
  <2>6. PICK t : t = Append(s, r)
    OBVIOUS
  <2>7. Elems(t) = Elems(s) \cup {r}
    BY <1>2, <1>7, <2>6, ElemsAppend
  <2>8. Parts(n, e, t)' = Parts(n, e, s)
    BY <1>1, <1>2, <1>3, <2>7 DEF Parts
  <2>9. ~ Over(n, e, Elems(s))
    BY <1>2, <1>7, <1>12 DEF InOrder, None
  <2>10. FinalLast(n, e, t)
    BY <1>2, <1>7, <2>6, <2>9, FinalLastAppend DEF InOrder
  <2>11. r.final => None(n, e, Outside')
    <3> SUFFICES ASSUME r.final PROVE None(n, e, Outside')
      OBVIOUS
    <3>1. None(n, e, Elems(up'[c]))
      BY <1>0, <1>2, <1>7, <1>12, FinalLastTail DEF InOrder
    <3>2. Over(n, e, Elems(up[c]))
      BY <1>2, <1>12 DEF Over
    <3>3. None(n, e, Elems(taken) \cup Elems(respQueue))
      BY <1>7, <3>2 DEF InOrder
    <3>4. \A d \in Conns : None(n, e, Elems(up'[d]))
      BY <1>2, <2>2, <3>1
    <3> QED BY <1>1, <3>3, <3>4 DEF Outside, None
  <2>12. InOrder(n, e, t)'
    <3>1. Over(n, e, Elems(t)) => r.final
      BY <2>7, <2>9 DEF Over
    <3>2. Over(n, e, Elems(t) \cup Outside') => Over(n, e, Elems(s) \cup Outside)
      BY <1>2, <2>7 DEF Over
    <3>3. \A x \in Elems(t) : Bears(n, e, x)
      BY <1>7, <1>12, <2>7 DEF InOrder
    <3> QED BY <1>1, <1>7, <1>9, <1>10, <2>10, <2>11, <3>1, <3>2, <3>3 DEF InOrder
  <2> QED BY <1>1, <1>6, <1>7, <1>8, <2>1, <2>5, <2>6, <2>8, <2>12 DEF Answered
<1> QED BY <1>11, <1>12

(* Chunks that are lost bear no id of a request which still counts on them.*)
LEMMA LosingNone ==
  ASSUME NEW s, NEW u \in Viewers, asking[u] = "waiting", u \notin Losing({s[i] : i \in DOMAIN s})
  PROVE  None(id[u], epoch, Elems(s))
BY DEF Losing, None, Elems, Bears

LEMMA AnswersLose == \A c \in Conns : Types /\ Answers /\ (HandlerEnds(c) \/ StreamEnded) => Answers'
<1> SUFFICES ASSUME NEW c \in Conns, Types, Answers, HandlerEnds(c) \/ StreamEnded,
                    NEW u \in Viewers, asking'[u] = "waiting", u \notin spoiled'
             PROVE  Answered(u)'
  BY DEF Answers
<1>1. /\ UNCHANGED <<content, askVars, epoch, reqCh, down, respQueue, jobs>> /\ spoiled \subseteq spoiled'
      /\ HandlerEnds(c) => taken' = taken
  BY DEF HandlerEnds, StreamEnded, serverVars, wireVars, clientVars, boundVars
<1>2. Answered(u) /\ asking[u] = "waiting" /\ UNCHANGED <<asking, before, id, got, gotStart, chunks>>
  BY <1>1 DEF Answers, askVars
<1>3. PICK n, e, s : n = id[u] /\ e = epoch /\ s = chunks[u]
  OBVIOUS
<1>4. AddUp(PageOf(u), got[u], gotStart[u], Parts(n, e, s)) /\ InOrder(n, e, s)
  BY <1>2, <1>3 DEF Answered
<1>5. /\ \A d \in Conns : up'[d] = up[d] \/ (up'[d] = <<>> /\ None(n, e, Elems(up[d])))
      /\ taken' = taken \/ (taken' = <<>> /\ None(n, e, Elems(taken)))
  <2>1. CASE HandlerEnds(c)
    <3>1. u \notin Losing({up[c][i] : i \in DOMAIN up[c]})
      BY <2>1 DEF HandlerEnds
    <3>2. None(n, e, Elems(up[c]))
      BY <1>2, <1>3, <3>1, LosingNone
    <3> QED BY <1>1, <2>1, <3>2, OutsideEnds
  <2>2. CASE StreamEnded
    <3>1. u \notin Losing({taken[i] : i \in DOMAIN taken})
      BY <2>2 DEF StreamEnded
    <3>2. None(n, e, Elems(taken))
      BY <1>2, <1>3, <3>1, LosingNone
    <3> QED BY <2>2, <3>2, OutsideStream
  <2> QED BY <2>1, <2>2
<1>6. Unread' = Unread
  BY <1>1 DEF Unread
<1>7. Asked(u)'
  BY <1>1, <1>2, <1>6 DEF Answered, Asked
<1>8. /\ \A d \in Conns : Elems(up'[d]) \subseteq Elems(up[d]) /\ FinalLast(n, e, up'[d])
      /\ Elems(taken') \subseteq Elems(taken) /\ FinalLast(n, e, taken')
  BY <1>4, <1>5, ElemsEmpty, FinalLastEmpty DEF InOrder
<1>9. Outside' \subseteq Outside
  BY <1>1, <1>8 DEF Outside
<1>10. \A x \in Outside : Bears(n, e, x) => x \in Outside'
  BY <1>1, <1>5 DEF Outside, None
<1>11. Parts(n, e, s)' = Parts(n, e, s)
  BY <1>1, <1>9, <1>10 DEF Parts
<1>12. InOrder(n, e, s)'
  <2>1. Over(n, e, Elems(s)) => None(n, e, Outside')
    BY <1>4, <1>9 DEF InOrder, None
  <2>2. \A d \in Conns : Over(n, e, Elems(up'[d])) => None(n, e, Elems(taken') \cup Elems(respQueue'))
    BY <1>1, <1>4, <1>8 DEF InOrder, None, Over
  <2>3. Over(n, e, Elems(taken')) => None(n, e, Elems(respQueue'))
    BY <1>1, <1>4, <1>8 DEF InOrder, None, Over
  <2>4. Over(n, e, Elems(s) \cup Outside') => Over(n, e, Elems(s) \cup Outside)
    BY <1>9 DEF Over
  <2> QED BY <1>1, <1>4, <1>8, <2>1, <2>2, <2>3, <2>4 DEF InOrder
<1>13. PageOf(u)' = PageOf(u)
  BY <1>1, <1>2 DEF PageOf
<1> QED BY <1>1, <1>2, <1>3, <1>4, <1>7, <1>11, <1>12, <1>13 DEF Answered

(* The pump moves chunks on in their order.                                *)
LEMMA AnswersMove == Types /\ Answers /\ (TakeResps \/ WriteResp) => Answers'
<1> SUFFICES ASSUME Types, Answers, TakeResps \/ WriteResp,
                    NEW u \in Viewers, asking'[u] = "waiting", u \notin spoiled'
             PROVE  Answered(u)'
  BY DEF Answers
<1>1. UNCHANGED <<content, askVars, epoch, reqCh, down, jobs, spoiled>>
  BY DEF TakeResps, WriteResp, serverVars, wireVars, historyVars, boundVars
<1>2. Answered(u) /\ asking[u] = "waiting" /\ UNCHANGED <<asking, before, id, got, gotStart, chunks>>
  BY <1>1 DEF Answers, askVars
<1>3. PICK n, e, s : n = id[u] /\ e = epoch /\ s = chunks[u]
  OBVIOUS
<1>4. AddUp(PageOf(u), got[u], gotStart[u], Parts(n, e, s)) /\ InOrder(n, e, s)
  BY <1>2, <1>3 DEF Answered
<1>5. Outside' = Outside
  BY OutsideTake, OutsideWrite
<1>6. Unread' = Unread
  BY <1>1 DEF Unread
<1>7. Asked(u)'
  BY <1>1, <1>2, <1>6 DEF Answered, Asked
<1>8. Parts(n, e, s)' = Parts(n, e, s) /\ PageOf(u)' = PageOf(u)
  BY <1>1, <1>2, <1>5 DEF Parts, PageOf
<1>9. InOrder(n, e, s)'
  <2>1. CASE TakeResps
    <3>1. taken = <<>> /\ taken' = respQueue /\ respQueue' = <<>> /\ up' = up
      BY <2>1, OutsideTake
    <3>2. Elems(taken) \cup Elems(respQueue) = Elems(taken') \cup Elems(respQueue')
      BY <3>1, ElemsEmpty
    <3>3. None(n, e, Elems(respQueue')) /\ FinalLast(n, e, respQueue')
      BY <3>1, FinalLastEmpty
    <3> QED BY <1>1, <1>4, <1>5, <3>1, <3>2, <3>3 DEF InOrder
  <2>2. CASE WriteResp
    <3>0. PICK h : h = Head(taken)
      OBVIOUS
    <3>1. /\ taken # <<>> /\ taken \in Seq(Chunks) /\ taken' = Tail(taken)
          /\ Elems(taken) = Elems(taken') \cup {h} /\ h \in Chunks
          /\ current \in Conns /\ up[current] \in Seq(Chunks) /\ up'[current] = Append(up[current], h)
          /\ Elems(up'[current]) = Elems(up[current]) \cup {h}
          /\ \A d \in Conns \ {current} : up'[d] = up[d]
          /\ respQueue' = respQueue
      <4>1. taken # <<>> /\ taken \in Seq(Chunks) /\ current \in Conns
        BY <2>2, OutsideWrite
      <4>2. h \in Chunks
        BY <3>0, <4>1, TailType
      <4>3. up[current] \in Seq(Chunks)
        BY <4>1 DEF Types, WireTypes
      <4> QED BY <2>2, <3>0, <4>2, <4>3, OutsideWrite
    <3>2. FinalLast(n, e, taken') /\ (Bears(n, e, h) /\ h.final => None(n, e, Elems(taken')))
      BY <1>4, <3>0, <3>1, FinalLastTail DEF InOrder
    <3>3. Bears(n, e, h) => ~ Over(n, e, Elems(up[current]))
      BY <1>4, <3>1 DEF InOrder, None
    <3>4. FinalLast(n, e, up'[current])
      BY <1>4, <3>1, <3>3, FinalLastAppend DEF InOrder
    <3>5. Over(n, e, Elems(taken')) => None(n, e, Elems(respQueue'))
      BY <1>4, <3>1 DEF InOrder, Over
    <3>6. ASSUME NEW d \in Conns, Over(n, e, Elems(up'[d]))
          PROVE  None(n, e, Elems(taken') \cup Elems(respQueue'))
      <4>1. CASE Over(n, e, Elems(up[d]))
        BY <1>4, <3>1, <4>1 DEF InOrder, None
      <4>2. CASE ~ Over(n, e, Elems(up[d]))
        <5>1. Bears(n, e, h) /\ h.final
          BY <3>1, <3>6, <4>2 DEF Over
        <5>2. Over(n, e, Elems(taken))
          BY <3>1, <5>1 DEF Over
        <5>3. None(n, e, Elems(respQueue'))
          BY <1>4, <3>1, <5>2 DEF InOrder
        <5> QED BY <3>2, <5>1, <5>3 DEF None
      <4> QED BY <4>1, <4>2
    <3>7. \A d \in Conns : FinalLast(n, e, up'[d])
      BY <1>4, <3>1, <3>4 DEF InOrder
    <3> QED BY <1>1, <1>4, <1>5, <3>1, <3>2, <3>5, <3>6, <3>7 DEF InOrder
  <2> QED BY <2>1, <2>2
<1> QED BY <1>1, <1>2, <1>3, <1>4, <1>7, <1>8, <1>9 DEF Answered

(* Changes among the goroutines and in the queue of their chunks: an order *)
(* and a sum of parts that still hold.                                     *)
LEMMA AnswersRead == \A c \in Conns : Types /\ Book /\ Answers /\ ReaderGets(c) => Answers'
<1> SUFFICES ASSUME NEW c \in Conns, Types, Book, Answers, ReaderGets(c),
                    NEW u \in Viewers, asking'[u] = "waiting", u \notin spoiled'
             PROVE  Answered(u)'
  BY DEF Answers
<1>0. PICK h : h = Head(down[c])
  OBVIOUS
<1>1. UNCHANGED <<content, askVars, epoch, reqCh, respQueue, taken, up, spoiled>>
  BY DEF ReaderGets, serverVars, historyVars, boundVars
<1>2. Answered(u) /\ asking[u] = "waiting" /\ UNCHANGED <<asking, before, id, got, gotStart, chunks>>
  BY <1>1 DEF Answers, askVars
<1>3. PICK n, e, s : n = id[u] /\ e = epoch /\ s = chunks[u]
  OBVIOUS
<1>4. AddUp(PageOf(u), got[u], gotStart[u], Parts(n, e, s)) /\ InOrder(n, e, s)
  BY <1>2, <1>3 DEF Answered
<1>5. PICK k : ReadFor(h, k) /\ jobs' = jobs \cup {k}
  BY <1>0, ReaderMoves
<1>6. h \in Elems(down[c]) /\ h \in Unread
  <2>1. h \in Elems(down[c])
    BY <1>0, ReaderMoves
  <2> QED BY <2>1 DEF Unread
<1>7. Elems(down'[c]) \subseteq Elems(down[c]) /\ \A d \in Conns \ {c} : down'[d] = down[d]
  BY ReaderMoves
<1>8. Unread' \subseteq Unread
  BY <1>1, <1>7 DEF Unread
<1>9. Outside' = Outside /\ PageOf(u)' = PageOf(u)
  BY <1>1, <1>2, OutsideSame DEF PageOf
<1>10. Asked(u)'
  BY <1>1, <1>2, <1>8 DEF Answered, Asked
<1>11. CASE ~ Bears(n, e, h)
  <2>1. ~ Bears(n, e, k)
    BY <1>5, <1>11 DEF ReadFor, Bears
  <2>2. Parts(n, e, s)' = Parts(n, e, s)
    BY <1>5, <1>9, <2>1 DEF Parts
  <2>3. InOrder(n, e, s)'
    BY <1>1, <1>4, <1>5, <1>9, <2>1 DEF InOrder
  <2> QED BY <1>1, <1>2, <1>3, <1>4, <1>9, <1>10, <2>2, <2>3 DEF Answered
<1>12. CASE Bears(n, e, h)
  <2>1. /\ h.viewer = u /\ h.before = before[u]
        /\ s = <<>> /\ got[u] = {} /\ gotStart[u] = FALSE
    BY <1>2, <1>3, <1>6, <1>12 DEF Answered, Asked
  <2>2. None(n, e, jobs \cup Outside)
    BY <1>6, <1>12, NoneSameBears DEF Book, ReadOnce
  <2>3. Parts(n, e, s)' \subseteq {k}
    BY <1>5, <1>9, <2>1, <2>2, ElemsEmpty DEF Parts, None
  <2>4. \/ k.lines = PageOf(u).lines /\ k.atStart = PageOf(u).atStart /\ k.err = FALSE
        \/ k.lines = {} /\ k.atStart = FALSE /\ k.err = TRUE
    BY <1>5, <2>1 DEF ReadFor, PageOf
  <2>5. AddUp(PageOf(u), {}, FALSE, Parts(n, e, s)')
    <3>1. PICK P, page : P = Parts(n, e, s)' /\ page = PageOf(u)
      OBVIOUS
    <3>2. CASE P = {}
      BY <3>1, <3>2 DEF AddUp
    <3>3. CASE P = {k}
      BY <2>4, <3>1, <3>3 DEF AddUp
    <3> QED BY <2>3, <3>1, <3>2, <3>3
  <2>6. AddUp(PageOf(u), got[u], gotStart[u], Parts(n, e, s))'
    BY <1>2, <1>9, <2>1, <2>5
  <2>7. InOrder(n, e, s)'
    <3>1. ~ Over(n, e, Elems(s) \cup Outside)
      BY <2>1, <2>2, ElemsEmpty DEF Over, None
    <3> QED BY <1>1, <1>4, <1>9, <3>1 DEF InOrder
  <2> QED BY <1>1, <1>2, <1>3, <1>10, <2>6, <2>7 DEF Answered
<1> QED BY <1>11, <1>12

LEMMA AnswersQueue == \A j \in jobs : Types /\ Book /\ Answers /\ QueueChunk(j) => Answers'
<1> SUFFICES ASSUME NEW j \in jobs, Types, Book, Answers, QueueChunk(j),
                    NEW u \in Viewers, asking'[u] = "waiting", u \notin spoiled'
             PROVE  Answered(u)'
  BY DEF Answers
<1>1. /\ UNCHANGED <<content, askVars, epoch, reqCh, down, taken, up, spoiled>>
      /\ j.queued = "no"
  BY QueueChunkStep DEF serverVars, wireVars, historyVars, boundVars
<1>2. Answered(u) /\ asking[u] = "waiting" /\ UNCHANGED <<asking, before, id, got, gotStart, chunks>>
  BY <1>1 DEF Answers, askVars
<1>3. PICK n, e, s : n = id[u] /\ e = epoch /\ s = chunks[u]
  OBVIOUS
<1>4. AddUp(PageOf(u), got[u], gotStart[u], Parts(n, e, s)) /\ InOrder(n, e, s)
  BY <1>2, <1>3 DEF Answered
<1>5. PICK k, r : k = RestOf(j) /\ r = ChunkOf(j)
  OBVIOUS
<1>6. /\ k.id = j.id /\ k.epoch = j.epoch /\ k.atStart = j.atStart /\ k.err = j.err
      /\ r.id = j.id /\ r.epoch = j.epoch /\ r.err = j.err /\ (r.atStart => j.atStart)
      /\ k.lines \cup r.lines = j.lines /\ (r.final => k.queued = "last")
  <2>1. j \in Jobs
    BY DEF Types, ClientTypes
  <2>2. /\ k = [id |-> j.id, epoch |-> j.epoch, lines |-> j.lines \ NextLines(j), atStart |-> j.atStart,
                err |-> j.err, queued |-> IF j.lines \subseteq NextLines(j) THEN "last" ELSE "more"]
        /\ NextLines(j) \subseteq j.lines
    BY <1>5, <2>1, ChunkOfType
  <2>3. /\ r.id = j.id /\ r.epoch = j.epoch /\ r.err = j.err /\ (r.atStart => j.atStart)
        /\ r.lines = NextLines(j) /\ (r.final => j.lines \subseteq NextLines(j))
    BY <1>5 DEF ChunkOf
  <2> QED BY <2>2, <2>3
<1>7. /\ jobs' = (jobs \ {j}) \cup {k} /\ Outside' = Outside \cup {r}
      /\ respQueue' = Append(respQueue, r) /\ Elems(respQueue') = Elems(respQueue) \cup {r}
      /\ r \in Chunks /\ respQueue \in Seq(Chunks)
  BY <1>5, QueueChunkStep, OutsideQueue DEF Types, ClientTypes
<1>8. Unread' = Unread /\ PageOf(u)' = PageOf(u)
  BY <1>1, <1>2 DEF Unread, PageOf
<1>9. Asked(u)'
  BY <1>1, <1>2, <1>8 DEF Answered, Asked
<1>10. CASE ~ Bears(n, e, j)
  <2>1. ~ Bears(n, e, k) /\ ~ Bears(n, e, r)
    BY <1>6, <1>10 DEF Bears
  <2>2. Parts(n, e, s)' = Parts(n, e, s)
    BY <1>7, <1>10, <2>1 DEF Parts
  <2>3. FinalLast(n, e, respQueue')
    BY <1>4, <1>7, <2>1, FinalLastAppend DEF InOrder
  <2>4. InOrder(n, e, s)'
    <3>1. Over(n, e, Elems(s)) => None(n, e, Outside')
      BY <1>4, <1>7, <2>1 DEF InOrder, None
    <3>2. \A c \in Conns : Over(n, e, Elems(up[c])) => None(n, e, Elems(taken) \cup Elems(respQueue'))
      BY <1>4, <1>7, <2>1 DEF InOrder, None
    <3>3. Over(n, e, Elems(taken)) => None(n, e, Elems(respQueue'))
      BY <1>4, <1>7, <2>1 DEF InOrder, None
    <3>4. Over(n, e, Elems(s) \cup Outside') => \A x \in jobs' : Bears(n, e, x) => x.queued = "last"
      BY <1>4, <1>7, <2>1 DEF InOrder, Over
    <3> QED BY <1>1, <1>4, <2>3, <3>1, <3>2, <3>3, <3>4 DEF InOrder
  <2> QED BY <1>1, <1>2, <1>3, <1>4, <1>8, <1>9, <2>2, <2>4 DEF Answered
<1>11. CASE Bears(n, e, j)
  <2>1. Bears(n, e, k) /\ Bears(n, e, r)
    BY <1>6, <1>11 DEF Bears
  <2>2. Parts(n, e, s)' = (Parts(n, e, s) \ {j}) \cup {k, r}
    <3>1. j \notin Elems(s) \cup Outside
      <4>1. \A x \in Elems(s) \cup Outside : x \in Chunks
        BY <1>3, ElemsType, ItemTypes DEF Types, AskTypes
      <4>2. \A x \in Chunks : x \notin Jobs
        BY DEF Chunks, Jobs
      <4> QED BY <4>1, <4>2 DEF Types, ClientTypes
    <3> QED BY <1>7, <2>1, <3>1 DEF Parts
  <2>3. PICK P, Q, page : P = Parts(n, e, s) /\ Q = Parts(n, e, s)' /\ page = PageOf(u)
    OBVIOUS
  <2>4. AddUp(page, got[u], gotStart[u], P) /\ Q = (P \ {j}) \cup {k, r} /\ j \in P
    BY <1>4, <1>11, <2>2, <2>3 DEF Parts
  <2>5. AddUp(page, got[u], gotStart[u], Q)
    <3>1. \A x \in Q : x.lines \subseteq page.lines /\ (x.atStart => page.atStart)
      BY <1>6, <2>4 DEF AddUp
    <3>2. ASSUME \E x \in Q : ~ x.err, NEW o \in page.lines
          PROVE  o \in got[u] \/ \E x \in Q : o \in x.lines
      <4>1. \E x \in P : ~ x.err
        BY <1>6, <2>4, <3>2
      <4>2. o \in got[u] \/ \E x \in P : o \in x.lines
        BY <2>4, <4>1 DEF AddUp
      <4> QED BY <1>6, <2>4, <4>2
    <3> QED BY <2>4, <3>1, <3>2 DEF AddUp
  <2>6. InOrder(n, e, s)'
    <3>1. ~ Over(n, e, Elems(s) \cup Outside)
      BY <1>1, <1>4, <1>11 DEF InOrder
    <3>2. /\ ~ Over(n, e, Elems(s)) /\ ~ Over(n, e, Elems(respQueue)) /\ ~ Over(n, e, Elems(taken))
          /\ \A c \in Conns : ~ Over(n, e, Elems(up[c]))
      BY <3>1 DEF Over, Outside
    <3>3. FinalLast(n, e, respQueue')
      BY <1>4, <1>7, <3>2, FinalLastAppend DEF InOrder
    <3>4. Over(n, e, Elems(s) \cup Outside') => r.final
      BY <1>7, <3>1 DEF Over
    <3>5. \A x \in jobs' : Bears(n, e, x) => x = k
      <4>1. \A x \in jobs : Bears(n, e, x) => x = j
        BY <1>11 DEF Book, ReadOnce, Same, Bears
      <4> QED BY <1>7, <4>1
    <3> QED BY <1>1, <1>4, <1>6, <3>2, <3>3, <3>4, <3>5 DEF InOrder
  <2>7. AddUp(PageOf(u), got[u], gotStart[u], Parts(n, e, s))'
    BY <1>2, <1>8, <2>3, <2>5
  <2> QED BY <1>1, <1>2, <1>3, <1>9, <2>6, <2>7 DEF Answered
<1> QED BY <1>10, <1>11

(* A goroutine that ends has no lines left.                                *)
LEMMA AnswersSignal == \A j \in jobs : Types /\ Book /\ Answers /\ SignalWake(j) => Answers'
<1> SUFFICES ASSUME NEW j \in jobs, Types, Book, Answers, SignalWake(j),
                    NEW u \in Viewers, asking'[u] = "waiting", u \notin spoiled'
             PROVE  Answered(u)'
  BY DEF Answers
<1>1. UNCHANGED <<content, askVars, epoch, reqCh, down, respQueue, taken, up, spoiled>>
  BY SignalStep DEF serverVars, wireVars, historyVars, boundVars
<1>2. Answered(u) /\ asking[u] = "waiting" /\ UNCHANGED <<asking, before, id, got, gotStart, chunks>>
  BY <1>1 DEF Answers, askVars
<1>3. PICK n, e, s : n = id[u] /\ e = epoch /\ s = chunks[u]
  OBVIOUS
<1>4. AddUp(PageOf(u), got[u], gotStart[u], Parts(n, e, s)) /\ InOrder(n, e, s)
  BY <1>2, <1>3 DEF Answered
<1>5. /\ Unread' = Unread /\ Outside' = Outside /\ PageOf(u)' = PageOf(u)
  BY <1>1, <1>2, OutsideSame DEF Unread, PageOf
<1>6. Asked(u)'
  BY <1>1, <1>2, <1>5 DEF Answered, Asked
<1>7. j \notin Elems(s) \cup Outside
  <2>1. \A x \in Elems(s) \cup Outside : x \in Chunks
    BY <1>3, ElemsType, ItemTypes DEF Types, AskTypes
  <2>2. \A x \in Chunks : x \notin Jobs
    BY DEF Chunks, Jobs
  <2> QED BY <2>1, <2>2 DEF Types, ClientTypes
<1>8. PICK P, Q, page : P = Parts(n, e, s) /\ Q = Parts(n, e, s)' /\ page = PageOf(u)
  OBVIOUS
<1>9. CASE j.queued = "last" /\ jobs' = jobs \ {j}
  <2>1. j.lines = {}
    BY <1>9 DEF Book, ReadOnce
  <2>2. Q = P \ {j}
    BY <1>5, <1>7, <1>8, <1>9 DEF Parts
  <2>3. AddUp(page, got[u], gotStart[u], Q)
    BY <1>4, <1>8, <2>1, <2>2 DEF AddUp
  <2>4. InOrder(n, e, s)'
    BY <1>1, <1>4, <1>5, <1>9 DEF InOrder
  <2> QED BY <1>1, <1>2, <1>3, <1>5, <1>6, <1>8, <2>3, <2>4 DEF Answered
<1>10. CASE j.queued # "last"
  <2>1. PICK k : /\ jobs' = (jobs \ {j}) \cup {k} /\ k.id = j.id /\ k.epoch = j.epoch
                 /\ k.lines = j.lines /\ k.atStart = j.atStart /\ k.err = j.err
    BY <1>10, SignalStep
  <2>2. CASE ~ Bears(n, e, j)
    <3>1. ~ Bears(n, e, k)
      BY <2>1, <2>2 DEF Bears
    <3>2. Q = P
      BY <1>5, <1>8, <2>1, <2>2, <3>1 DEF Parts
    <3>3. InOrder(n, e, s)'
      BY <1>1, <1>4, <1>5, <2>1, <3>1 DEF InOrder
    <3> QED BY <1>1, <1>2, <1>3, <1>4, <1>5, <1>6, <1>8, <3>2, <3>3 DEF Answered
  <2>3. CASE Bears(n, e, j)
    <3>1. Bears(n, e, k)
      BY <2>1, <2>3 DEF Bears
    <3>2. Q = (P \ {j}) \cup {k} /\ j \in P
      BY <1>5, <1>7, <1>8, <2>1, <2>3, <3>1 DEF Parts
    <3>3. AddUp(page, got[u], gotStart[u], Q)
      <4>1. \A x \in Q : x.lines \subseteq page.lines /\ (x.atStart => page.atStart)
        BY <1>4, <1>8, <2>1, <3>2 DEF AddUp
      <4>2. (\E x \in Q : ~ x.err) => \E x \in P : ~ x.err
        BY <2>1, <3>2
      <4>3. \A o : (\E x \in P : o \in x.lines) => \E x \in Q : o \in x.lines
        BY <2>1, <3>2
      <4> QED BY <1>4, <1>8, <4>1, <4>2, <4>3 DEF AddUp
    <3>4. ~ Over(n, e, Elems(s) \cup Outside)
      BY <1>4, <1>10, <2>3 DEF InOrder
    <3>5. InOrder(n, e, s)'
      BY <1>1, <1>4, <1>5, <3>4 DEF InOrder
    <3> QED BY <1>1, <1>2, <1>3, <1>5, <1>6, <1>8, <3>3, <3>5 DEF Answered
  <2> QED BY <2>2, <2>3
<1> QED BY <1>9, <1>10, SignalStep

LEMMA AnswersNext == Types /\ Book /\ Answers /\ [Next]_vars => Answers'
<1> SUFFICES ASSUME Types, Book, Answers, [Next]_vars
             PROVE  Answers'
  OBVIOUS
<1>1. ASSUME StreamEnded PROVE Answers'
  <2>1. current \in Conns
    BY <1>1 DEF StreamEnded, Types, PumpInv
  <2> QED BY <1>1, <2>1, AnswersLose
<1> QED BY <1>1, AnswersFindConn, AnswersSend, AnswersCollect, AnswersTimeout, AnswersQuiet, AnswersScan, AnswersLose,
           AnswersRead, AnswersQueue, AnswersSignal, AnswersMove, AnswersRestart DEF Next

-----------------------------------------------------------------------------
(* The page.                                                               *)

(* A page that is not excused shows the lines from the lowest on, says     *)
(* "start" only of the first, and asks for what comes before the lowest.   *)
Closed(v) ==
  /\ lowest[v] <= Live(v) /\ StartsLine(content[v], lowest[v])
  /\ shown[v] = LinesOf(v, lowest[v])
  /\ v \in startShown => 0 \in shown[v]
  /\ asking[v] # "no" => before[v] = lowest[v]

Pages == \A v \in Viewers \ torn : Closed(v)

(* The final chunk is taken when all the others have been: the page then   *)
(* has what ReadLinesBefore returned.                                      *)
LEMMA CollectedAll ==
  ASSUME Types, Book, Answers, NEW v \in Viewers, asking[v] = "waiting", v \notin spoiled,
         chunks[v] # <<>>, NEW r, r = Head(chunks[v]), r.final, ~ r.err
  PROVE  /\ got[v] \cup r.lines = PageOf(v).lines
         /\ gotStart[v] \/ r.atStart => PageOf(v).atStart
<1>1. PICK n, e, s, page : n = id[v] /\ e = epoch /\ s = chunks[v] /\ page = PageOf(v)
  OBVIOUS
<1>2. /\ AddUp(page, got[v], gotStart[v], Parts(n, e, s)) /\ InOrder(n, e, s)
      /\ s \in Seq(Chunks) /\ s # <<>> /\ r = Head(s)
  BY <1>1 DEF Answers, Answered, Types, AskTypes
<1>3. Elems(s) = Elems(Tail(s)) \cup {r}
  BY <1>2, ElemsTail
<1>4. Bears(n, e, r) /\ Over(n, e, Elems(s))
  BY <1>2, <1>3 DEF InOrder, Over
<1>5. None(n, e, Outside)
  BY <1>2, <1>4 DEF InOrder
<1>6. None(n, e, Elems(Tail(s)))
  BY <1>2, <1>4, FinalLastTail DEF InOrder
<1>7. \A j \in jobs : Bears(n, e, j) => j.lines = {}
  <2>1. Over(n, e, Elems(s) \cup Outside)
    BY <1>4 DEF Over
  <2> QED BY <1>2, <2>1 DEF InOrder, Book, ReadOnce
<1>8. \A x \in Parts(n, e, s) : x = r \/ x.lines = {}
  BY <1>3, <1>5, <1>6, <1>7 DEF Parts, None
<1>9. r \in Parts(n, e, s)
  BY <1>3, <1>4 DEF Parts
<1>10. got[v] \cup r.lines = page.lines
  <2>1. got[v] \cup r.lines \subseteq page.lines
    BY <1>2, <1>9 DEF AddUp
  <2>2. \A o \in page.lines : o \in got[v] \/ \E x \in Parts(n, e, s) : o \in x.lines
    BY <1>2, <1>9 DEF AddUp
  <2> QED BY <1>8, <2>1, <2>2
<1>11. gotStart[v] \/ r.atStart => page.atStart
  BY <1>2, <1>9 DEF AddUp
<1> QED BY <1>1, <1>10, <1>11

LinesFrom(cont, from, len) == {o \in from .. (len - 1) : StartsLine(cont, o)}

(* One page more on top of a page that closes up.                          *)
LEMMA OnTop ==
  ASSUME NEW cont, NEW len \in Nat, NEW b \in Nat, b <= len, StartsLine(cont, b),
         NEW page, page = ReadLinesBefore(cont, b, PageLines), page.lines # {},
         NEW low, low = LowestOf(page.lines)
  PROVE  /\ low \in Nat /\ low <= len /\ StartsLine(cont, low)
         /\ LinesFrom(cont, b, len) \cup page.lines = LinesFrom(cont, low, len)
         /\ page.atStart => 0 \in page.lines
<1>1. PageLines \in Nat
  BY SizesAssumption
<1>2. /\ page.lines \subseteq {o \in 0 .. (b - 1) : StartsLine(cont, o)}
      /\ \A o \in page.lines : \A p \in o .. (b - 1) : StartsLine(cont, p) => p \in page.lines
      /\ page.atStart = (b = 0 \/ 0 \in page.lines)
  BY <1>1, PageClosesUp
<1>3. page.lines \in SUBSET Nat
  BY <1>2
<1>4. low \in page.lines /\ \A p \in page.lines : low <= p
  BY <1>3, LowestOfSet
<1>5. low \in Nat /\ low < b /\ StartsLine(cont, low)
  BY <1>2, <1>4
<1>6. low <= len
  BY <1>5
<1>7. ASSUME NEW o \in low .. (len - 1), StartsLine(cont, o)
      PROVE  o \in {o_1 \in b .. (len - 1) : StartsLine(cont, o_1)} \cup page.lines
  <2>1. CASE o \in b .. (len - 1)
    BY <1>7, <2>1
  <2>2. CASE o \in low .. (b - 1)
    BY <1>2, <1>4, <1>7, <2>2
  <2>3. o \in b .. (len - 1) \/ o \in low .. (b - 1)
    BY <1>5
  <2> QED BY <2>1, <2>2, <2>3
<1>8. ASSUME NEW o \in page.lines PROVE o \in low .. (len - 1) /\ StartsLine(cont, o)
  <2>1. o \in 0 .. (b - 1) /\ StartsLine(cont, o) /\ low <= o
    BY <1>2, <1>4
  <2> QED BY <1>5, <2>1
<1>9. ASSUME NEW o \in b .. (len - 1) PROVE o \in low .. (len - 1)
  BY <1>5
<1>10. {o \in b .. (len - 1) : StartsLine(cont, o)} \cup page.lines = {o \in low .. (len - 1) : StartsLine(cont, o)}
  BY <1>7, <1>8, <1>9
<1>11. page.atStart => 0 \in page.lines
  <2>1. b # 0
    BY <1>5
  <2> QED BY <1>2, <2>1
<1> QED BY <1>5, <1>6, <1>10, <1>11 DEF LinesFrom

LEMMA NothingOlder ==
  ASSUME Types, NEW v \in Viewers
  PROVE  LinesOf(v, Live(v)) = {}
BY LiveType DEF LinesOf

LEMMA PagesInit == Init => Pages
<1> SUFFICES ASSUME Init, NEW v \in Viewers
             PROVE  Closed(v)
  BY DEF Pages
<1>1. Types
  BY TypesInit
<1>2. lowest[v] = Live(v) /\ shown[v] = {} /\ startShown = {} /\ asking[v] = "no"
  BY DEF Init
<1>3. Live(v) \in Nat /\ StartsLine(content[v], Live(v)) /\ LinesOf(v, Live(v)) = {}
  BY <1>1, LiveType, NothingOlder
<1> QED BY <1>2, <1>3 DEF Closed

(* A step that leaves the lines alone and the request, or ends it.         *)
LEMMA ClosedFrame ==
  ASSUME NEW v \in Viewers, Closed(v), UNCHANGED <<content, shown, lowest, startShown>>,
         \/ asking'[v] = "no"
         \/ asking'[v] # "no" /\ before'[v] = lowest[v]
         \/ asking'[v] = asking[v] /\ before'[v] = before[v]
  PROVE  Closed(v)'
BY DEF Closed, LinesOf, Live

LEMMA ForgetAsks ==
  ASSUME Types, NEW S, NoFurtherHistory(S), NEW v \in Viewers
  PROVE  /\ UNCHANGED <<shown, lowest, startShown>>
         /\ asking'[v] = "no" \/ (asking'[v] = asking[v] /\ before'[v] = before[v])
BY DEF NoFurtherHistory, Forget, Types, AskTypes

LEMMA PagesFindConn == \A v \in Viewers : Types /\ Pages /\ (FindConn(v) \/ SendRequest(v) \/ Timeout(v)) => Pages'
<1> SUFFICES ASSUME NEW v \in Viewers, Types, Pages, FindConn(v) \/ SendRequest(v) \/ Timeout(v),
                    NEW u \in Viewers, u \notin torn'
             PROVE  Closed(u)'
  BY DEF Pages
<1>1. Closed(u) /\ content' = content
  BY DEF Pages, FindConn, SendRequest, Timeout, historyVars
<1>2. CASE \E S : NoFurtherHistory(S)
  BY <1>1, <1>2, ForgetAsks, ClosedFrame
<1>3. CASE /\ asking' = [asking EXCEPT ![v] = "routed"] /\ before' = [before EXCEPT ![v] = lowest[v]]
           /\ UNCHANGED pageVars
  <2>1. UNCHANGED <<shown, lowest, startShown>>
    BY <1>3 DEF pageVars
  <2>2. \/ asking'[u] # "no" /\ before'[u] = lowest[u]
        \/ asking'[u] = asking[u] /\ before'[u] = before[u]
    BY <1>3 DEF Types, AskTypes
  <2> QED BY <1>1, <2>1, <2>2, ClosedFrame
<1>4. CASE asking[v] = "routed" /\ asking' = [asking EXCEPT ![v] = "waiting"] /\ UNCHANGED <<before, pageVars>>
  <2>1. UNCHANGED <<shown, lowest, startShown, before>>
    BY <1>4 DEF pageVars
  <2>2. \/ asking'[u] # "no" /\ before'[u] = lowest[u]
        \/ asking'[u] = asking[u] /\ before'[u] = before[u]
    BY <1>1, <1>4, <2>1 DEF Closed, Types, AskTypes
  <2> QED BY <1>1, <2>1, <2>2, ClosedFrame
<1> QED BY <1>2, <1>3, <1>4 DEF FindConn, SendRequest, Timeout

LEMMA PagesCollect == \A v \in Viewers : Types /\ Book /\ Answers /\ Pages /\ Collect(v) => Pages'
<1> SUFFICES ASSUME NEW v \in Viewers, Types, Book, Answers, Pages, Collect(v),
                    NEW u \in Viewers, u \notin torn'
             PROVE  Closed(u)'
  BY DEF Pages
<1>0. PICK r : r = Head(chunks[v])
  OBVIOUS
<1>1. content' = content /\ asking[v] = "waiting" /\ chunks[v] # <<>> /\ torn \subseteq torn'
  BY DEF Collect
<1>2. Closed(u)
  BY <1>1 DEF Pages
<1>3. CASE NoFurtherHistory({v})
  BY <1>1, <1>2, <1>3, ForgetAsks, ClosedFrame
<1>4. CASE UNCHANGED <<asking, before, via, id, pageVars, torn>>
  <2>1. UNCHANGED <<shown, lowest, startShown, asking, before>>
    BY <1>4 DEF pageVars
  <2> QED BY <1>1, <1>2, <2>1, ClosedFrame
<1>5. CASE /\ ~ r.err /\ r.final /\ got[v] \cup r.lines # {}
           /\ Forget({v})
           /\ lowest' = [lowest EXCEPT ![v] = LowestOf(got[v] \cup r.lines)]
           /\ shown' = [shown EXCEPT ![v] = @ \cup (got[v] \cup r.lines)]
           /\ startShown' = IF gotStart[v] \/ r.atStart THEN startShown \cup {v} ELSE startShown
           /\ torn' = torn \cup (spoiled \cap {v})
  <2>1. CASE u # v
    <3>1. /\ lowest'[u] = lowest[u] /\ shown'[u] = shown[u] /\ asking'[u] = asking[u] /\ before'[u] = before[u]
          /\ u \in startShown' => u \in startShown
      BY <1>5, <2>1, ForgetOthers DEF Types, PageTypes
    <3> QED BY <1>1, <1>2, <3>1 DEF Closed, LinesOf, Live
  <2>2. CASE u = v
    <3>1. v \notin spoiled
      BY <1>5, <2>2
    <3>2. PICK page : page = PageOf(v)
      OBVIOUS
    <3>3. got[v] \cup r.lines = page.lines /\ (gotStart[v] \/ r.atStart => page.atStart)
      BY <1>0, <1>1, <1>5, <3>1, <3>2, CollectedAll
    <3>4. /\ Live(v) \in Nat /\ lowest[v] \in Nat /\ lowest[v] <= Live(v) /\ StartsLine(content[v], lowest[v])
          /\ page = ReadLinesBefore(content[v], lowest[v], PageLines) /\ page.lines # {}
      <4>1. before[v] = lowest[v]
        BY <1>1, <1>2, <2>2 DEF Closed
      <4>2. page = ReadLinesBefore(content[v], lowest[v], PageLines)
        BY <3>2, <4>1 DEF PageOf
      <4> QED BY <1>2, <1>5, <2>2, <3>3, <4>2, LiveType DEF Closed, Types, PageTypes
    <3>5. PICK low : low = LowestOf(page.lines)
      OBVIOUS
    <3>6. /\ low \in Nat /\ low <= Live(v) /\ StartsLine(content[v], low)
          /\ LinesFrom(content[v], lowest[v], Live(v)) \cup page.lines = LinesFrom(content[v], low, Live(v))
          /\ page.atStart => 0 \in page.lines
      <4>1. PICK cont, len, b : cont = content[v] /\ len = Live(v) /\ b = lowest[v]
        OBVIOUS
      <4>2. /\ len \in Nat /\ b \in Nat /\ b <= len /\ StartsLine(cont, b)
            /\ page = ReadLinesBefore(cont, b, PageLines) /\ page.lines # {}
        BY <3>4, <4>1
      <4>3. /\ low \in Nat /\ low <= len /\ StartsLine(cont, low)
            /\ LinesFrom(cont, b, len) \cup page.lines = LinesFrom(cont, low, len)
            /\ page.atStart => 0 \in page.lines
        BY <3>5, <4>2, OnTop
      <4> QED BY <4>1, <4>3
    <3>7. lowest'[v] = low /\ shown'[v] = shown[v] \cup page.lines /\ asking'[v] = "no"
      BY <1>5, <3>3, <3>5, ForgetOthers DEF Types, PageTypes
    <3>8. Live(v)' = Live(v)
      BY <1>1 DEF Live
    <3>9. shown'[v] = LinesOf(v, lowest[v])'
      BY <1>1, <1>2, <2>2, <3>6, <3>7, <3>8 DEF Closed, LinesOf, LinesFrom
    <3>10. v \in startShown' => 0 \in shown'[v]
      BY <1>2, <1>5, <2>2, <3>3, <3>6, <3>7 DEF Closed
    <3> QED BY <1>1, <2>2, <3>6, <3>7, <3>8, <3>9, <3>10 DEF Closed
  <2> QED BY <2>1, <2>2
<1> QED BY <1>0, <1>3, <1>4, <1>5 DEF Collect

LEMMA PagesClear == \A v \in Viewers : Types /\ Pages /\ ClearOlder(v) => Pages'
<1> SUFFICES ASSUME NEW v \in Viewers, Types, Pages, ClearOlder(v),
                    NEW u \in Viewers, u \notin torn'
             PROVE  Closed(u)'
  BY DEF Pages
<1>1. /\ UNCHANGED <<content, asking, before>>
      /\ lowest' = [lowest EXCEPT ![v] = Live(v)] /\ shown' = [shown EXCEPT ![v] = {}]
      /\ startShown' = startShown \ {v}
      /\ torn' = IF asking[v] = "no" THEN torn \ {v} ELSE torn \cup {v}
  BY DEF ClearOlder, askVars
<1>2. CASE u # v
  <2>1. lowest'[u] = lowest[u] /\ shown'[u] = shown[u] /\ (u \in startShown' => u \in startShown) /\ u \notin torn
    BY <1>1, <1>2 DEF Types, PageTypes
  <2> QED BY <1>1, <2>1 DEF Pages, Closed, LinesOf, Live
<1>3. CASE u = v
  <2>1. lowest'[v] = Live(v) /\ shown'[v] = {} /\ v \notin startShown' /\ asking'[v] = "no"
    BY <1>1, <1>3 DEF Types, PageTypes
  <2>2. Live(v)' = Live(v) /\ LinesOf(v, Live(v))' = LinesOf(v, Live(v))
    BY <1>1 DEF Live, LinesOf
  <2>3. Live(v) \in Nat /\ StartsLine(content[v], Live(v)) /\ LinesOf(v, Live(v)) = {}
    BY LiveType, NothingOlder
  <2>4. LinesOf(v, lowest[v])' = {}
    BY <1>1, <2>1, <2>2, <2>3 DEF LinesOf
  <2> QED BY <1>1, <1>3, <2>1, <2>2, <2>3, <2>4 DEF Closed
<1> QED BY <1>2, <1>3

LEMMA PagesNext == Types /\ Book /\ Answers /\ Pages /\ [Next]_vars => Pages'
<1> SUFFICES ASSUME Types, Book, Answers, Pages, [Next]_vars
             PROVE  Pages'
  OBVIOUS
<1>1. ASSUME UNCHANGED <<content, pageVars, asking, before, torn>> PROVE Pages'
  BY <1>1 DEF Pages, Closed, LinesOf, Live, pageVars
<1>2. ASSUME NEW c \in Conns,
             \/ Accept(c) \/ AddConn(c) \/ WriterSends(c) \/ HandlerEnds(c) \/ RemoveConn(c)
             \/ ReaderGets(c) \/ ReaderEnds(c) \/ BreakConn(c)
      PROVE  UNCHANGED <<content, pageVars, asking, before, torn>>
  BY <1>2 DEF Accept, AddConn, WriterSends, HandlerEnds, RemoveConn, ReaderGets, ReaderEnds, BreakConn,
              askVars, historyVars
<1>3. ASSUME NEW c \in Conns, HandlerScans(c)
      PROVE  UNCHANGED <<content, pageVars, asking, before, torn>>
  BY <1>3 DEF HandlerScans
<1>4. ASSUME NEW j \in jobs, QueueChunk(j) \/ SignalWake(j)
      PROVE  UNCHANGED <<content, pageVars, asking, before, torn>>
  BY <1>4 DEF QueueChunk, SignalWake, askVars, historyVars
<1>5. ASSUME TakeResps \/ WriteResp \/ WakeUp \/ StreamEnded \/ UNCHANGED vars
      PROVE  UNCHANGED <<content, pageVars, asking, before, torn>>
  BY <1>5 DEF TakeResps, WriteResp, WakeUp, StreamEnded, vars, askVars, historyVars
<1>6. ASSUME Restart PROVE Pages'
  <2>1. content' = content /\ torn' = torn /\ \E S : NoFurtherHistory(S)
    BY <1>6 DEF Restart, historyVars
  <2>2. ASSUME NEW v \in Viewers, v \notin torn' PROVE Closed(v)'
    BY <2>1, <2>2, ForgetAsks, ClosedFrame DEF Pages
  <2> QED BY <2>2 DEF Pages
<1> QED BY <1>1, <1>2, <1>3, <1>4, <1>5, <1>6, PagesFindConn, PagesCollect, PagesClear DEF Next

(* What the server has routed, what a client has read and what is still    *)
(* on its way add up to the page that was asked for.                       *)
ScrollbackInv == Types /\ Book /\ Answers /\ Pages

LEMMA ScrollbackSafe == Spec => []ScrollbackInv
<1>1. Init => ScrollbackInv
  <2>1. Init => Answers
    BY DEF Init, Answers
  <2> QED BY <2>1, TypesInit, BookInit, PagesInit DEF ScrollbackInv
<1>2. ScrollbackInv /\ [Next]_vars => ScrollbackInv'
  BY TypesNext, BookNext, AnswersNext, PagesNext DEF ScrollbackInv
<1> QED BY <1>1, <1>2, PTL DEF Spec

(* Older lines close up with the live view, whatever the number of viewers *)
(* and connections, the size of pages, chunks, blocks and queues, and the  *)
(* order in which requests, chunks, failures and restarts come.            *)
THEOREM OlderLinesCloseUp == Spec => []ShownContiguous
<1>1. ScrollbackInv => ShownContiguous
  BY DEF ScrollbackInv, Pages, Closed, ShownContiguous
<1> QED BY <1>1, ScrollbackSafe, PTL

(* A page is said to begin a file only if it shows the file's first line.  *)
THEOREM StartIsTheStart == Spec => []StartIsReal
<1>1. ScrollbackInv => StartIsReal
  BY DEF ScrollbackInv, Pages, Closed, StartIsReal
<1> QED BY <1>1, ScrollbackSafe, PTL

-----------------------------------------------------------------------------
(* The refinement of PagedHistory.                                         *)

(* An answer that is complete and not spoiled: older lines than those the  *)
(* page shows, and no more of them than were asked for.                    *)
LEMMA PageBrought ==
  ASSUME Types, Book, Answers, NEW v \in Viewers, Closed(v), asking[v] = "waiting", v \notin spoiled,
         chunks[v] # <<>>, NEW r, r = Head(chunks[v]), r.final, ~ r.err
  PROVE  /\ \A o \in got[v] \cup r.lines : o \notin shown[v]
         /\ Cardinality(got[v] \cup r.lines) <= PageLines
<1>1. PICK page, cont, b : page = PageOf(v) /\ cont = content[v] /\ b = lowest[v]
  OBVIOUS
<1>2. got[v] \cup r.lines = page.lines
  BY <1>1, CollectedAll
<1>3. b \in Nat /\ StartsLine(cont, b) /\ page = ReadLinesBefore(cont, b, PageLines)
  BY <1>1 DEF Closed, PageOf, Types, PageTypes
<1>4. PageLines \in Nat
  BY SizesAssumption
<1>5. Cardinality(page.lines) <= PageLines
  BY <1>3, <1>4, PageIsFull
<1>6. page.lines \subseteq {o \in 0 .. (b - 1) : StartsLine(cont, o)}
  BY <1>3, <1>4, PageClosesUp
<1>7. ASSUME NEW o \in page.lines PROVE o \notin LinesOf(v, b)
  BY <1>3, <1>6 DEF LinesOf
<1> QED BY <1>1, <1>2, <1>5, <1>7 DEF Closed

(* The lines from one on are the newest there are, and all if the first is *)
(* one of them.                                                            *)
LEMMA NewestLines ==
  ASSUME NEW cont, NEW len \in Nat, NEW low \in Nat
  PROVE  /\ History!Newest(LinesFrom(cont, low, len), LinesFrom(cont, 0, len))
         /\ 0 \in LinesFrom(cont, low, len) => LinesFrom(cont, low, len) = LinesFrom(cont, 0, len)
<1>1. LinesFrom(cont, low, len) \subseteq LinesFrom(cont, 0, len)
  BY DEF LinesFrom
<1>2. ASSUME NEW l \in LinesFrom(cont, low, len), NEW k \in LinesFrom(cont, 0, len), k > l
      PROVE  k \in LinesFrom(cont, low, len)
  BY <1>2 DEF LinesFrom
<1>3. 0 \in LinesFrom(cont, low, len) => low = 0
  BY DEF LinesFrom
<1> QED BY <1>1, <1>2, <1>3 DEF History!Newest

LEMMA HistoryInit == Init => History!Init
<1> SUFFICES ASSUME Init
             PROVE  History!Init
  OBVIOUS
<1>1. [v \in Viewers |-> LinesOf(v, 0)] \in [Viewers -> SUBSET Nat]
  <2>1. ASSUME NEW v \in Viewers PROVE LinesOf(v, 0) \in SUBSET Nat
    BY TypesInit, LiveType DEF LinesOf
  <2> QED BY <2>1
<1> QED BY <1>1 DEF Init, History!Init

(* What is there to scroll through stays what it is.                       *)
LEMMA HistoryKept ==
  ASSUME content' = content
  PROVE  UNCHANGED [v \in Viewers |-> LinesOf(v, 0)]
BY DEF LinesOf, Live

LEMMA HistoryCollect ==
  \A v \in Viewers : ScrollbackInv /\ ScrollbackInv' /\ Collect(v) =>
                       History!PageArrives(v) \/ UNCHANGED History!vars
<1> SUFFICES ASSUME NEW v \in Viewers, ScrollbackInv, ScrollbackInv', Collect(v)
             PROVE  History!PageArrives(v) \/ UNCHANGED History!vars
  OBVIOUS
<1> USE DEF ScrollbackInv
<1>0. PICK r : r = Head(chunks[v])
  OBVIOUS
<1>1. asking[v] = "waiting" /\ chunks[v] # <<>> /\ UNCHANGED [w \in Viewers |-> LinesOf(w, 0)]
  BY HistoryKept DEF Collect
<1>2. CASE UNCHANGED <<shown, startShown, torn>>
  BY <1>1, <1>2 DEF History!vars
<1>3. CASE /\ ~ r.err /\ r.final /\ got[v] \cup r.lines # {}
           /\ shown' = [shown EXCEPT ![v] = @ \cup (got[v] \cup r.lines)]
           /\ startShown' = IF gotStart[v] \/ r.atStart THEN startShown \cup {v} ELSE startShown
           /\ torn' = torn \cup (spoiled \cap {v})
  <2>1. PICK lines : lines = got[v] \cup r.lines
    OBVIOUS
  <2>2. shown'[v] = shown[v] \cup lines /\ shown' = [shown EXCEPT ![v] = @ \cup History!Older(v)]
    <3>1. shown'[v] = shown[v] \cup lines
      BY <1>3, <2>1 DEF Types, PageTypes
    <3>2. shown[v] \cup History!Older(v) = shown[v] \cup lines
      BY <3>1 DEF History!Older
    <3> QED BY <1>3, <2>1, <3>1, <3>2
  <2>3. startShown' \in {startShown, startShown \cup {v}}
    BY <1>3
  <2>4. CASE v \in torn'
    <3>1. torn' = torn \cup {v}
      BY <1>3, <2>4
    <3> QED BY <1>1, <2>2, <2>3, <3>1 DEF History!PageArrives
  <2>5. CASE v \notin torn'
    <3>1. v \notin spoiled /\ v \notin torn /\ torn' = torn
      BY <1>3, <2>5
    <3>2. Closed(v) /\ Closed(v)'
      BY <2>5, <3>1 DEF Pages
    <3>3. \A o \in lines : o \notin shown[v]
      BY <1>0, <1>1, <1>3, <2>1, <3>1, <3>2, PageBrought
    <3>4. Cardinality(lines) <= PageLines
      BY <1>0, <1>1, <1>3, <2>1, <3>1, <3>2, PageBrought
    <3>5. History!Older(v) = lines
      BY <2>2, <3>3 DEF History!Older
    <3>6. History!Cardinality(History!Older(v)) <= PageLines
      BY <3>4, <3>5 DEF History!Cardinality, Cardinality
    <3>7. History!Newest(shown'[v], LinesOf(v, 0)') /\ (v \in startShown' => shown'[v] = LinesOf(v, 0)')
      <4>1. PICK cont, low, len : cont = content'[v] /\ low = lowest'[v] /\ len = Live(v)'
        OBVIOUS
      <4>2. /\ shown'[v] = LinesFrom(cont, low, len) /\ LinesOf(v, 0)' = LinesFrom(cont, 0, len)
            /\ v \in startShown' => 0 \in LinesFrom(cont, low, len)
        BY <3>2, <4>1 DEF Closed, LinesOf, LinesFrom
      <4>3. low \in Nat
        BY <4>1 DEF Types, PageTypes
      <4>4. len \in Nat
        <5>1. Live(v)' = Live(v)
          BY DEF Collect, Live
        <5> QED BY <4>1, <5>1, LiveType
      <4> QED BY <4>2, <4>3, <4>4, NewestLines
    <3>8. [w \in Viewers |-> LinesOf(w, 0)][v] = LinesOf(v, 0)' /\ LinesOf(v, 0) = LinesOf(v, 0)'
      BY <1>1
    <3> QED BY <1>1, <1>3, <2>1, <2>2, <2>3, <3>1, <3>5, <3>6, <3>7, <3>8 DEF History!PageArrives, History!Newest
  <2> QED BY <2>4, <2>5
<1> QED BY <1>0, <1>2, <1>3 DEF Collect, NoFurtherHistory, pageVars

LEMMA HistoryClear == \A v \in Viewers : ClearOlder(v) => History!Clear(v)
<1> SUFFICES ASSUME NEW v \in Viewers, ClearOlder(v)
             PROVE  History!Clear(v)
  OBVIOUS
<1>1. content' = content /\ torn' \in {torn \ {v}, torn \cup {v}}
  BY DEF ClearOlder
<1> QED BY <1>1, HistoryKept DEF ClearOlder, History!Clear

(* Scrolling back implements PagedHistory, for any viewers, contents, page *)
(* and chunk sizes, queues, failures, restarts and clears: a page that     *)
(* arrives brings lines, only older ones, and no more than were asked for. *)
THEOREM ScrollbackKeepsHistory == Spec => KeepsHistory
<1>1. ScrollbackInv /\ ScrollbackInv' /\ [Next]_vars => [History!Next]_(History!vars)
  <2> SUFFICES ASSUME ScrollbackInv, ScrollbackInv', [Next]_vars
               PROVE  History!Next \/ UNCHANGED History!vars
    OBVIOUS
  <2>1. ASSUME NEW v \in Viewers, Collect(v) PROVE History!Next \/ UNCHANGED History!vars
    BY <2>1, HistoryCollect DEF History!Next
  <2>2. ASSUME NEW v \in Viewers, ClearOlder(v) PROVE History!Next
    BY <2>2, HistoryClear DEF History!Next
  <2>3. ASSUME UNCHANGED <<content, shown, startShown, torn>> PROVE UNCHANGED History!vars
    BY <2>3, HistoryKept DEF History!vars
  <2>4. ASSUME NEW v \in Viewers, FindConn(v) \/ SendRequest(v) \/ Timeout(v)
        PROVE  UNCHANGED <<content, shown, startShown, torn>>
    BY <2>4 DEF FindConn, SendRequest, Timeout, NoFurtherHistory, pageVars, historyVars
  <2>5. ASSUME NEW c \in Conns,
               \/ Accept(c) \/ AddConn(c) \/ WriterSends(c) \/ HandlerScans(c) \/ HandlerEnds(c) \/ RemoveConn(c)
               \/ ReaderGets(c) \/ ReaderEnds(c) \/ BreakConn(c)
        PROVE  UNCHANGED <<content, shown, startShown, torn>>
    BY <2>5 DEF Accept, AddConn, WriterSends, HandlerScans, HandlerEnds, RemoveConn, ReaderGets, ReaderEnds, BreakConn,
                pageVars, historyVars
  <2>6. ASSUME NEW j \in jobs, QueueChunk(j) \/ SignalWake(j)
        PROVE  UNCHANGED <<content, shown, startShown, torn>>
    BY <2>6 DEF QueueChunk, SignalWake, pageVars, historyVars
  <2>7. ASSUME TakeResps \/ WriteResp \/ WakeUp \/ StreamEnded \/ Restart \/ UNCHANGED vars
        PROVE  UNCHANGED <<content, shown, startShown, torn>>
    BY <2>7 DEF TakeResps, WriteResp, WakeUp, StreamEnded, Restart, NoFurtherHistory, vars, pageVars, historyVars
  <2> QED BY <2>1, <2>2, <2>3, <2>4, <2>5, <2>6, <2>7 DEF Next
<1> QED BY <1>1, HistoryInit, ScrollbackSafe, PTL DEF Spec, KeepsHistory, History!Spec

-----------------------------------------------------------------------------
(* What is lost, and why: chunks of one answer have no line in common, and *)
(* none of them is empty unless it is the only one.                        *)

Fit(x, y) == Same(x, y) => x.lines \cap y.lines = {} /\ x.lines # {} /\ y.lines # {}

Separate(s) == \A i, j \in DOMAIN s : i # j => Fit(s[i], s[j])

AllFit(S, T) == \A x \in S, y \in T : Fit(x, y)

(* The same of a chunk and the goroutine that sent it and has more.        *)
FitJob(x, j) == Same(x, j) => x.lines \cap j.lines = {} /\ (j.queued # "last" => x.lines # {} /\ j.lines # {})

Spaced ==
  /\ Separate(respQueue) /\ Separate(taken) /\ \A c \in Conns : Separate(up[c])
  /\ AllFit(Elems(respQueue), Elems(taken))
  /\ \A c \in Conns : AllFit(Elems(respQueue), Elems(up[c])) /\ AllFit(Elems(taken), Elems(up[c]))
  /\ \A c, d \in Conns : c # d => AllFit(Elems(up[c]), Elems(up[d]))

JobsAhead ==
  /\ \A x \in Outside, j \in jobs : FitJob(x, j)
  /\ \A j \in jobs : j.queued = "more" => j.lines # {}
  /\ \A j \in jobs : \E b \in Nat : j.lines \subseteq 0 .. b

FullChunks == \A x \in Outside : ~ x.final => IsFiniteSet(x.lines) /\ Cardinality(x.lines) = ChunkLines

SentOnce == Spaced /\ JobsAhead /\ FullChunks

LEMMA FitTurns == \A x, y : Fit(x, y) => Fit(y, x)
BY DEF Fit, Same

LEMMA AllFitParts ==
  ASSUME NEW S, NEW T, AllFit(S, T), NEW U, U \subseteq S, NEW V, V \subseteq T
  PROVE  AllFit(U, V)
BY DEF AllFit

LEMMA SeparateEmpty == Separate(<<>>) /\ \A S : AllFit(Elems(<<>>), S) /\ AllFit(S, Elems(<<>>))
BY ElemsEmpty DEF Separate, AllFit

LEMMA SeparateAppend ==
  ASSUME NEW S, NEW s \in Seq(S), NEW x \in S, Separate(s), AllFit(Elems(s), {x})
  PROVE  Separate(Append(s, x))
<1> DEFINE t == Append(s, x)
           n == Len(s) + 1
<1>1. /\ \A i \in DOMAIN t : i \in DOMAIN s \/ i = n
      /\ \A i \in DOMAIN s : t[i] = s[i]
      /\ t[n] = x
  BY AppendShape
<1> HIDE DEF t, n
<1>2. \A i \in DOMAIN s : Fit(s[i], x) /\ Fit(x, s[i])
  BY FitTurns DEF AllFit, Elems
<1>3. ASSUME NEW i \in DOMAIN t, NEW j \in DOMAIN t, i # j PROVE Fit(t[i], t[j])
  BY <1>1, <1>2, <1>3 DEF Separate
<1> QED BY <1>3 DEF Separate, t

LEMMA SeparateTail ==
  ASSUME NEW S, NEW s \in Seq(S), s # <<>>, Separate(s)
  PROVE  Separate(Tail(s)) /\ AllFit(Elems(Tail(s)), {Head(s)})
<1> DEFINE t == Tail(s)
<1>1. /\ \A i \in DOMAIN t : i \in Nat /\ i + 1 \in DOMAIN s /\ t[i] = s[i + 1] /\ i + 1 # 1
      /\ 1 \in DOMAIN s /\ Head(s) = s[1]
  OBVIOUS
<1> HIDE DEF t
<1>2. ASSUME NEW i \in DOMAIN t, NEW j \in DOMAIN t, i # j PROVE Fit(t[i], t[j])
  <2>1. i + 1 # j + 1
    BY <1>1, <1>2
  <2> QED BY <1>1, <2>1 DEF Separate
<1>3. ASSUME NEW i \in DOMAIN t PROVE Fit(t[i], Head(s))
  BY <1>1 DEF Separate
<1> QED BY <1>2, <1>3 DEF Separate, AllFit, Elems, t

(* Queues that stay or are emptied.                                        *)
LEMMA SpacedShrinks ==
  ASSUME Spaced,
         respQueue' = respQueue \/ respQueue' = <<>>, taken' = taken \/ taken' = <<>>,
         \A c \in Conns : up'[c] = up[c] \/ up'[c] = <<>>
  PROVE  Spaced'
<1>1. /\ Elems(respQueue') \subseteq Elems(respQueue) /\ Elems(taken') \subseteq Elems(taken)
      /\ Separate(respQueue') /\ Separate(taken')
  BY ElemsEmpty, SeparateEmpty DEF Spaced
<1>2. ASSUME NEW c \in Conns PROVE Elems(up'[c]) \subseteq Elems(up[c]) /\ Separate(up'[c])
  BY ElemsEmpty, SeparateEmpty DEF Spaced
<1> QED BY <1>1, <1>2, AllFitParts DEF Spaced

(* The chunk a handler takes fits with all that is still outside.          *)
LEMMA SpacedScan ==
  ASSUME Types, Spaced, NEW c \in Conns, HandlerScans(c)
  PROVE  Spaced' /\ \A x \in Outside' : Fit(x, Head(up[c]))
<1>0. PICK r : r = Head(up[c])
  OBVIOUS
<1>1. /\ up[c] # <<>> /\ r \in Elems(up[c]) /\ up[c] \in Seq(Chunks)
      /\ Elems(up'[c]) \subseteq Elems(up[c]) /\ up'[c] = Tail(up[c])
      /\ \A d \in Conns \ {c} : up'[d] = up[d]
      /\ UNCHANGED <<respQueue, taken>>
  BY <1>0, OutsideScans DEF Types, WireTypes
<1>2. Separate(up'[c]) /\ AllFit(Elems(up'[c]), {r})
  BY <1>0, <1>1, SeparateTail DEF Spaced
<1>3. \A d \in Conns : Separate(up'[d]) /\ Elems(up'[d]) \subseteq Elems(up[d])
  BY <1>1, <1>2 DEF Spaced
<1>4. Spaced'
  BY <1>1, <1>3, AllFitParts DEF Spaced
<1>5. ASSUME NEW x \in Outside' PROVE Fit(x, r)
  <2>1. CASE x \in Elems(respQueue) \/ x \in Elems(taken)
    BY <1>1, <2>1 DEF Spaced, AllFit
  <2>2. CASE x \in Elems(up'[c])
    BY <1>2, <2>2 DEF AllFit
  <2>3. ASSUME NEW d \in Conns \ {c}, x \in Elems(up'[d]) PROVE Fit(x, r)
    BY <1>1, <2>3 DEF Spaced, AllFit
  <2> QED BY <1>1, <2>1, <2>2, <2>3 DEF Outside
<1> QED BY <1>0, <1>4, <1>5

LEMMA SpacedWrite ==
  ASSUME Types, Spaced, WriteResp
  PROVE  Spaced'
<1>0. PICK h : h = Head(taken)
  OBVIOUS
<1>1. /\ taken # <<>> /\ taken \in Seq(Chunks) /\ taken' = Tail(taken)
      /\ Elems(taken') \subseteq Elems(taken) /\ h \in Elems(taken) /\ h \in Chunks
      /\ current \in Conns /\ up[current] \in Seq(Chunks) /\ up'[current] = Append(up[current], h)
      /\ Elems(up'[current]) = Elems(up[current]) \cup {h}
      /\ \A d \in Conns \ {current} : up'[d] = up[d]
      /\ respQueue' = respQueue
  <2>1. taken # <<>> /\ taken \in Seq(Chunks) /\ current \in Conns
    BY OutsideWrite
  <2>2. h \in Chunks
    BY <1>0, <2>1, TailType
  <2>3. up[current] \in Seq(Chunks)
    BY <2>1 DEF Types, WireTypes
  <2> QED BY <1>0, <2>2, <2>3, OutsideWrite
<1>2. Separate(taken') /\ AllFit(Elems(taken'), {h})
  BY <1>0, <1>1, SeparateTail DEF Spaced
<1>3. \A d \in Conns : \A x \in Elems(up[d]) : Fit(h, x) /\ Fit(x, h)
  BY <1>1, FitTurns DEF Spaced, AllFit
<1>4. Separate(up'[current])
  <2>1. AllFit(Elems(up[current]), {h})
    BY <1>1, <1>3 DEF AllFit
  <2> QED BY <1>1, <2>1, SeparateAppend DEF Spaced
<1>5. \A x \in Elems(respQueue) : Fit(x, h)
  BY <1>1 DEF Spaced, AllFit
<1>6. ASSUME NEW c \in Conns
      PROVE  AllFit(Elems(respQueue'), Elems(up'[c])) /\ AllFit(Elems(taken'), Elems(up'[c]))
  <2>1. AllFit(Elems(respQueue), Elems(up[c])) /\ AllFit(Elems(taken'), Elems(up[c]))
    BY <1>1, AllFitParts DEF Spaced
  <2>2. \A x \in Elems(up'[c]) : x \in Elems(up[c]) \/ x = h
    BY <1>1
  <2> QED BY <1>1, <1>2, <1>5, <2>1, <2>2 DEF AllFit
<1>7. ASSUME NEW c \in Conns, NEW d \in Conns, c # d PROVE AllFit(Elems(up'[c]), Elems(up'[d]))
  <2>1. AllFit(Elems(up[c]), Elems(up[d]))
    BY <1>7 DEF Spaced
  <2>2. /\ \A x \in Elems(up'[c]) : x \in Elems(up[c]) \/ (x = h /\ up'[d] = up[d])
        /\ \A x \in Elems(up'[d]) : x \in Elems(up[d]) \/ (x = h /\ up'[c] = up[c])
    BY <1>1, <1>7
  <2> QED BY <1>3, <2>1, <2>2 DEF AllFit
<1>8. AllFit(Elems(respQueue'), Elems(taken'))
  BY <1>1, AllFitParts DEF Spaced
<1> QED BY <1>1, <1>2, <1>4, <1>6, <1>7, <1>8 DEF Spaced

LEMMA SpacedTake ==
  ASSUME Types, Spaced, TakeResps
  PROVE  Spaced'
<1>1. taken = <<>> /\ taken' = respQueue /\ respQueue' = <<>> /\ up' = up
  BY OutsideTake
<1> QED BY <1>1, SeparateEmpty DEF Spaced

Oldest(lines, limit) == {o \in lines : Cardinality({p \in lines : p <= o}) <= limit}

(* The oldest limit of some lines: at least one, and fewer than limit only *)
(* if there are no others.                                                 *)
LEMMA FirstLines ==
  ASSUME NEW b \in Nat, NEW lines \in SUBSET (0 .. b), NEW limit \in Nat \ {0},
         NEW first, first = Oldest(lines, limit)
  PROVE  /\ first \subseteq lines /\ IsFiniteSet(first)
         /\ lines # {} => first # {}
         /\ lines \subseteq first \/ Cardinality(first) = limit
<1> DEFINE to(x) == {q \in lines : q <= x}
<1>1. IsFiniteSet(lines) /\ first \in SUBSET lines /\ lines \subseteq Nat
  <2>1. IsFiniteSet(0 .. b)
    BY FS_Interval
  <2>2. IsFiniteSet(lines)
    BY <2>1, FS_Subset
  <2>3. lines \subseteq Nat
    OBVIOUS
  <2>4. first \subseteq lines
    BY DEF Oldest
  <2> QED BY <2>2, <2>3, <2>4
<1>2. \A o \in lines : o \in first <=> Cardinality(to(o)) <= limit
  BY DEF Oldest
<1>3. \A o \in lines : IsFiniteSet(to(o)) /\ Cardinality(to(o)) \in Nat
  BY <1>1, FS_Subset, FS_CardinalityType
<1>4. IsFiniteSet(first) /\ Cardinality(first) \in Nat
  BY <1>1, FS_Subset, FS_CardinalityType
<1>5. ASSUME NEW o \in first, NEW p \in lines, p <= o PROVE p \in first
  <2>1. to(p) \subseteq to(o)
    <3>1. o \in Nat /\ p \in Nat
      BY <1>1
    <3>2. ASSUME NEW q \in lines, q <= p PROVE q <= o
      <4>1. q \in Nat
        BY <1>1
      <4> QED BY <1>5, <3>1, <3>2, <4>1
    <3> QED BY <3>2
  <2>2. Cardinality(to(p)) <= Cardinality(to(o))
    BY <1>1, <1>3, <2>1, FS_Subset
  <2>3. Cardinality(to(o)) <= limit /\ Cardinality(to(o)) \in Nat /\ Cardinality(to(p)) \in Nat
    BY <1>1, <1>2, <1>3
  <2> QED BY <1>2, <2>2, <2>3
<1>6. ASSUME lines # {} PROVE first # {}
  <2>1. PICK m \in lines : \A y \in lines : m <= y
    BY <1>1, <1>6, LeastExists
  <2>2. to(m) = {m}
    <3>1. \A q \in to(m) : q = m
      BY <1>1, <2>1
    <3>2. m \in to(m)
      BY <1>1, <2>1
    <3> QED BY <3>1, <3>2
  <2>3. Cardinality(to(m)) = 1
    BY <2>2, FS_Singleton
  <2> QED BY <1>2, <2>1, <2>3
<1> HIDE DEF to
<1>7. Cardinality(first) <= limit
  <2>1. CASE first = {}
    BY <2>1, FS_EmptySet
  <2>2. CASE first # {}
    <3>1. PICK x \in first : \A y \in first : y <= x
      <4>1. first \in SUBSET (0 .. b)
        BY <1>1
      <4> QED BY <2>2, <4>1, GreatestExists
    <3>2. to(x) = first
      BY <1>1, <1>5, <3>1 DEF to
    <3> QED BY <1>1, <1>2, <3>1, <3>2
  <2> QED BY <2>1, <2>2
<1>8. ASSUME ~ (lines \subseteq first) PROVE Cardinality(first) = limit
  <2>1. lines \ first \in SUBSET Nat /\ lines \ first # {}
    BY <1>1, <1>8
  <2>2. PICK g \in lines \ first : \A y \in lines \ first : g <= y
    BY <2>1, LeastExists
  <2>3. to(g) = first \cup {g}
    <3>1. ASSUME NEW q \in lines, q <= g PROVE q \in first \cup {g}
      BY <1>1, <2>2, <3>1
    <3>2. ASSUME NEW q \in first PROVE q <= g
      <4>1. ~ (g <= q)
        BY <1>5, <2>2
      <4> QED BY <1>1, <2>2, <4>1
    <3>3. g <= g
      BY <1>1, <2>2
    <3> QED BY <1>1, <2>2, <3>1, <3>2, <3>3 DEF to
  <2>4. Cardinality(first \cup {g}) = Cardinality(first) + 1
    BY <1>4, <2>2, FS_AddElement
  <2>5. ~ (Cardinality(first) + 1 <= limit)
    BY <1>2, <2>2, <2>3, <2>4
  <2> QED BY <1>4, <1>7, <2>5
<1>9. first \subseteq lines
  BY <1>1
<1>10. lines # {} => first # {}
  BY <1>6
<1>11. lines \subseteq first \/ Cardinality(first) = limit
  BY <1>8
<1> QED BY <1>4, <1>9, <1>10, <1>11

LEMMA PageBounded ==
  ASSUME NEW cont, NEW b \in Nat, NEW limit, NEW page, page = ReadLinesBefore(cont, b, limit)
  PROVE  page.lines \subseteq 0 .. (b - 1)
<1> DEFINE pos == ScanStop(cont, b, limit)
<1>1. pos \in 0 .. b
  BY ScanStops
<1> HIDE DEF pos
<1>2. \A h \in Heads(cont, pos, b) : h \in Nat
  BY <1>1, HeadStartsLine
<1>3. \A h \in Nat : LastLines(LinesIn(cont, h, b), limit) \subseteq 0 .. (b - 1)
  BY DEF LastLines, LinesIn
<1>4. page.lines = UNION {LastLines(LinesIn(cont, h, b), limit) : h \in Heads(cont, pos, b)}
  BY PageLinesOf DEF pos
<1> QED BY <1>2, <1>3, <1>4

(* A chunk and what its goroutine has left.                                *)
LEMMA ChunkShape ==
  ASSUME Types, JobsAhead, NEW j \in jobs, NEW r, r = ChunkOf(j), NEW k, k = RestOf(j)
  PROVE  /\ k.id = j.id /\ k.epoch = j.epoch /\ r.id = j.id /\ r.epoch = j.epoch
         /\ r.lines \subseteq j.lines /\ k.lines = j.lines \ r.lines
         /\ k.queued # "no" /\ (k.queued = "more" => k.lines # {})
         /\ j.lines # {} => r.lines # {}
         /\ ~ r.final => IsFiniteSet(r.lines) /\ Cardinality(r.lines) = ChunkLines
<1>1. j \in Jobs
  BY DEF Types, ClientTypes
<1>2. /\ k = [id |-> j.id, epoch |-> j.epoch, lines |-> j.lines \ NextLines(j), atStart |-> j.atStart,
              err |-> j.err, queued |-> IF j.lines \subseteq NextLines(j) THEN "last" ELSE "more"]
      /\ NextLines(j) \subseteq j.lines
  BY <1>1, ChunkOfType
<1>3. /\ r.id = j.id /\ r.epoch = j.epoch /\ r.lines = NextLines(j)
      /\ r.final = (j.lines \subseteq NextLines(j))
  BY DEF ChunkOf
<1>4. PICK b \in Nat : j.lines \subseteq 0 .. b
  BY DEF JobsAhead
<1>5. PICK lines, first : lines = j.lines /\ first = NextLines(j)
  OBVIOUS
<1>6. /\ lines \in SUBSET (0 .. b) /\ ChunkLines \in Nat \ {0}
      /\ first = Oldest(lines, ChunkLines)
  BY <1>4, <1>5, SizesAssumption DEF NextLines, Oldest
<1>7. /\ IsFiniteSet(first) /\ (lines # {} => first # {})
      /\ lines \subseteq first \/ Cardinality(first) = ChunkLines
  <2>1. PICK limit : limit = ChunkLines
    OBVIOUS
  <2>2. limit \in Nat \ {0} /\ first = Oldest(lines, limit)
    BY <1>6, <2>1
  <2>3. IsFiniteSet(first) /\ (lines # {} => first # {})
    BY <1>6, <2>2, FirstLines
  <2>4. lines \subseteq first \/ Cardinality(first) = limit
    BY <1>6, <2>2, FirstLines
  <2> QED BY <2>1, <2>3, <2>4
<1>8. k.lines = j.lines \ r.lines /\ r.lines = first /\ r.final = (lines \subseteq first)
  BY <1>2, <1>3, <1>5
<1>9. k.queued # "no" /\ (k.queued = "more" => k.lines # {})
  BY <1>2, <1>3
<1>10. ~ r.final => IsFiniteSet(r.lines) /\ Cardinality(r.lines) = ChunkLines
  BY <1>7, <1>8
<1>11. j.lines # {} => r.lines # {}
  BY <1>5, <1>7, <1>8
<1>12. k.id = j.id /\ k.epoch = j.epoch /\ r.id = j.id /\ r.epoch = j.epoch /\ r.lines \subseteq j.lines
  BY <1>2, <1>3
<1> QED BY <1>8, <1>9, <1>10, <1>11, <1>12

LEMMA SentQueue == \A j \in jobs : Types /\ Book /\ SentOnce /\ QueueChunk(j) => SentOnce'
<1> SUFFICES ASSUME NEW j \in jobs, Types, Book, SentOnce, QueueChunk(j)
             PROVE  SentOnce'
  OBVIOUS
<1>1. PICK r, k : r = ChunkOf(j) /\ k = RestOf(j)
  OBVIOUS
<1>2. /\ respQueue' = Append(respQueue, r) /\ r \in Chunks /\ respQueue \in Seq(Chunks)
      /\ Elems(respQueue') = Elems(respQueue) \cup {r}
      /\ UNCHANGED <<taken, up>> /\ Outside' = Outside \cup {r}
      /\ jobs' = (jobs \ {j}) \cup {k} /\ j.queued = "no"
  BY <1>1, OutsideQueue, QueueChunkStep DEF Types, ClientTypes
<1>3. /\ k.id = j.id /\ k.epoch = j.epoch /\ r.id = j.id /\ r.epoch = j.epoch
      /\ r.lines \subseteq j.lines /\ k.lines = j.lines \ r.lines
      /\ k.queued # "no" /\ (k.queued = "more" => k.lines # {})
      /\ j.lines # {} => r.lines # {}
      /\ ~ r.final => IsFiniteSet(r.lines) /\ Cardinality(r.lines) = ChunkLines
  BY <1>1, ChunkShape DEF SentOnce
<1>4. \A x \in Outside : Fit(x, r) /\ Fit(r, x)
  <2> SUFFICES ASSUME NEW x \in Outside PROVE Fit(x, r)
    BY FitTurns
  <2>1. Same(x, r) => Same(x, j)
    BY <1>3 DEF Same
  <2>2. FitJob(x, j)
    BY DEF SentOnce, JobsAhead
  <2> QED BY <1>2, <1>3, <2>1, <2>2 DEF Fit, FitJob
<1>5. Spaced'
  <2>1. /\ Elems(respQueue) \subseteq Outside /\ Elems(taken) \subseteq Outside
        /\ \A c \in Conns : Elems(up[c]) \subseteq Outside
    BY DEF Outside
  <2>2. Separate(respQueue')
    <3>1. AllFit(Elems(respQueue), {r})
      BY <1>4, <2>1 DEF AllFit
    <3> QED BY <1>2, <3>1, SeparateAppend DEF SentOnce, Spaced
  <2>3. AllFit(Elems(respQueue'), Elems(taken'))
    BY <1>2, <1>4, <2>1 DEF SentOnce, Spaced, AllFit
  <2>4. \A c \in Conns : AllFit(Elems(respQueue'), Elems(up'[c]))
    BY <1>2, <1>4, <2>1 DEF SentOnce, Spaced, AllFit
  <2> QED BY <1>2, <2>2, <2>3, <2>4 DEF SentOnce, Spaced
<1>6. ASSUME NEW x \in Outside', NEW i \in jobs' PROVE FitJob(x, i)
  <2>1. CASE x = r /\ i = k
    <3>1. k.queued # "last" => k.lines # {} /\ r.lines # {}
      <4>1. k.queued \in {"no", "more", "last"}
        BY <1>1, ChunkOfType DEF Types, ClientTypes, Jobs
      <4> QED BY <1>3, <4>1
    <3> QED BY <1>3, <2>1, <3>1 DEF FitJob
  <2>2. CASE x \in Outside /\ i = k
    <3>1. Same(x, k) => Same(x, j)
      BY <1>3 DEF Same
    <3>2. FitJob(x, j)
      BY <2>2 DEF SentOnce, JobsAhead
    <3>3. k.queued # "last" => k.lines # {}
      <4>1. k.queued \in {"no", "more", "last"}
        BY <1>1, ChunkOfType DEF Types, ClientTypes, Jobs
      <4> QED BY <1>3, <4>1
    <3> QED BY <1>2, <1>3, <2>2, <3>1, <3>2, <3>3 DEF FitJob
  <2>3. CASE x \in Outside /\ i \in jobs
    BY <2>3 DEF SentOnce, JobsAhead
  <2>4. CASE x = r /\ i \in jobs \ {j}
    <3>1. ~ Same(j, i)
      BY <2>4 DEF Book, ReadOnce
    <3>2. ~ Same(r, i)
      BY <1>3, <3>1 DEF Same
    <3> QED BY <2>4, <3>2 DEF FitJob
  <2> QED BY <1>2, <2>1, <2>2, <2>3, <2>4
<1>7. JobsAhead'
  <2>1. \A i \in jobs' : i.queued = "more" => i.lines # {}
    BY <1>2, <1>3 DEF SentOnce, JobsAhead
  <2>2. \A i \in jobs' : \E b \in Nat : i.lines \subseteq 0 .. b
    <3>1. \E b \in Nat : k.lines \subseteq 0 .. b
      <4>1. PICK b \in Nat : j.lines \subseteq 0 .. b
        BY DEF SentOnce, JobsAhead
      <4>2. k.lines \subseteq 0 .. b
        BY <1>3, <4>1
      <4> QED BY <4>2
    <3> QED BY <1>2, <3>1 DEF SentOnce, JobsAhead
  <2> QED BY <1>6, <2>1, <2>2 DEF JobsAhead
<1>8. FullChunks'
  BY <1>2, <1>3 DEF SentOnce, FullChunks
<1> QED BY <1>5, <1>7, <1>8 DEF SentOnce

(* A new goroutine has no chunks under way.                                *)
LEMMA SentRead == \A c \in Conns : Types /\ Book /\ SentOnce /\ ReaderGets(c) => SentOnce'
<1> SUFFICES ASSUME NEW c \in Conns, Types, Book, SentOnce, ReaderGets(c)
             PROVE  SentOnce'
  OBVIOUS
<1>0. PICK h : h = Head(down[c])
  OBVIOUS
<1>1. /\ UNCHANGED <<respQueue, taken, up>> /\ Outside' = Outside
      /\ h \in Requests /\ h \in Elems(down[c]) /\ h \in Unread
  <2>1. /\ UNCHANGED <<respQueue, taken, up>> /\ h \in Requests /\ h \in Elems(down[c])
    BY <1>0, ReaderMoves
  <2> QED BY <2>1, OutsideSame DEF Unread
<1>2. PICK k : ReadFor(h, k) /\ jobs' = jobs \cup {k}
  BY <1>0, ReaderMoves
<1>3. \A x \in Outside : ~ Same(x, k)
  <2>1. \A x \in Outside : ~ Same(h, x)
    BY <1>1 DEF Book, ReadOnce, NoneSame
  <2> QED BY <1>2, <2>1 DEF ReadFor, Same
<1>4. k.queued = "no" /\ \E b \in Nat : k.lines \subseteq 0 .. b
  <2>1. h.before \in Nat
    BY <1>1 DEF Requests
  <2>2. PICK page : page = ReadLinesBefore(content[h.viewer], h.before, PageLines)
    OBVIOUS
  <2>3. page.lines \subseteq 0 .. (h.before - 1)
    BY <2>1, <2>2, PageBounded
  <2>4. page.lines \subseteq 0 .. h.before
    BY <2>1, <2>3
  <2>5. k.queued = "no" /\ (k.lines = page.lines \/ k.lines = {})
    BY <1>2, <2>2 DEF ReadFor
  <2>6. k.lines \subseteq 0 .. h.before
    BY <2>4, <2>5
  <2> QED BY <2>1, <2>5, <2>6
<1>5. \A x \in Outside', j \in jobs' : FitJob(x, j)
  BY <1>1, <1>2, <1>3 DEF SentOnce, JobsAhead, FitJob
<1>6. /\ \A j \in jobs' : j.queued = "more" => j.lines # {}
      /\ \A j \in jobs' : \E b \in Nat : j.lines \subseteq 0 .. b
  BY <1>2, <1>4 DEF SentOnce, JobsAhead
<1>7. Spaced'
  BY <1>1, SpacedShrinks DEF SentOnce
<1> QED BY <1>1, <1>5, <1>6, <1>7 DEF SentOnce, JobsAhead, FullChunks

LEMMA SentSignal == \A j \in jobs : Types /\ SentOnce /\ SignalWake(j) => SentOnce'
<1> SUFFICES ASSUME NEW j \in jobs, Types, SentOnce, SignalWake(j)
             PROVE  SentOnce'
  OBVIOUS
<1>1. UNCHANGED <<respQueue, taken, up>> /\ j.queued # "no" /\ j.queued \in {"no", "more", "last"}
  <2>1. j \in Jobs
    BY DEF Types, ClientTypes
  <2> QED BY <2>1, SignalStep DEF wireVars, Jobs
<1>2. Outside' = Outside /\ Spaced'
  BY <1>1, OutsideSame, SpacedShrinks DEF SentOnce
<1>3. CASE jobs' = jobs \ {j}
  BY <1>2, <1>3 DEF SentOnce, JobsAhead, FullChunks
<1>4. CASE j.queued # "last"
  <2>1. PICK k : /\ jobs' = (jobs \ {j}) \cup {k} /\ k.id = j.id /\ k.epoch = j.epoch
                 /\ k.lines = j.lines /\ k.queued = "no"
    BY <1>4, SignalStep
  <2>2. \A x \in Outside : FitJob(x, k)
    <3> SUFFICES ASSUME NEW x \in Outside PROVE FitJob(x, k)
      OBVIOUS
    <3>1. FitJob(x, j) /\ (Same(x, k) => Same(x, j))
      BY <2>1 DEF SentOnce, JobsAhead, Same
    <3> QED BY <1>4, <2>1, <3>1 DEF FitJob
  <2> QED BY <1>2, <2>1, <2>2 DEF SentOnce, JobsAhead, FullChunks
<1> QED BY <1>3, <1>4, SignalStep

(* Steps at which chunks stay, go or move.                                 *)
LEMMA SentMoves ==
  ASSUME SentOnce, Spaced', Outside' \subseteq Outside, jobs' = jobs
  PROVE  SentOnce'
BY DEF SentOnce, JobsAhead, FullChunks

LEMMA SentNext == Types /\ Book /\ SentOnce /\ [Next]_vars => SentOnce'
<1> SUFFICES ASSUME Types, Book, SentOnce, [Next]_vars
             PROVE  SentOnce'
  OBVIOUS
<1>1. ASSUME UNCHANGED <<respQueue, taken, up, jobs>> PROVE SentOnce'
  BY <1>1, SpacedShrinks, OutsideSame, SentMoves DEF SentOnce
<1>2. ASSUME NEW v \in Viewers, FindConn(v) \/ SendRequest(v) \/ Collect(v) \/ Timeout(v) \/ ClearOlder(v)
      PROVE  UNCHANGED <<respQueue, taken, up, jobs>>
  BY <1>2 DEF FindConn, SendRequest, Collect, Timeout, ClearOlder, wireVars, clientVars
<1>3. ASSUME NEW c \in Conns,
             Accept(c) \/ AddConn(c) \/ WriterSends(c) \/ RemoveConn(c) \/ ReaderEnds(c) \/ BreakConn(c)
      PROVE  UNCHANGED <<respQueue, taken, up, jobs>>
  BY <1>3 DEF Accept, AddConn, WriterSends, RemoveConn, ReaderEnds, BreakConn, wireVars, clientVars
<1>4. ASSUME NEW c \in Conns, HandlerScans(c) PROVE SentOnce'
  <2>1. jobs' = jobs
    BY <1>4 DEF HandlerScans, clientVars
  <2> QED BY <1>4, <2>1, SpacedScan, OutsideScans, SentMoves DEF SentOnce
<1>5. ASSUME NEW c \in Conns, HandlerEnds(c) PROVE SentOnce'
  <2>1. jobs' = jobs
    BY <1>5 DEF HandlerEnds, clientVars
  <2>2. /\ UNCHANGED <<respQueue, taken>> /\ Outside' \subseteq Outside
        /\ \A d \in Conns : up'[d] = up[d] \/ up'[d] = <<>>
    BY <1>5, OutsideEnds
  <2> QED BY <2>1, <2>2, SpacedShrinks, SentMoves DEF SentOnce
<1>6. ASSUME TakeResps PROVE SentOnce'
  <2>1. jobs' = jobs
    BY <1>6 DEF TakeResps
  <2>2. Outside' \subseteq Outside /\ Spaced'
    BY <1>6, OutsideTake, SpacedTake DEF SentOnce
  <2> QED BY <2>1, <2>2, SentMoves
<1>7. ASSUME WriteResp PROVE SentOnce'
  <2>1. jobs' = jobs
    BY <1>7 DEF WriteResp
  <2>2. Outside' \subseteq Outside /\ Spaced'
    BY <1>7, OutsideWrite, SpacedWrite DEF SentOnce
  <2> QED BY <2>1, <2>2, SentMoves
<1>8. ASSUME StreamEnded PROVE SentOnce'
  <2>1. jobs' = jobs
    BY <1>8 DEF StreamEnded
  <2> QED BY <1>8, <2>1, OutsideStream, SpacedShrinks, SentMoves DEF SentOnce
<1>9. ASSUME WakeUp \/ UNCHANGED vars PROVE UNCHANGED <<respQueue, taken, up, jobs>>
  BY <1>9 DEF WakeUp, vars, wireVars, clientVars
<1>10. ASSUME Restart PROVE SentOnce'
  <2>1. UNCHANGED <<respQueue, taken, jobs>> /\ \A c \in Conns : up'[c] = <<>>
    BY <1>10 DEF Restart, clientVars
  <2>2. Outside' \subseteq Outside
    BY <2>1, ElemsEmpty DEF Outside
  <2> QED BY <2>1, <2>2, SpacedShrinks, SentMoves DEF SentOnce
<1> QED BY <1>1, <1>2, <1>3, <1>4, <1>5, <1>6, <1>7, <1>8, <1>9, <1>10, SentQueue, SentRead, SentSignal DEF Next

(* What has come for a request, collected or still in its channel.         *)
Arrived(lines, s) == lines \cup UNION {x.lines : x \in Elems(s)}

(* What is under way for it brings other lines, and at least one if it is  *)
(* not the first to come.                                                  *)
Ahead(n, e, came, s) ==
  /\ \A x \in Outside : Bears(n, e, x) => x.lines \cap came = {} /\ (s # <<>> => x.lines # {})
  /\ \A j \in jobs : Bears(n, e, j) => /\ j.lines \cap came = {}
                                       /\ j.queued # "last" /\ s # <<>> => j.lines # {}

(* The chunks in its channel are full until the final one is there.        *)
Room(n, e, came, s, page) ==
  ~ Over(n, e, Elems(s)) => Len(s) * ChunkLines + Cardinality(page \ came) <= Cardinality(page)

Counted(v) ==
  /\ Ahead(id[v], epoch, Arrived(got[v], chunks[v]), chunks[v])
  /\ Room(id[v], epoch, Arrived(got[v], chunks[v]), chunks[v], PageOf(v).lines)

Counts == \A v \in Viewers : asking[v] = "waiting" /\ v \notin spoiled => Counted(v)

LEMMA PageFinite ==
  ASSUME Types, NEW v \in Viewers
  PROVE  IsFiniteSet(PageOf(v).lines) /\ Cardinality(PageOf(v).lines) \in Nat
<1>1. PICK page, b : page = PageOf(v) /\ b = before[v]
  OBVIOUS
<1>2. b \in Nat /\ page = ReadLinesBefore(content[v], b, PageLines)
  BY <1>1 DEF PageOf, Types, AskTypes
<1>3. page.lines \subseteq 0 .. (b - 1)
  BY <1>2, PageBounded
<1>4. IsFiniteSet(0 .. (b - 1))
  BY <1>2, FS_Interval
<1>5. IsFiniteSet(page.lines)
  BY <1>3, <1>4, FS_Subset
<1> QED BY <1>1, <1>5, FS_CardinalityType

(* One more full chunk in the channel is ChunkLines fewer lines to come.   *)
LEMMA RoomAppend ==
  ASSUME NEW n, NEW e, NEW S, NEW s \in Seq(S), NEW x \in S, NEW came, NEW page, IsFiniteSet(page),
         Room(n, e, came, s, page), Bears(n, e, x),
         x.lines \subseteq page, x.lines \cap came = {},
         ~ x.final => IsFiniteSet(x.lines) /\ Cardinality(x.lines) = ChunkLines
  PROVE  Room(n, e, came \cup x.lines, Append(s, x), page)
<1>1. PICK t, new : t = Append(s, x) /\ new = came \cup x.lines
  OBVIOUS
<1>2. Elems(t) = Elems(s) \cup {x} /\ Len(t) = Len(s) + 1 /\ Len(s) \in Nat
  BY <1>1, ElemsAppend, AppendType
<1> SUFFICES ASSUME ~ Over(n, e, Elems(t))
             PROVE  Len(t) * ChunkLines + Cardinality(page \ new) <= Cardinality(page)
  BY <1>1 DEF Room
<1>3. ~ x.final /\ ~ Over(n, e, Elems(s))
  BY <1>2 DEF Over
<1>4. Len(s) * ChunkLines + Cardinality(page \ came) <= Cardinality(page)
  BY <1>3 DEF Room
<1>5. PICK rest, left : rest = page \ came /\ left = page \ new
  OBVIOUS
<1>6. IsFiniteSet(rest) /\ IsFiniteSet(left) /\ IsFiniteSet(x.lines) /\ Cardinality(x.lines) = ChunkLines
  BY <1>3, <1>5, FS_Difference
<1>7. Cardinality(rest) \in Nat /\ Cardinality(left) \in Nat /\ Cardinality(page) \in Nat
  BY <1>6, FS_CardinalityType
<1>8. left \cup x.lines = rest /\ left \cap x.lines = {}
  BY <1>1, <1>5
<1>9. Cardinality(rest) = Cardinality(left) + ChunkLines
  <2>1. Cardinality(left \cup x.lines) = Cardinality(left) + Cardinality(x.lines) - Cardinality(left \cap x.lines)
    BY <1>6, FS_Union
  <2>2. Cardinality(left \cap x.lines) = 0
    BY <1>8, FS_EmptySet
  <2>3. ChunkLines \in Nat
    BY SizesAssumption
  <2>4. Cardinality(rest) = Cardinality(left) + Cardinality(x.lines) - Cardinality(left \cap x.lines)
    BY <1>8, <2>1
  <2>5. Cardinality(rest) = Cardinality(left) + ChunkLines - 0
    BY <1>6, <2>2, <2>4
  <2> QED BY <1>7, <2>3, <2>5
<1>10. PICK m, k, p, a, b : /\ m = Len(s) /\ k = ChunkLines /\ p = Cardinality(page)
                            /\ a = Cardinality(rest) /\ b = Cardinality(left)
  OBVIOUS
<1>11. /\ m \in Nat /\ k \in Nat /\ p \in Nat /\ a \in Nat /\ b \in Nat
       /\ m * k + a <= p /\ a = b + k
  BY <1>2, <1>4, <1>5, <1>7, <1>9, <1>10, SizesAssumption
<1>12. (m + 1) * k = m * k + k /\ m * k \in Nat
  BY <1>11
<1>13. (m + 1) * k + b <= p
  BY <1>11, <1>12
<1> QED BY <1>2, <1>5, <1>10, <1>13

(* One that is collected leaves more room.                                 *)
LEMMA RoomTail ==
  ASSUME NEW n, NEW e, NEW S, NEW s \in Seq(S), s # <<>>, NEW came, NEW page, IsFiniteSet(page),
         Room(n, e, came, s, page), Bears(n, e, Head(s)) => ~ Head(s).final
  PROVE  Room(n, e, came, Tail(s), page)
<1>1. PICK t : t = Tail(s)
  OBVIOUS
<1>2. Elems(s) = Elems(t) \cup {Head(s)} /\ Len(t) = Len(s) - 1 /\ Len(s) \in Nat \ {0}
  BY <1>1, ElemsTail, TailType
<1> SUFFICES ASSUME ~ Over(n, e, Elems(t))
             PROVE  Len(t) * ChunkLines + Cardinality(page \ came) <= Cardinality(page)
  BY <1>1 DEF Room
<1>3. ~ Over(n, e, Elems(s))
  BY <1>2 DEF Over
<1>4. Len(s) * ChunkLines + Cardinality(page \ came) <= Cardinality(page)
  BY <1>3 DEF Room
<1>5. Cardinality(page \ came) \in Nat /\ Cardinality(page) \in Nat
  BY FS_Difference, FS_CardinalityType
<1>6. PICK m, k, p, a : m = Len(t) /\ k = ChunkLines /\ p = Cardinality(page) /\ a = Cardinality(page \ came)
  OBVIOUS
<1>7. m \in Nat /\ k \in Nat /\ p \in Nat /\ a \in Nat /\ (m + 1) * k + a <= p
  BY <1>2, <1>4, <1>5, <1>6, SizesAssumption
<1>8. (m + 1) * k = m * k + k /\ m * k \in Nat
  BY <1>7
<1>9. m * k + a <= p
  BY <1>7, <1>8
<1> QED BY <1>6, <1>9

(* Steps that leave a request alone and send nothing for it.               *)
LEMMA CountedFrame ==
  ASSUME NEW v \in Viewers, Counted(v), AskKept(v),
         \A x \in Outside' : Bears(id[v], epoch, x) => x \in Outside,
         \A j \in jobs' : Bears(id[v], epoch, j) => j \in jobs
  PROVE  Counted(v)'
<1>1. PICK n, e, came, s : n = id[v] /\ e = epoch /\ came = Arrived(got[v], chunks[v]) /\ s = chunks[v]
  OBVIOUS
<1>2. Ahead(n, e, came, s) /\ Room(n, e, came, s, PageOf(v).lines)
  BY <1>1 DEF Counted
<1>3. Ahead(n, e, came, s)'
  BY <1>1, <1>2 DEF Ahead
<1>4. n = id'[v] /\ e = epoch' /\ s = chunks'[v] /\ PageOf(v)' = PageOf(v)
  BY <1>1 DEF AskKept, PageOf
<1>5. came = Arrived(got[v], chunks[v])'
  BY <1>1 DEF AskKept, Arrived
<1>6. Room(n, e, came, s, PageOf(v).lines)'
  BY <1>2, <1>4 DEF Room
<1> QED BY <1>3, <1>4, <1>5, <1>6 DEF Counted

LEMMA CountsFindConn == \A v \in Viewers : Types /\ Counts /\ (FindConn(v) \/ Timeout(v)) => Counts'
<1> SUFFICES ASSUME NEW v \in Viewers, Types, Counts, FindConn(v) \/ Timeout(v),
                    NEW u \in Viewers, asking'[u] = "waiting", u \notin spoiled'
             PROVE  Counted(u)'
  BY DEF Counts
<1>1. /\ UNCHANGED <<content, epoch, respQueue, taken, up, jobs, spoiled>>
      /\ asking'[v] # "waiting"
      /\ u # v => /\ asking'[u] = asking[u] /\ id'[u] = id[u] /\ before'[u] = before[u]
                  /\ got'[u] = got[u] /\ gotStart'[u] = gotStart[u] /\ chunks'[u] = chunks[u]
  BY DEF FindConn, Timeout, NoFurtherHistory, Forget, serverVars, wireVars, clientVars, historyVars, boundVars,
         Types, AskTypes
<1>2. AskKept(u) /\ Counted(u)
  BY <1>1 DEF AskKept, Counts
<1> QED BY <1>1, <1>2, OutsideSame, CountedFrame

LEMMA CountsSend == \A v \in Viewers : Types /\ Book /\ Counts /\ SendRequest(v) => Counts'
<1> SUFFICES ASSUME NEW v \in Viewers, Types, Book, Counts, SendRequest(v),
                    NEW u \in Viewers, asking'[u] = "waiting", u \notin spoiled'
             PROVE  Counted(u)'
  BY DEF Counts
<1>1. /\ UNCHANGED <<content, epoch, respQueue, taken, up, jobs>>
      /\ spoiled' = spoiled \ {v} /\ reqID' = reqID + 1 /\ reqID \in Nat
  BY DEF SendRequest, wireVars, clientVars, boundVars, Types, ServerTypes
<1>2. Outside' = Outside
  BY <1>1, OutsideSame
<1>3. CASE u # v
  <2>1. /\ asking'[u] = asking[u] /\ id'[u] = id[u] /\ before'[u] = before[u]
        /\ got'[u] = got[u] /\ gotStart'[u] = gotStart[u] /\ chunks'[u] = chunks[u]
    <3>1. CASE Forget({v})
      BY <1>3, <3>1, ForgetOthers
    <3>2. CASE /\ asking' = [asking EXCEPT ![v] = "waiting"]
               /\ id' = [id EXCEPT ![v] = reqID']
               /\ UNCHANGED <<before, got, gotStart, chunks>>
      BY <1>3, <3>2 DEF Types, AskTypes
    <3> QED BY <3>1, <3>2 DEF SendRequest, NoFurtherHistory
  <2>2. AskKept(u) /\ Counted(u)
    BY <1>1, <1>3, <2>1 DEF AskKept, Counts
  <2> QED BY <1>1, <1>2, <2>2, CountedFrame
<1>4. CASE u = v
  <2>1. /\ asking[v] = "routed"
        /\ id'[v] = reqID + 1 /\ UNCHANGED <<before, got, gotStart, chunks>>
    BY <1>1, <1>4 DEF SendRequest, NoFurtherHistory, Forget, Types, AskTypes
  <2>2. chunks[v] = <<>> /\ got[v] = {}
    BY <2>1 DEF Book, Idle
  <2>3. \A x \in jobs \cup Outside : ~ Bears(reqID + 1, epoch, x)
    <3> SUFFICES ASSUME NEW x \in jobs \cup Outside
                 PROVE  ~ Bears(reqID + 1, epoch, x)
      OBVIOUS
    <3>1. x.id \in Nat /\ (x.epoch = epoch => x.id <= reqID)
      BY ItemTypes DEF Book, IdsIssued, Issued
    <3> QED BY <1>1, <3>1 DEF Bears
  <2>4. Ahead(id[v], epoch, Arrived(got[v], chunks[v]), chunks[v])'
    BY <1>1, <1>2, <2>1, <2>3 DEF Ahead
  <2>5. PICK page : page = PageOf(v).lines
    OBVIOUS
  <2>6. PageOf(v)'.lines = page /\ IsFiniteSet(page) /\ Cardinality(page) \in Nat
    BY <1>1, <2>1, <2>5, PageFinite DEF PageOf
  <2>7. Arrived(got[v], chunks[v])' = {}
    BY <2>1, <2>2, ElemsEmpty DEF Arrived
  <2>8. Len(<<>>) * ChunkLines + Cardinality(page \ {}) <= Cardinality(page)
    <3>1. page \ {} = page
      OBVIOUS
    <3>2. Len(<<>>) * ChunkLines = 0
      BY SizesAssumption
    <3> QED BY <2>6, <3>1, <3>2
  <2>9. Room(id[v], epoch, Arrived(got[v], chunks[v]), chunks[v], PageOf(v).lines)'
    BY <2>1, <2>2, <2>6, <2>7, <2>8 DEF Room
  <2> QED BY <1>4, <2>4, <2>9 DEF Counted
<1> QED BY <1>3, <1>4

LEMMA CountsCollect == \A v \in Viewers : Types /\ Book /\ Counts /\ Answers /\ Collect(v) => Counts'
<1> SUFFICES ASSUME NEW v \in Viewers, Types, Book, Counts, Answers, Collect(v),
                    NEW u \in Viewers, asking'[u] = "waiting", u \notin spoiled'
             PROVE  Counted(u)'
  BY DEF Counts
<1> DEFINE r == Head(chunks[v])
<1>1. /\ UNCHANGED <<content, epoch, respQueue, taken, up, jobs, spoiled>>
      /\ chunks[v] # <<>> /\ asking[v] = "waiting"
  BY DEF Collect, serverVars, wireVars, clientVars, boundVars
<1>2. Outside' = Outside
  BY <1>1, OutsideSame
<1>3. CASE u # v
  <2>1. /\ asking'[u] = asking[u] /\ id'[u] = id[u] /\ before'[u] = before[u]
        /\ got'[u] = got[u] /\ gotStart'[u] = gotStart[u] /\ chunks'[u] = chunks[u]
    <3>1. CASE Forget({v})
      BY <1>3, <3>1, ForgetOthers
    <3>2. CASE /\ \E y : got' = [got EXCEPT ![v] = y]
               /\ \E y : gotStart' = [gotStart EXCEPT ![v] = y]
               /\ chunks' = [chunks EXCEPT ![v] = Tail(@)]
               /\ UNCHANGED <<asking, before, id>>
      BY <1>1, <1>3, <3>2 DEF Types, AskTypes
    <3> QED BY <3>1, <3>2 DEF Collect, NoFurtherHistory
  <2>2. AskKept(u) /\ Counted(u)
    BY <1>1, <1>3, <2>1 DEF AskKept, Counts
  <2> QED BY <1>1, <1>2, <2>2, CountedFrame
<1>4. CASE u = v
  <2>0. ~ r.final
    <3>1. ~ Forget({v})
      BY <1>4, ForgetOthers
    <3> QED BY <3>1, Zenon DEF Collect, NoFurtherHistory
  <2>1. /\ got'[v] = got[v] \cup r.lines /\ chunks'[v] = Tail(chunks[v])
        /\ UNCHANGED <<before, id>>
    BY <1>4 DEF Collect, NoFurtherHistory, Forget, Types, AskTypes
  <2>2. Counted(v)
    BY <1>1, <1>4 DEF Counts
  <2>3. chunks[v] \in Seq(Chunks) /\ Elems(chunks[v]) = Elems(Tail(chunks[v])) \cup {r}
    BY <1>1, ElemsTail DEF Types, AskTypes
  <2>4. PICK n, e, s, came, page : /\ n = id[v] /\ e = epoch /\ s = chunks[v]
                                   /\ came = Arrived(got[v], chunks[v]) /\ page = PageOf(v).lines
    OBVIOUS
  <2>5. Ahead(n, e, came, s) /\ Room(n, e, came, s, page) /\ IsFiniteSet(page)
    BY <2>2, <2>4, PageFinite DEF Counted
  <2>6. Arrived(got[v], chunks[v])' = came
    BY <2>1, <2>3, <2>4 DEF Arrived
  <2>7. Ahead(n, e, came, Tail(s))'
    BY <1>1, <1>2, <2>4, <2>5 DEF Ahead
  <2>8. Room(n, e, came, Tail(s), page)
    BY <1>1, <2>0, <2>3, <2>4, <2>5, RoomTail
  <2>9. id'[v] = n /\ epoch' = e /\ chunks'[v] = Tail(s) /\ PageOf(v)' = PageOf(v)
    BY <1>1, <2>1, <2>4 DEF PageOf
  <2>10. Room(n, e, came, Tail(s), page)'
    BY <2>8 DEF Room
  <2>11. PageOf(v)'.lines = page
    BY <2>4, <2>9
  <2> HIDE DEF r
  <2> QED BY <1>4, <2>6, <2>7, <2>9, <2>10, <2>11 DEF Counted
<1> QED BY <1>3, <1>4

(* A chunk that joins the channel brings what had not come.                *)
LEMMA CountsScan == \A c \in Conns : Types /\ Book /\ Answers /\ SentOnce /\ Counts /\ HandlerScans(c) => Counts'
<1> SUFFICES ASSUME NEW c \in Conns, Types, Book, Answers, SentOnce, Counts, HandlerScans(c),
                    NEW u \in Viewers, asking'[u] = "waiting", u \notin spoiled'
             PROVE  Counted(u)'
  BY DEF Counts
<1>0. PICK r : r = Head(up[c])
  OBVIOUS
<1>1. /\ UNCHANGED <<content, asking, before, id, got, gotStart, epoch, jobs>>
      /\ spoiled \subseteq spoiled'
  BY DEF HandlerScans, serverVars, clientVars, boundVars
<1>2. up[c] # <<>> /\ r \in Outside /\ r \in Chunks /\ Outside' \subseteq Outside
  <2>1. up[c] # <<>> /\ r \in Outside /\ Outside' \subseteq Outside
    BY <1>0, OutsideScans
  <2> QED BY <2>1, ItemTypes
<1>3. Counted(u) /\ Answered(u) /\ asking[u] = "waiting" /\ u \notin spoiled
  BY <1>1 DEF Counts, Answers
<1>4. PICK n, e, s, lines, page : /\ n = id[u] /\ e = epoch /\ s = chunks[u]
                                  /\ lines = got[u] /\ page = PageOf(u).lines
  OBVIOUS
<1>5. s \in Seq(Chunks) /\ IsFiniteSet(page)
  BY <1>4, PageFinite DEF Types, AskTypes
<1>6. CASE ~ Bears(n, e, r)
  <2>1. chunks'[u] = s
    <3>1. id[u] # r.id \/ r.epoch # epoch
      BY <1>4, <1>6 DEF Bears
    <3>2. CASE id[u] # r.id
      BY <1>0, <1>4, <3>2 DEF HandlerScans
    <3>3. CASE id[u] = r.id /\ r.epoch # epoch
      <4>1. u \in spoiled'
        BY <1>0, <1>3, <3>3 DEF HandlerScans
      <4> QED BY <4>1
    <3> QED BY <3>1, <3>2, <3>3
  <2>2. AskKept(u)
    BY <1>1, <1>4, <2>1 DEF AskKept
  <2> QED BY <1>1, <1>2, <1>3, <2>2, CountedFrame
<1>7. CASE Bears(n, e, r)
  <2>1. chunks'[u] = Append(s, r)
    <3>1. asking[u] = "waiting" /\ id[u] = r.id
      BY <1>3, <1>4, <1>7 DEF Bears
    <3>2. CASE Len(chunks[u]) < ChunkQueue
      BY <1>0, <1>4, <3>1, <3>2 DEF HandlerScans
    <3>3. CASE ~ (Len(chunks[u]) < ChunkQueue)
      <4>1. u \in spoiled'
        BY <1>0, <3>1, <3>3 DEF HandlerScans
      <4> QED BY <4>1
    <3> QED BY <3>2, <3>3
  <2>2. PICK t, came : t = Append(s, r) /\ came = Arrived(lines, s)
    OBVIOUS
  <2>3. Elems(t) = Elems(s) \cup {r} /\ Arrived(lines, t) = came \cup r.lines
    <3>1. Elems(t) = Elems(s) \cup {r}
      BY <1>2, <1>5, <2>2, ElemsAppend
    <3> QED BY <2>2, <3>1 DEF Arrived
  <2>4. Ahead(n, e, came, s) /\ Room(n, e, came, s, page)
    BY <1>3, <1>4, <2>2 DEF Counted
  <2>5. Ahead(n, e, came \cup r.lines, t)'
    <3>1. ASSUME NEW x \in Outside', Bears(n, e, x)
          PROVE  x.lines \cap (came \cup r.lines) = {} /\ x.lines # {}
      <4>1. Fit(x, r)
        BY <1>0, SpacedScan DEF SentOnce
      <4>2. Same(x, r)
        BY <1>7, <3>1 DEF Bears, Same
      <4>3. x.lines \cap came = {}
        BY <1>2, <2>4, <3>1 DEF Ahead
      <4> QED BY <4>1, <4>2, <4>3 DEF Fit
    <3>2. ASSUME NEW j \in jobs, Bears(n, e, j)
          PROVE  j.lines \cap (came \cup r.lines) = {} /\ (j.queued # "last" => j.lines # {})
      <4>1. FitJob(r, j)
        BY <1>2 DEF SentOnce, JobsAhead
      <4>2. Same(r, j)
        BY <1>7, <3>2 DEF Bears, Same
      <4>3. j.lines \cap came = {}
        BY <2>4, <3>2 DEF Ahead
      <4> QED BY <4>1, <4>2, <4>3 DEF FitJob
    <3> QED BY <1>1, <3>1, <3>2 DEF Ahead
  <2>6. Room(n, e, came \cup r.lines, t, page)
    <3>1. r.lines \subseteq page
      <4>1. r \in Parts(n, e, s)
        BY <1>2, <1>7 DEF Parts
      <4>2. \A x \in Parts(n, e, s) : x.lines \subseteq page
        BY <1>3, <1>4 DEF Answered, AddUp
      <4> QED BY <4>1, <4>2
    <3>2. r.lines \cap came = {}
      BY <1>2, <1>7, <2>4 DEF Ahead
    <3>3. ~ r.final => IsFiniteSet(r.lines) /\ Cardinality(r.lines) = ChunkLines
      BY <1>2 DEF SentOnce, FullChunks
    <3> QED BY <1>2, <1>5, <1>7, <2>2, <2>4, <3>1, <3>2, <3>3, RoomAppend
  <2>7. id'[u] = n /\ epoch' = e /\ chunks'[u] = t /\ PageOf(u)'.lines = page
    BY <1>1, <1>4, <2>1, <2>2 DEF PageOf
  <2>8. Arrived(got[u], chunks[u])' = came \cup r.lines
    <3>1. got'[u] = lines
      BY <1>1, <1>4
    <3>2. Arrived(got[u], chunks[u])' = Arrived(lines, t)
      BY <2>7, <3>1 DEF Arrived
    <3> QED BY <2>3, <3>2
  <2>9. Room(n, e, came \cup r.lines, t, page)'
    BY <2>6 DEF Room
  <2> QED BY <2>5, <2>7, <2>8, <2>9 DEF Counted
<1> QED BY <1>6, <1>7

(* A goroutine starts before anything has come.                            *)
LEMMA CountsRead == \A c \in Conns : Types /\ Answers /\ Counts /\ ReaderGets(c) => Counts'
<1> SUFFICES ASSUME NEW c \in Conns, Types, Answers, Counts, ReaderGets(c),
                    NEW u \in Viewers, asking'[u] = "waiting", u \notin spoiled'
             PROVE  Counted(u)'
  BY DEF Counts
<1>0. PICK h : h = Head(down[c])
  OBVIOUS
<1>1. UNCHANGED <<content, askVars, epoch, respQueue, taken, up, spoiled>>
  BY DEF ReaderGets, serverVars, historyVars, boundVars
<1>2. /\ Counted(u) /\ Answered(u) /\ AskKept(u) /\ Outside' = Outside
      /\ UNCHANGED <<asking, before, id, got, gotStart, chunks>>
  BY <1>1, OutsideSame DEF Counts, Answers, askVars, AskKept
<1>3. PICK k : ReadFor(h, k) /\ jobs' = jobs \cup {k}
  BY <1>0, ReaderMoves
<1>4. h \in Unread
  <2>1. h \in Elems(down[c])
    BY <1>0, ReaderMoves
  <2> QED BY <2>1 DEF Unread
<1>5. PICK n, e, s, came : n = id[u] /\ e = epoch /\ s = chunks[u] /\ came = Arrived(got[u], chunks[u])
  OBVIOUS
<1>6. CASE ~ Bears(n, e, k)
  BY <1>2, <1>3, <1>5, <1>6, CountedFrame
<1>7. CASE Bears(n, e, k)
  <2>1. Bears(n, e, h)
    BY <1>3, <1>7 DEF ReadFor, Bears
  <2>2. s = <<>> /\ got[u] = {}
    BY <1>2, <1>4, <1>5, <2>1 DEF Answered, Asked
  <2>3. came = {}
    BY <1>5, <2>2, ElemsEmpty DEF Arrived
  <2>4. Ahead(n, e, came, s)'
    BY <2>2, <2>3 DEF Ahead
  <2>5. id'[u] = n /\ epoch' = e /\ chunks'[u] = s /\ PageOf(u)' = PageOf(u)
    BY <1>1, <1>2, <1>5 DEF PageOf
  <2>6. Arrived(got[u], chunks[u])' = came
    BY <1>2, <1>5 DEF Arrived
  <2>7. Room(n, e, came, s, PageOf(u).lines)'
    BY <1>2, <1>5, <2>5 DEF Counted, Room
  <2> QED BY <2>4, <2>5, <2>6, <2>7 DEF Counted
<1> QED BY <1>6, <1>7

(* Lines move from a goroutine to a chunk that is under way.               *)
LEMMA CountsQueue == \A j \in jobs : Types /\ SentOnce /\ Counts /\ QueueChunk(j) => Counts'
<1> SUFFICES ASSUME NEW j \in jobs, Types, SentOnce, Counts, QueueChunk(j),
                    NEW u \in Viewers, asking'[u] = "waiting", u \notin spoiled'
             PROVE  Counted(u)'
  BY DEF Counts
<1>1. UNCHANGED <<content, askVars, epoch, spoiled>> /\ j.queued = "no"
  BY QueueChunkStep DEF historyVars, boundVars
<1>2. Counted(u) /\ UNCHANGED <<asking, before, id, got, gotStart, chunks>>
  BY <1>1 DEF Counts, askVars
<1>3. PICK r, k : r = ChunkOf(j) /\ k = RestOf(j)
  OBVIOUS
<1>4. jobs' = (jobs \ {j}) \cup {k} /\ Outside' = Outside \cup {r}
  BY <1>3, OutsideQueue, QueueChunkStep
<1>5. /\ k.id = j.id /\ k.epoch = j.epoch /\ r.id = j.id /\ r.epoch = j.epoch
      /\ r.lines \subseteq j.lines /\ k.lines = j.lines \ r.lines
      /\ k.queued # "no" /\ (k.queued = "more" => k.lines # {})
      /\ j.lines # {} => r.lines # {}
  BY <1>3, ChunkShape DEF SentOnce
<1>6. k.queued \in {"no", "more", "last"}
  BY <1>3, ChunkOfType DEF Types, ClientTypes, Jobs
<1>7. PICK n, e, s, came : n = id[u] /\ e = epoch /\ s = chunks[u] /\ came = Arrived(got[u], chunks[u])
  OBVIOUS
<1>8. Ahead(n, e, came, s)
  BY <1>2, <1>7 DEF Counted
<1>9. Ahead(n, e, came, s)'
  <2>1. ASSUME NEW x \in Outside', Bears(n, e, x)
        PROVE  x.lines \cap came = {} /\ (s # <<>> => x.lines # {})
    <3>1. CASE x \in Outside
      BY <1>8, <2>1, <3>1 DEF Ahead
    <3>2. CASE x = r
      <4>1. Bears(n, e, j)
        BY <1>5, <2>1, <3>2 DEF Bears
      <4>2. j.lines \cap came = {} /\ (s # <<>> => j.lines # {})
        BY <1>1, <1>8, <4>1 DEF Ahead
      <4> QED BY <1>5, <3>2, <4>2
    <3> QED BY <1>4, <3>1, <3>2
  <2>2. ASSUME NEW i \in jobs', Bears(n, e, i)
        PROVE  i.lines \cap came = {} /\ (i.queued # "last" /\ s # <<>> => i.lines # {})
    <3>1. CASE i \in jobs
      BY <1>8, <2>2, <3>1 DEF Ahead
    <3>2. CASE i = k
      <4>1. Bears(n, e, j)
        BY <1>5, <2>2, <3>2 DEF Bears
      <4>2. j.lines \cap came = {}
        BY <1>8, <4>1 DEF Ahead
      <4> QED BY <1>5, <1>6, <3>2, <4>2
    <3> QED BY <1>4, <3>1, <3>2
  <2> QED BY <2>1, <2>2 DEF Ahead
<1>10. id'[u] = n /\ epoch' = e /\ chunks'[u] = s /\ PageOf(u)' = PageOf(u)
  BY <1>1, <1>2, <1>7 DEF PageOf
<1>11. Arrived(got[u], chunks[u])' = came
  BY <1>2, <1>7 DEF Arrived
<1>12. Room(n, e, came, s, PageOf(u).lines)'
  BY <1>2, <1>7, <1>10 DEF Counted, Room
<1> QED BY <1>9, <1>10, <1>11, <1>12 DEF Counted

LEMMA CountsSignal == \A j \in jobs : Types /\ Counts /\ SignalWake(j) => Counts'
<1> SUFFICES ASSUME NEW j \in jobs, Types, Counts, SignalWake(j),
                    NEW u \in Viewers, asking'[u] = "waiting", u \notin spoiled'
             PROVE  Counted(u)'
  BY DEF Counts
<1>1. UNCHANGED <<content, askVars, epoch, respQueue, taken, up, spoiled>>
  BY SignalStep DEF wireVars, historyVars, boundVars
<1>2. /\ Counted(u) /\ AskKept(u) /\ Outside' = Outside
      /\ UNCHANGED <<asking, before, id, got, gotStart, chunks>>
  BY <1>1, OutsideSame DEF Counts, askVars, AskKept
<1>3. CASE jobs' = jobs \ {j}
  BY <1>2, <1>3, CountedFrame
<1>4. CASE j.queued # "last"
  <2>1. PICK k : /\ jobs' = (jobs \ {j}) \cup {k} /\ k.id = j.id /\ k.epoch = j.epoch
                 /\ k.lines = j.lines
    BY <1>4, SignalStep
  <2>2. PICK n, e, s, came : n = id[u] /\ e = epoch /\ s = chunks[u] /\ came = Arrived(got[u], chunks[u])
    OBVIOUS
  <2>3. Ahead(n, e, came, s)
    BY <1>2, <2>2 DEF Counted
  <2>4. Bears(n, e, k) => k.lines \cap came = {} /\ (s # <<>> => k.lines # {})
    <3>1. Bears(n, e, k) => Bears(n, e, j)
      BY <2>1 DEF Bears
    <3> QED BY <1>4, <2>1, <2>3, <3>1 DEF Ahead
  <2>5. Ahead(n, e, came, s)'
    BY <1>2, <2>1, <2>3, <2>4 DEF Ahead
  <2>6. id'[u] = n /\ epoch' = e /\ chunks'[u] = s /\ PageOf(u)' = PageOf(u)
    BY <1>1, <1>2, <2>2 DEF PageOf
  <2>7. Arrived(got[u], chunks[u])' = came
    BY <1>2, <2>2 DEF Arrived
  <2>8. Room(n, e, came, s, PageOf(u).lines)'
    BY <1>2, <2>2, <2>6 DEF Counted, Room
  <2> QED BY <2>5, <2>6, <2>7, <2>8 DEF Counted
<1> QED BY <1>3, <1>4, SignalStep

(* Steps that leave the requests alone and send nothing.                   *)
LEMMA CountsOthers ==
  ASSUME Types, Counts, UNCHANGED <<content, askVars, epoch, jobs>>, spoiled \subseteq spoiled',
         Outside' \subseteq Outside
  PROVE  Counts'
<1> SUFFICES ASSUME NEW u \in Viewers, asking'[u] = "waiting", u \notin spoiled'
             PROVE  Counted(u)'
  BY DEF Counts
<1>1. AskKept(u) /\ Counted(u)
  BY DEF askVars, AskKept, Counts
<1> QED BY <1>1, CountedFrame

LEMMA CountsNext == Types /\ Book /\ Answers /\ SentOnce /\ Counts /\ [Next]_vars => Counts'
<1> SUFFICES ASSUME Types, Book, Answers, SentOnce, Counts, [Next]_vars
             PROVE  Counts'
  OBVIOUS
<1>1. ASSUME NEW v \in Viewers, ClearOlder(v) PROVE Counts'
  <2>1. UNCHANGED <<content, askVars, epoch, jobs, spoiled, respQueue, taken, up>>
    BY <1>1 DEF ClearOlder, wireVars, clientVars
  <2> QED BY <2>1, OutsideSame, CountsOthers
<1>2. ASSUME NEW c \in Conns,
             Accept(c) \/ AddConn(c) \/ WriterSends(c) \/ RemoveConn(c) \/ ReaderEnds(c) \/ BreakConn(c)
      PROVE  Counts'
  <2>1. UNCHANGED <<content, askVars, epoch, jobs, spoiled, respQueue, taken, up>>
    BY <1>2 DEF Accept, AddConn, WriterSends, RemoveConn, ReaderEnds, BreakConn, wireVars, clientVars,
                historyVars, boundVars
  <2> QED BY <2>1, OutsideSame, CountsOthers
<1>3. ASSUME NEW c \in Conns, HandlerEnds(c) PROVE Counts'
  <2>1. UNCHANGED <<content, askVars, epoch, jobs>> /\ spoiled \subseteq spoiled'
    BY <1>3 DEF HandlerEnds, clientVars, boundVars
  <2> QED BY <1>3, <2>1, OutsideEnds, CountsOthers
<1>4. ASSUME TakeResps \/ WriteResp PROVE Counts'
  <2>1. UNCHANGED <<content, askVars, epoch, jobs, spoiled>>
    BY <1>4 DEF TakeResps, WriteResp, historyVars, boundVars
  <2>2. Outside' = Outside
    BY <1>4, OutsideTake, OutsideWrite
  <2> QED BY <2>1, <2>2, CountsOthers
<1>5. ASSUME StreamEnded PROVE Counts'
  <2>1. UNCHANGED <<content, askVars, epoch, jobs>> /\ spoiled \subseteq spoiled'
    BY <1>5 DEF StreamEnded, boundVars
  <2> QED BY <1>5, <2>1, OutsideStream, CountsOthers
<1>6. ASSUME WakeUp \/ UNCHANGED vars PROVE Counts'
  <2>1. UNCHANGED <<content, askVars, epoch, jobs, spoiled, respQueue, taken, up>>
    BY <1>6 DEF WakeUp, vars, wireVars, clientVars, historyVars, boundVars
  <2> QED BY <2>1, OutsideSame, CountsOthers
<1>7. ASSUME Restart PROVE Counts'
  <2>1. \A v \in Viewers : asking'[v] = "no"
    BY <1>7 DEF Restart, NoFurtherHistory, Forget, Types, AskTypes
  <2> QED BY <2>1 DEF Counts
<1> QED BY <1>1, <1>2, <1>3, <1>4, <1>5, <1>6, <1>7, CountsFindConn, CountsSend, CountsCollect, CountsScan,
           CountsRead, CountsQueue, CountsSignal DEF Next

(* While no connection has broken and no server ended there is one         *)
(* connection, and no answer is spoiled that fits in its channel.          *)
Quiet == failures = 0 /\ epoch = 0

OneConn == \A c \in Conns : ~ broken[c] /\ (handler[c] # "none" \/ up[c] # <<>> => c = current)

(* What the page asks about lies below its live lines.                     *)
Whole(v) == v \notin spoiled /\ lowest[v] <= Live(v) /\ (asking[v] # "no" => before[v] <= Live(v))

Undisturbed ==
  /\ failures \in Nat /\ resets \in Nat
  /\ Quiet => OneConn /\ \A v \in Viewers : Oversized(v) \/ Whole(v)
  /\ Quiet /\ resets = 0 => \A v \in torn : Oversized(v)

LEMMA OneConnNext == Types /\ Quiet' /\ failures \in Nat /\ OneConn /\ [Next]_vars => OneConn'
<1> SUFFICES ASSUME Types, Quiet', failures \in Nat, OneConn, [Next]_vars
             PROVE  OneConn'
  OBVIOUS
<1>1. ASSUME UNCHANGED <<broken, handler, up, current>> PROVE OneConn'
  BY <1>1 DEF OneConn
<1>2. ASSUME NEW v \in Viewers, FindConn(v) \/ SendRequest(v) \/ Collect(v) \/ Timeout(v) \/ ClearOlder(v)
      PROVE  UNCHANGED <<broken, handler, up, current>>
  BY <1>2 DEF FindConn, SendRequest, Collect, Timeout, ClearOlder, serverVars, wireVars, clientVars
<1>3. ASSUME NEW c \in Conns, Accept(c) PROVE OneConn'
  <2>1. \A d \in Conns : handler[d] = "none" /\ up[d] = <<>>
    BY <1>3, NoConnAssumption DEF Accept, OneConn
  <2> QED BY <1>3, <2>1 DEF Accept, OneConn, Types, ServerTypes, WireTypes
<1>4. ASSUME NEW c \in Conns, AddConn(c) \/ RemoveConn(c) PROVE OneConn'
  BY <1>4 DEF AddConn, RemoveConn, OneConn, Types, ServerTypes, wireVars, clientVars
<1>5. ASSUME NEW c \in Conns, WriterSends(c) \/ ReaderGets(c) \/ ReaderEnds(c)
      PROVE  UNCHANGED <<broken, handler, up, current>>
  BY <1>5 DEF WriterSends, ReaderGets, ReaderEnds, serverVars, clientVars
<1>6. ASSUME NEW c \in Conns, HandlerScans(c) PROVE OneConn'
  <2>1. \A d \in Conns : up'[d] # <<>> => up[d] # <<>>
    BY <1>6, OutsideScans
  <2>2. UNCHANGED <<broken, handler, current>>
    BY <1>6 DEF HandlerScans, serverVars, clientVars
  <2> QED BY <2>1, <2>2 DEF OneConn
<1>7. ASSUME NEW c \in Conns, HandlerEnds(c) PROVE FALSE
  BY <1>7 DEF HandlerEnds, OneConn
<1>8. ASSUME NEW c \in Conns, BreakConn(c) PROVE FALSE
  BY <1>8 DEF BreakConn, Quiet
<1>9. ASSUME NEW j \in jobs, QueueChunk(j) \/ SignalWake(j) PROVE UNCHANGED <<broken, handler, up, current>>
  BY <1>9 DEF QueueChunk, SignalWake, serverVars, wireVars
<1>10. ASSUME TakeResps \/ WakeUp \/ UNCHANGED vars PROVE UNCHANGED <<broken, handler, up, current>>
  BY <1>10 DEF TakeResps, WakeUp, vars, serverVars, wireVars, clientVars
<1>11. ASSUME WriteResp PROVE OneConn'
  <2>1. \A d \in Conns : up'[d] # <<>> => up[d] # <<>> \/ d = current
    BY <1>11, OutsideWrite
  <2>2. UNCHANGED <<broken, handler, current>>
    BY <1>11 DEF WriteResp, serverVars
  <2> QED BY <2>1, <2>2 DEF OneConn
<1>12. ASSUME StreamEnded PROVE FALSE
  BY <1>12 DEF StreamEnded, OneConn, Types, PumpInv
<1>13. ASSUME Restart PROVE FALSE
  BY <1>13 DEF Restart, Quiet, Types
<1> QED BY <1>1, <1>2, <1>3, <1>4, <1>5, <1>6, <1>7, <1>8, <1>9, <1>10, <1>11, <1>12, <1>13 DEF Next

(* A chunk for a request whose channel is full would be one too many for   *)
(* the page.                                                               *)
LEMMA ChunkHasRoom ==
  ASSUME Types, Answers, Counts, NEW v \in Viewers, asking[v] = "waiting", v \notin spoiled,
         ~ Oversized(v), before[v] <= Live(v), NEW r \in Outside, Bears(id[v], epoch, r)
  PROVE  Len(chunks[v]) < ChunkQueue
<1>1. PICK n, e, s, came, page : /\ n = id[v] /\ e = epoch /\ s = chunks[v]
                                 /\ came = Arrived(got[v], chunks[v]) /\ page = PageOf(v).lines
  OBVIOUS
<1>2. Counted(v) /\ Answered(v)
  BY DEF Counts, Answers
<1>3. /\ Ahead(n, e, came, s) /\ Room(n, e, came, s, page) /\ InOrder(n, e, s)
      /\ \A x \in Parts(n, e, s) : x.lines \subseteq page
  BY <1>1, <1>2 DEF Counted, Answered, AddUp
<1>4. Len(s) * ChunkLines + Cardinality(page \ came) <= Cardinality(page)
  <2>1. ~ Over(n, e, Elems(s))
    BY <1>1, <1>3 DEF InOrder, None
  <2> QED BY <1>3, <2>1 DEF Room
<1>5. IsFiniteSet(page) /\ Cardinality(page) \in Nat
  BY <1>1, PageFinite
<1>6. Cardinality(page) <= ChunkQueue * ChunkLines
  <2>1. before[v] \in 0 .. Live(v)
    BY LiveType DEF Types, AskTypes
  <2>2. ~ (Cardinality(page) > ChunkQueue * ChunkLines)
    BY <1>1, <2>1 DEF Oversized, PageOf
  <2>3. ChunkQueue * ChunkLines \in Nat
    BY SizesAssumption
  <2> QED BY <1>5, <2>2, <2>3
<1>7. s # <<>> => Cardinality(page \ came) >= 1
  <2> SUFFICES ASSUME s # <<>>
               PROVE  Cardinality(page \ came) >= 1
    OBVIOUS
  <2>1. r.lines # {} /\ r.lines \cap came = {}
    BY <1>1, <1>3 DEF Ahead
  <2>2. r.lines \subseteq page
    <3>1. r \in Parts(n, e, s)
      BY <1>1 DEF Parts
    <3> QED BY <1>3, <3>1
  <2>3. page \ came # {}
    BY <2>1, <2>2
  <2>4. IsFiniteSet(page \ came)
    BY <1>5, FS_Difference
  <2>5. Cardinality(page \ came) \in Nat /\ Cardinality(page \ came) # 0
    BY <2>3, <2>4, FS_CardinalityType, FS_EmptySet
  <2> QED BY <2>5
<1>8. Cardinality(page \ came) \in Nat
  BY <1>5, FS_Difference, FS_CardinalityType
<1>9. Len(s) \in Nat /\ (Len(s) = 0 <=> s = <<>>)
  BY <1>1, EmptyLen DEF Types, AskTypes
<1>10. PICK m, k, q, p, a : /\ m = Len(s) /\ k = ChunkLines /\ q = ChunkQueue /\ p = Cardinality(page)
                            /\ a = Cardinality(page \ came)
  OBVIOUS
<1>11. /\ m \in Nat /\ k \in Nat \ {0} /\ q \in Nat \ {0} /\ p \in Nat /\ a \in Nat
       /\ m * k + a <= p /\ p <= q * k /\ (m # 0 => a >= 1)
  BY <1>4, <1>5, <1>6, <1>7, <1>8, <1>9, <1>10, SizesAssumption
<1>12. m < q
  <2> SUFFICES ASSUME m >= q, m # 0
               PROVE  FALSE
    BY <1>11
  <2>1. q * k <= m * k /\ q * k \in Nat /\ m * k \in Nat
    BY <1>11
  <2> QED BY <1>11, <2>1
<1> QED BY <1>1, <1>10, <1>12

LEMMA WholeScan ==
  ASSUME Types, Book, Answers, Counts, Quiet, OneConn, NEW c \in Conns, HandlerScans(c),
         NEW v \in Viewers, ~ Oversized(v), Whole(v)
  PROVE  Whole(v)'
<1>0. PICK r : r = Head(up[c])
  OBVIOUS
<1>1. UNCHANGED <<content, asking, before, lowest, epoch>>
  BY DEF HandlerScans, pageVars, boundVars
<1>2. up[c] # <<>> /\ r \in Outside /\ r.epoch \in Nat
  <2>1. up[c] # <<>> /\ r \in Outside
    BY <1>0, OutsideScans
  <2> QED BY <2>1, ItemTypes
<1>3. r.epoch = epoch
  BY <1>2 DEF Book, IdsIssued, Issued, Quiet
<1>4. \A d \in Conns \ {c} : Losing({up[d][i] : i \in DOMAIN up[d]}) = {}
  <2> SUFFICES ASSUME NEW d \in Conns \ {c}
               PROVE  Losing({up[d][i] : i \in DOMAIN up[d]}) = {}
    OBVIOUS
  <2>1. up[d] = <<>>
    BY <1>2 DEF OneConn
  <2>2. {up[d][i] : i \in DOMAIN up[d]} = {}
    BY <2>1, ElemsEmpty DEF Elems
  <2> QED BY <2>2 DEF Losing
<1>5. v \notin spoiled'
  <2> SUFFICES ASSUME v \in spoiled'
               PROVE  FALSE
    OBVIOUS
  <2>1. /\ asking[v] = "waiting" /\ id[v] = r.id
        /\ \/ ~ (Len(chunks[v]) < ChunkQueue)
           \/ r.epoch # epoch
           \/ v \in UNION {Losing({up[d][i] : i \in DOMAIN up[d]}) : d \in Conns \ {c}}
    BY <1>0 DEF HandlerScans, Whole
  <2>2. Bears(id[v], epoch, r)
    BY <1>3, <2>1 DEF Bears
  <2>3. Len(chunks[v]) < ChunkQueue
    BY <1>2, <2>1, <2>2, ChunkHasRoom DEF Whole
  <2> QED BY <1>3, <1>4, <2>1, <2>3
<1>6. Live(v)' = Live(v)
  BY <1>1 DEF Live
<1> QED BY <1>1, <1>5, <1>6 DEF Whole

LEMMA WholeCollect ==
  ASSUME Types, Book, Answers, NEW w \in Viewers, Collect(w), NEW v \in Viewers, Whole(v)
  PROVE  Whole(v)'
<1>0. PICK r : r = Head(chunks[w])
  OBVIOUS
<1>1. content' = content /\ spoiled' = spoiled /\ asking[w] = "waiting" /\ chunks[w] # <<>>
  BY DEF Collect
<1>2. Live(v)' = Live(v)
  BY <1>1 DEF Live
<1>3. CASE UNCHANGED <<asking, before, lowest>>
  BY <1>1, <1>2, <1>3 DEF Whole
<1>4. CASE NoFurtherHistory({w})
  <2>1. lowest' = lowest /\ (asking'[v] # "no" => asking'[v] = asking[v] /\ before'[v] = before[v])
    BY <1>4, ForgetOthers DEF NoFurtherHistory
  <2> QED BY <1>1, <1>2, <2>1 DEF Whole
<1>5. CASE /\ ~ r.err /\ r.final /\ got[w] \cup r.lines # {}
           /\ Forget({w})
           /\ lowest' = [lowest EXCEPT ![w] = LowestOf(got[w] \cup r.lines)]
  <2>1. CASE v # w
    <3>1. lowest'[v] = lowest[v] /\ asking'[v] = asking[v] /\ before'[v] = before[v]
      BY <1>5, <2>1, ForgetOthers DEF Types, PageTypes
    <3> QED BY <1>1, <1>2, <3>1 DEF Whole
  <2>2. CASE v = w
    <3>1. PICK lines, b : lines = PageOf(v).lines /\ b = before[v]
      OBVIOUS
    <3>2. got[v] \cup r.lines = lines
      BY <1>0, <1>1, <1>5, <2>2, <3>1, CollectedAll DEF Whole
    <3>3. b \in Nat /\ b <= Live(v) /\ Live(v) \in Nat
      BY <1>1, <2>2, <3>1, LiveType DEF Whole, Types, AskTypes
    <3>4. lines \subseteq 0 .. (b - 1)
      BY <3>1, <3>3, PageBounded DEF PageOf
    <3>5. lines \in SUBSET Nat /\ lines # {}
      BY <1>5, <2>2, <3>2, <3>3, <3>4
    <3>6. LowestOf(lines) \in lines
      BY <3>5, LowestOfSet
    <3>7. LowestOf(lines) <= Live(v)
      <4>1. PICK low, len : low = LowestOf(lines) /\ len = Live(v)
        OBVIOUS
      <4>2. low \in 0 .. (b - 1) /\ len \in Nat /\ b \in Nat /\ b <= len
        BY <3>3, <3>4, <3>6, <4>1
      <4>3. low <= len
        BY <4>2
      <4> QED BY <4>1, <4>3
    <3>8. lowest'[v] = LowestOf(lines) /\ asking'[v] = "no"
      BY <1>5, <2>2, <3>2, ForgetOthers DEF Types, PageTypes
    <3> QED BY <1>1, <1>2, <2>2, <3>7, <3>8 DEF Whole
  <2> QED BY <2>1, <2>2
<1> QED BY <1>0, <1>3, <1>4, <1>5 DEF Collect, pageVars

(* Steps that leave the page and its request alone, or end the request.    *)
LEMMA WholeFrame ==
  ASSUME NEW v \in Viewers, Whole(v), content' = content, lowest' = lowest, spoiled' \subseteq spoiled,
         asking'[v] # "no" => asking[v] # "no" /\ before'[v] = before[v]
  PROVE  Whole(v)'
BY DEF Whole, Live

LEMMA WholeNext ==
  ASSUME Types, Book, Answers, Counts, Quiet, Quiet', OneConn, [Next]_vars,
         NEW v \in Viewers, ~ Oversized(v), Whole(v)
  PROVE  Whole(v)'
<1>1. ASSUME UNCHANGED <<content, lowest, spoiled, asking, before>> PROVE Whole(v)'
  BY <1>1, WholeFrame
<1>2. ASSUME NEW w \in Viewers, FindConn(w) PROVE Whole(v)'
  <2>1. content' = content /\ lowest' = lowest /\ spoiled' = spoiled
    BY <1>2 DEF FindConn, NoFurtherHistory, pageVars, historyVars
  <2>2. CASE NoFurtherHistory({w})
    <3>1. asking'[v] # "no" => asking[v] # "no" /\ before'[v] = before[v]
      BY <2>2, ForgetOthers DEF NoFurtherHistory
    <3> QED BY <2>1, <3>1, WholeFrame
  <2>3. CASE before' = [before EXCEPT ![w] = lowest[w]] /\ asking' = [asking EXCEPT ![w] = "routed"]
    BY <2>1, <2>3 DEF Whole, Live, Types, AskTypes
  <2> QED BY <1>2, <2>2, <2>3 DEF FindConn
<1>3. ASSUME NEW w \in Viewers, SendRequest(w) PROVE Whole(v)'
  <2>1. content' = content /\ lowest' = lowest /\ spoiled' \subseteq spoiled /\ asking[w] = "routed"
    BY <1>3 DEF SendRequest, NoFurtherHistory, pageVars
  <2>2. asking'[v] # "no" => asking[v] # "no" /\ before'[v] = before[v]
    <3>1. CASE NoFurtherHistory({w})
      BY <3>1, ForgetOthers DEF NoFurtherHistory
    <3>2. CASE before' = before /\ asking' = [asking EXCEPT ![w] = "waiting"]
      BY <2>1, <3>2 DEF Types, AskTypes
    <3> QED BY <1>3, <3>1, <3>2 DEF SendRequest
  <2> QED BY <2>1, <2>2, WholeFrame
<1>4. ASSUME NEW w \in Viewers, Timeout(w) PROVE Whole(v)'
  <2>1. content' = content /\ lowest' = lowest /\ spoiled' = spoiled
    BY <1>4 DEF Timeout, NoFurtherHistory, historyVars
  <2>2. asking'[v] # "no" => asking[v] # "no" /\ before'[v] = before[v]
    BY <1>4, ForgetOthers DEF Timeout, NoFurtherHistory
  <2> QED BY <2>1, <2>2, WholeFrame
<1>5. ASSUME NEW w \in Viewers, ClearOlder(w) PROVE Whole(v)'
  <2>1. /\ UNCHANGED <<content, spoiled, asking, before>> /\ (lowest'[v] = lowest[v] \/ lowest'[v] = Live(v))
    BY <1>5 DEF ClearOlder, askVars, Types, PageTypes
  <2>2. Live(v) \in Nat /\ Live(v)' = Live(v)
    BY <2>1, LiveType DEF Live
  <2> QED BY <2>1, <2>2 DEF Whole
<1>6. ASSUME NEW c \in Conns,
             \/ Accept(c) \/ AddConn(c) \/ WriterSends(c) \/ RemoveConn(c) \/ ReaderGets(c) \/ ReaderEnds(c)
             \/ BreakConn(c)
      PROVE  UNCHANGED <<content, lowest, spoiled, asking, before>>
  BY <1>6 DEF Accept, AddConn, WriterSends, RemoveConn, ReaderGets, ReaderEnds, BreakConn,
              pageVars, askVars, historyVars
<1>7. ASSUME NEW c \in Conns, HandlerEnds(c) PROVE FALSE
  BY <1>7 DEF HandlerEnds, OneConn
<1>8. ASSUME NEW j \in jobs, QueueChunk(j) \/ SignalWake(j)
      PROVE  UNCHANGED <<content, lowest, spoiled, asking, before>>
  BY <1>8 DEF QueueChunk, SignalWake, pageVars, askVars, historyVars
<1>9. ASSUME TakeResps \/ WriteResp \/ WakeUp \/ UNCHANGED vars
      PROVE  UNCHANGED <<content, lowest, spoiled, asking, before>>
  BY <1>9 DEF TakeResps, WriteResp, WakeUp, vars, pageVars, askVars, historyVars
<1>10. ASSUME StreamEnded PROVE FALSE
  BY <1>10 DEF StreamEnded, OneConn, Types, PumpInv
<1>11. ASSUME Restart PROVE FALSE
  BY <1>11 DEF Restart, Quiet, Types
<1> QED BY <1>1, <1>2, <1>3, <1>4, <1>5, <1>6, <1>7, <1>8, <1>9, <1>10, <1>11, WholeScan, WholeCollect DEF Next

(* What the counters of failures and clears do at a step, and torn with    *)
(* them.                                                                   *)
LEMMA CountersNext ==
  ASSUME Types, failures \in Nat, resets \in Nat, [Next]_vars
  PROVE  /\ content' = content
         /\ failures' \in Nat /\ failures <= failures' /\ epoch <= epoch'
         /\ resets' \in Nat /\ resets <= resets'
         /\ torn' \subseteq torn \cup spoiled \/ resets' # 0
<1>1. ASSUME UNCHANGED <<content, failures, epoch, resets>>, torn' \subseteq torn \cup spoiled
      PROVE  /\ content' = content
             /\ failures' \in Nat /\ failures <= failures' /\ epoch <= epoch'
             /\ resets' \in Nat /\ resets <= resets'
             /\ torn' \subseteq torn \cup spoiled \/ resets' # 0
  BY <1>1 DEF Types
<1>2. ASSUME NEW v \in Viewers, FindConn(v) \/ SendRequest(v) \/ Collect(v) \/ Timeout(v)
      PROVE  UNCHANGED <<content, failures, epoch, resets>> /\ torn' \subseteq torn \cup spoiled
  BY <1>2 DEF FindConn, SendRequest, Collect, Timeout, historyVars, boundVars
<1>3. ASSUME NEW v \in Viewers, ClearOlder(v)
      PROVE  content' = content /\ UNCHANGED <<failures, epoch>> /\ resets' = resets + 1
  BY <1>3 DEF ClearOlder
<1>4. ASSUME NEW c \in Conns,
             \/ Accept(c) \/ AddConn(c) \/ WriterSends(c) \/ HandlerScans(c) \/ HandlerEnds(c) \/ RemoveConn(c)
             \/ ReaderGets(c) \/ ReaderEnds(c)
      PROVE  UNCHANGED <<content, failures, epoch, resets, torn>>
  BY <1>4 DEF Accept, AddConn, WriterSends, HandlerScans, HandlerEnds, RemoveConn, ReaderGets, ReaderEnds,
              historyVars, boundVars
<1>5. ASSUME NEW c \in Conns, BreakConn(c)
      PROVE  UNCHANGED <<content, epoch, resets, torn>> /\ failures' = failures + 1
  BY <1>5 DEF BreakConn, historyVars
<1>6. ASSUME NEW j \in jobs, QueueChunk(j) \/ SignalWake(j)
      PROVE  UNCHANGED <<content, failures, epoch, resets, torn>>
  BY <1>6 DEF QueueChunk, SignalWake, historyVars, boundVars
<1>7. ASSUME TakeResps \/ WriteResp \/ WakeUp \/ StreamEnded \/ UNCHANGED vars
      PROVE  UNCHANGED <<content, failures, epoch, resets, torn>>
  BY <1>7 DEF TakeResps, WriteResp, WakeUp, StreamEnded, vars, historyVars, boundVars
<1>8. ASSUME Restart PROVE UNCHANGED <<content, failures, resets, torn>> /\ epoch' = epoch + 1
  BY <1>8 DEF Restart, historyVars
<1>9. epoch \in Nat
  BY DEF Types
<1> QED BY <1>1, <1>2, <1>3, <1>4, <1>5, <1>6, <1>7, <1>8, <1>9 DEF Next

LEMMA UndisturbedNext ==
  Types /\ Types' /\ Book /\ Answers /\ Counts /\ Undisturbed /\ [Next]_vars => Undisturbed'
<1> SUFFICES ASSUME Types, Types', Book, Answers, Counts, Undisturbed, [Next]_vars
             PROVE  Undisturbed'
  OBVIOUS
<1>1. failures \in Nat /\ resets \in Nat /\ epoch \in Nat /\ epoch' \in Nat
  BY DEF Undisturbed, Types
<1>2. /\ content' = content
      /\ failures' \in Nat /\ failures <= failures' /\ epoch <= epoch'
      /\ resets' \in Nat /\ resets <= resets'
  BY <1>1, CountersNext
<1>3. Quiet' => Quiet
  BY <1>1, <1>2 DEF Quiet
<1>4. \A v \in Viewers : Oversized(v)' = Oversized(v)
  BY <1>2 DEF Oversized, Live
<1>5. ASSUME Quiet' PROVE OneConn' /\ \A v \in Viewers : Oversized(v)' \/ Whole(v)'
  <2>1. Quiet /\ OneConn /\ \A v \in Viewers : Oversized(v) \/ Whole(v)
    BY <1>3, <1>5 DEF Undisturbed
  <2>2. OneConn'
    BY <1>1, <1>5, <2>1, OneConnNext
  <2>3. ASSUME NEW v \in Viewers, ~ Oversized(v) PROVE Whole(v)'
    BY <1>5, <2>1, <2>3, WholeNext
  <2> QED BY <1>4, <2>2, <2>3
<1>6. ASSUME Quiet', resets' = 0, NEW v \in torn' PROVE Oversized(v)'
  <2>1. Quiet /\ resets = 0
    BY <1>1, <1>2, <1>3, <1>6
  <2>2. torn' \subseteq torn \cup spoiled
    BY <1>1, <1>6, CountersNext
  <2>3. v \in Viewers
    BY <1>6 DEF Types, HistoryTypes
  <2>4. v \in torn => Oversized(v)
    BY <2>1 DEF Undisturbed
  <2>5. v \in spoiled => Oversized(v)
    BY <2>1, <2>3 DEF Undisturbed, Whole
  <2>6. Oversized(v)
    BY <1>6, <2>2, <2>4, <2>5
  <2> QED BY <1>4, <2>3, <2>6
<1> QED BY <1>2, <1>5, <1>6 DEF Undisturbed

LossInv == ScrollbackInv /\ SentOnce /\ Counts /\ Undisturbed

LEMMA LossInit == Init => LossInv
<1> SUFFICES ASSUME Init
             PROVE  LossInv
  OBVIOUS
<1>1. ScrollbackInv
  <2>1. Answers
    BY DEF Init, Answers
  <2> QED BY <2>1, TypesInit, BookInit, PagesInit DEF ScrollbackInv
<1>2. /\ respQueue = <<>> /\ taken = <<>> /\ \A c \in Conns : up[c] = <<>>
      /\ jobs = {} /\ torn = {} /\ spoiled = {}
  BY DEF Init
<1>3. Outside = {}
  BY <1>2, ElemsEmpty DEF Outside
<1>4. SentOnce
  <2>1. Spaced
    BY <1>2, SeparateEmpty DEF Spaced
  <2> QED BY <1>2, <1>3, <2>1 DEF SentOnce, JobsAhead, FullChunks
<1>5. Counts
  BY DEF Init, Counts
<1>6. OneConn
  BY DEF Init, OneConn
<1>7. \A v \in Viewers : Whole(v)
  <2> SUFFICES ASSUME NEW v \in Viewers
               PROVE  Whole(v)
    OBVIOUS
  <2>1. Live(v) \in Nat
    BY <1>1, LiveType DEF ScrollbackInv
  <2> QED BY <2>1 DEF Init, Whole
<1>8. failures = 0 /\ resets = 0
  BY DEF Init
<1> QED BY <1>1, <1>2, <1>4, <1>5, <1>6, <1>7, <1>8 DEF LossInv, Undisturbed

LEMMA LossSafe == Spec => []LossInv
<1>1. LossInv /\ [Next]_vars => LossInv'
  <2> SUFFICES ASSUME LossInv, [Next]_vars
               PROVE  LossInv'
    OBVIOUS
  <2>1. ScrollbackInv'
    BY TypesNext, BookNext, AnswersNext, PagesNext DEF LossInv, ScrollbackInv
  <2>2. SentOnce' /\ Counts'
    BY SentNext, CountsNext DEF LossInv, ScrollbackInv
  <2>3. Undisturbed'
    BY <2>1, UndisturbedNext DEF LossInv, ScrollbackInv
  <2> QED BY <2>1, <2>2, <2>3 DEF LossInv
<1> QED BY <1>1, LossInit, PTL DEF Spec

(* An answer is spoiled only where a connection broke, a server ended or   *)
(* some page is of more chunks than a channel holds: no order of requests, *)
(* reads, chunks, timeouts and clears loses or mixes what was answered.    *)
THEOREM LossesHaveCauses == Spec => []LossHasCause
<1>1. LossInv => LossHasCause
  <2> SUFFICES ASSUME LossInv, NEW v \in spoiled, ~ (failures + epoch > 0)
               PROVE  Oversized(v)
    BY DEF LossHasCause
  <2>1. failures \in Nat /\ epoch \in Nat /\ v \in Viewers
    BY DEF LossInv, Undisturbed, ScrollbackInv, Types, HistoryTypes
  <2>2. Quiet
    BY <2>1 DEF Quiet
  <2> QED BY <2>1, <2>2 DEF LossInv, Undisturbed, Whole
<1> QED BY <1>1, LossSafe, PTL

(* Where nothing breaks and nothing is cleared, scrolling back needs no    *)
(* excuse: a page shows every line of its file from the lowest one on,     *)
(* unless some page of the file is of more chunks than a channel holds.    *)
THEOREM GapFreeUndisturbed ==
  Spec => [](failures + epoch + resets = 0 =>
               \A v \in Viewers : Oversized(v) \/ shown[v] = LinesOf(v, lowest[v]))
<1>1. LossInv => (failures + epoch + resets = 0 =>
                    \A v \in Viewers : Oversized(v) \/ shown[v] = LinesOf(v, lowest[v]))
  <2> SUFFICES ASSUME LossInv, failures + epoch + resets = 0, NEW v \in Viewers, ~ Oversized(v)
               PROVE  shown[v] = LinesOf(v, lowest[v])
    OBVIOUS
  <2>1. failures \in Nat /\ epoch \in Nat /\ resets \in Nat
    BY DEF LossInv, Undisturbed, ScrollbackInv, Types
  <2>2. Quiet /\ resets = 0
    BY <2>1 DEF Quiet
  <2>3. v \notin torn
    BY <2>2 DEF LossInv, Undisturbed
  <2> QED BY <2>3 DEF LossInv, ScrollbackInv, Pages, Closed
<1> QED BY <1>1, LossSafe, PTL
=============================================================================
