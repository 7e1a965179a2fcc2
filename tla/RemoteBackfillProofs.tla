------------------------ MODULE RemoteBackfillProofs ------------------------
(***************************************************************************)
(* The types of scrollback, the wakeup of the client's pump and the        *)
(* registration of its connection, for any pages, files, chunk sizes,      *)
(* queues, failures and restarts.                                          *)
(***************************************************************************)
EXTENDS RemoteBackfill, BackfillProofs, TLAPS

(* Chunks left in the queue after it was last taken have been signalled, or*)
(* a goroutine that queued one has still to signal; also while the pump    *)
(* writes, since it goes to sleep without looking at the queue again.      *)
Signalled ==
  respQueue # <<>> /\ pump \in {"write", "wait"} => wake \/ \E j \in jobs : j.queued # "no"

(* A goroutine is somewhere in queueResp.                                  *)
JobsQueue == \A j \in jobs : "queued" \in DOMAIN j

WakeInv == Signalled /\ JobsQueue

LEMMA WakeReader == \A c \in Conns : WakeInv /\ ReaderGets(c) => WakeInv'
<1> SUFFICES ASSUME NEW c \in Conns, WakeInv, ReaderGets(c)
             PROVE  WakeInv'
  OBVIOUS
<1>1. PICK j : "queued" \in DOMAIN j /\ jobs' = jobs \cup {j}
  BY DEF ReaderGets
<1>2. UNCHANGED <<pump, wake, respQueue>>
  BY DEF ReaderGets
<1> QED BY <1>1, <1>2 DEF WakeInv, Signalled, JobsQueue

LEMMA WakeQueue == \A j \in jobs : WakeInv /\ QueueChunk(j) => WakeInv'
<1> SUFFICES ASSUME NEW j \in jobs, WakeInv, QueueChunk(j)
             PROVE  WakeInv'
  OBVIOUS
<1> DEFINE now == {o \in j.lines : Cardinality({p \in j.lines : p <= o}) <= ChunkLines}
           final == j.lines \subseteq now
           k == [j EXCEPT !.lines = @ \ now, !.queued = IF final THEN "last" ELSE "more"]
<1>1. jobs' = (jobs \ {j}) \cup {k}
  BY DEF QueueChunk
<1> HIDE DEF now, final
<1>2. "queued" \in DOMAIN k /\ k.queued # "no"
  BY DEF WakeInv, JobsQueue
<1> HIDE DEF k
<1> QED BY <1>1, <1>2 DEF WakeInv, Signalled, JobsQueue

LEMMA WakeSignal == \A j \in jobs : WakeInv /\ SignalWake(j) => WakeInv'
<1> SUFFICES ASSUME NEW j \in jobs, WakeInv, SignalWake(j)
             PROVE  WakeInv'
  OBVIOUS
<1>1. wake' = TRUE
      /\ jobs' = (jobs \ {j}) \cup (IF j.queued = "last" THEN {} ELSE {[j EXCEPT !.queued = "no"]})
  BY DEF SignalWake
<1>2. "queued" \in DOMAIN [j EXCEPT !.queued = "no"]
  BY DEF WakeInv, JobsQueue
<1> QED BY <1>1, <1>2 DEF WakeInv, Signalled, JobsQueue

(* Steps of the pump; and those that leave pump, queue and jobs alone.     *)
LEMMA WakePump == WakeInv /\ (TakeResps \/ WriteResp \/ WakeUp \/ StreamEnded) => WakeInv'
BY DEF WakeInv, Signalled, JobsQueue, TakeResps, WriteResp, WakeUp, StreamEnded

LEMMA WakeAccept == \A c \in Conns : WakeInv /\ Accept(c) => WakeInv'
BY DEF WakeInv, Signalled, JobsQueue, Accept

LEMMA WakeOthers == WakeInv /\ UNCHANGED <<pump, wake, respQueue, jobs>> => WakeInv'
BY DEF WakeInv, Signalled, JobsQueue

LEMMA WakeNext == WakeInv /\ [Next]_vars => WakeInv'
<1> SUFFICES ASSUME WakeInv, [Next]_vars
             PROVE  WakeInv'
  OBVIOUS
<1>1. ASSUME NEW v \in Viewers,
             FindConn(v) \/ SendRequest(v) \/ Collect(v) \/ Timeout(v) \/ ClearOlder(v)
      PROVE  UNCHANGED <<pump, wake, respQueue, jobs>>
  BY <1>1 DEF FindConn, SendRequest, Collect, Timeout, ClearOlder, clientVars
<1>2. ASSUME NEW c \in Conns,
             \/ AddConn(c) \/ WriterSends(c) \/ HandlerScans(c) \/ HandlerEnds(c) \/ RemoveConn(c)
             \/ ReaderEnds(c) \/ BreakConn(c)
      PROVE  UNCHANGED <<pump, wake, respQueue, jobs>>
  BY <1>2 DEF AddConn, WriterSends, HandlerScans, HandlerEnds, RemoveConn, ReaderEnds, BreakConn, clientVars
<1>3. ASSUME Restart \/ UNCHANGED vars PROVE UNCHANGED <<pump, wake, respQueue, jobs>>
  BY <1>3 DEF Restart, vars, clientVars
<1> QED BY <1>1, <1>2, <1>3, WakeReader, WakeQueue, WakeSignal, WakePump, WakeAccept, WakeOthers DEF Next

(* A sleeping pump with answers in its queue is about to be woken, whatever*)
(* connections came and went since they were queued (queueResp, takeResps).*)
THEOREM AnswersWake == Spec => []QueuedAnswersWake
<1>1. Init => WakeInv
  BY DEF Init, WakeInv, Signalled, JobsQueue
<1>2. WakeInv => QueuedAnswersWake
  BY DEF WakeInv, Signalled, QueuedAnswersWake
<1> QED BY <1>1, <1>2, WakeNext, PTL DEF Spec

EpochCounts == epoch \in Nat

(* A step registers, leaves the registration alone, is taken by the handler*)
(* of the registered connection, or ends the process.                      *)
LEMMA RegistrationNext ==
  Next => \/ epoch' = epoch /\ (conns' = NoConn /\ conns # NoConn => handler[conns] = "leaving")
          \/ epoch' = epoch + 1
<1>1. ASSUME NEW v \in Viewers,
             FindConn(v) \/ SendRequest(v) \/ Collect(v) \/ Timeout(v) \/ ClearOlder(v)
      PROVE  conns' = conns /\ epoch' = epoch
  BY <1>1 DEF FindConn, SendRequest, Collect, Timeout, ClearOlder, serverVars, boundVars
<1>2. ASSUME NEW c \in Conns,
             \/ Accept(c) \/ WriterSends(c) \/ HandlerScans(c) \/ HandlerEnds(c)
             \/ ReaderGets(c) \/ ReaderEnds(c) \/ BreakConn(c)
      PROVE  conns' = conns /\ epoch' = epoch
  BY <1>2 DEF Accept, WriterSends, HandlerScans, HandlerEnds, ReaderGets, ReaderEnds, BreakConn,
              serverVars, boundVars
<1>3. ASSUME NEW j \in jobs, QueueChunk(j) \/ SignalWake(j) PROVE conns' = conns /\ epoch' = epoch
  BY <1>3 DEF QueueChunk, SignalWake, serverVars, boundVars
<1>4. ASSUME TakeResps \/ WriteResp \/ WakeUp \/ StreamEnded PROVE conns' = conns /\ epoch' = epoch
  BY <1>4 DEF TakeResps, WriteResp, WakeUp, StreamEnded, serverVars, boundVars
<1>5. ASSUME NEW c \in Conns, AddConn(c) PROVE conns' # NoConn /\ epoch' = epoch
  BY <1>5, NoConnAssumption DEF AddConn, boundVars
<1>6. ASSUME NEW c \in Conns, RemoveConn(c)
      PROVE  /\ conns' = NoConn /\ conns # NoConn => handler[conns] = "leaving"
             /\ epoch' = epoch
  BY <1>6 DEF RemoveConn, boundVars
<1>7. ASSUME Restart PROVE epoch' = epoch + 1
  BY <1>7 DEF Restart
<1> QED BY <1>1, <1>2, <1>3, <1>4, <1>5, <1>6, <1>7 DEF Next

(* A registered connection stays reachable for scrollback until its own    *)
(* handler leaves or the process ends: no leaving handler of an older one  *)
(* takes it away (removeConn).                                             *)
THEOREM OnlyOwnHandlerUnregisters == Spec => RegisteredUntilItLeaves
<1>1. Init => EpochCounts
  BY DEF Init, EpochCounts
<1>2. EpochCounts /\ [Next]_vars => EpochCounts'
  <2>1. EpochCounts /\ UNCHANGED vars => EpochCounts'
    BY DEF vars, boundVars, EpochCounts
  <2>2. EpochCounts /\ Next => EpochCounts'
    BY RegistrationNext DEF EpochCounts
  <2> QED BY <2>1, <2>2
<1>3. EpochCounts /\ [Next]_vars
        => [conns' = NoConn /\ conns # NoConn => handler[conns] = "leaving" \/ epoch' # epoch]_vars
  <2>1. epoch \in Nat => epoch + 1 # epoch
    OBVIOUS
  <2> QED BY <2>1, RegistrationNext DEF EpochCounts
<1> QED BY <1>1, <1>2, <1>3, PTL DEF Spec, RegisteredUntilItLeaves

-----------------------------------------------------------------------------
(* Types.                                                                  *)

PageTypes ==
  /\ lowest \in [Viewers -> Nat] /\ done \in [Viewers -> BOOLEAN]
  /\ shown \in [Viewers -> SUBSET Nat] /\ startShown \subseteq Viewers

AskTypes ==
  /\ asking \in [Viewers -> {"no", "routed", "waiting"}]
  /\ before \in [Viewers -> Nat]
  /\ via \in [Viewers -> Conns \cup {NoConn}]
  /\ id \in [Viewers -> Nat]
  /\ got \in [Viewers -> SUBSET Nat] /\ gotStart \in [Viewers -> BOOLEAN]
  /\ chunks \in [Viewers -> Seq(Chunks)]
  /\ \A v \in Viewers : Len(chunks[v]) <= ChunkQueue
  /\ \A v \in Viewers : (asking[v] = "waiting") <=> (id[v] # 0)

ServerTypes ==
  /\ conns \in Conns \cup {NoConn} /\ reqID \in Nat
  /\ handler \in [Conns -> {"none", "opening", "serving", "leaving"}]
  /\ reqCh \in [Conns -> Seq(Requests)]
  /\ \A c \in Conns : Len(reqCh[c]) <= ReqQueue

WireTypes ==
  /\ down \in [Conns -> Seq(Requests)] /\ up \in [Conns -> Seq(Chunks)]
  /\ broken \in [Conns -> BOOLEAN]

ClientTypes ==
  /\ current \in Conns \cup {NoConn}
  /\ pump \in {"off", "take", "write", "wait"}
  /\ wake \in BOOLEAN /\ taken \in Seq(Chunks) /\ respQueue \in Seq(Chunks)
  /\ jobs \subseteq Jobs

HistoryTypes == torn \subseteq Viewers /\ spoiled \subseteq Viewers

(* The pump has taken chunks exactly while it writes, and writes them on a *)
(* connection.                                                             *)
PumpInv ==
  /\ taken # <<>> <=> pump = "write"
  /\ pump # "off" => current \in Conns

Types ==
  /\ content \in [Viewers -> Contents] /\ epoch \in Nat
  /\ PageTypes /\ AskTypes /\ ServerTypes /\ WireTypes /\ ClientTypes /\ HistoryTypes /\ PumpInv

LEMMA TypesSuffice == Types => TypeOK
<1> SUFFICES ASSUME Types
             PROVE  TypeOK
  OBVIOUS
<1>1. content \in [Viewers -> Contents]
  BY DEF Types
<1>2. /\ lowest \in [Viewers -> Nat] /\ done \in [Viewers -> BOOLEAN]
      /\ shown \in [Viewers -> SUBSET Nat] /\ startShown \subseteq Viewers
  BY DEF Types, PageTypes
<1>3. /\ asking \in [Viewers -> {"no", "routed", "waiting"}]
      /\ before \in [Viewers -> Nat]
      /\ via \in [Viewers -> Conns \cup {NoConn}]
      /\ id \in [Viewers -> Nat]
      /\ got \in [Viewers -> SUBSET Nat] /\ gotStart \in [Viewers -> BOOLEAN]
      /\ chunks \in [Viewers -> Seq(Chunks)]
      /\ \A v \in Viewers : Len(chunks[v]) <= ChunkQueue
      /\ \A v \in Viewers : (asking[v] = "waiting") <=> (id[v] # 0)
  BY Zenon DEF Types, AskTypes
<1>4. /\ conns \in Conns \cup {NoConn} /\ reqID \in Nat
      /\ handler \in [Conns -> {"none", "opening", "serving", "leaving"}]
      /\ reqCh \in [Conns -> Seq(Requests)]
      /\ \A c \in Conns : Len(reqCh[c]) <= ReqQueue
  BY Zenon DEF Types, ServerTypes
<1>5. /\ down \in [Conns -> Seq(Requests)] /\ up \in [Conns -> Seq(Chunks)]
      /\ broken \in [Conns -> BOOLEAN]
  BY DEF Types, WireTypes
<1>6. /\ current \in Conns \cup {NoConn}
      /\ pump \in {"off", "take", "write", "wait"}
      /\ wake \in BOOLEAN /\ taken \in Seq(Chunks) /\ respQueue \in Seq(Chunks)
      /\ jobs \subseteq Jobs
  BY Zenon DEF Types, ClientTypes
<1>7. torn \subseteq Viewers /\ spoiled \subseteq Viewers
  BY DEF Types, HistoryTypes
<1> QED BY <1>1, <1>2, <1>3, <1>4, <1>5, <1>6, <1>7, Zenon DEF TypeOK

(* Tails and appended elements of sequences.                               *)
LEMMA EmptyLen ==
  ASSUME NEW S, NEW s \in Seq(S)
  PROVE  Len(s) = 0 <=> s = <<>>
OBVIOUS

LEMMA TailType ==
  ASSUME NEW S, NEW s \in Seq(S), s # <<>>
  PROVE  /\ Head(s) \in S /\ Tail(s) \in Seq(S)
         /\ Len(s) \in Nat \ {0} /\ Len(Tail(s)) = Len(s) - 1
         /\ Len(s) = 1 <=> Tail(s) = <<>>
<1>1. Len(s) \in Nat \ {0}
  OBVIOUS
<1>2. Head(s) \in S /\ Tail(s) \in Seq(S) /\ Len(Tail(s)) = Len(s) - 1
  BY <1>1
<1>3. Len(Tail(s)) = 0 <=> Tail(s) = <<>>
  BY <1>2, EmptyLen, Zenon
<1> QED BY <1>1, <1>2, <1>3

LEMMA AppendType ==
  ASSUME NEW S, NEW s \in Seq(S), NEW x \in S
  PROVE  /\ Append(s, x) \in Seq(S) /\ Append(s, x) # <<>>
         /\ Len(s) \in Nat /\ Len(Append(s, x)) = Len(s) + 1
OBVIOUS

LEMMA TypesInit == Init => Types
<1> SUFFICES ASSUME Init
             PROVE  Types
  OBVIOUS
<1>1. \A v \in Viewers : Len(content[v]) \in Nat
  BY ContentsAssumption DEF Init
<1>2. content \in [Viewers -> Contents] /\ epoch \in Nat
  BY DEF Init
<1>3. PageTypes
  BY <1>1 DEF Init, PageTypes, Live
<1>4. AskTypes
  <2>1. <<>> \in Seq(Chunks) /\ Len(<<>>) = 0
    OBVIOUS
  <2>2. chunks \in [Viewers -> Seq(Chunks)] /\ \A v \in Viewers : Len(chunks[v]) <= ChunkQueue
    BY <2>1, SizesAssumption DEF Init
  <2> QED BY <2>2 DEF Init, AskTypes
<1>5. ServerTypes
  <2>1. <<>> \in Seq(Requests) /\ Len(<<>>) = 0
    OBVIOUS
  <2>2. reqCh \in [Conns -> Seq(Requests)] /\ \A c \in Conns : Len(reqCh[c]) <= ReqQueue
    BY <2>1, SizesAssumption DEF Init
  <2> QED BY <2>2 DEF Init, ServerTypes
<1>6. WireTypes
  BY DEF Init, WireTypes
<1>7. ClientTypes /\ HistoryTypes /\ PumpInv
  <2>1. current = NoConn /\ pump = "off" /\ wake = FALSE /\ jobs = {} /\ torn = {} /\ spoiled = {}
        /\ taken = <<>> /\ respQueue = <<>>
    BY DEF Init
  <2>2. taken \in Seq(Chunks) /\ respQueue \in Seq(Chunks)
    BY <2>1
  <2> QED BY <2>1, <2>2 DEF ClientTypes, HistoryTypes, PumpInv
<1> QED BY <1>2, <1>3, <1>4, <1>5, <1>6, <1>7 DEF Types

LEMMA ForgetTypes ==
  ASSUME AskTypes, NEW S \in SUBSET Viewers, Forget(S)
  PROVE  /\ AskTypes'
         /\ \A v \in Viewers \ S : /\ asking'[v] = asking[v] /\ before'[v] = before[v] /\ id'[v] = id[v]
                                   /\ got'[v] = got[v] /\ gotStart'[v] = gotStart[v] /\ chunks'[v] = chunks[v]
         /\ \A v \in S : asking'[v] = "no" /\ got'[v] = {} /\ gotStart'[v] = FALSE /\ chunks'[v] = <<>> /\ id'[v] = 0
<1>1. /\ asking' = [v \in Viewers |-> IF v \in S THEN "no" ELSE asking[v]]
      /\ before' = [v \in Viewers |-> IF v \in S THEN 0 ELSE before[v]]
      /\ via' = [v \in Viewers |-> IF v \in S THEN NoConn ELSE via[v]]
      /\ id' = [v \in Viewers |-> IF v \in S THEN 0 ELSE id[v]]
      /\ got' = [v \in Viewers |-> IF v \in S THEN {} ELSE got[v]]
      /\ gotStart' = [v \in Viewers |-> IF v \in S THEN FALSE ELSE gotStart[v]]
      /\ chunks' = [v \in Viewers |-> IF v \in S THEN <<>> ELSE chunks[v]]
  BY DEF Forget
<1>2. /\ asking' \in [Viewers -> {"no", "routed", "waiting"}] /\ before' \in [Viewers -> Nat]
      /\ via' \in [Viewers -> Conns \cup {NoConn}] /\ id' \in [Viewers -> Nat]
  BY <1>1 DEF AskTypes
<1>3. got' \in [Viewers -> SUBSET Nat] /\ gotStart' \in [Viewers -> BOOLEAN]
  BY <1>1 DEF AskTypes
<1>4. chunks' \in [Viewers -> Seq(Chunks)]
  BY <1>1 DEF AskTypes
<1>5. \A v \in Viewers : Len(chunks'[v]) <= ChunkQueue
  <2>1. Len(<<>>) = 0
    OBVIOUS
  <2> QED BY <1>1, <2>1, SizesAssumption DEF AskTypes
<1>6. \A v \in Viewers : (asking'[v] = "waiting") <=> (id'[v] # 0)
  BY <1>1 DEF AskTypes
<1> QED BY <1>1, <1>2, <1>3, <1>4, <1>5, <1>6 DEF AskTypes

LEMMA NoFurtherTypes ==
  ASSUME PageTypes, AskTypes, NEW S \in SUBSET Viewers, NoFurtherHistory(S)
  PROVE  PageTypes' /\ AskTypes'
BY ForgetTypes DEF NoFurtherHistory, PageTypes

LEMMA LowestOfSet ==
  ASSUME NEW S \in SUBSET Nat, S # {}
  PROVE  LowestOf(S) \in S /\ \A o \in S : LowestOf(S) <= o
BY LeastExists DEF LowestOf

LEMMA TypesFindConn == \A v \in Viewers : Types /\ FindConn(v) => Types'
<1> SUFFICES ASSUME NEW v \in Viewers, Types, FindConn(v)
             PROVE  Types'
  OBVIOUS
<1>1. UNCHANGED <<content, serverVars, wireVars, clientVars, historyVars, boundVars>>
  BY DEF FindConn
<1>2. CASE NoFurtherHistory({v})
  BY <1>1, <1>2, NoFurtherTypes
     DEF Types, ServerTypes, WireTypes, ClientTypes, HistoryTypes, PumpInv,
         serverVars, wireVars, clientVars, historyVars, boundVars
<1>3. CASE /\ asking' = [asking EXCEPT ![v] = "routed"]
           /\ before' = [before EXCEPT ![v] = lowest[v]]
           /\ via' = [via EXCEPT ![v] = conns]
           /\ UNCHANGED <<id, got, gotStart, chunks, pageVars>>
  <2>1. PageTypes'
    BY <1>3 DEF Types, PageTypes, pageVars
  <2>2. AskTypes'
    <3>1. asking[v] = "no"
      BY DEF FindConn
    <3> QED BY <1>3, <3>1 DEF Types, AskTypes, PageTypes, ServerTypes
  <2> QED BY <1>1, <2>1, <2>2
          DEF Types, ServerTypes, WireTypes, ClientTypes, HistoryTypes, PumpInv,
              serverVars, wireVars, clientVars, historyVars, boundVars
<1> QED BY <1>2, <1>3 DEF FindConn

LEMMA TypesSendRequest == \A v \in Viewers : Types /\ SendRequest(v) => Types'
<1> SUFFICES ASSUME NEW v \in Viewers, Types, SendRequest(v)
             PROVE  Types'
  OBVIOUS
<1>1. /\ UNCHANGED <<content, conns, handler, wireVars, clientVars, torn, boundVars>>
      /\ reqID' = reqID + 1 /\ spoiled' = spoiled \ {v}
  BY DEF SendRequest
<1>2. CASE /\ Len(reqCh[via[v]]) < ReqQueue
           /\ reqCh' = [reqCh EXCEPT ![via[v]] = Append(@, [id |-> reqID', epoch |-> epoch,
                                                            viewer |-> v, before |-> before[v]])]
           /\ asking' = [asking EXCEPT ![v] = "waiting"]
           /\ id' = [id EXCEPT ![v] = reqID']
           /\ UNCHANGED <<before, via, got, gotStart, chunks, pageVars>>
  <2> DEFINE q == [id |-> reqID', epoch |-> epoch, viewer |-> v, before |-> before[v]]
  <2>1. reqID' \in Nat \ {0}
    BY <1>1 DEF Types, ServerTypes
  <2>2. q \in Requests
    BY <2>1 DEF Types, AskTypes, Requests
  <2> HIDE DEF q
  <2>3. reqCh' \in [Conns -> Seq(Requests)] /\ \A c \in Conns : Len(reqCh'[c]) <= ReqQueue
    <3>1. reqCh' = [reqCh EXCEPT ![via[v]] = Append(@, q)]
      BY <1>2 DEF q
    <3>2. ASSUME NEW c \in Conns PROVE reqCh'[c] \in Seq(Requests) /\ Len(reqCh'[c]) <= ReqQueue
      <4>1. reqCh[c] \in Seq(Requests) /\ Len(reqCh[c]) <= ReqQueue
        BY DEF Types, ServerTypes
      <4>2. CASE c = via[v]
        <5>1. reqCh'[c] = Append(reqCh[c], q)
          BY <3>1, <4>2 DEF Types, ServerTypes
        <5>2. Append(reqCh[c], q) \in Seq(Requests) /\ Len(Append(reqCh[c], q)) = Len(reqCh[c]) + 1
              /\ Len(reqCh[c]) \in Nat
          BY <2>2, <4>1, AppendType
        <5>3. Len(reqCh[c]) + 1 <= ReqQueue
          BY <1>2, <4>2, <5>2, SizesAssumption
        <5> QED BY <5>1, <5>2, <5>3
      <4>3. CASE c # via[v]
        BY <3>1, <4>1, <4>3 DEF Types, ServerTypes
      <4> QED BY <4>2, <4>3
    <3>3. DOMAIN reqCh' = Conns /\ reqCh' = [c \in Conns |-> reqCh'[c]]
      BY <3>1 DEF Types, ServerTypes
    <3> QED BY <3>2, <3>3
  <2>4. AskTypes'
    BY <1>2, <2>1 DEF Types, AskTypes
  <2> QED BY <1>1, <1>2, <2>1, <2>3, <2>4
          DEF Types, PageTypes, ServerTypes, WireTypes, ClientTypes, HistoryTypes, PumpInv,
              pageVars, wireVars, clientVars, boundVars
<1>3. CASE NoFurtherHistory({v}) /\ UNCHANGED reqCh
  BY <1>1, <1>3, NoFurtherTypes
     DEF Types, ServerTypes, WireTypes, ClientTypes, HistoryTypes, PumpInv,
         wireVars, clientVars, boundVars
<1> QED BY <1>2, <1>3 DEF SendRequest

LEMMA TypesCollect == \A v \in Viewers : Types /\ Collect(v) => Types'
<1> SUFFICES ASSUME NEW v \in Viewers, Types, Collect(v)
             PROVE  Types'
  OBVIOUS
<1> DEFINE r == Head(chunks[v])
           lines == got[v] \cup r.lines
           start == gotStart[v] \/ r.atStart
<1>1. /\ UNCHANGED <<content, serverVars, wireVars, clientVars, spoiled, boundVars>>
      /\ torn' = torn \/ torn' = torn \cup (spoiled \cap {v})
      /\ asking[v] = "waiting" /\ chunks[v] # <<>>
  BY DEF Collect
<1>2. /\ chunks[v] \in Seq(Chunks) /\ r \in Chunks /\ Tail(chunks[v]) \in Seq(Chunks)
      /\ Len(Tail(chunks[v])) <= ChunkQueue
  <2>1. chunks[v] \in Seq(Chunks) /\ Len(chunks[v]) <= ChunkQueue
    BY DEF Types, AskTypes
  <2>2. r \in Chunks /\ Tail(chunks[v]) \in Seq(Chunks) /\ Len(chunks[v]) \in Nat
        /\ Len(Tail(chunks[v])) = Len(chunks[v]) - 1
    BY <1>1, <2>1, TailType
  <2>3. Len(Tail(chunks[v])) <= ChunkQueue
    BY <2>1, <2>2, SizesAssumption
  <2> QED BY <2>1, <2>2, <2>3
<1>3. lines \in SUBSET Nat /\ start \in BOOLEAN
  BY <1>2 DEF Types, AskTypes, Chunks
<1> HIDE DEF r, lines, start
<1>4. PageTypes' /\ AskTypes'
  <2>1. CASE NoFurtherHistory({v})
    BY <2>1, NoFurtherTypes DEF Types
  <2>2. CASE /\ got' = [got EXCEPT ![v] = lines]
             /\ gotStart' = [gotStart EXCEPT ![v] = start]
             /\ chunks' = [chunks EXCEPT ![v] = Tail(@)]
             /\ UNCHANGED <<asking, before, via, id, pageVars, torn>>
    <3>1. PageTypes'
      BY <2>2 DEF Types, PageTypes, pageVars
    <3>2. chunks' \in [Viewers -> Seq(Chunks)] /\ \A u \in Viewers : Len(chunks'[u]) <= ChunkQueue
      BY <1>2, <2>2 DEF Types, AskTypes
    <3>3. got' \in [Viewers -> SUBSET Nat] /\ gotStart' \in [Viewers -> BOOLEAN]
      BY <1>3, <2>2 DEF Types, AskTypes
    <3> QED BY <2>2, <3>1, <3>2, <3>3 DEF Types, AskTypes
  <2>3. CASE /\ lines # {} /\ Forget({v})
             /\ lowest' = [lowest EXCEPT ![v] = LowestOf(lines)]
             /\ shown' = [shown EXCEPT ![v] = @ \cup lines]
             /\ done' = [done EXCEPT ![v] = start]
             /\ startShown' = IF start THEN startShown \cup {v} ELSE startShown
    <3>1. AskTypes'
      BY <2>3, ForgetTypes DEF Types
    <3>2. LowestOf(lines) \in Nat
      BY <1>3, <2>3, LowestOfSet
    <3>3. lowest' \in [Viewers -> Nat] /\ done' \in [Viewers -> BOOLEAN]
      BY <1>3, <2>3, <3>2 DEF Types, PageTypes
    <3>4. shown' \in [Viewers -> SUBSET Nat] /\ startShown' \subseteq Viewers
      BY <1>3, <2>3 DEF Types, PageTypes
    <3> QED BY <3>1, <3>3, <3>4 DEF PageTypes
  <2> QED BY <2>1, <2>2, <2>3 DEF Collect, r, lines, start
<1> QED BY <1>1, <1>4
        DEF Types, ServerTypes, WireTypes, ClientTypes, HistoryTypes, PumpInv,
            serverVars, wireVars, clientVars, boundVars

LEMMA TypesTimeout == \A v \in Viewers : Types /\ Timeout(v) => Types'
BY NoFurtherTypes
   DEF Timeout, Types, ServerTypes, WireTypes, ClientTypes, HistoryTypes, PumpInv,
       serverVars, wireVars, clientVars, historyVars, boundVars

LEMMA LiveType ==
  ASSUME Types, NEW v \in Viewers
  PROVE  /\ Live(v) \in Nat /\ StartsLine(content[v], Live(v))
         /\ content[v] \in Seq({"text", "newline"})
<1>1. content[v] \in Contents
  BY DEF Types
<1> QED BY <1>1, ContentsAssumption DEF Live

LEMMA TypesClearOlder == \A v \in Viewers : Types /\ ClearOlder(v) => Types'
<1> SUFFICES ASSUME NEW v \in Viewers, Types, ClearOlder(v)
             PROVE  Types'
  OBVIOUS
<1>1. /\ UNCHANGED <<content, askVars, serverVars, wireVars, clientVars, spoiled, epoch>>
      /\ torn' = IF asking[v] = "no" THEN torn \ {v} ELSE torn \cup {v}
  BY DEF ClearOlder
<1>2. PageTypes'
  BY LiveType DEF Types, PageTypes, ClearOlder
<1> QED BY <1>1, <1>2
        DEF Types, AskTypes, ServerTypes, WireTypes, ClientTypes, HistoryTypes, PumpInv,
            askVars, serverVars, wireVars, clientVars

LEMMA TypesServer ==
  \A c \in Conns : Types /\ (Accept(c) \/ AddConn(c) \/ RemoveConn(c) \/ BreakConn(c)) => Types'
<1> SUFFICES ASSUME NEW c \in Conns, Types, Accept(c) \/ AddConn(c) \/ RemoveConn(c) \/ BreakConn(c)
             PROVE  Types'
  OBVIOUS
<1>1. UNCHANGED <<content, pageVars, askVars, historyVars, epoch>>
  BY DEF Accept, AddConn, RemoveConn, BreakConn, boundVars
<1>2. PageTypes' /\ AskTypes' /\ HistoryTypes' /\ content' \in [Viewers -> Contents] /\ epoch' \in Nat
  BY <1>1 DEF Types, PageTypes, AskTypes, HistoryTypes, pageVars, askVars, historyVars
<1>3. CASE Accept(c)
  <2>1. /\ current' = c /\ pump' = "take"
        /\ handler' = [handler EXCEPT ![c] = "opening"]
        /\ reqCh' = [reqCh EXCEPT ![c] = <<>>]
        /\ broken' = [broken EXCEPT ![c] = FALSE]
        /\ UNCHANGED <<conns, reqID, down, up, taken, wake, respQueue, jobs>>
        /\ current = NoConn
    BY <1>3 DEF Accept
  <2>2. pump = "off" /\ taken = <<>>
    BY <2>1, NoConnAssumption DEF Types, PumpInv
  <2>3. ServerTypes'
    <3>1. Len(<<>>) = 0 /\ <<>> \in Seq(Requests)
      OBVIOUS
    <3>2. reqCh' \in [Conns -> Seq(Requests)] /\ \A d \in Conns : Len(reqCh'[d]) <= ReqQueue
      BY <2>1, <3>1, SizesAssumption DEF Types, ServerTypes
    <3> QED BY <2>1, <3>2 DEF Types, ServerTypes
  <2>4. WireTypes' /\ ClientTypes'
    BY <2>1 DEF Types, WireTypes, ClientTypes
  <2>5. PumpInv'
    BY <2>1, <2>2 DEF PumpInv
  <2> QED BY <1>2, <2>3, <2>4, <2>5 DEF Types
<1>4. CASE AddConn(c)
  BY <1>2, <1>4 DEF AddConn, Types, ServerTypes, WireTypes, ClientTypes, PumpInv, wireVars, clientVars
<1>5. CASE RemoveConn(c)
  BY <1>2, <1>5 DEF RemoveConn, Types, ServerTypes, WireTypes, ClientTypes, PumpInv, wireVars, clientVars
<1>6. CASE BreakConn(c)
  BY <1>2, <1>6 DEF BreakConn, Types, ServerTypes, WireTypes, ClientTypes, PumpInv, serverVars, clientVars
<1> QED BY <1>3, <1>4, <1>5, <1>6

LEMMA TypesWriterSends == \A c \in Conns : Types /\ WriterSends(c) => Types'
<1> SUFFICES ASSUME NEW c \in Conns, Types, WriterSends(c)
             PROVE  Types'
  OBVIOUS
<1>1. /\ reqCh[c] # <<>>
      /\ down' = [down EXCEPT ![c] = Append(@, Head(reqCh[c]))]
      /\ reqCh' = [reqCh EXCEPT ![c] = Tail(@)]
      /\ UNCHANGED <<content, pageVars, askVars, conns, handler, reqID, up, broken, clientVars,
                     historyVars, boundVars>>
  BY DEF WriterSends
<1>2. /\ Head(reqCh[c]) \in Requests /\ Tail(reqCh[c]) \in Seq(Requests)
      /\ Len(Tail(reqCh[c])) <= ReqQueue
  <2>1. reqCh[c] \in Seq(Requests) /\ Len(reqCh[c]) <= ReqQueue
    BY DEF Types, ServerTypes
  <2>2. /\ Head(reqCh[c]) \in Requests /\ Tail(reqCh[c]) \in Seq(Requests)
        /\ Len(reqCh[c]) \in Nat /\ Len(Tail(reqCh[c])) = Len(reqCh[c]) - 1
    BY <1>1, <2>1, TailType
  <2>3. Len(Tail(reqCh[c])) <= ReqQueue
    BY <2>1, <2>2, SizesAssumption
  <2> QED BY <2>2, <2>3
<1>3. ServerTypes'
  <2>1. reqCh' \in [Conns -> Seq(Requests)] /\ \A d \in Conns : Len(reqCh'[d]) <= ReqQueue
    BY <1>1, <1>2 DEF Types, ServerTypes
  <2> QED BY <1>1, <2>1 DEF Types, ServerTypes
<1>4. WireTypes'
  <2>1. Append(down[c], Head(reqCh[c])) \in Seq(Requests)
    BY <1>2, AppendType DEF Types, WireTypes
  <2>2. down' \in [Conns -> Seq(Requests)]
    BY <1>1, <2>1 DEF Types, WireTypes
  <2> QED BY <1>1, <2>2 DEF Types, WireTypes
<1> QED BY <1>1, <1>3, <1>4
        DEF Types, PageTypes, AskTypes, ClientTypes, HistoryTypes, PumpInv,
            pageVars, askVars, clientVars, historyVars, boundVars

LEMMA TypesHandlerScans == \A c \in Conns : Types /\ HandlerScans(c) => Types'
<1> SUFFICES ASSUME NEW c \in Conns, Types, HandlerScans(c)
             PROVE  Types'
  OBVIOUS
<1> DEFINE r == Head(up[c])
           pending == {v \in Viewers : asking[v] = "waiting" /\ id[v] = r.id}
           room == {v \in pending : Len(chunks[v]) < ChunkQueue}
<1>1. /\ up[c] # <<>> /\ up' = [up EXCEPT ![c] = Tail(@)]
      /\ chunks' = [v \in Viewers |-> IF v \in room THEN Append(chunks[v], r) ELSE chunks[v]]
      /\ UNCHANGED <<content, pageVars, asking, before, via, id, got, gotStart, serverVars, down, broken,
                     clientVars, torn, boundVars>>
  BY DEF HandlerScans
<1>2. spoiled' \subseteq Viewers
  BY DEF HandlerScans, Types, HistoryTypes
<1>3. r \in Chunks /\ Tail(up[c]) \in Seq(Chunks)
  BY <1>1, TailType DEF Types, WireTypes
<1>4. \A v \in room : Len(chunks[v]) < ChunkQueue
  OBVIOUS
<1> HIDE DEF r, room
<1>5. ASSUME NEW v \in Viewers PROVE chunks'[v] \in Seq(Chunks) /\ Len(chunks'[v]) <= ChunkQueue
  <2>1. chunks[v] \in Seq(Chunks) /\ Len(chunks[v]) <= ChunkQueue
    BY DEF Types, AskTypes
  <2>2. /\ Append(chunks[v], r) \in Seq(Chunks)
        /\ Len(chunks[v]) \in Nat /\ Len(Append(chunks[v], r)) = Len(chunks[v]) + 1
    BY <1>3, <2>1, AppendType
  <2>3. v \in room => Len(Append(chunks[v], r)) <= ChunkQueue
    BY <1>4, <2>2, SizesAssumption
  <2>4. chunks'[v] = IF v \in room THEN Append(chunks[v], r) ELSE chunks[v]
    BY <1>1
  <2> QED BY <2>1, <2>2, <2>3, <2>4
<1>6. AskTypes'
  <2>1. chunks' \in [Viewers -> Seq(Chunks)]
    BY <1>1, <1>5
  <2> QED BY <1>1, <1>5, <2>1 DEF Types, AskTypes
<1>7. WireTypes'
  BY <1>1, <1>3 DEF Types, WireTypes
<1> QED BY <1>1, <1>2, <1>6, <1>7
        DEF Types, PageTypes, ServerTypes, ClientTypes, HistoryTypes, PumpInv,
            pageVars, serverVars, clientVars, boundVars

LEMMA TypesHandlerEnds == \A c \in Conns : Types /\ HandlerEnds(c) => Types'
<1> SUFFICES ASSUME NEW c \in Conns, Types, HandlerEnds(c)
             PROVE  Types'
  OBVIOUS
<1>1. /\ handler' = [handler EXCEPT ![c] = "leaving"]
      /\ up' = [up EXCEPT ![c] = <<>>]
      /\ UNCHANGED <<content, pageVars, askVars, conns, reqCh, reqID, down, broken, clientVars, torn, boundVars>>
  BY DEF HandlerEnds
<1>2. spoiled' \subseteq Viewers
  BY DEF HandlerEnds, Losing, Types, HistoryTypes
<1>3. WireTypes'
  BY <1>1 DEF Types, WireTypes
<1> QED BY <1>1, <1>2, <1>3
        DEF Types, PageTypes, AskTypes, ServerTypes, ClientTypes, HistoryTypes, PumpInv,
            pageVars, askVars, clientVars, boundVars

LEMMA JobType ==
  ASSUME Types, NEW q \in Requests, NEW lines \in SUBSET Nat, NEW start \in BOOLEAN, NEW err \in BOOLEAN
  PROVE  [id |-> q.id, epoch |-> q.epoch, lines |-> lines, atStart |-> start, err |-> err, queued |-> "no"] \in Jobs
BY DEF Types, Requests, Jobs

LEMMA TypesReader == \A c \in Conns : Types /\ (ReaderGets(c) \/ ReaderEnds(c)) => Types'
<1> SUFFICES ASSUME NEW c \in Conns, Types, ReaderGets(c) \/ ReaderEnds(c)
             PROVE  Types'
  OBVIOUS
<1>1. UNCHANGED <<content, pageVars, askVars, serverVars, up, broken, current, pump, taken, wake,
                  respQueue, historyVars, boundVars>>
  BY DEF ReaderGets, ReaderEnds, clientVars
<1>2. WireTypes' /\ jobs' \subseteq Jobs
  <2>1. CASE ReaderGets(c)
    <3> DEFINE q == Head(down[c])
               page == ReadLinesBefore(content[q.viewer], q.before, PageLines)
               Job(lines, start, err) ==
                 [id |-> q.id, epoch |-> q.epoch, lines |-> lines, atStart |-> start, err |-> err, queued |-> "no"]
    <3>1. /\ down[c] # <<>> /\ down' = [down EXCEPT ![c] = Tail(@)]
          /\ \/ jobs' = jobs \cup {Job(page.lines, page.atStart, FALSE)}
             \/ jobs' = jobs \cup {Job({}, FALSE, TRUE)}
      BY <2>1 DEF ReaderGets
    <3>2. q \in Requests /\ Tail(down[c]) \in Seq(Requests)
      BY <3>1, TailType DEF Types, WireTypes
    <3> HIDE DEF q
    <3>3. page.lines \in SUBSET Nat /\ page.atStart \in BOOLEAN
      BY <3>2, PageType DEF Requests
    <3> HIDE DEF page
    <3>4. Job(page.lines, page.atStart, FALSE) \in Jobs /\ Job({}, FALSE, TRUE) \in Jobs
      BY <3>2, <3>3, JobType
    <3> HIDE DEF Job
    <3>5. jobs' \subseteq Jobs
      BY <3>1, <3>4 DEF Types, ClientTypes
    <3>6. WireTypes'
      BY <1>1, <3>1, <3>2 DEF Types, WireTypes
    <3> QED BY <3>5, <3>6
  <2>2. CASE ReaderEnds(c)
    BY <1>1, <2>2 DEF ReaderEnds, Types, WireTypes, ClientTypes, clientVars
  <2> QED BY <2>1, <2>2
<1> QED BY <1>1, <1>2
        DEF Types, PageTypes, AskTypes, ServerTypes, ClientTypes, HistoryTypes, PumpInv,
            pageVars, askVars, serverVars, historyVars, boundVars

(* queueResp's chunk of a job, and what the job has left.                  *)
NextLines(j) == {o \in j.lines : Cardinality({p \in j.lines : p <= o}) <= ChunkLines}

ChunkOf(j) ==
  [id |-> j.id, epoch |-> j.epoch, lines |-> NextLines(j), final |-> j.lines \subseteq NextLines(j),
   atStart |-> j.lines \subseteq NextLines(j) /\ j.atStart, err |-> j.err]

RestOf(j) ==
  [j EXCEPT !.lines = @ \ NextLines(j), !.queued = IF j.lines \subseteq NextLines(j) THEN "last" ELSE "more"]

LEMMA QueueChunkStep ==
  ASSUME NEW j, QueueChunk(j)
  PROVE  /\ j.queued = "no"
         /\ respQueue' = Append(respQueue, ChunkOf(j))
         /\ jobs' = (jobs \ {j}) \cup {RestOf(j)}
         /\ UNCHANGED <<content, pageVars, askVars, serverVars, wireVars, current, pump, taken, wake,
                        historyVars, boundVars>>
BY Zenon DEF QueueChunk, ChunkOf, RestOf, NextLines

LEMMA ChunkOfType ==
  ASSUME NEW j \in Jobs
  PROVE  /\ ChunkOf(j) \in Chunks /\ RestOf(j) \in Jobs
         /\ NextLines(j) \subseteq j.lines
         /\ RestOf(j) = [id |-> j.id, epoch |-> j.epoch, lines |-> j.lines \ NextLines(j), atStart |-> j.atStart,
                         err |-> j.err, queued |-> IF j.lines \subseteq NextLines(j) THEN "last" ELSE "more"]
<1>1. NextLines(j) \subseteq j.lines
  BY DEF NextLines
<1>2. RestOf(j) = [id |-> j.id, epoch |-> j.epoch, lines |-> j.lines \ NextLines(j), atStart |-> j.atStart,
                   err |-> j.err, queued |-> IF j.lines \subseteq NextLines(j) THEN "last" ELSE "more"]
  <2> DEFINE rest == j.lines \ NextLines(j)
             place == IF j.lines \subseteq NextLines(j) THEN "last" ELSE "more"
  <2>1. RestOf(j) = [j EXCEPT !.lines = rest, !.queued = place]
    BY DEF RestOf
  <2> HIDE DEF rest, place
  <2> DEFINE k == [j EXCEPT !.lines = rest]
  <2>2. k = [id |-> j.id, epoch |-> j.epoch, lines |-> rest, atStart |-> j.atStart, err |-> j.err,
             queued |-> j.queued]
    BY DEF Jobs
  <2>3. RestOf(j) = [k EXCEPT !.queued = place]
    BY <2>1
  <2> HIDE DEF k
  <2>4. [k EXCEPT !.queued = place]
          = [id |-> j.id, epoch |-> j.epoch, lines |-> rest, atStart |-> j.atStart, err |-> j.err, queued |-> place]
    BY <2>2
  <2> QED BY <2>3, <2>4 DEF rest, place
<1>3. RestOf(j) \in Jobs
  BY <1>2 DEF Jobs
<1>4. ChunkOf(j) \in Chunks
  <2>1. /\ j.id \in Nat /\ j.epoch \in Nat /\ j.lines \in SUBSET Nat /\ j.atStart \in BOOLEAN
        /\ j.err \in BOOLEAN
    BY DEF Jobs
  <2>2. NextLines(j) \in SUBSET Nat
    BY <1>1, <2>1
  <2>3. (j.lines \subseteq NextLines(j)) \in BOOLEAN /\ (j.lines \subseteq NextLines(j) /\ j.atStart) \in BOOLEAN
    OBVIOUS
  <2> QED BY <2>1, <2>2, <2>3 DEF ChunkOf, Chunks
<1> QED BY <1>1, <1>2, <1>3, <1>4

LEMMA TypesQueue == \A j \in jobs : Types /\ QueueChunk(j) => Types'
<1> SUFFICES ASSUME NEW j \in jobs, Types, QueueChunk(j)
             PROVE  Types'
  OBVIOUS
<1>1. /\ respQueue' = Append(respQueue, ChunkOf(j))
      /\ jobs' = (jobs \ {j}) \cup {RestOf(j)}
      /\ UNCHANGED <<content, pageVars, askVars, serverVars, wireVars, current, pump, taken, wake,
                     historyVars, boundVars>>
  BY QueueChunkStep
<1>2. ChunkOf(j) \in Chunks /\ RestOf(j) \in Jobs
  BY ChunkOfType DEF Types, ClientTypes
<1>3. ClientTypes'
  <2>1. respQueue' \in Seq(Chunks)
    BY <1>1, <1>2, AppendType DEF Types, ClientTypes
  <2> QED BY <1>1, <1>2, <2>1 DEF Types, ClientTypes
<1> QED BY <1>1, <1>3
        DEF Types, PageTypes, AskTypes, ServerTypes, WireTypes, HistoryTypes, PumpInv,
            pageVars, askVars, serverVars, wireVars, historyVars, boundVars

LEMMA TypesSignal == \A j \in jobs : Types /\ SignalWake(j) => Types'
<1> SUFFICES ASSUME NEW j \in jobs, Types, SignalWake(j)
             PROVE  Types'
  OBVIOUS
<1>1. /\ wake' = TRUE
      /\ jobs' = (jobs \ {j}) \cup (IF j.queued = "last" THEN {} ELSE {[j EXCEPT !.queued = "no"]})
      /\ UNCHANGED <<content, pageVars, askVars, serverVars, wireVars, current, pump, taken, respQueue,
                     historyVars, boundVars>>
  BY DEF SignalWake
<1>2. [j EXCEPT !.queued = "no"] \in Jobs
  BY DEF Types, ClientTypes, Jobs
<1>3. ClientTypes'
  BY <1>1, <1>2 DEF Types, ClientTypes
<1> QED BY <1>1, <1>3
        DEF Types, PageTypes, AskTypes, ServerTypes, WireTypes, HistoryTypes, PumpInv,
            pageVars, askVars, serverVars, wireVars, historyVars, boundVars

LEMMA TypesPump == Types /\ (TakeResps \/ WriteResp \/ WakeUp \/ StreamEnded) => Types'
<1> SUFFICES ASSUME Types, TakeResps \/ WriteResp \/ WakeUp \/ StreamEnded
             PROVE  Types'
  OBVIOUS
<1>1. UNCHANGED <<content, pageVars, askVars, serverVars, down, broken, torn, boundVars>>
  BY DEF TakeResps, WriteResp, WakeUp, StreamEnded, wireVars, historyVars
<1>2. PageTypes' /\ AskTypes' /\ ServerTypes' /\ content' \in [Viewers -> Contents] /\ epoch' \in Nat
      /\ torn' \subseteq Viewers
  BY <1>1 DEF Types, PageTypes, AskTypes, ServerTypes, HistoryTypes, pageVars, askVars, serverVars, boundVars
<1>3. CASE TakeResps
  <2>1. /\ taken' = respQueue /\ respQueue' = <<>>
        /\ pump' = IF respQueue = <<>> THEN "wait" ELSE "write"
        /\ pump = "take" /\ UNCHANGED <<wireVars, current, wake, jobs, historyVars>>
    BY <1>3 DEF TakeResps
  <2>2. ClientTypes' /\ PumpInv'
    BY <2>1 DEF Types, ClientTypes, PumpInv
  <2> QED BY <1>2, <2>1, <2>2 DEF Types, WireTypes, HistoryTypes, wireVars, historyVars
<1>4. CASE WriteResp
  <2>1. /\ pump = "write"
        /\ up' = [up EXCEPT ![current] = Append(@, Head(taken))]
        /\ taken' = Tail(taken)
        /\ pump' = IF Len(taken) = 1 THEN "wait" ELSE "write"
        /\ UNCHANGED <<down, broken, current, wake, respQueue, jobs, historyVars>>
    BY <1>4 DEF WriteResp
  <2>2. taken # <<>> /\ current \in Conns /\ taken \in Seq(Chunks)
    BY <2>1 DEF Types, PumpInv, ClientTypes
  <2>3. /\ Head(taken) \in Chunks /\ Tail(taken) \in Seq(Chunks)
        /\ Len(taken) = 1 <=> Tail(taken) = <<>>
    BY <2>2, TailType
  <2>4. ClientTypes' /\ PumpInv'
    BY <2>1, <2>2, <2>3 DEF Types, ClientTypes, PumpInv
  <2>5. WireTypes'
    <3>1. Append(up[current], Head(taken)) \in Seq(Chunks)
      BY <2>2, <2>3, AppendType DEF Types, WireTypes
    <3>2. up' \in [Conns -> Seq(Chunks)]
      BY <2>1, <3>1 DEF Types, WireTypes
    <3> QED BY <2>1, <3>2 DEF Types, WireTypes
  <2> QED BY <1>2, <2>1, <2>4, <2>5 DEF Types, HistoryTypes, historyVars
<1>5. CASE WakeUp
  BY <1>2, <1>5 DEF WakeUp, Types, WireTypes, ClientTypes, HistoryTypes, PumpInv, wireVars, historyVars
<1>6. CASE StreamEnded
  <2>1. /\ current' = NoConn /\ pump' = "off" /\ taken' = <<>>
        /\ spoiled' = spoiled \cup Losing({taken[i] : i \in DOMAIN taken})
        /\ UNCHANGED <<wireVars, wake, respQueue, jobs>>
    BY <1>6 DEF StreamEnded
  <2>2. HistoryTypes'
    BY <1>2, <2>1 DEF Types, HistoryTypes, Losing
  <2>3. ClientTypes' /\ PumpInv'
    BY <2>1 DEF Types, ClientTypes, PumpInv
  <2> QED BY <1>2, <2>1, <2>2, <2>3 DEF Types, WireTypes, wireVars
<1> QED BY <1>3, <1>4, <1>5, <1>6

LEMMA TypesRestart == Types /\ Restart => Types'
<1> SUFFICES ASSUME Types, Restart
             PROVE  Types'
  OBVIOUS
<1>1. /\ epoch' = epoch + 1 /\ conns' = NoConn /\ reqID' = 0
      /\ handler' = [c \in Conns |-> "none"]
      /\ reqCh' = [c \in Conns |-> <<>>] /\ up' = [c \in Conns |-> <<>>]
      /\ broken' = [c \in Conns |-> TRUE]
      /\ NoFurtherHistory({v \in Viewers : asking[v] # "no"})
      /\ UNCHANGED <<content, down, clientVars, historyVars>>
  BY DEF Restart
<1>2. PageTypes' /\ AskTypes'
  BY <1>1, NoFurtherTypes DEF Types
<1>3. ServerTypes'
  <2>1. Len(<<>>) = 0 /\ <<>> \in Seq(Requests)
    OBVIOUS
  <2> QED BY <1>1, <2>1, SizesAssumption DEF ServerTypes
<1>4. WireTypes'
  BY <1>1 DEF Types, WireTypes
<1> QED BY <1>1, <1>2, <1>3, <1>4 DEF Types, ClientTypes, HistoryTypes, PumpInv, clientVars, historyVars

LEMMA TypesNext == Types /\ [Next]_vars => Types'
<1> SUFFICES ASSUME Types, [Next]_vars
             PROVE  Types'
  OBVIOUS
<1>1. CASE UNCHANGED vars
  BY <1>1 DEF vars, Types, PageTypes, AskTypes, ServerTypes, WireTypes, ClientTypes, HistoryTypes, PumpInv,
              pageVars, askVars, serverVars, wireVars, clientVars, historyVars, boundVars
<1> QED BY <1>1, TypesFindConn, TypesSendRequest, TypesCollect, TypesTimeout, TypesClearOlder, TypesServer,
           TypesWriterSends, TypesHandlerScans, TypesHandlerEnds, TypesReader, TypesQueue, TypesSignal,
           TypesPump, TypesRestart DEF Next

(* Types, and the bounds of the queues, for any number of viewers and      *)
(* connections: a page waits under an id exactly while its request is      *)
(* under way, and no queue outgrows its capacity.                          *)
THEOREM ScrollbackTypes == Spec => []TypeOK
BY TypesInit, TypesNext, TypesSuffice, PTL DEF Spec
=============================================================================
