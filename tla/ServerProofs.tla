---------------------------- MODULE ServerProofs ----------------------------
(***************************************************************************)
(* Proofs about Server for any number of requests and of slots.  First the *)
(* accounting of the semaphore, which needs only where each handler is and *)
(* that one action moves one handler; then what a reader of the channel    *)
(* sees, by an invariant of one run at a time.                             *)
(***************************************************************************)
EXTENDS Server, FiniteSetTheorems, SequenceTheorems, TLAPS

(* The places and the counter have their types, and the slots are exact.   *)
SlotInv ==
    /\ pc \in [Run -> Places]
    /\ semaphore \in Nat
    /\ SlotsExact

Inside == Places \ {"idle", "done"}

(* There are finitely many handlers, so the slots taken can be counted.    *)
LEMMA HoldersFinite == IsFiniteSet(Holders)
BY FS_Subset, ServerAssumption DEF Holders

(* A handler that stays inside, or stays outside, changes nothing.         *)
LEMMA Staying ==
    ASSUME SlotInv, NEW r \in Run, NEW p \in Places, Goto(r, p),
           pc[r] \in {"idle", "done"} <=> p \in {"idle", "done"},
           UNCHANGED semaphore
    PROVE  SlotInv'
<1>1. pc' \in [Run -> Places]
  BY DEF SlotInv, Goto
<1>2. Holders' = Holders
  BY DEF SlotInv, Goto, Holders
<1>3. QED
  BY <1>1, <1>2 DEF SlotInv, SlotsExact

(* A handler that enters takes a slot that was free.                       *)
LEMMA Entering ==
    ASSUME SlotInv, NEW r \in Run, NEW p \in Inside, Goto(r, p),
           pc[r] = "idle", semaphore < MaxConcurrentRuns,
           semaphore' = semaphore + 1
    PROVE  SlotInv'
<1>1. pc' \in [Run -> Places]
  BY DEF SlotInv, Goto, Inside
<1>2. Holders' = Holders \cup {r} /\ r \notin Holders
  BY DEF SlotInv, Goto, Holders, Inside
<1>3. Cardinality(Holders') = Cardinality(Holders) + 1
  BY <1>2, HoldersFinite, FS_AddElement
<1>4. semaphore' \in Nat /\ semaphore' <= MaxConcurrentRuns
  BY ServerAssumption DEF SlotInv
<1>5. QED
  BY <1>1, <1>3, <1>4 DEF SlotInv, SlotsExact

(* A handler that leaves gives back the one it had.                        *)
LEMMA Leaving ==
    ASSUME SlotInv, NEW r \in Run, Goto(r, "done"),
           pc[r] \in Inside, semaphore' = semaphore - 1
    PROVE  SlotInv'
<1>1. pc' \in [Run -> Places]
  BY DEF SlotInv, Goto, Places
<1>2. Holders' = Holders \ {r} /\ r \in Holders
  BY DEF SlotInv, Goto, Holders, Inside
<1>3. Cardinality(Holders') = Cardinality(Holders) - 1 /\ Cardinality(Holders) \in Nat
  BY <1>2, HoldersFinite, FS_RemoveElement, FS_CardinalityType
<1>4. Cardinality(Holders') \in Nat
  <2>1. IsFiniteSet(Holders')
    BY <1>2, HoldersFinite, FS_RemoveElement
  <2>2. QED
    BY <2>1, FS_CardinalityType
<1>5. semaphore' = Cardinality(Holders') /\ semaphore' \in Nat
  BY <1>3, <1>4 DEF SlotInv, SlotsExact
<1>6. semaphore' <= MaxConcurrentRuns
  BY ServerAssumption DEF SlotInv, SlotsExact
<1>7. QED
  BY <1>1, <1>5, <1>6 DEF SlotInv, SlotsExact

(* A step that moves no handler and leaves the semaphore alone.            *)
LEMMA Standing ==
    ASSUME SlotInv, UNCHANGED <<pc, semaphore>>
    PROVE  SlotInv'
BY DEF SlotInv, SlotsExact, Holders

(* At the start nobody holds a slot.                                       *)
LEMMA InitSlots == Init => SlotInv
<1> SUFFICES ASSUME Init PROVE SlotInv
  OBVIOUS
<1>1. pc \in [Run -> Places] /\ semaphore = 0
  BY DEF Init, Places
<1>2. Holders = {}
  BY DEF Init, Holders
<1>3. Cardinality(Holders) = 0
  BY <1>2, FS_EmptySet
<1>4. QED
  BY <1>1, <1>3, ServerAssumption DEF SlotInv, SlotsExact

(* Every step keeps the accounting: admission takes or refuses, Return     *)
(* gives back, and everything else moves a handler inside.                 *)
LEMMA NextSlots == SlotInv /\ [Next]_vars => SlotInv'
<1> SUFFICES ASSUME SlotInv, [Next]_vars PROVE SlotInv'
  OBVIOUS
<1>1. ASSUME NEW r \in Run, Client(r) PROVE SlotInv'
  <2>1. CASE Unauthorized(r) \/ TooManyRuns(r)
    <3>1. Goto(r, "done") /\ pc[r] = "idle" /\ semaphore' = semaphore
      BY <2>1 DEF Unauthorized, TooManyRuns, control
    <3>2. QED
      BY <3>1, Staying DEF Places
  <2>2. CASE Acquire(r)
    <3>1. /\ Goto(r, "start") /\ pc[r] = "idle"
          /\ semaphore < MaxConcurrentRuns /\ semaphore' = semaphore + 1
      BY <2>2 DEF Acquire
    <3>2. QED
      BY <3>1, Entering DEF Places, Inside
  <2>3. CASE BadStart(r)
    <3>1. Goto(r, "return") /\ pc[r] = "start" /\ semaphore' = semaphore
      BY <2>3 DEF BadStart, Reply, At, control
    <3>2. QED
      BY <3>1, Staying DEF Places
  <2>4. CASE GoodStart(r)
    <3>1. Goto(r, "announce") /\ pc[r] = "start" /\ semaphore' = semaphore
      BY <2>4 DEF GoodStart, At, control
    <3>2. QED
      BY <3>1, Staying DEF Places
  <2>5. CASE Output(r) \/ Exit(r)
    BY <2>5, Standing DEF Output, Exit, control
  <2>6. CASE EndOfStream(r) \/ StreamFails(r)
    <3>1. Goto(r, "close") /\ pc[r] = "stream" /\ semaphore' = semaphore
      BY <2>6 DEF EndOfStream, StreamFails, At, control
    <3>2. QED
      BY <3>1, Staying DEF Places
  <2>7. QED
    BY <1>1, <2>1, <2>2, <2>3, <2>4, <2>5, <2>6 DEF Client
<1>2. ASSUME NEW r \in Run, Batch(r) PROVE SlotInv'
  <2>1. CASE BatcherTake(r) \/ \E ok \in BOOLEAN : BatcherPost(r, ok) \/ BatcherNotice(r, ok)
    BY <2>1, Standing DEF BatcherTake, BatcherPost, BatcherNotice, control
  <2>2. CASE CloseReturns(r)
    <3>1. Goto(r, "final") /\ pc[r] = "close" /\ semaphore' = semaphore
      BY <2>2 DEF CloseReturns, Drained, At, control
    <3>2. QED
      BY <3>1, Staying DEF Places
  <2>3. QED
    BY <1>2, <2>1, <2>2 DEF Batch
<1>3. ASSUME NEW r \in Run, NEW ok \in BOOLEAN, PostStart(r, ok) PROVE SlotInv'
  <2>1. pc[r] = "announce" /\ semaphore' = semaphore
    BY <1>3 DEF PostStart, At, control
  <2>2. Goto(r, "return") \/ Goto(r, "stream") \/ UNCHANGED pc
    BY <1>3 DEF PostStart, Reply
  <2>3. QED
    BY <2>1, <2>2, Staying, Standing DEF Places
<1>4. ASSUME NEW r \in Run, NEW ok \in BOOLEAN, PostFinal(r, ok) PROVE SlotInv'
  <2>1. pc[r] = "final" /\ semaphore' = semaphore
    BY <1>4 DEF PostFinal, At, control
  <2>2. Goto(r, "return") \/ UNCHANGED pc
    BY <1>4 DEF PostFinal, Reply
  <2>3. QED
    BY <2>1, <2>2, Staying, Standing DEF Places
<1>5. ASSUME NEW r \in Run, Return(r) PROVE SlotInv'
  <2>1. Goto(r, "done") /\ pc[r] = "return" /\ semaphore' = semaphore - 1
    BY <1>5 DEF Return, At
  <2>2. QED
    BY <2>1, Leaving DEF Places, Inside
<1>6. CASE Signal \/ Stop
  BY <1>6, Standing DEF Signal, Stop
<1>7. CASE UNCHANGED vars
  BY <1>7, Standing DEF vars, control
<1>8. QED
  BY <1>1, <1>2, <1>3, <1>4, <1>5, <1>6, <1>7 DEF Next, Answer

(* The semaphore counts exactly the handlers between its acquisition and   *)
(* their return, on every path out of handleStream, and never lets more    *)
(* than MaxConcurrentRuns of them in (server.go, handleStream).            *)
THEOREM SlotsAreExact == Spec => []SlotsExact
<1>1. SlotInv => SlotsExact
  BY DEF SlotInv
<1>2. QED
  BY InitSlots, NextSlots, <1>1, PTL DEF Spec

-----------------------------------------------------------------------------
(***************************************************************************)
(* One run.  The types, then what is true of a run by itself: every action *)
(* is one of one run, or of the process.                                   *)
(***************************************************************************)

(* A message that is being sent in parts has a part left. *)
PartsLeft == \A r \in Run : pc[r] \in {"announce", "final"} => parts[r] > 0

Typed == TypeOK /\ PartsLeft

(* The messages of r, and a new one behind them *)
Grows(r, kind, text, ok) ==
    /\ Len(posts[r]) \in Nat /\ DOMAIN posts[r] = 1..Len(posts[r])
    /\ Len(posts'[r]) = Len(posts[r]) + 1
    /\ DOMAIN posts'[r] = 1..(Len(posts[r]) + 1)
    /\ \A i \in 1..Len(posts[r]) : posts'[r][i] = posts[r][i]
    /\ posts'[r][Len(posts[r]) + 1].kind = kind
    /\ posts'[r][Len(posts[r]) + 1].text = text
    /\ posts'[r][Len(posts[r]) + 1].ok = ok
    /\ posts'[r][Len(posts[r]) + 1].dropped = dropped[r]
    /\ posts'[r][Len(posts[r]) + 1].failed = batchErr[r]

(* What a post does to the messages of its run. *)
LEMMA Posted ==
    ASSUME TypeOK, NEW r \in Run, NEW kind \in {"start", "output", "notice"} \cup Finals,
           NEW text \in Seq(Nat), NEW ok \in BOOLEAN, Post(r, kind, text, ok)
    PROVE  posts' \in [Run -> Seq(Message)] /\ Grows(r, kind, text, ok)
<1> DEFINE m == [kind |-> kind, text |-> text, ok |-> ok,
                 dropped |-> dropped[r], failed |-> batchErr[r]]
<1>1. posts \in [Run -> Seq(Message)] /\ posts[r] \in Seq(Message) /\ m \in Message
  BY DEF TypeOK, Message
<1> HIDE DEF m
<1>2. posts' = [posts EXCEPT ![r] = Append(posts[r], m)]
  BY <1>1 DEF Post, m
<1>3. /\ Append(posts[r], m) \in Seq(Message)
      /\ Len(Append(posts[r], m)) = Len(posts[r]) + 1
      /\ \A i \in 1..Len(posts[r]) : Append(posts[r], m)[i] = posts[r][i]
      /\ Append(posts[r], m)[Len(posts[r]) + 1] = m
  BY <1>1, AppendProperties
<1>4. /\ Len(posts[r]) \in Nat /\ DOMAIN posts[r] = 1..Len(posts[r])
      /\ DOMAIN Append(posts[r], m) = 1..Len(Append(posts[r], m))
  BY <1>1, <1>3, LenProperties
<1>5. /\ posts'[r] = Append(posts[r], m) /\ posts' \in [Run -> Seq(Message)]
  BY <1>1, <1>2, <1>3
<1>6. /\ m.kind = kind /\ m.text = text /\ m.ok = ok
      /\ m.dropped = dropped[r] /\ m.failed = batchErr[r]
  BY DEF m
<1> QED
  BY <1>3, <1>4, <1>5, <1>6 DEF Grows

Statuses == {0, 200, 400, 401, 403, 429, 502}

(* Writing a response keeps the type of the responses. *)
LEMMA Replying ==
    ASSUME reply \in [Run -> Statuses], NEW r \in Run, NEW status \in Statuses,
           reply' = reply \/ reply' = [reply EXCEPT ![r] = status]
    PROVE  reply' \in [Run -> Statuses]
OBVIOUS

(* The types hold at the start. *)
LEMMA InitTyped == Init => Typed
<1> SUFFICES ASSUME Init PROVE Typed
  OBVIOUS
<1>1. << >> \in Seq(Nat) /\ << >> \in Seq(Message)
  BY EmptySeq
<1> QED
  BY <1>1 DEF Init, Typed, TypeOK, PartsLeft, Places

(* The types follow from the accounting of the semaphore, which says that  *)
(* it is not released below zero.                                          *)
LEMMA NextTyped == Typed /\ SlotInv /\ [Next]_vars => Typed'
<1> SUFFICES ASSUME Typed, SlotInv, [Next]_vars PROVE Typed'
  OBVIOUS
<1>1. semaphore' \in Nat /\ pc' \in [Run -> Places]
  BY NextSlots DEF SlotInv
<1>0. reply \in [Run -> Statuses] /\ 0 \in Statuses /\ {200, 400, 401, 403, 429, 502} \subseteq Statuses
  BY DEF Typed, TypeOK, Statuses
<1>2. ASSUME NEW r \in Run, Client(r) PROVE Typed'
  <2>1. ASSUME NEW q \in Run PROVE q \in Run /\ channel[q] \in Seq(Nat) /\ Len(channel[q]) \in Nat
    BY LenProperties DEF Typed, TypeOK
  <2>2. CASE Unauthorized(r) \/ TooManyRuns(r) \/ Acquire(r)
    <3>1. \A q \in Run : pc'[q] \in {"announce", "final"} => pc'[q] = pc[q]
      BY SMTT(30), <2>2 DEF Typed, TypeOK, Unauthorized, TooManyRuns, Acquire, Goto
    <3>2. reply' \in [Run -> Statuses]
      <4>1. \/ reply' = reply \/ reply' = [reply EXCEPT ![r] = 401]
            \/ reply' = [reply EXCEPT ![r] = 429]
        BY <2>2 DEF Unauthorized, TooManyRuns, Acquire
      <4> QED
        BY <1>0, <4>1, Replying
    <3>3. UNCHANGED <<daemon, parts, stream, batcher, batchErr, posts>>
      BY <2>2 DEF Unauthorized, TooManyRuns, Acquire, control
    <3> QED
      BY <1>1, <3>1, <3>2, <3>3 DEF Typed, TypeOK, PartsLeft, Statuses, stream, batcher
  <2>3. CASE BadStart(r)
    BY <1>1, <2>3 DEF Typed, TypeOK, PartsLeft, BadStart, Reply, Goto, control, stream, batcher
  <2>4. CASE GoodStart(r)
    BY <1>1, <2>4, ServerAssumption DEF Typed, TypeOK, PartsLeft, GoodStart, Goto,
                                        control, stream, batcher
  <2>5. CASE Output(r)
    <3>1. count' \in [Run -> Nat] /\ count'[r] \in Nat
      BY <2>5 DEF Typed, TypeOK, Output, NextEvent
    <3>2. channel' \in [Run -> Seq(Nat)] /\ dropped' \in [Run -> Nat]
      <4>1. Append(channel[r], count'[r]) \in Seq(Nat)
        BY <2>1, <3>1, AppendProperties
      <4>2. CASE Len(channel[r]) < QueueSize
        <5>1. channel' = [channel EXCEPT ![r] = Append(channel[r], count'[r])] /\ dropped' = dropped
          BY <2>5, <4>2 DEF Output
        <5> QED
          BY <4>1, <5>1 DEF Typed, TypeOK
      <4>3. CASE ~(Len(channel[r]) < QueueSize)
        <5>1. channel' = channel /\ dropped' = [dropped EXCEPT ![r] = dropped[r] + 1]
          BY <2>5, <4>3 DEF Output
        <5> QED
          BY <5>1 DEF Typed, TypeOK
      <4> QED
        BY <4>2, <4>3
    <3>3. /\ UNCHANGED <<daemon, pc, reply, parts, exitEvent, streamErr, buffer, noticed,
                         batchErr, posts>>
      BY <2>5 DEF Output, control
    <3> QED
      BY <1>1, <3>1, <3>2, <3>3 DEF Typed, TypeOK, PartsLeft
  <2>6. CASE Exit(r)
    <3>1. count' \in [Run -> Nat] /\ count'[r] \in Nat
      BY <2>6 DEF Typed, TypeOK, Exit, NextEvent
    <3>2. exitEvent' \in [Run -> Nat]
      BY <2>6, <3>1 DEF Typed, TypeOK, Exit
    <3>3. UNCHANGED <<daemon, pc, reply, parts, streamErr, batcher, batchErr, posts>>
      BY <2>6 DEF Exit, control
    <3> QED
      BY <1>1, <3>1, <3>2, <3>3 DEF Typed, TypeOK, PartsLeft, batcher
  <2>7. CASE EndOfStream(r) \/ StreamFails(r)
    <3>1. \A q \in Run : pc'[q] \in {"announce", "final"} => pc'[q] = pc[q]
      BY <2>7 DEF Typed, TypeOK, EndOfStream, StreamFails, Goto
    <3>2. streamErr' \in [Run -> BOOLEAN]
      <4>1. streamErr' = streamErr \/ streamErr' = [streamErr EXCEPT ![r] = TRUE]
        BY <2>7 DEF EndOfStream, StreamFails, stream
      <4>2. streamErr \in [Run -> BOOLEAN]
        BY DEF Typed, TypeOK
      <4> QED
        BY <4>1, <4>2
    <3>3. UNCHANGED <<daemon, reply, parts, count, exitEvent, batcher, batchErr, posts>>
      BY <2>7 DEF EndOfStream, StreamFails, control, stream
    <3> QED
      BY <1>1, <3>1, <3>2, <3>3 DEF Typed, TypeOK, PartsLeft, batcher
  <2> QED
    BY <1>2, <2>2, <2>3, <2>4, <2>5, <2>6, <2>7 DEF Client
<1>3. ASSUME NEW r \in Run, Batch(r) PROVE Typed'
  <2>1. channel[r] \in Seq(Nat) /\ buffer[r] \in Seq(Nat) /\ << >> \in Seq(Nat)
    BY EmptySeq DEF Typed, TypeOK
  <2>2. CASE BatcherTake(r)
    <3>1. Head(channel[r]) \in Nat /\ Tail(channel[r]) \in Seq(Nat)
      BY <2>1, <2>2, HeadTailProperties DEF BatcherTake
    <3>2. Append(buffer[r], Head(channel[r])) \in Seq(Nat)
      BY <2>1, <3>1, AppendProperties
    <3> QED
      BY <1>1, <2>2, <3>1, <3>2 DEF Typed, TypeOK, PartsLeft, BatcherTake, control, stream
  <2>3. CASE CloseReturns(r)
    BY <1>1, <2>3, ServerAssumption DEF Typed, TypeOK, PartsLeft, CloseReturns, Goto,
                                        control, stream, batcher
  <2>4. ASSUME NEW ok \in BOOLEAN, BatcherPost(r, ok) PROVE Typed'
    <3>1. posts' \in [Run -> Seq(Message)]
      BY <2>1, <2>4, Posted DEF BatcherPost, Typed
    <3> QED
      BY <1>1, <2>1, <2>4, <3>1 DEF Typed, TypeOK, PartsLeft, BatcherPost, control, stream
  <2>5. ASSUME NEW ok \in BOOLEAN, BatcherNotice(r, ok) PROVE Typed'
    <3>1. posts' \in [Run -> Seq(Message)]
      BY <2>1, <2>5, Posted DEF BatcherNotice, Typed
    <3> QED
      BY <1>1, <2>5, <3>1 DEF Typed, TypeOK, PartsLeft, BatcherNotice, control, stream
  <2> QED
    BY <1>3, <2>2, <2>3, <2>4, <2>5 DEF Batch
<1>4. ASSUME NEW r \in Run, NEW ok \in BOOLEAN, PostStart(r, ok) PROVE Typed'
  <2>1. posts' \in [Run -> Seq(Message)]
    BY <1>4, Posted, EmptySeq DEF PostStart, Typed
  <2>2. pc[r] = "announce" /\ parts[r] \in Nat \ {0}
    BY <1>4 DEF PostStart, At, Typed, TypeOK, PartsLeft
  <2>3. /\ parts' \in [Run -> Nat] /\ parts'[r] = parts[r] - 1
        /\ \A q \in Run : q # r => parts'[q] = parts[q]
    BY <1>4, <2>2 DEF PostStart, Typed, TypeOK
  <2>4. /\ reply' \in [Run -> Statuses]
        /\ UNCHANGED <<daemon, stream, batcher, batchErr>>
    <3>1. reply' = reply \/ reply' = [reply EXCEPT ![r] = 502]
      BY <1>4 DEF PostStart, Reply
    <3>2. UNCHANGED <<daemon, stream, batcher, batchErr>>
      BY <1>4 DEF PostStart, control
    <3> QED
      BY <1>0, <3>1, <3>2, Replying
  <2>5. PartsLeft'
    <3> SUFFICES ASSUME NEW q \in Run, pc'[q] \in {"announce", "final"} PROVE parts'[q] > 0
      BY DEF PartsLeft
    <3>1. CASE q # r
      BY SMTT(30), <1>4, <2>3, <3>1 DEF PostStart, Reply, Goto, Typed, TypeOK, PartsLeft
    <3>2. CASE q = r
      BY <1>4, <2>2, <2>3, <3>2 DEF PostStart, Reply, Goto, Typed, TypeOK
    <3> QED
      BY <3>1, <3>2
  <2> QED
    BY <1>1, <2>1, <2>3, <2>4, <2>5 DEF Typed, TypeOK, Statuses, stream, batcher
<1>5. ASSUME NEW r \in Run, NEW ok \in BOOLEAN, PostFinal(r, ok) PROVE Typed'
  <2>1. posts' \in [Run -> Seq(Message)]
    BY <1>5, Posted, EmptySeq DEF PostFinal, Verdict, Finals, Typed
  <2>2. Status(r, ok) \in {200, 400, 502} /\ FailedBy(r, ok) \in BOOLEAN
    BY DEF Status, FailedBy, Typed, TypeOK
  <2>3. pc[r] = "final" /\ parts[r] \in Nat \ {0}
    BY <1>5 DEF PostFinal, At, Typed, TypeOK, PartsLeft
  <2>4. /\ parts' \in [Run -> Nat] /\ parts'[r] = parts[r] - 1
        /\ \A q \in Run : q # r => parts'[q] = parts[q]
    BY <1>5, <2>3 DEF PostFinal, Typed, TypeOK
  <2>5. /\ reply' \in [Run -> Statuses]
        /\ UNCHANGED <<daemon, stream, batcher>>
    <3>1. reply' = reply \/ reply' = [reply EXCEPT ![r] = Status(r, ok)]
      BY <1>5 DEF PostFinal, Reply
    <3>2. UNCHANGED <<daemon, stream, batcher>>
      BY <1>5 DEF PostFinal, control
    <3>3. Status(r, ok) \in Statuses
      BY <1>0, <2>2
    <3> QED
      BY <1>0, <3>1, <3>2, <3>3, Replying
  <2>6. batchErr' \in [Run -> BOOLEAN]
    BY <1>5, <2>2 DEF PostFinal, Typed, TypeOK
  <2>7. PartsLeft'
    <3> SUFFICES ASSUME NEW q \in Run, pc'[q] \in {"announce", "final"} PROVE parts'[q] > 0
      BY DEF PartsLeft
    <3>1. CASE q # r
      BY <1>5, <2>4, <3>1 DEF PostFinal, Reply, Goto, Typed, TypeOK, PartsLeft
    <3>2. CASE q = r
      BY <1>5, <2>3, <2>4, <3>2 DEF PostFinal, Reply, Goto, Typed, TypeOK
    <3> QED
      BY <3>1, <3>2
  <2> QED
    BY SMTT(30), <1>1, <2>1, <2>4, <2>5, <2>6, <2>7 DEF Typed, TypeOK, Statuses, stream, batcher
<1>6. CASE Signal \/ Stop \/ UNCHANGED vars
  BY <1>1, <1>6 DEF Typed, TypeOK, PartsLeft, Signal, Stop, vars, control, stream, batcher
<1>7. ASSUME NEW r \in Run, Return(r) PROVE Typed'
  BY <1>1, <1>7 DEF Typed, TypeOK, PartsLeft, Return, Goto, control, stream, batcher
<1> QED
  BY <1>2, <1>3, <1>4, <1>5, <1>6, <1>7 DEF Next, Answer

-----------------------------------------------------------------------------
(* Where a handler is says what its batcher holds, what was announced, and *)
(* that it has not answered yet.                                           *)
Stage(r) ==
    /\ pc[r] \in {"idle", "start", "announce"} =>
          /\ dropped[r] = 0 /\ ~noticed[r] /\ ~batchErr[r]
          /\ count[r] = 0 /\ exitEvent[r] = 0
    /\ pc[r] \in {"idle", "start"} => posts[r] = << >>
    /\ pc[r] \notin {"stream", "close"} => channel[r] = << >> /\ buffer[r] = << >>
    /\ noticed[r] => pc[r] # "stream" /\ channel[r] = << >> /\ buffer[r] = << >>
    /\ pc[r] = "final" => (dropped[r] > 0 => noticed[r])
    /\ reply[r] # 0 => pc[r] \in {"return", "done"}

(* What may be in the channel already, by the place of the handler *)
Sent(r) ==
    CASE pc[r] \in {"idle", "start"} -> {}
      [] pc[r] = "announce" -> {"start"}
      [] pc[r] = "stream" -> {"start", "output"}
      [] pc[r] = "close" -> {"start", "output"} \cup IF noticed[r] THEN {"notice"} ELSE {}
      [] pc[r] = "final" -> {"start", "output", "notice", Verdict(r)}
      [] OTHER -> {"start", "output", "notice"} \cup Finals

Progress(r) ==
    \A i \in DOMAIN posts[r] :
        /\ posts[r][i].kind \in Sent(r)
        /\ pc[r] \notin {"return", "done"} /\ posts[r][i].kind \in {"start"} \cup Finals
              => posts[r][i].ok

(* MessagesInOrder, for one run *)
InSequence(r) ==
    \A i, j \in DOMAIN posts[r] : i < j =>
        /\ Rank(posts[r][i].kind) <= Rank(posts[r][j].kind)
        /\ Rank(posts[r][i].kind) = Rank(posts[r][j].kind) =>
              /\ posts[r][i].kind = posts[r][j].kind
              /\ posts[r][i].kind # "notice"
              /\ posts[r][i].kind # "output" => posts[r][i].ok

(* The text of the posts comes before the buffer's, that before the        *)
(* channel's, and all of it is of events that have arrived.                *)
Numbered(r) ==
    /\ \A i \in DOMAIN posts[r] : \A m \in DOMAIN posts[r][i].text :
          /\ posts[r][i].text[m] \in 1..count[r]
          /\ \A n \in DOMAIN buffer[r] : posts[r][i].text[m] < buffer[r][n]
          /\ \A n \in DOMAIN channel[r] : posts[r][i].text[m] < channel[r][n]
    /\ \A m \in DOMAIN buffer[r] :
          /\ buffer[r][m] \in 1..count[r]
          /\ \A n \in DOMAIN channel[r] : buffer[r][m] < channel[r][n]
    /\ \A m \in DOMAIN channel[r] :
          /\ channel[r][m] \in 1..count[r]
          /\ \A n \in DOMAIN channel[r] : m < n => channel[r][m] < channel[r][n]

(* OutputInOrder, for one run *)
TextInOrder(r) ==
    \A i, j \in DOMAIN posts[r] : i < j =>
        \A m \in DOMAIN posts[r][i].text : \A n \in DOMAIN posts[r][j].text :
            posts[r][i].text[m] < posts[r][j].text[n]

(* A handler on its way out has tried to end the run it announced. *)
Ended(r) ==
    pc[r] \in {"return", "done"} /\ posts[r] # << >> =>
        LET last == posts[r][Len(posts[r])]
        IN  last.kind \in Finals \/ (last.kind = "start" /\ ~last.ok)

(* Every output that was read is in a post, in the batcher, or dropped.    *)
Texts(r) == UNION {{posts[r][i].text[n] : n \in DOMAIN posts[r][i].text} : i \in DOMAIN posts[r]}
Items(s) == {s[n] : n \in DOMAIN s}
Kept(r) == Texts(r) \cup Items(buffer[r]) \cup Items(channel[r])

Counted(r) == \E exits \in 0..count[r] :
    /\ count[r] = Cardinality(Kept(r)) + dropped[r] + exits
    /\ exitEvent[r] > 0 => exits > 0

(* A failed post is remembered, and the notice is a message. *)
NoFailure(r) ==
    /\ pc[r] \notin {"return", "done"} /\ ~batchErr[r] => \A i \in DOMAIN posts[r] : posts[r][i].ok
    /\ noticed[r] => \E i \in DOMAIN posts[r] : posts[r][i].kind = "notice"

(* What 200 means, without the count *)
Complete(r) ==
    reply[r] = 200 =>
        /\ \A i \in DOMAIN posts[r] : posts[r][i].ok
        /\ exitEvent[r] > 0 /\ ~streamErr[r]
        /\ LET last == posts[r][Len(posts[r])]
           IN  last.kind = "exit" /\ last.dropped = dropped[r] /\ ~last.failed
        /\ dropped[r] > 0 => noticed[r]

RunInv(r) == /\ Stage(r) /\ Progress(r) /\ InSequence(r) /\ Numbered(r) /\ TextInOrder(r)
             /\ Ended(r) /\ Counted(r) /\ NoFailure(r) /\ Complete(r)

(* Nothing of the run changes but, perhaps, its parts. *)
Same(q) ==
    /\ pc'[q] = pc[q] /\ reply'[q] = reply[q]
    /\ count'[q] = count[q] /\ exitEvent'[q] = exitEvent[q] /\ streamErr'[q] = streamErr[q]
    /\ channel'[q] = channel[q] /\ buffer'[q] = buffer[q]
    /\ dropped'[q] = dropped[q] /\ noticed'[q] = noticed[q]
    /\ batchErr'[q] = batchErr[q] /\ posts'[q] = posts[q]

(* What happens to the text that was read: nothing, or an output event has *)
(* joined it or was dropped.                                               *)
SameText(r) == Kept(r)' = Kept(r) /\ dropped'[r] = dropped[r]
OneMore(r) ==
    /\ Kept(r)' \subseteq Kept(r) \cup {count[r] + 1}
    /\ Cardinality(Kept(r)') + dropped'[r] = (Cardinality(Kept(r)) + dropped[r]) + 1

(* A run nothing happens to keeps its invariant. *)
LEMMA Untouched ==
    ASSUME NEW q \in Run, RunInv(q), Same(q)
    PROVE  RunInv(q)' /\ SameText(q)
<1>1. Stage(q)' /\ Ended(q)' /\ NoFailure(q)' /\ Complete(q)'
  BY DEF RunInv, Same, Stage, Ended, NoFailure, Complete
<1>2. Sent(q)' = Sent(q)
  BY DEF Same, Sent, Verdict
<1>3. Progress(q)' /\ InSequence(q)' /\ Numbered(q)' /\ TextInOrder(q)'
  BY <1>2 DEF RunInv, Same, Progress, InSequence, Numbered, TextInOrder
<1>4. Kept(q)' = Kept(q)
  BY DEF Same, Kept, Texts, Items
<1>5. Counted(q)'
  BY <1>4 DEF RunInv, Same, Counted
<1> QED
  BY <1>1, <1>3, <1>4, <1>5 DEF RunInv, Same, SameText

(* An action of one run touches no other. *)
LEMMA OneRun ==
    ASSUME Typed, NEW r \in Run, NEW q \in Run, q # r, Client(r) \/ Batch(r) \/ Answer(r)
    PROVE  Same(q)
<1>1. CASE Unauthorized(r) \/ TooManyRuns(r) \/ Acquire(r) \/ BadStart(r) \/ GoodStart(r)
  BY SMTT(30), <1>1 DEF Unauthorized, TooManyRuns, Acquire, BadStart, GoodStart, Reply, Goto, Same,
              Typed, TypeOK, stream, batcher
<1>2. CASE Output(r) \/ Exit(r)
  BY SMTT(30), <1>2 DEF Output, Exit, NextEvent, Same, Typed, TypeOK, batcher
<1>3. CASE EndOfStream(r) \/ StreamFails(r)
  BY <1>3 DEF EndOfStream, StreamFails, Goto, Same, Typed, TypeOK, stream, batcher
<1>4. CASE BatcherTake(r) \/ CloseReturns(r) \/ Return(r)
  BY SMTT(30), <1>4 DEF BatcherTake, CloseReturns, Return, Goto, Same, Typed, TypeOK, stream, batcher
<1>5. ASSUME NEW ok \in BOOLEAN, BatcherPost(r, ok) \/ BatcherNotice(r, ok) PROVE Same(q)
  <2>1. posts'[q] = posts[q]
    BY SMTT(30), <1>5 DEF BatcherPost, BatcherNotice, Post, Typed, TypeOK
  <2> QED
    BY <1>5, <2>1 DEF BatcherPost, BatcherNotice, Same, Typed, TypeOK, stream, batcher
<1>6. ASSUME NEW ok \in BOOLEAN, PostStart(r, ok) PROVE Same(q)
  <2>1. posts'[q] = posts[q]
    BY <1>6 DEF PostStart, Post, Typed, TypeOK
  <2> QED
    BY <1>6, <2>1 DEF PostStart, Reply, Goto, Same, Typed, TypeOK, stream, batcher
<1>7. ASSUME NEW ok \in BOOLEAN, PostFinal(r, ok) PROVE Same(q)
  <2>1. posts'[q] = posts[q]
    BY <1>7 DEF PostFinal, Post, Typed, TypeOK
  <2>2. pc'[q] = pc[q] /\ reply'[q] = reply[q]
    BY <1>7 DEF PostFinal, Reply, Goto, Typed, TypeOK
  <2> QED
    BY <1>7, <2>1, <2>2 DEF PostFinal, Same, Typed, TypeOK, stream, batcher
<1> QED
  BY <1>1, <1>2, <1>3, <1>4, <1>5, <1>6, <1>7 DEF Client, Batch, Answer

(* The messages and the text of a run that only moves stay as they are.    *)
LEMMA Moving ==
    ASSUME NEW r \in Run, RunInv(r),
           posts'[r] = posts[r], buffer'[r] = buffer[r], channel'[r] = channel[r],
           count'[r] = count[r], dropped'[r] = dropped[r], exitEvent'[r] = exitEvent[r]
    PROVE  InSequence(r)' /\ Numbered(r)' /\ TextInOrder(r)' /\ Counted(r)' /\ SameText(r)
<1>1. InSequence(r)' /\ Numbered(r)' /\ TextInOrder(r)'
  BY DEF RunInv, InSequence, Numbered, TextInOrder
<1>2. Kept(r)' = Kept(r)
  BY DEF Kept, Texts, Items
<1>3. Counted(r)'
  BY <1>2 DEF RunInv, Counted
<1> QED
  BY <1>1, <1>2, <1>3 DEF SameText

(* Admission and the start event *)
LEMMA AdmissionKeeps ==
    ASSUME Typed, NEW r \in Run, RunInv(r),
           \/ Unauthorized(r) \/ TooManyRuns(r) \/ Acquire(r) \/ BadStart(r) \/ GoodStart(r)
    PROVE  RunInv(r)' /\ SameText(r)
<1>1. /\ posts'[r] = posts[r] /\ buffer'[r] = buffer[r] /\ channel'[r] = channel[r]
      /\ count'[r] = count[r] /\ dropped'[r] = dropped[r] /\ exitEvent'[r] = exitEvent[r]
      /\ streamErr'[r] = streamErr[r] /\ noticed'[r] = noticed[r] /\ batchErr'[r] = batchErr[r]
  BY DEF Unauthorized, TooManyRuns, Acquire, BadStart, GoodStart, stream, batcher
<1>2. /\ pc[r] \in {"idle", "start"} /\ pc'[r] \in {"start", "announce", "return", "done"}
      /\ pc'[r] \in {"start", "announce"} => reply'[r] = reply[r]
      /\ reply'[r] # reply[r] => reply'[r] \in {400, 401, 403, 429}
  BY DEF Unauthorized, TooManyRuns, Acquire, BadStart, GoodStart, Reply, Goto, At, Typed, TypeOK
<1>3. posts[r] = << >> /\ reply[r] = 0
  BY <1>2 DEF RunInv, Stage, Typed, TypeOK
<1>4. Stage(r)'
  BY <1>1, <1>2, <1>3 DEF RunInv, Stage
<1>5. Progress(r)' /\ Ended(r)' /\ NoFailure(r)' /\ Complete(r)'
  <2>1. DOMAIN posts'[r] = {}
    BY <1>1, <1>3
  <2>2. reply'[r] # 200
    BY <1>2, <1>3
  <2>3. noticed'[r] = noticed[r] /\ ~noticed[r]
    BY <1>1, <1>2 DEF RunInv, Stage
  <2> QED
    BY <1>1, <1>3, <2>1, <2>2, <2>3 DEF Progress, Ended, NoFailure, Complete
<1> QED
  BY <1>1, <1>4, <1>5, Moving DEF RunInv

(* The end of the stream, of the batcher, and of the handler *)
LEMMA LeavingKeeps ==
    ASSUME Typed, NEW r \in Run, RunInv(r),
           EndOfStream(r) \/ StreamFails(r) \/ CloseReturns(r) \/ Return(r)
    PROVE  RunInv(r)' /\ SameText(r)
<1>1. /\ posts'[r] = posts[r] /\ buffer'[r] = buffer[r] /\ channel'[r] = channel[r]
      /\ count'[r] = count[r] /\ dropped'[r] = dropped[r] /\ exitEvent'[r] = exitEvent[r]
      /\ noticed'[r] = noticed[r] /\ batchErr'[r] = batchErr[r] /\ reply'[r] = reply[r]
      /\ pc[r] # "stream" => streamErr'[r] = streamErr[r]
  BY DEF EndOfStream, StreamFails, CloseReturns, Return, Drained, At, stream, batcher
<1>2. \/ pc[r] = "stream" /\ pc'[r] = "close"
      \/ /\ pc[r] = "close" /\ pc'[r] = "final" /\ channel[r] = << >> /\ buffer[r] = << >>
         /\ dropped[r] > 0 => noticed[r]
      \/ pc[r] = "return" /\ pc'[r] = "done"
  BY DEF EndOfStream, StreamFails, CloseReturns, Return, Drained, At, Goto, Typed, TypeOK
<1>3. Stage(r)'
  BY <1>1, <1>2 DEF RunInv, Stage
<1>4. Progress(r)'
  <2>1. Sent(r) \subseteq Sent(r)'
    BY <1>1, <1>2 DEF Sent, Verdict
  <2> QED
    BY <1>1, <1>2, <2>1 DEF RunInv, Progress
<1>5. Ended(r)' /\ NoFailure(r)' /\ Complete(r)'
  <2>1. reply'[r] = 200 => streamErr'[r] = streamErr[r]
    BY <1>1, <1>2 DEF RunInv, Stage
  <2> QED
    BY <1>1, <1>2, <2>1 DEF RunInv, Ended, NoFailure, Complete
<1> QED
  BY <1>1, <1>3, <1>4, <1>5, Moving DEF RunInv

(* What is kept are numbers of events that have arrived. *)
LEMMA KeptArrived ==
    ASSUME Typed, NEW r \in Run, RunInv(r)
    PROVE  /\ Kept(r) \subseteq 1..count[r] /\ IsFiniteSet(Kept(r))
           /\ count[r] \in Nat /\ Cardinality(Kept(r)) \in Nat
<1>1. count[r] \in Nat
  BY DEF Typed, TypeOK
<1>2. Kept(r) \subseteq 1..count[r]
  BY DEF RunInv, Numbered, Kept, Texts, Items
<1>3. IsFiniteSet(1..count[r])
  BY <1>1, FS_Interval
<1> QED
  BY <1>1, <1>2, <1>3, FS_Subset, FS_CardinalityType

(* An output event is kept if there is room, and dropped if not. *)
LEMMA OutputKeeps ==
    ASSUME Typed, NEW r \in Run, RunInv(r), Output(r)
    PROVE  RunInv(r)' /\ OneMore(r)
<1>1. /\ pc[r] = "stream" /\ pc'[r] = "stream" /\ reply'[r] = reply[r]
      /\ posts'[r] = posts[r] /\ buffer'[r] = buffer[r]
      /\ exitEvent'[r] = exitEvent[r] /\ streamErr'[r] = streamErr[r]
      /\ noticed'[r] = noticed[r] /\ batchErr'[r] = batchErr[r]
  BY DEF Output, NextEvent, At
<1>2. /\ count[r] \in Nat /\ count'[r] = count[r] + 1 /\ dropped[r] \in Nat
      /\ channel[r] \in Seq(Nat) /\ Len(channel[r]) \in Nat /\ DOMAIN channel[r] = 1..Len(channel[r])
  BY LenProperties DEF Output, NextEvent, Typed, TypeOK
<1>3. \/ channel'[r] = Append(channel[r], count'[r]) /\ dropped'[r] = dropped[r]
      \/ channel'[r] = channel[r] /\ dropped'[r] = dropped[r] + 1
  BY DEF Output, Typed, TypeOK
<1>4. ~noticed[r] /\ reply[r] # 200
  BY <1>1 DEF RunInv, Stage
<1>5. Stage(r)'
  BY <1>1, <1>4 DEF RunInv, Stage
<1>6. Progress(r)' /\ InSequence(r)' /\ TextInOrder(r)'
  <2>1. Sent(r)' = Sent(r)
    BY <1>1 DEF Sent
  <2> QED
    BY <1>1, <2>1 DEF RunInv, Progress, InSequence, TextInOrder
<1>7. Ended(r)' /\ NoFailure(r)' /\ Complete(r)'
  BY <1>1, <1>4 DEF RunInv, Ended, NoFailure, Complete
<1>8. CASE channel'[r] = Append(channel[r], count'[r]) /\ dropped'[r] = dropped[r]
  <2>0. \A n \in 1..(Len(channel[r]) + 1) : n \in 1..Len(channel[r]) \/ n = Len(channel[r]) + 1
    BY <1>2
  <2>1. /\ DOMAIN channel'[r] = 1..(Len(channel[r]) + 1)
        /\ \A i \in 1..Len(channel[r]) : channel'[r][i] = channel[r][i]
        /\ channel'[r][Len(channel[r]) + 1] = count[r] + 1
    <3>1. count'[r] \in Nat
      BY <1>2
    <3>2. /\ Append(channel[r], count'[r]) \in Seq(Nat)
          /\ Len(Append(channel[r], count'[r])) = Len(channel[r]) + 1
          /\ \A i \in 1..Len(channel[r]) : Append(channel[r], count'[r])[i] = channel[r][i]
          /\ Append(channel[r], count'[r])[Len(channel[r]) + 1] = count'[r]
      BY <1>2, <3>1, AppendProperties
    <3> QED
      BY <1>2, <1>8, <3>2, LenProperties
  <2>2. Numbered(r)'
    <3>1. \A i \in DOMAIN posts[r] : \A m \in DOMAIN posts[r][i].text :
              /\ posts[r][i].text[m] \in 1..count'[r]
              /\ \A n \in DOMAIN buffer[r] : posts[r][i].text[m] < buffer[r][n]
              /\ \A n \in DOMAIN channel'[r] : posts[r][i].text[m] < channel'[r][n]
      <4> SUFFICES ASSUME NEW i \in DOMAIN posts[r], NEW m \in DOMAIN posts[r][i].text
                   PROVE  /\ posts[r][i].text[m] \in 1..count'[r]
                          /\ \A n \in DOMAIN buffer[r] : posts[r][i].text[m] < buffer[r][n]
                          /\ \A n \in DOMAIN channel'[r] : posts[r][i].text[m] < channel'[r][n]
        OBVIOUS
      <4>1. /\ posts[r][i].text[m] \in 1..count[r]
            /\ \A n \in DOMAIN buffer[r] : posts[r][i].text[m] < buffer[r][n]
            /\ \A n \in 1..Len(channel[r]) : posts[r][i].text[m] < channel[r][n]
        BY <1>2 DEF RunInv, Numbered
      <4>2. ASSUME NEW n \in 1..(Len(channel[r]) + 1)
            PROVE  posts[r][i].text[m] < channel'[r][n]
        <5>1. CASE n = Len(channel[r]) + 1
          BY <1>2, <2>1, <4>1, <5>1
        <5>2. CASE n \in 1..Len(channel[r])
          BY <2>1, <4>1, <5>2
        <5> QED
          BY <2>0, <5>1, <5>2
      <4> QED
        BY <1>2, <2>1, <4>1, <4>2
    <3>2. \A m \in DOMAIN buffer[r] :
              /\ buffer[r][m] \in 1..count'[r]
              /\ \A n \in DOMAIN channel'[r] : buffer[r][m] < channel'[r][n]
      <4> SUFFICES ASSUME NEW m \in DOMAIN buffer[r]
                   PROVE  /\ buffer[r][m] \in 1..count'[r]
                          /\ \A n \in DOMAIN channel'[r] : buffer[r][m] < channel'[r][n]
        OBVIOUS
      <4>1. /\ buffer[r][m] \in 1..count[r]
            /\ \A n \in 1..Len(channel[r]) : buffer[r][m] < channel[r][n]
        BY <1>2 DEF RunInv, Numbered
      <4>2. ASSUME NEW n \in 1..(Len(channel[r]) + 1)
            PROVE  buffer[r][m] < channel'[r][n]
        <5>1. CASE n = Len(channel[r]) + 1
          BY <1>2, <2>1, <4>1, <5>1
        <5>2. CASE n \in 1..Len(channel[r])
          BY <2>1, <4>1, <5>2
        <5> QED
          BY <2>0, <5>1, <5>2
      <4> QED
        BY <1>2, <2>1, <4>1, <4>2
    <3>3. \A m \in DOMAIN channel'[r] :
              /\ channel'[r][m] \in 1..count'[r]
              /\ \A n \in DOMAIN channel'[r] : m < n => channel'[r][m] < channel'[r][n]
      <4>1. \A m \in 1..Len(channel[r]) :
                /\ channel[r][m] \in 1..count[r]
                /\ \A n \in 1..Len(channel[r]) : m < n => channel[r][m] < channel[r][n]
        BY <1>2 DEF RunInv, Numbered
      <4>2. ASSUME NEW m \in 1..(Len(channel[r]) + 1) PROVE channel'[r][m] \in 1..count'[r]
        <5>1. CASE m = Len(channel[r]) + 1
          BY <1>2, <2>1, <5>1
        <5>2. CASE m \in 1..Len(channel[r])
          BY SMTT(30), <1>2, <2>1, <4>1, <5>2
        <5> QED
          BY <2>0, <5>1, <5>2
      <4>3. ASSUME NEW m \in 1..(Len(channel[r]) + 1), NEW n \in 1..(Len(channel[r]) + 1), m < n
            PROVE  channel'[r][m] < channel'[r][n]
        <5>1. /\ m \in 1..Len(channel[r]) /\ channel'[r][m] = channel[r][m]
              /\ channel[r][m] \in 1..count[r]
          BY <1>2, <2>1, <4>1, <4>3
        <5>2. CASE n = Len(channel[r]) + 1
          BY <1>2, <2>1, <5>1, <5>2
        <5>3. CASE n \in 1..Len(channel[r])
          BY <2>1, <4>1, <4>3, <5>1, <5>3
        <5> QED
          BY <2>0, <5>2, <5>3
      <4> QED
        BY <2>1, <4>2, <4>3
    <3> QED
      BY <1>1, <3>1, <3>2, <3>3 DEF Numbered
  <2>3. Kept(r)' = Kept(r) \cup {count[r] + 1}
    <3>1. Items(channel[r])' = Items(channel[r]) \cup {count[r] + 1}
      <4>1. \A n \in DOMAIN channel[r] : n \in DOMAIN channel'[r] /\ channel'[r][n] = channel[r][n]
        BY <1>2, <2>1
      <4>2. \A n \in DOMAIN channel'[r] : n \in DOMAIN channel[r] \/ n = Len(channel[r]) + 1
        BY <1>2, <2>1
      <4>3. Len(channel[r]) + 1 \in DOMAIN channel'[r]
        BY <1>2, <2>1
      <4> QED
        BY <2>1, <4>1, <4>2, <4>3 DEF Items
    <3>2. Texts(r)' = Texts(r) /\ Items(buffer[r])' = Items(buffer[r])
      BY <1>1 DEF Texts, Items
    <3> QED
      BY <3>1, <3>2 DEF Kept
  <2>4. Cardinality(Kept(r)') = Cardinality(Kept(r)) + 1 /\ Cardinality(Kept(r)) \in Nat
    <3>1. count[r] + 1 \notin Kept(r)
      BY <1>2, KeptArrived
    <3> QED
      BY <2>3, <3>1, KeptArrived, FS_AddElement
  <2>5. Counted(r)'
    <3>3. PICK exits \in 0..count[r] : /\ count[r] = Cardinality(Kept(r)) + dropped[r] + exits
                                       /\ exitEvent[r] > 0 => exits > 0
      BY DEF RunInv, Counted
    <3>4. exits \in 0..count'[r] /\ count'[r] = Cardinality(Kept(r)') + dropped'[r] + exits
      <4>1. /\ Cardinality(Kept(r)) \in Nat /\ count[r] \in Nat /\ dropped[r] \in Nat
            /\ count'[r] = count[r] + 1 /\ dropped'[r] = dropped[r]
        BY <1>2, <1>8, KeptArrived
      <4>2. exits \in 0..count'[r] /\ exits \in Nat
        BY <4>1
      <4> QED
        BY <2>4, <3>3, <4>1, <4>2
    <3> QED
      BY <1>1, <3>3, <3>4 DEF Counted
  <2>6. OneMore(r)
    <3>1. Kept(r)' \subseteq Kept(r) \cup {count[r] + 1}
      BY <2>3
    <3>2. ASSUME NEW k \in Nat, NEW d \in Nat PROVE (k + 1) + d = (k + d) + 1
      OBVIOUS
    <3>3. Cardinality(Kept(r)) \in Nat /\ dropped[r] \in Nat
      BY <1>2, <2>4
    <3>4. Cardinality(Kept(r)') + dropped'[r] = (Cardinality(Kept(r)) + 1) + dropped[r]
      BY <1>8, <2>4
    <3> QED
      BY <3>1, <3>2, <3>3, <3>4 DEF OneMore
  <2> QED
    BY <1>5, <1>6, <1>7, <2>2, <2>5, <2>6 DEF RunInv
<1>9. CASE channel'[r] = channel[r] /\ dropped'[r] = dropped[r] + 1
  <2>1. 1..count[r] \subseteq 1..count'[r]
    BY <1>2
  <2>2. Numbered(r)'
    BY <1>1, <1>9, <2>1 DEF RunInv, Numbered
  <2>3. Kept(r)' = Kept(r)
    BY <1>1, <1>9 DEF Kept, Texts, Items
  <2>4. Counted(r)'
    <3>1. PICK exits \in 0..count[r] : /\ count[r] = Cardinality(Kept(r)) + dropped[r] + exits
                                       /\ exitEvent[r] > 0 => exits > 0
      BY DEF RunInv, Counted
    <3>2. exits \in 0..count'[r] /\ count'[r] = Cardinality(Kept(r)) + dropped'[r] + exits
      BY <1>2, <1>9, <3>1, KeptArrived
    <3> QED
      BY <1>1, <2>3, <3>1, <3>2 DEF Counted
  <2>5. OneMore(r)
    BY <1>2, <1>9, <2>3, KeptArrived DEF OneMore
  <2> QED
    BY <1>5, <1>6, <1>7, <2>2, <2>4, <2>5 DEF RunInv
<1> QED
  BY <1>3, <1>8, <1>9

(* The loop goes on after an exit event. *)
LEMMA ExitKeeps ==
    ASSUME Typed, NEW r \in Run, RunInv(r), Exit(r)
    PROVE  RunInv(r)' /\ SameText(r)
<1>1. /\ pc[r] = "stream" /\ pc'[r] = "stream" /\ reply'[r] = reply[r]
      /\ posts'[r] = posts[r] /\ buffer'[r] = buffer[r] /\ channel'[r] = channel[r]
      /\ dropped'[r] = dropped[r] /\ streamErr'[r] = streamErr[r]
      /\ noticed'[r] = noticed[r] /\ batchErr'[r] = batchErr[r]
  BY DEF Exit, NextEvent, At, batcher
<1>2. count[r] \in Nat /\ count'[r] = count[r] + 1 /\ dropped[r] \in Nat
  BY DEF Exit, NextEvent, Typed, TypeOK
<1>3. reply[r] # 200
  BY <1>1 DEF RunInv, Stage
<1>4. Stage(r)' /\ Ended(r)' /\ NoFailure(r)' /\ Complete(r)'
  BY <1>1, <1>3 DEF RunInv, Stage, Ended, NoFailure, Complete
<1>5. Progress(r)' /\ InSequence(r)' /\ TextInOrder(r)'
  <2>1. Sent(r)' = Sent(r)
    BY <1>1 DEF Sent
  <2> QED
    BY <1>1, <2>1 DEF RunInv, Progress, InSequence, TextInOrder
<1>6. Numbered(r)'
  <2>1. 1..count[r] \subseteq 1..count'[r]
    BY <1>2
  <2> QED
    BY <1>1, <2>1 DEF RunInv, Numbered
<1>7. Kept(r)' = Kept(r)
  BY <1>1 DEF Kept, Texts, Items
<1>8. Counted(r)'
  <2>1. PICK exits \in 0..count[r] : count[r] = Cardinality(Kept(r)) + dropped[r] + exits
    BY DEF RunInv, Counted
  <2>2. /\ exits + 1 \in 0..count'[r] /\ exits + 1 > 0
        /\ count'[r] = Cardinality(Kept(r)) + dropped'[r] + (exits + 1)
    BY <1>1, <1>2, <2>1, KeptArrived
  <2> QED
    BY <1>7, <2>2 DEF Counted
<1> QED
  BY <1>1, <1>4, <1>5, <1>6, <1>7, <1>8 DEF RunInv, SameText

(* The batcher's goroutine takes the oldest event of the channel. *)
LEMMA TakeKeeps ==
    ASSUME Typed, NEW r \in Run, RunInv(r), BatcherTake(r)
    PROVE  RunInv(r)' /\ SameText(r)
<1>1. /\ pc[r] \in {"stream", "close"} /\ pc'[r] = pc[r] /\ reply'[r] = reply[r]
      /\ posts'[r] = posts[r] /\ count'[r] = count[r] /\ exitEvent'[r] = exitEvent[r]
      /\ dropped'[r] = dropped[r] /\ streamErr'[r] = streamErr[r]
      /\ noticed'[r] = noticed[r] /\ batchErr'[r] = batchErr[r]
  BY DEF BatcherTake, BatcherRuns, stream
<1>2. /\ channel[r] \in Seq(Nat) /\ channel[r] # << >> /\ buffer[r] \in Seq(Nat)
      /\ channel'[r] = Tail(channel[r]) /\ buffer'[r] = Append(buffer[r], Head(channel[r]))
  BY DEF BatcherTake, Typed, TypeOK
<1>3. /\ Len(channel[r]) \in Nat \ {0} /\ DOMAIN channel[r] = 1..Len(channel[r])
      /\ Head(channel[r]) = channel[r][1] /\ Head(channel[r]) \in Nat
      /\ DOMAIN channel'[r] = 1..(Len(channel[r]) - 1)
      /\ \A i \in 1..(Len(channel[r]) - 1) : channel'[r][i] = channel[r][i + 1]
  <2>1. Len(channel[r]) \in Nat \ {0} /\ DOMAIN channel[r] = 1..Len(channel[r])
    BY <1>2, LenProperties, EmptySeq
  <2>2. /\ Head(channel[r]) \in Nat /\ Tail(channel[r]) \in Seq(Nat)
        /\ Len(Tail(channel[r])) = Len(channel[r]) - 1
        /\ Head(channel[r]) = channel[r][1]
        /\ \A i \in 1..(Len(channel[r]) - 1) : Tail(channel[r])[i] = channel[r][i + 1]
    BY <1>2, <2>1, HeadTailProperties
  <2> QED
    BY <1>2, <2>1, <2>2, LenProperties
<1>4. /\ Len(buffer[r]) \in Nat /\ DOMAIN buffer[r] = 1..Len(buffer[r])
      /\ DOMAIN buffer'[r] = 1..(Len(buffer[r]) + 1)
      /\ \A i \in 1..Len(buffer[r]) : buffer'[r][i] = buffer[r][i]
      /\ buffer'[r][Len(buffer[r]) + 1] = channel[r][1]
  BY <1>2, <1>3, AppendProperties, LenProperties
<1>5. Stage(r)'
  BY <1>1, <1>2 DEF RunInv, Stage
<1>6. Progress(r)' /\ InSequence(r)' /\ TextInOrder(r)'
  <2>1. Sent(r)' = Sent(r)
    BY <1>1 DEF Sent
  <2> QED
    BY <1>1, <2>1 DEF RunInv, Progress, InSequence, TextInOrder
<1>7. Ended(r)' /\ NoFailure(r)' /\ Complete(r)'
  BY <1>1 DEF RunInv, Ended, NoFailure, Complete
<1>8. Numbered(r)'
  <2>1. \A i \in DOMAIN posts[r] : \A m \in DOMAIN posts[r][i].text :
            /\ posts[r][i].text[m] \in 1..count[r]
            /\ \A n \in DOMAIN buffer'[r] : posts[r][i].text[m] < buffer'[r][n]
            /\ \A n \in DOMAIN channel'[r] : posts[r][i].text[m] < channel'[r][n]
    <3> SUFFICES ASSUME NEW i \in DOMAIN posts[r], NEW m \in DOMAIN posts[r][i].text
                 PROVE  /\ posts[r][i].text[m] \in 1..count[r]
                        /\ \A n \in DOMAIN buffer'[r] : posts[r][i].text[m] < buffer'[r][n]
                        /\ \A n \in DOMAIN channel'[r] : posts[r][i].text[m] < channel'[r][n]
      OBVIOUS
    <3>1. /\ posts[r][i].text[m] \in 1..count[r]
          /\ \A n \in 1..Len(buffer[r]) : posts[r][i].text[m] < buffer[r][n]
          /\ \A n \in 1..Len(channel[r]) : posts[r][i].text[m] < channel[r][n]
      BY <1>3, <1>4 DEF RunInv, Numbered
    <3>2. ASSUME NEW n \in 1..(Len(buffer[r]) + 1) PROVE posts[r][i].text[m] < buffer'[r][n]
      <4>1. 1 \in 1..Len(channel[r])
        BY <1>3
      <4> QED
        BY <1>4, <3>1, <4>1
    <3>3. ASSUME NEW n \in 1..(Len(channel[r]) - 1) PROVE posts[r][i].text[m] < channel'[r][n]
      <4>1. n + 1 \in 1..Len(channel[r]) /\ channel'[r][n] = channel[r][n + 1]
        BY <1>3
      <4> QED
        BY <3>1, <4>1
    <3> QED
      BY <1>3, <1>4, <3>1, <3>2, <3>3
  <2>2. \A m \in DOMAIN buffer'[r] :
            /\ buffer'[r][m] \in 1..count[r]
            /\ \A n \in DOMAIN channel'[r] : buffer'[r][m] < channel'[r][n]
    <3> SUFFICES ASSUME NEW m \in 1..(Len(buffer[r]) + 1)
                 PROVE  /\ buffer'[r][m] \in 1..count[r]
                        /\ \A n \in 1..(Len(channel[r]) - 1) : buffer'[r][m] < channel'[r][n]
      BY <1>3, <1>4
    <3>1. \A n \in 1..(Len(channel[r]) - 1) :
              n + 1 \in 1..Len(channel[r]) /\ channel'[r][n] = channel[r][n + 1]
      BY <1>3
    <3>2. CASE m \in 1..Len(buffer[r])
      <4>1. /\ buffer[r][m] \in 1..count[r]
            /\ \A n \in 1..Len(channel[r]) : buffer[r][m] < channel[r][n]
        BY <1>3, <1>4, <3>2 DEF RunInv, Numbered
      <4> QED
        BY <1>4, <3>1, <3>2, <4>1
    <3>3. CASE m = Len(buffer[r]) + 1
      <4>1. 1 \in 1..Len(channel[r])
        BY <1>3
      <4>2. /\ channel[r][1] \in 1..count[r]
            /\ \A n \in 1..Len(channel[r]) : 1 < n => channel[r][1] < channel[r][n]
        BY <1>3, <4>1 DEF RunInv, Numbered
      <4>3. \A n \in 1..(Len(channel[r]) - 1) : 1 < n + 1
        BY <1>3
      <4> QED
        BY <1>4, <3>1, <3>3, <4>2, <4>3
    <3> QED
      BY <1>4, <3>2, <3>3
  <2>3. \A m \in DOMAIN channel'[r] :
            /\ channel'[r][m] \in 1..count[r]
            /\ \A n \in DOMAIN channel'[r] : m < n => channel'[r][m] < channel'[r][n]
    <3>1. \A m \in 1..Len(channel[r]) :
              /\ channel[r][m] \in 1..count[r]
              /\ \A n \in 1..Len(channel[r]) : m < n => channel[r][m] < channel[r][n]
      BY <1>3 DEF RunInv, Numbered
    <3>2. ASSUME NEW m \in 1..(Len(channel[r]) - 1)
          PROVE  m + 1 \in 1..Len(channel[r]) /\ channel'[r][m] = channel[r][m + 1]
      BY <1>3
    <3>3. ASSUME NEW m \in 1..(Len(channel[r]) - 1), NEW n \in 1..(Len(channel[r]) - 1), m < n
          PROVE  channel'[r][m] < channel'[r][n]
      <4>1. m + 1 < n + 1
        BY <3>3
      <4> QED
        BY <3>1, <3>2, <4>1
    <3> QED
      BY <1>3, <3>1, <3>2, <3>3
  <2> QED
    BY <1>1, <2>1, <2>2, <2>3 DEF Numbered
<1>9. Kept(r)' = Kept(r)
  <2>1. Items(channel[r]) = Items(channel[r])' \cup {channel[r][1]}
    <3>1. \A n \in 1..Len(channel[r]) :
              n = 1 \/ (n - 1 \in 1..(Len(channel[r]) - 1) /\ (n - 1) + 1 = n)
      BY <1>3
    <3>2. \A n \in 1..Len(channel[r]) : n = 1 \/ channel[r][n] = channel'[r][n - 1]
      BY <1>3, <3>1
    <3>3. \A n \in 1..(Len(channel[r]) - 1) : n + 1 \in 1..Len(channel[r])
      BY <1>3
    <3>4. 1 \in 1..Len(channel[r])
      BY <1>3
    <3>5. Items(channel[r]) \subseteq Items(channel[r])' \cup {channel[r][1]}
      <4>1. ASSUME NEW n \in 1..Len(channel[r]), n # 1 PROVE channel[r][n] \in Items(channel[r])'
        <5>1. n - 1 \in DOMAIN channel'[r] /\ channel[r][n] = channel'[r][n - 1]
          BY <1>3, <3>1, <3>2, <4>1
        <5> QED
          BY <5>1 DEF Items
      <4> QED
        BY SMTT(30), <1>3, <4>1 DEF Items
    <3>6. Items(channel[r])' \subseteq Items(channel[r])
      BY SMTT(30), <1>3, <3>3 DEF Items
    <3>7. channel[r][1] \in Items(channel[r])
      BY <1>3, <3>4 DEF Items
    <3> QED
      BY <3>5, <3>6, <3>7
  <2>2. Items(buffer[r])' = Items(buffer[r]) \cup {channel[r][1]}
    BY <1>4 DEF Items
  <2>3. Texts(r)' = Texts(r)
    BY <1>1 DEF Texts
  <2> QED
    BY <2>1, <2>2, <2>3 DEF Kept
<1>10. Counted(r)'
  BY <1>1, <1>9 DEF RunInv, Counted
<1> QED
  BY <1>1, <1>5, <1>6, <1>7, <1>8, <1>9, <1>10 DEF RunInv, SameText

(***************************************************************************)
(* Posts.  Each one follows what was posted before, and its text is none   *)
(* or the buffer's.                                                        *)
(***************************************************************************)

(* A post that follows in rank keeps the sequence. *)
LEMMA PostFollows ==
    ASSUME Typed, NEW r \in Run, RunInv(r),
           NEW kind \in {"start", "output", "notice"} \cup Finals, NEW ok \in BOOLEAN,
           NEW text \in Seq(Nat), text \in {<< >>, buffer[r]},
           Post(r, kind, text, ok),
           \A i \in DOMAIN posts[r] :
              /\ Rank(posts[r][i].kind) <= Rank(kind)
              /\ Rank(posts[r][i].kind) = Rank(kind) =>
                    /\ posts[r][i].kind = kind /\ kind # "notice"
                    /\ kind # "output" => posts[r][i].ok
    PROVE  InSequence(r)' /\ TextInOrder(r)' /\ Texts(r)' = Texts(r) \cup Items(text)
<1> DEFINE n == Len(posts[r])
<1>1. /\ n \in Nat /\ DOMAIN posts[r] = 1..n /\ DOMAIN posts'[r] = 1..(n + 1)
      /\ \A i \in 1..n : posts'[r][i] = posts[r][i]
      /\ posts'[r][n + 1].kind = kind /\ posts'[r][n + 1].text = text
  <2>1. Grows(r, kind, text, ok)
    BY Posted DEF Typed
  <2> QED
    BY <2>1 DEF Grows
<1> HIDE DEF n
<1>2. \A i, j \in 1..(n + 1) : i < j => i \in 1..n /\ (j \in 1..n \/ j = n + 1)
  BY <1>1
<1>3. InSequence(r)'
  <2> SUFFICES ASSUME NEW i \in 1..(n + 1), NEW j \in 1..(n + 1), i < j
               PROVE  /\ Rank(posts'[r][i].kind) <= Rank(posts'[r][j].kind)
                      /\ Rank(posts'[r][i].kind) = Rank(posts'[r][j].kind) =>
                            /\ posts'[r][i].kind = posts'[r][j].kind
                            /\ posts'[r][i].kind # "notice"
                            /\ posts'[r][i].kind # "output" => posts'[r][i].ok
    BY <1>1 DEF InSequence, Rank
  <2>1. i \in 1..n /\ posts'[r][i] = posts[r][i]
    BY <1>1, <1>2
  <2>2. CASE j = n + 1
    BY <1>1, <2>1, <2>2
  <2>3. CASE j \in 1..n
    BY SMTT(30), <1>1, <2>1, <2>3 DEF RunInv, InSequence
  <2> QED
    BY <1>2, <2>2, <2>3
<1>4. TextInOrder(r)'
  <2> SUFFICES ASSUME NEW i \in 1..(n + 1), NEW j \in 1..(n + 1), i < j,
                      NEW m \in DOMAIN posts'[r][i].text, NEW k \in DOMAIN posts'[r][j].text
               PROVE  posts'[r][i].text[m] < posts'[r][j].text[k]
    BY <1>1 DEF TextInOrder
  <2>1. i \in 1..n /\ posts'[r][i] = posts[r][i]
    BY <1>1, <1>2
  <2>2. CASE j = n + 1
    <3>1. k \in DOMAIN buffer[r] /\ text = buffer[r]
      BY <1>1, <2>2
    <3> QED
      BY <1>1, <2>1, <2>2, <3>1 DEF RunInv, Numbered
  <2>3. CASE j \in 1..n
    BY <1>1, <2>1, <2>3 DEF RunInv, TextInOrder
  <2> QED
    BY <1>2, <2>2, <2>3
<1>5. Texts(r)' = Texts(r) \cup Items(text)
  <2>1. Texts(r)' = UNION {Items(posts'[r][i].text) : i \in 1..(n + 1)}
    BY <1>1 DEF Texts, Items
  <2>2. Texts(r) = UNION {Items(posts[r][i].text) : i \in 1..n}
    BY <1>1 DEF Texts, Items
  <2>3. 1..(n + 1) = 1..n \cup {n + 1}
    BY <1>1
  <2>4. \A i \in 1..n : Items(posts'[r][i].text) = Items(posts[r][i].text)
    BY <1>1
  <2>5. Items(posts'[r][n + 1].text) = Items(text)
    BY <1>1
  <2> QED
    BY <2>1, <2>2, <2>3, <2>4, <2>5
<1> QED
  BY <1>3, <1>4, <1>5

(* Posting the buffer moves its text; a message without text moves none.   *)
LEMMA PostCounts ==
    ASSUME Typed, NEW r \in Run, RunInv(r),
           NEW kind \in {"start", "output", "notice"} \cup Finals, NEW ok \in BOOLEAN,
           NEW text \in Seq(Nat), Post(r, kind, text, ok),
           Texts(r)' = Texts(r) \cup Items(text),
           \/ text = << >> /\ buffer'[r] = buffer[r]
           \/ text = buffer[r] /\ buffer'[r] = << >>,
           channel'[r] = channel[r], count'[r] = count[r], dropped'[r] = dropped[r],
           exitEvent'[r] = exitEvent[r]
    PROVE  Numbered(r)' /\ Counted(r)' /\ SameText(r)
<1> DEFINE n == Len(posts[r])
<1>1. /\ n \in Nat /\ DOMAIN posts[r] = 1..n /\ DOMAIN posts'[r] = 1..(n + 1)
      /\ \A i \in 1..n : posts'[r][i] = posts[r][i]
      /\ posts'[r][n + 1].text = text
  <2>1. Grows(r, kind, text, ok)
    BY Posted DEF Typed
  <2> QED
    BY <2>1 DEF Grows
<1> HIDE DEF n
<1>2. \A i \in 1..(n + 1) : i \in 1..n \/ i = n + 1
  BY <1>1
<1>3. \A i \in DOMAIN buffer'[r] : i \in DOMAIN buffer[r] /\ buffer'[r][i] = buffer[r][i]
  OBVIOUS
<1>4. \A i \in 1..(n + 1) : \A m \in DOMAIN posts'[r][i].text :
          /\ posts'[r][i].text[m] \in 1..count[r]
          /\ \A k \in DOMAIN buffer'[r] : posts'[r][i].text[m] < buffer'[r][k]
          /\ \A k \in DOMAIN channel[r] : posts'[r][i].text[m] < channel[r][k]
  <2> SUFFICES ASSUME NEW i \in 1..(n + 1), NEW m \in DOMAIN posts'[r][i].text
               PROVE  /\ posts'[r][i].text[m] \in 1..count[r]
                      /\ \A k \in DOMAIN buffer'[r] : posts'[r][i].text[m] < buffer'[r][k]
                      /\ \A k \in DOMAIN channel[r] : posts'[r][i].text[m] < channel[r][k]
    OBVIOUS
  <2>1. CASE i \in 1..n
    BY <1>1, <1>3, <2>1 DEF RunInv, Numbered
  <2>2. CASE i = n + 1
    <3>1. /\ m \in DOMAIN buffer[r] /\ text = buffer[r] /\ buffer'[r] = << >>
          /\ posts'[r][i].text[m] = buffer[r][m]
      BY <1>1, <2>2
    <3> QED
      BY <3>1 DEF RunInv, Numbered
  <2> QED
    BY <1>2, <2>1, <2>2
<1>5. Numbered(r)'
  BY <1>1, <1>3, <1>4 DEF RunInv, Numbered
<1>6. Kept(r)' = Kept(r)
  <2>1. Items(text) \cup Items(buffer[r])' = Items(buffer[r])
    BY DEF Items
  <2>2. Items(channel[r])' = Items(channel[r])
    BY DEF Items
  <2> QED
    BY <2>1, <2>2 DEF Kept
<1>7. Counted(r)'
  BY <1>6 DEF RunInv, Counted
<1> QED
  BY <1>5, <1>6, <1>7 DEF SameText

(* A part of the start message comes after parts that went through. *)
LEMMA PostStartKeeps ==
    ASSUME Typed, NEW r \in Run, RunInv(r), NEW ok \in BOOLEAN, PostStart(r, ok)
    PROVE  RunInv(r)' /\ SameText(r)
<1> DEFINE n == Len(posts[r])
<1>1. /\ pc[r] = "announce" /\ Post(r, "start", << >>, ok)
      /\ buffer'[r] = buffer[r] /\ channel'[r] = channel[r]
      /\ count'[r] = count[r] /\ dropped'[r] = dropped[r] /\ exitEvent'[r] = exitEvent[r]
      /\ streamErr'[r] = streamErr[r] /\ noticed'[r] = noticed[r] /\ batchErr'[r] = batchErr[r]
  BY DEF PostStart, At, stream, batcher
<1>2. \/ pc'[r] = "return" /\ reply'[r] = 502 /\ ~ok
      \/ pc'[r] \in {"announce", "stream"} /\ reply'[r] = reply[r] /\ ok
  BY <1>1 DEF PostStart, Reply, Goto, Typed, TypeOK
<1>3. /\ << >> \in Seq(Nat) /\ "start" \in {"start", "output", "notice"} \cup Finals
  BY EmptySeq
<1>4. /\ n \in Nat /\ DOMAIN posts[r] = 1..n /\ DOMAIN posts'[r] = 1..(n + 1)
      /\ Len(posts'[r]) = n + 1
      /\ \A i \in 1..n : posts'[r][i] = posts[r][i]
      /\ posts'[r][n + 1].kind = "start" /\ posts'[r][n + 1].ok = ok
  <2>1. Grows(r, "start", << >>, ok)
    BY <1>1, <1>3, Posted DEF Typed
  <2> QED
    BY <2>1 DEF Grows
<1> HIDE DEF n
<1>5. /\ \A i \in 1..n : posts[r][i].kind = "start" /\ posts[r][i].ok
      /\ reply[r] # 200 /\ ~noticed[r] /\ dropped[r] = 0 /\ ~batchErr[r]
      /\ channel[r] = << >> /\ buffer[r] = << >>
  BY <1>1, <1>4 DEF RunInv, Progress, Sent, Stage
<1>6. Stage(r)'
  BY <1>1, <1>2, <1>5 DEF RunInv, Stage
<1>7. \A i \in 1..(n + 1) : i \in 1..n \/ i = n + 1
  BY <1>4
<1>8. \A i \in DOMAIN posts'[r] :
          posts'[r][i].kind = "start" /\ (pc'[r] # "return" => posts'[r][i].ok)
  BY SMTT(30), <1>2, <1>4, <1>5, <1>7
<1>9. Progress(r)'
  BY <1>2, <1>8 DEF Progress, Sent
<1>10. InSequence(r)' /\ TextInOrder(r)' /\ Texts(r)' = Texts(r) \cup Items(<< >>)
  <2>1. \A i \in DOMAIN posts[r] :
            /\ Rank(posts[r][i].kind) <= Rank("start")
            /\ posts[r][i].kind = "start" /\ posts[r][i].ok
    BY <1>4, <1>5 DEF Rank
  <2>2. << >> \in {<< >>, buffer[r]}
    OBVIOUS
  <2> QED
    BY <1>1, <1>3, <2>1, <2>2, PostFollows
<1>11. Numbered(r)' /\ Counted(r)' /\ SameText(r)
  BY <1>1, <1>3, <1>10, PostCounts
<1>12. Ended(r)'
  BY <1>2, <1>4 DEF Ended
<1>13. NoFailure(r)' /\ Complete(r)'
  BY <1>1, <1>2, <1>5, <1>8 DEF NoFailure, Complete
<1> QED
  BY <1>6, <1>9, <1>10, <1>11, <1>12, <1>13 DEF RunInv

(* The batcher posts what it has gathered, before any notice. *)
LEMMA BatcherPostKeeps ==
    ASSUME Typed, NEW r \in Run, RunInv(r), NEW ok \in BOOLEAN, BatcherPost(r, ok)
    PROVE  RunInv(r)' /\ SameText(r)
<1> DEFINE n == Len(posts[r])
<1>1. /\ pc[r] \in {"stream", "close"} /\ pc'[r] = pc[r] /\ reply'[r] = reply[r]
      /\ buffer[r] # << >> /\ Post(r, "output", buffer[r], ok) /\ channel'[r] = channel[r]
      /\ count'[r] = count[r] /\ dropped'[r] = dropped[r] /\ exitEvent'[r] = exitEvent[r]
      /\ streamErr'[r] = streamErr[r] /\ noticed'[r] = noticed[r]
  BY DEF BatcherPost, BatcherRuns, stream
<1>2. buffer'[r] = << >> /\ (~batchErr'[r] => ~batchErr[r] /\ ok)
  <2>1. buffer'[r] = << >>
    BY DEF BatcherPost, Typed, TypeOK
  <2>2. batchErr \in [Run -> BOOLEAN] /\ batchErr' = [batchErr EXCEPT ![r] = batchErr[r] \/ ~ok]
    BY DEF BatcherPost, Typed, TypeOK
  <2> QED
    BY <2>1, <2>2
<1>3. /\ buffer[r] \in Seq(Nat) /\ "output" \in {"start", "output", "notice"} \cup Finals
  BY DEF Typed, TypeOK
<1>4. /\ n \in Nat /\ DOMAIN posts[r] = 1..n /\ DOMAIN posts'[r] = 1..(n + 1)
      /\ \A i \in 1..n : posts'[r][i] = posts[r][i]
      /\ posts'[r][n + 1].kind = "output" /\ posts'[r][n + 1].ok = ok
  <2>1. Grows(r, "output", buffer[r], ok)
    BY <1>1, <1>3, Posted DEF Typed
  <2> QED
    BY <2>1 DEF Grows
<1> HIDE DEF n
<1>5. reply[r] # 200 /\ ~noticed[r]
  BY <1>1 DEF RunInv, Stage
<1>6. /\ \A i \in 1..n : posts[r][i].kind \in {"start", "output"}
      /\ \A i \in 1..n : posts[r][i].kind = "start" => posts[r][i].ok
  BY <1>1, <1>4, <1>5 DEF RunInv, Progress, Sent
<1>7. Stage(r)'
  BY <1>1, <1>2, <1>5 DEF RunInv, Stage
<1>8. \A i \in 1..(n + 1) : i \in 1..n \/ i = n + 1
  BY <1>4
<1>9. Progress(r)'
  <2>1. \A i \in DOMAIN posts'[r] :
            /\ posts'[r][i].kind \in {"start", "output"}
            /\ posts'[r][i].kind = "start" => posts'[r][i].ok
    BY <1>4, <1>6, <1>8
  <2> QED
    BY <1>1, <1>5, <2>1 DEF Progress, Sent, Finals
<1>10. InSequence(r)' /\ TextInOrder(r)' /\ Texts(r)' = Texts(r) \cup Items(buffer[r])
  <2>1. \A i \in DOMAIN posts[r] :
            /\ Rank(posts[r][i].kind) <= Rank("output")
            /\ Rank(posts[r][i].kind) = Rank("output") => posts[r][i].kind = "output"
    BY <1>4, <1>6 DEF Rank
  <2> QED
    BY <1>1, <1>3, <2>1, PostFollows
<1>11. Numbered(r)' /\ Counted(r)' /\ SameText(r)
  BY <1>1, <1>2, <1>3, <1>10, PostCounts
<1>12. Ended(r)' /\ Complete(r)'
  BY <1>1, <1>5 DEF Ended, Complete
<1>13. NoFailure(r)'
  <2>1. ~batchErr'[r] => \A i \in DOMAIN posts'[r] : posts'[r][i].ok
    BY <1>1, <1>2, <1>4, <1>8 DEF RunInv, NoFailure
  <2> QED
    BY <1>1, <1>5, <2>1 DEF NoFailure
<1> QED
  BY <1>7, <1>9, <1>10, <1>11, <1>12, <1>13 DEF RunInv

(* The notice is the batcher's last message. *)
LEMMA BatcherNoticeKeeps ==
    ASSUME Typed, NEW r \in Run, RunInv(r), NEW ok \in BOOLEAN, BatcherNotice(r, ok)
    PROVE  RunInv(r)' /\ SameText(r)
<1> DEFINE n == Len(posts[r])
<1>1. /\ pc[r] = "close" /\ pc'[r] = pc[r] /\ reply'[r] = reply[r] /\ ~noticed[r]
      /\ channel[r] = << >> /\ buffer[r] = << >> /\ Post(r, "notice", << >>, ok)
      /\ buffer'[r] = buffer[r] /\ channel'[r] = channel[r]
      /\ count'[r] = count[r] /\ dropped'[r] = dropped[r] /\ exitEvent'[r] = exitEvent[r]
      /\ streamErr'[r] = streamErr[r]
  BY DEF BatcherNotice, Drained, At, stream
<1>2. noticed'[r] /\ (~batchErr'[r] => ~batchErr[r] /\ ok)
  BY ZenonT(30) DEF BatcherNotice, Typed, TypeOK
<1>3. /\ << >> \in Seq(Nat) /\ "notice" \in {"start", "output", "notice"} \cup Finals
  BY EmptySeq
<1>4. /\ n \in Nat /\ DOMAIN posts[r] = 1..n /\ DOMAIN posts'[r] = 1..(n + 1)
      /\ \A i \in 1..n : posts'[r][i] = posts[r][i]
      /\ posts'[r][n + 1].kind = "notice" /\ posts'[r][n + 1].ok = ok
  <2>1. Grows(r, "notice", << >>, ok)
    BY <1>1, <1>3, Posted DEF Typed
  <2> QED
    BY <2>1 DEF Grows
<1> HIDE DEF n
<1>5. reply[r] # 200
  BY <1>1 DEF RunInv, Stage
<1>6. /\ \A i \in 1..n : posts[r][i].kind \in {"start", "output"}
      /\ \A i \in 1..n : posts[r][i].kind = "start" => posts[r][i].ok
  BY <1>1, <1>4 DEF RunInv, Progress, Sent
<1>7. Stage(r)'
  BY <1>1, <1>2 DEF RunInv, Stage
<1>8. \A i \in 1..(n + 1) : i \in 1..n \/ i = n + 1
  BY <1>4
<1>9. Progress(r)'
  <2>1. \A i \in DOMAIN posts'[r] :
            /\ posts'[r][i].kind \in {"start", "output", "notice"}
            /\ posts'[r][i].kind = "start" => posts'[r][i].ok
    <3> SUFFICES ASSUME NEW i \in 1..(n + 1)
                 PROVE  /\ posts'[r][i].kind \in {"start", "output", "notice"}
                        /\ posts'[r][i].kind = "start" => posts'[r][i].ok
      BY <1>4
    <3>1. CASE i = n + 1
      BY <1>4, <3>1
    <3>2. CASE i \in 1..n
      BY <1>4, <1>6, <3>2
    <3> QED
      BY <1>8, <3>1, <3>2
  <2> QED
    BY <1>1, <1>2, <2>1 DEF Progress, Sent, Finals
<1>10. InSequence(r)' /\ TextInOrder(r)' /\ Texts(r)' = Texts(r) \cup Items(<< >>)
  <2>1. \A i \in DOMAIN posts[r] :
            Rank(posts[r][i].kind) <= Rank("notice") /\ Rank(posts[r][i].kind) # Rank("notice")
    BY <1>4, <1>6 DEF Rank
  <2> QED
    BY <1>1, <1>3, <2>1, PostFollows
<1>11. Numbered(r)' /\ Counted(r)' /\ SameText(r)
  BY <1>1, <1>3, <1>10, PostCounts
<1>12. Ended(r)' /\ Complete(r)'
  BY <1>1, <1>5 DEF Ended, Complete
<1>13. NoFailure(r)'
  <2>1. ~batchErr'[r] => \A i \in DOMAIN posts'[r] : posts'[r][i].ok
    BY <1>1, <1>2, <1>4, <1>8 DEF RunInv, NoFailure
  <2>2. n + 1 \in DOMAIN posts'[r]
    BY <1>4
  <2> QED
    BY <1>4, <2>1, <2>2 DEF NoFailure
<1> QED
  BY <1>7, <1>9, <1>10, <1>11, <1>12, <1>13 DEF RunInv

(* The last message, and the answer it leads to *)
LEMMA PostFinalKeeps ==
    ASSUME Typed, NEW r \in Run, RunInv(r), NEW ok \in BOOLEAN, PostFinal(r, ok)
    PROVE  RunInv(r)' /\ SameText(r)
<1> DEFINE n == Len(posts[r])
           v == Verdict(r)
<1>1. /\ pc[r] = "final" /\ Post(r, v, << >>, ok)
      /\ buffer'[r] = buffer[r] /\ channel'[r] = channel[r]
      /\ count'[r] = count[r] /\ dropped'[r] = dropped[r] /\ exitEvent'[r] = exitEvent[r]
      /\ streamErr'[r] = streamErr[r] /\ noticed'[r] = noticed[r]
  BY DEF PostFinal, At, stream, batcher
<1>2. \/ pc'[r] = "return" /\ reply'[r] = Status(r, ok)
      \/ pc'[r] = "final" /\ reply'[r] = reply[r] /\ ok
  BY <1>1 DEF PostFinal, Reply, Goto, Typed, TypeOK
<1>3. batchErr'[r] <=> FailedBy(r, ok)
  BY DEF PostFinal, Typed, TypeOK
<1>4. /\ << >> \in Seq(Nat) /\ v \in Finals /\ v \in {"start", "output", "notice"} \cup Finals
      /\ Verdict(r)' = v
  BY <1>1, EmptySeq DEF Verdict, Finals
<1>5. /\ n \in Nat /\ DOMAIN posts[r] = 1..n /\ DOMAIN posts'[r] = 1..(n + 1)
      /\ Len(posts'[r]) = n + 1
      /\ \A i \in 1..n : posts'[r][i] = posts[r][i]
      /\ posts'[r][n + 1].kind = v /\ posts'[r][n + 1].ok = ok
      /\ posts'[r][n + 1].dropped = dropped[r] /\ posts'[r][n + 1].failed = batchErr[r]
  <2>1. Grows(r, v, << >>, ok)
    BY <1>1, <1>4, Posted DEF Typed
  <2> HIDE DEF v
  <2> QED
    BY <2>1 DEF Grows
<1>6. reply'[r] = 200 => v = "exit" /\ ~batchErr[r] /\ ok /\ ~streamErr[r] /\ exitEvent[r] # 0
  <2>1. reply[r] # 200
    BY <1>1 DEF RunInv, Stage
  <2>2. reply'[r] = 200 => Status(r, ok) = 200
    BY <1>2, <2>1
  <2>3. Status(r, ok) = 200 => Verdict(r) = "exit" /\ ~FailedBy(r, ok)
    BY DEF Status
  <2>4. Verdict(r) = "exit" => ~streamErr[r] /\ exitEvent[r] # 0
    BY DEF Verdict
  <2>5. Verdict(r) = "exit" /\ ~FailedBy(r, ok) => ~batchErr[r] /\ ok
    BY DEF FailedBy
  <2> QED
    BY <2>2, <2>3, <2>4, <2>5
<1>7. pc'[r] # "return" /\ ~batchErr'[r] => ~batchErr[r] /\ ok
  BY <1>2, <1>3 DEF FailedBy
<1>8. reply[r] # 200 /\ channel[r] = << >> /\ buffer[r] = << >> /\ (dropped[r] > 0 => noticed[r])
  BY <1>1 DEF RunInv, Stage
<1>9. /\ \A i \in 1..n : posts[r][i].kind \in {"start", "output", "notice", v}
      /\ \A i \in 1..n : posts[r][i].kind \in {"start"} \cup Finals => posts[r][i].ok
  BY <1>1, <1>5 DEF RunInv, Progress, Sent
<1> HIDE DEF n, v
<1>10. Stage(r)'
  BY <1>1, <1>2, <1>8 DEF RunInv, Stage
<1>11. \A i \in 1..(n + 1) : i \in 1..n \/ i = n + 1
  BY <1>5
<1>12. Progress(r)'
  <2>1. \A i \in DOMAIN posts'[r] :
            /\ posts'[r][i].kind \in {"start", "output", "notice", v}
            /\ pc'[r] # "return" /\ posts'[r][i].kind \in {"start"} \cup Finals => posts'[r][i].ok
    BY <1>2, <1>5, <1>9, <1>11
  <2>2. {"start", "output", "notice", v} \subseteq Sent(r)'
    BY <1>2, <1>4 DEF Sent
  <2> QED
    BY <2>1, <2>2 DEF Progress
<1>13. InSequence(r)' /\ TextInOrder(r)' /\ Texts(r)' = Texts(r) \cup Items(<< >>)
  <2>1. Rank(v) = 4
    BY <1>4 DEF Rank, Finals
  <2>2. \A i \in DOMAIN posts[r] :
            /\ Rank(posts[r][i].kind) <= Rank(v)
            /\ Rank(posts[r][i].kind) = Rank(v) => posts[r][i].kind = v /\ posts[r][i].ok
    <3>1. \A i \in DOMAIN posts[r] :
              /\ Rank(posts[r][i].kind) <= 4
              /\ Rank(posts[r][i].kind) = 4 => posts[r][i].kind = v /\ posts[r][i].ok
      BY <1>4, <1>5, <1>9 DEF Rank
    <3> QED
      BY <2>1, <3>1
  <2>3. v # "notice" /\ << >> \in {<< >>, buffer[r]}
    BY <1>4 DEF Finals
  <2> QED
    BY ZenonT(30), <1>1, <1>4, <1>5, <2>1, <2>2, <2>3, PostFollows
<1>14. Numbered(r)' /\ Counted(r)' /\ SameText(r)
  BY <1>1, <1>4, <1>13, PostCounts
<1>15. Ended(r)'
  BY <1>4, <1>5 DEF Ended
<1>16. NoFailure(r)'
  <2>1. pc'[r] # "return" /\ ~batchErr'[r] => \A i \in DOMAIN posts'[r] : posts'[r][i].ok
    BY <1>1, <1>5, <1>7, <1>11 DEF RunInv, NoFailure
  <2>2. noticed'[r] => \E i \in DOMAIN posts'[r] : posts'[r][i].kind = "notice"
    BY <1>1, <1>5 DEF RunInv, NoFailure
  <2> QED
    BY <2>1, <2>2 DEF NoFailure
<1>17. Complete(r)'
  <2> SUFFICES ASSUME reply'[r] = 200
               PROVE  /\ \A i \in DOMAIN posts'[r] : posts'[r][i].ok
                      /\ exitEvent'[r] > 0 /\ ~streamErr'[r]
                      /\ posts'[r][Len(posts'[r])].kind = "exit"
                      /\ posts'[r][Len(posts'[r])].dropped = dropped'[r]
                      /\ ~posts'[r][Len(posts'[r])].failed
                      /\ dropped'[r] > 0 => noticed'[r]
    BY DEF Complete
  <2>1. \A i \in 1..n : posts[r][i].ok
    BY <1>1, <1>5, <1>6 DEF RunInv, NoFailure
  <2>2. exitEvent[r] \in Nat
    BY DEF Typed, TypeOK
  <2> QED
    <3>1. \A i \in DOMAIN posts'[r] : posts'[r][i].ok
      BY <1>5, <1>6, <1>11, <2>1
    <3>2. exitEvent'[r] > 0 /\ ~streamErr'[r] /\ (dropped'[r] > 0 => noticed'[r])
      BY <1>1, <1>6, <1>8, <2>2
    <3>3. /\ posts'[r][Len(posts'[r])].kind = "exit"
          /\ posts'[r][Len(posts'[r])].dropped = dropped'[r]
          /\ ~posts'[r][Len(posts'[r])].failed
      BY <1>1, <1>5, <1>6
    <3> QED
      BY <3>1, <3>2, <3>3
<1> QED
  BY <1>10, <1>12, <1>13, <1>14, <1>15, <1>16, <1>17 DEF RunInv

-----------------------------------------------------------------------------
(* Every run keeps its invariant through every step. *)
AllRuns == \A r \in Run : RunInv(r)

(* At the start nothing has happened to any run. *)
LEMMA InitRuns == Init => AllRuns
<1> SUFFICES ASSUME Init, NEW r \in Run PROVE RunInv(r)
  BY DEF AllRuns
<1>1. /\ pc[r] = "idle" /\ reply[r] = 0 /\ posts[r] = << >> /\ count[r] = 0 /\ exitEvent[r] = 0
      /\ channel[r] = << >> /\ buffer[r] = << >> /\ dropped[r] = 0 /\ ~noticed[r] /\ ~batchErr[r]
  BY DEF Init
<1>2. Stage(r) /\ Ended(r) /\ Complete(r) /\ NoFailure(r)
  BY <1>1 DEF Stage, Ended, Complete, NoFailure
<1>3. Progress(r) /\ InSequence(r) /\ Numbered(r) /\ TextInOrder(r)
  BY <1>1 DEF Progress, InSequence, Numbered, TextInOrder
<1>4. Counted(r)
  <2>1. Kept(r) = {}
    BY <1>1 DEF Kept, Texts, Items
  <2>2. Cardinality(Kept(r)) = 0
    BY <2>1, FS_EmptySet
  <2>3. 0 \in 0..count[r] /\ count[r] = Cardinality(Kept(r)) + dropped[r] + 0
    BY <1>1, <2>2
  <2> QED
    BY <1>1, <2>3 DEF Counted
<1> QED
  BY <1>2, <1>3, <1>4 DEF RunInv

(* One action moves one run, and keeps its invariant. *)
LEMMA NextRuns == Typed /\ AllRuns /\ [Next]_vars => AllRuns'
<1> SUFFICES ASSUME Typed, AllRuns, [Next]_vars, NEW q \in Run PROVE RunInv(q)'
  BY DEF AllRuns
<1>1. RunInv(q)
  BY DEF AllRuns
<1>2. CASE Signal \/ Stop \/ UNCHANGED vars
  <2>1. Same(q)
    BY <1>2 DEF Signal, Stop, vars, stream, batcher, Same
  <2> QED
    BY <1>1, <2>1, Untouched
<1>3. ASSUME NEW r \in Run, Client(r) \/ Batch(r) \/ Answer(r) PROVE RunInv(q)'
  <2>1. CASE q # r
    BY <1>1, <1>3, <2>1, OneRun, Untouched
  <2>2. CASE q = r
    <3>1. CASE Client(q)
      BY <1>1, <3>1, AdmissionKeeps, OutputKeeps, ExitKeeps, LeavingKeeps DEF Client
    <3>2. CASE Batch(q)
      BY <1>1, <3>2, TakeKeeps, LeavingKeeps, BatcherPostKeeps, BatcherNoticeKeeps DEF Batch
    <3>3. CASE Answer(q)
      BY <1>1, <3>3, LeavingKeeps, PostStartKeeps, PostFinalKeeps DEF Answer
    <3> QED
      BY <1>3, <2>2, <3>1, <3>2, <3>3
  <2> QED
    BY <2>1, <2>2
<1> QED
  BY <1>2, <1>3 DEF Next

(* The accounting, the types and the runs together are inductive. *)
LEMMA ServerInvariant == Spec => [](SlotInv /\ Typed /\ AllRuns)
BY InitSlots, InitTyped, InitRuns, NextSlots, NextTyped, NextRuns, PTL DEF Spec

(* A reader of the channel sees each run in its order, nothing twice and   *)
(* nothing after the end, for any number of runs, events and parts, though *)
(* handler and batcher both post (handleStream and sendLong).              *)
THEOREM RunsAreInOrder == Spec => []Safety
<1>1. Typed /\ AllRuns => Safety
  <2> SUFFICES ASSUME Typed, AllRuns PROVE Safety
    OBVIOUS
  <2>1. TypeOK
    BY DEF Typed
  <2>2. \A r \in Run : \A i \in DOMAIN posts[r] : Kinds(r)[i] = posts[r][i].kind
    BY DEF Kinds
  <2>3. MessagesInOrder
    BY <2>2 DEF AllRuns, RunInv, InSequence, MessagesInOrder
  <2>4. OutputInOrder
    BY DEF AllRuns, RunInv, TextInOrder, OutputInOrder
  <2> QED
    BY <2>1, <2>3, <2>4 DEF Safety
<1> QED
  BY <1>1, ServerInvariant, PTL

(* A handler that has answered an announced run has tried to end it in the *)
(* channel, whatever the client did (handleStream after batcher.Close).    *)
THEOREM EndingsAreTried == Spec => []EndingTried
<1>1. AllRuns => EndingTried
  <2> SUFFICES ASSUME AllRuns, NEW r \in Run, reply[r] # 0, posts[r] # << >>
               PROVE  LET last == posts[r][Len(posts[r])]
                      IN  last.kind \in Finals \/ (last.kind = "start" /\ ~last.ok)
    BY DEF EndingTried
  <2> QED
    BY DEF AllRuns, RunInv, Stage, Ended
<1> QED
  BY <1>1, ServerInvariant, PTL

(* A run answered with 200 is complete in the channel, for any queue size: *)
(* every output event is in a message that went through or was counted as  *)
(* dropped and announced (handleStream).                                   *)
THEOREM SuccessesAreComplete == Spec => []SuccessIsComplete
<1>1. Typed /\ AllRuns => SuccessIsComplete
  <2> SUFFICES ASSUME Typed, AllRuns, NEW r \in Run, reply[r] = 200
               PROVE  /\ \A i \in DOMAIN posts[r] : posts[r][i].ok
                      /\ exitEvent[r] > 0 /\ ~streamErr[r]
                      /\ LET last == posts[r][Len(posts[r])]
                         IN  last.kind = "exit" /\ last.dropped = dropped[r] /\ ~last.failed
                      /\ dropped[r] > 0 => \E i \in DOMAIN posts[r] : posts[r][i].kind = "notice"
                      /\ \E exits \in 1..count[r] : count[r] = Shown(r) + dropped[r] + exits
    BY DEF SuccessIsComplete
  <2>1. RunInv(r)
    BY DEF AllRuns
  <2>2. pc[r] \in {"return", "done"} /\ channel[r] = << >> /\ buffer[r] = << >>
    BY <2>1 DEF RunInv, Stage
  <2>3. Kept(r) = Texts(r)
    BY <2>2 DEF Kept, Items
  <2>4. Shown(r) = Cardinality(Kept(r))
    BY <2>3 DEF Shown, Texts
  <2>5. Complete(r)
    BY <2>1 DEF RunInv
  <2>6. PICK exits \in 0..count[r] : /\ count[r] = Cardinality(Kept(r)) + dropped[r] + exits
                                     /\ exitEvent[r] > 0 => exits > 0
    BY <2>1 DEF RunInv, Counted
  <2>7. count[r] \in Nat /\ exitEvent[r] > 0
    BY <2>5 DEF Complete, Typed, TypeOK
  <2>8. exits \in 1..count[r] /\ count[r] = Shown(r) + dropped[r] + exits
    BY <2>4, <2>6, <2>7
  <2>9. dropped[r] > 0 => \E i \in DOMAIN posts[r] : posts[r][i].kind = "notice"
    BY <2>1, <2>5 DEF RunInv, NoFailure, Complete
  <2> QED
    BY <2>5, <2>8, <2>9 DEF Complete
<1> QED
  BY <1>1, ServerInvariant, PTL

=============================================================================
