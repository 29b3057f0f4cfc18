--------------------------- MODULE BatcherProofs ---------------------------
(***************************************************************************)
(* Proofs about Batcher for every set of records, every channel capacity   *)
(* and every flush size.  The argument: the types (Typing); then one       *)
(* inductive invariant, Inv, that says which variables are empty at which  *)
(* place of the goroutine, that the text in the buffer belongs to the      *)
(* current stream, and that text is only ever moved along.  Last, that     *)
(* Batcher implements RunLog: ReadIsHeard ties the text accepted to the    *)
(* text read, and InOrder the text read to the text posted; the rest is    *)
(* one case per action.                                                    *)
(***************************************************************************)
EXTENDS BatcherLog, SequenceTheorems, TLAPS

(* The text of a record is a sequence of units, all of the record's stream. *)
LEMMA TextType ==
    ASSUME NEW r \in Record
    PROVE  /\ Text(r) \in Seq(Unit)
           /\ \A i \in DOMAIN Text(r) : Text(r)[i].src = normalizeStream(r.stream)
           /\ normalizeStream(r.stream) \in Streams
<1> DEFINE d == Stripped(r.data)
<1>1. d \in Seq(Char)
  BY RecordAssumption
<1>2. normalizeStream(r.stream) \in Streams
  BY DEF normalizeStream, Streams
<1> HIDE DEF d
<1>3. [i \in 1..Len(d) |-> [src |-> normalizeStream(r.stream), ch |-> d[i]]] \in Seq(Unit)
  BY <1>1, <1>2, LenProperties, ElementOfSeq DEF Unit
<1>4. Text(r) = [i \in 1..Len(d) |-> [src |-> normalizeStream(r.stream), ch |-> d[i]]]
  BY DEF Text, d
<1> QED
  BY <1>1, <1>2, <1>3, <1>4

(* The notice is a sequence of one unit of the system stream. *)
LEMMA NoticeType ==
    /\ NoticeText \in Seq(Unit) /\ Len(NoticeText) = 1
    /\ \A i \in DOMAIN NoticeText : NoticeText[i].src = "system"
BY DEF NoticeText, Unit, Streams

(* The initial state has the types and the shape. *)
LEMMA InitTypes == Init => TypeOK /\ Shape
<1> SUFFICES ASSUME Init PROVE TypeOK /\ Shape
  OBVIOUS
<1>1. /\ << >> \in Seq(Record) /\ << >> \in Seq(Unit) /\ Len(<< >>) = 0
      /\ << >> \in Seq(Post)
  BY EmptySeq
<1>2. /\ events \in Seq(Record) /\ Len(events) <= QueueSize
      /\ arrived \in Seq(Record) /\ held \in Seq(Record)
  BY <1>1, SizeAssumption DEF Init
<1>3. /\ buffer \in Seq(Unit) /\ sending \in Seq(Unit)
      /\ read \in Seq(Unit) /\ posted \in Seq(Unit) /\ posts \in Seq(Post)
  BY <1>1 DEF Init
<1>4. TypeOK
  BY <1>2, <1>3 DEF Init, TypeOK
<1>5. Shape
  BY DEF Init, Shape, Holding
<1> QED
  BY <1>4, <1>5

(* Every step keeps the types and the shape.                               *)
LEMMA NextTypes == TypeOK /\ Shape /\ [Next]_vars => TypeOK' /\ Shape'
<1> SUFFICES ASSUME TypeOK, Shape, [Next]_vars PROVE TypeOK' /\ Shape'
  OBVIOUS
<1> USE SizeAssumption
<1>1. ASSUME NEW r \in Record, Add(r) PROVE TypeOK' /\ Shape'
  <2>1. Len(r.data) \in Nat
    BY RecordAssumption, LenProperties
  <2>2. CASE Enqueue(r)
    BY <1>1, <2>2 DEF Add, Enqueue, TypeOK, Shape, Holding, runVars, logVars
  <2>3. CASE Overflow(r)
    BY <1>1, <2>1, <2>3 DEF Add, Overflow, TypeOK, Shape, Holding, runVars, logVars
  <2> QED
    BY <1>1, <2>2, <2>3 DEF Add
<1>2. CASE Close
  BY <1>2 DEF Close, TypeOK, Shape, Holding, runVars, logVars
<1>3. CASE CloseReturn
  BY <1>3 DEF CloseReturn, TypeOK, Shape, Holding, queueVars, runVars, logVars
<1>4. CASE TakeRecord
  <2>1. /\ Head(events) \in Record /\ Tail(events) \in Seq(Record)
        /\ Len(Tail(events)) = Len(events) - 1
    BY <1>4, HeadTailProperties DEF TakeRecord, TypeOK
  <2>2. held' = <<Head(events)>> /\ held' \in Seq(Record) /\ Len(held') = 1
    BY <1>4, <2>1 DEF TakeRecord
  <2>3. /\ buffer' \in Seq(Unit) /\ sending' \in Seq(Unit)
        /\ pc' \in {"append", "send"} /\ after' \in {after, "append"}
    BY <1>4, EmptySeq DEF TakeRecord, Flush, TypeOK
  <2>4. TypeOK'
    BY <1>4, <2>1, <2>2, <2>3 DEF TakeRecord, TypeOK
  <2>5. Shape'
    BY <1>4, <2>2 DEF TakeRecord, Flush, Shape, Holding, TypeOK
  <2> QED
    BY <2>4, <2>5
<1>5. CASE AppendRecord
  <2> DEFINE t == Text(held[1])
             s == normalizeStream(held[1].stream)
  <2>1. pc = "append" /\ Len(held) = 1 /\ held[1] \in Record
    <3>1. pc = "append" /\ Len(held) = 1
      BY <1>5 DEF AppendRecord, Shape, Holding
    <3>2. held \in Seq(Record)
      BY DEF TypeOK
    <3> QED
      BY <3>1, <3>2, ElementOfSeq
  <2>2. t \in Seq(Unit) /\ s \in Streams
    BY <2>1, TextType
  <2> HIDE DEF t, s
  <2>3. buffer \o t \in Seq(Unit) /\ read \o t \in Seq(Unit) /\ s # "none"
    BY <2>2, ConcatProperties DEF TypeOK, Streams
  <2>4. /\ held' = << >> /\ currentStream' = s /\ read' = read \o t
        /\ UNCHANGED <<queueVars, taken, posts, posted, noticed, firstErr, returned>>
    BY <1>5 DEF AppendRecord, t, s
  <2>5. \/ buffer' = buffer \o t /\ pc' = "select" /\ UNCHANGED <<after, sending>>
        \/ buffer' = << >> /\ pc' = "select" /\ UNCHANGED <<after, sending>>
        \/ buffer' = << >> /\ pc' = "send" /\ after' = "select" /\ sending' = buffer \o t
    BY <1>5 DEF AppendRecord, Flush, t
  <2>6. TypeOK'
    BY <2>2, <2>3, <2>4, <2>5, EmptySeq DEF TypeOK, queueVars
  <2>7. Shape'
    <3>1. sending = << >>
      BY <2>1 DEF Shape
    <3>2. ~Holding' /\ pc' \in {"select", "send"}
      BY <2>5 DEF Holding
    <3>3. currentStream' # "none"
      BY <2>3, <2>4
    <3> QED
      BY <2>4, <2>5, <3>1, <3>2, <3>3 DEF Shape
  <2> QED
    BY <2>6, <2>7
<1>6. CASE Tick
  BY <1>6, EmptySeq DEF Tick, Flush, TypeOK, Shape, Holding, queueVars, logVars
<1>7. CASE Drained
  BY <1>7, EmptySeq DEF Drained, Flush, TypeOK, Shape, Holding, queueVars, logVars
<1>8. CASE WriteNotice
  <2>1. read \o NoticeText \in Seq(Unit)
    BY NoticeType, ConcatProperties DEF TypeOK
  <2> QED
    BY <1>8, <2>1, NoticeType, EmptySeq
       DEF WriteNotice, Flush, TypeOK, Shape, Holding, queueVars, Streams
<1>9. ASSUME NEW ok \in BOOLEAN, SendPart(ok) PROVE TypeOK' /\ Shape'
  <2>1. PICK cut \in Cuts(sending) :
           /\ posts' = Append(posts, [stream |-> currentStream,
                                      body |-> SubSeq(sending, 1, cut), ok |-> ok])
           /\ posted' = posted \o SubSeq(sending, 1, cut)
           /\ sending' = SubSeq(sending, cut + 1, Len(sending))
    BY <1>9 DEF SendPart
  <2>2. cut \in 1..Len(sending)
    BY LenProperties DEF Cuts, TypeOK
  <2>3. /\ SubSeq(sending, 1, cut) \in Seq(Unit)
        /\ SubSeq(sending, cut + 1, Len(sending)) \in Seq(Unit)
    BY <2>2, SubSeqProperties, LenProperties DEF TypeOK
  <2>4. posted' \in Seq(Unit)
    BY <2>1, <2>3, ConcatProperties DEF TypeOK
  <2>5. currentStream \in Streams
    BY <1>9 DEF SendPart, Shape, TypeOK
  <2>6. posts' \in Seq(Post)
    BY <2>1, <2>3, <2>5, AppendProperties DEF TypeOK, Post
  <2>7. firstErr' \in Nat
    BY <1>9, LenProperties DEF SendPart, recordError, TypeOK
  <2>8. UNCHANGED <<queueVars, pc, after, held, currentStream, buffer,
                    taken, read, noticed, returned>> /\ pc = "send"
    BY <1>9 DEF SendPart
  <2>9. TypeOK'
    BY <2>1, <2>3, <2>4, <2>6, <2>7, <2>8 DEF TypeOK, queueVars
  <2>10. Shape'
    BY <2>8 DEF Shape, Holding
  <2> QED
    BY <2>9, <2>10
<1>10. CASE SendDone
  BY <1>10 DEF SendDone, TypeOK, Shape, Holding, queueVars, logVars
<1>11. CASE UNCHANGED vars
  BY <1>11 DEF vars, queueVars, runVars, logVars, TypeOK, Shape, Holding
<1> QED
  BY <1>1, <1>2, <1>3, <1>4, <1>5, <1>6, <1>7, <1>8, <1>9, <1>10, <1>11 DEF Next, Run

(* Types hold in every reachable state: in particular the channel is never *)
(* over capacity, and a record is held exactly while one is in hand.       *)
THEOREM Typing == Spec => [](TypeOK /\ Shape)
BY InitTypes, NextTypes, PTL DEF Spec

-----------------------------------------------------------------------------
(***************************************************************************)
(* Order: what the goroutine has read is a prefix of what was accepted,    *)
(* and what it has posted a prefix of what it has read.                    *)
(***************************************************************************)

(* Every step keeps the order of the records.  Only Add and TakeRecord     *)
(* move them: at opposite ends of the channel.                             *)
LEMMA NextChannelOrder ==
    TypeOK /\ Shape /\ ChannelOrder /\ [Next]_vars => ChannelOrder'
<1> SUFFICES ASSUME TypeOK, Shape, ChannelOrder, [Next]_vars PROVE ChannelOrder'
  OBVIOUS
<1> DEFINE n == Len(arrived)
<1>0. /\ arrived \in Seq(Record) /\ events \in Seq(Record) /\ taken \in Nat /\ n \in Nat
      /\ taken <= n
  BY LenProperties DEF TypeOK, ChannelOrder
<1>1. ASSUME NEW r \in Record, Add(r) PROVE ChannelOrder'
  <2>1. CASE Enqueue(r)
    <3>1. /\ arrived' = Append(arrived, r) /\ Len(arrived') = n + 1
          /\ arrived' \in Seq(Record) /\ arrived'[n + 1] = r
          /\ \A i \in 1..n : arrived'[i] = arrived[i]
      BY <2>1, <1>0, AppendProperties DEF Enqueue
    <3>2. taken' = taken /\ held' = held /\ Holding' = Holding
      BY <1>1 DEF Add, runVars, logVars, Holding
    <3>3. events' = Append(SubSeq(arrived, taken + 1, n), r)
      BY <2>1 DEF Enqueue, ChannelOrder
    <3>4. SubSeq(arrived', taken + 1, n) = SubSeq(arrived, taken + 1, n)
      BY <1>0, <3>1
    <3>5. SubSeq(arrived', taken + 1, n + 1)
            = SubSeq(arrived', taken + 1, n) \o <<arrived'[n + 1]>>
      <4>1. /\ taken + 1 \in 1..Len(arrived') /\ n + 1 \in (taken + 1)..Len(arrived')
            /\ (n + 1) - 1 = n
        BY <1>0, <3>1
      <4> QED
        BY <3>1, <4>1, SubSeqRecursiveSecond
    <3>6. SubSeq(arrived, taken + 1, n) \in Seq(Record)
      BY <1>0 DEF ChannelOrder
    <3>7. events' = SubSeq(arrived', taken' + 1, Len(arrived'))
      BY <1>1, <3>1, <3>2, <3>3, <3>4, <3>5, <3>6, AppendIsConcat
    <3>8. Holding' => held'[1] = arrived'[taken']
      BY <1>0, <3>1, <3>2 DEF ChannelOrder
    <3> QED
      BY <1>0, <3>1, <3>2, <3>7, <3>8 DEF ChannelOrder
  <2>2. CASE Overflow(r)
    BY <1>1, <2>2 DEF Add, Overflow, ChannelOrder, Holding, runVars, logVars
  <2> QED
    BY <1>1, <2>1, <2>2 DEF Add
<1>2. CASE Close
  BY <1>2 DEF Close, ChannelOrder, Holding, runVars, logVars
<1>3. CASE CloseReturn
  BY <1>3 DEF CloseReturn, ChannelOrder, Holding, queueVars, runVars, logVars
<1>4. CASE TakeRecord
  <2>1. /\ events # << >> /\ events' = Tail(events) /\ arrived' = arrived
        /\ taken' = taken + 1 /\ held' = <<Head(events)>>
    BY <1>4 DEF TakeRecord
  <2>2. taken < n
    <3>1. taken >= n => events = << >>
      BY <1>0, SubSeqEmpty DEF ChannelOrder
    <3> QED
      BY <1>0, <2>1, <3>1
  <2>3. /\ Head(events) = arrived[taken + 1]
        /\ Tail(events) = SubSeq(arrived, taken + 2, n)
    BY <1>0, <2>2, HeadTailOfSubSeq DEF ChannelOrder
  <2> QED
    BY <1>0, <2>1, <2>2, <2>3 DEF ChannelOrder
<1>5. CASE AppendRecord
  BY <1>5 DEF AppendRecord, Flush, ChannelOrder, Holding, queueVars
<1>6. CASE Tick
  BY <1>6 DEF Tick, Flush, ChannelOrder, Holding, queueVars, logVars
<1>7. CASE Drained
  BY <1>7 DEF Drained, Flush, ChannelOrder, Holding, queueVars, logVars
<1>8. CASE WriteNotice
  BY <1>8 DEF WriteNotice, Flush, ChannelOrder, Holding, queueVars
<1>9. ASSUME NEW ok \in BOOLEAN, SendPart(ok) PROVE ChannelOrder'
  BY <1>9 DEF SendPart, ChannelOrder, Holding, queueVars
<1>10. CASE SendDone
  BY <1>10 DEF SendDone, ChannelOrder, Holding, queueVars, logVars
<1>11. CASE UNCHANGED vars
  BY <1>11 DEF vars, queueVars, runVars, logVars, ChannelOrder, Holding
<1> QED
  BY <1>1, <1>2, <1>3, <1>4, <1>5, <1>6, <1>7, <1>8, <1>9, <1>10, <1>11 DEF Next, Run

(* A flush moves text from the buffer to the post, and nothing else.       *)
LEMMA FlushKeepsText ==
    ASSUME TypeOK, sending = << >>, NEW text \in Seq(Unit), NEW next, Flush(text, next),
           NEW before \in Seq(Unit)
    PROVE  before \o sending' \o buffer' = before \o text
<1>1. CASE text = << >>
  <2>1. sending' = << >> /\ buffer' = << >>
    BY <1>1 DEF Flush
  <2> QED
    BY <1>1, <2>1, ConcatEmptySeq
<1>2. CASE text # << >>
  <2>1. sending' = text /\ buffer' = << >>
    BY <1>2 DEF Flush
  <2>2. before \o text \in Seq(Unit)
    BY ConcatProperties
  <2> QED
    BY <2>1, <2>2, ConcatEmptySeq
<1> QED
  BY <1>1, <1>2

(* Every step keeps the text: AppendRecord and WriteNotice extend it at    *)
(* one end, a flush and a post move it.                                    *)
LEMMA NextTextOrder ==
    TypeOK /\ Shape /\ TextOrder /\ [Next]_vars => TextOrder'
<1> SUFFICES ASSUME TypeOK, Shape, TextOrder, [Next]_vars PROVE TextOrder'
  OBVIOUS
<1>0. /\ posted \in Seq(Unit) /\ sending \in Seq(Unit) /\ buffer \in Seq(Unit)
      /\ posted \o sending \o buffer = read
  BY DEF TypeOK, TextOrder
<1>a. ASSUME sending = << >> PROVE read = posted \o buffer
  BY <1>0, <1>a, ConcatEmptySeq
<1>1. ASSUME NEW r \in Record, Add(r) PROVE TextOrder'
  BY <1>1 DEF Add, TextOrder, runVars, logVars
<1>2. CASE Close
  BY <1>2 DEF Close, TextOrder, runVars, logVars
<1>3. CASE CloseReturn
  BY <1>3 DEF CloseReturn, TextOrder, runVars, logVars
<1>4. CASE TakeRecord
  <2>1. sending = << >> /\ posted' = posted /\ read' = read
    BY <1>4 DEF TakeRecord, Shape
  <2>2. CASE Flush(buffer, "append")
    <3>1. posted \o sending' \o buffer' = posted \o buffer
      BY <1>0, <2>1, <2>2, FlushKeepsText
    <3> QED
      BY <2>1, <3>1, <1>a DEF TextOrder
  <2>3. CASE UNCHANGED <<buffer, sending>>
    BY <2>1, <2>3 DEF TextOrder
  <2> QED
    BY <1>4, <2>2, <2>3 DEF TakeRecord
<1>5. CASE AppendRecord
  <2> DEFINE t == Text(held[1])
             text == buffer \o t
  <2>1. pc = "append" /\ Len(held) = 1 /\ sending = << >>
    BY <1>5 DEF AppendRecord, Shape, Holding
  <2>2. held[1] \in Record
    <3>1. held \in Seq(Record)
      BY DEF TypeOK
    <3> QED
      BY <2>1, <3>1, ElementOfSeq
  <2>3. t \in Seq(Unit)
    BY <2>2, TextType
  <2>4. read' = read \o t /\ posted' = posted
    BY <1>5 DEF AppendRecord
  <2>5. \/ buffer' = text /\ sending' = sending
        \/ Flush(text, "select")
    BY <1>5 DEF AppendRecord
  <2> HIDE DEF t
  <2>6. text \in Seq(Unit) /\ read \o t = posted \o text
    <3>1. read = posted \o buffer
      BY <1>a, <2>1
    <3>2. (posted \o buffer) \o t = posted \o (buffer \o t)
      BY <1>0, <2>3, ConcatAssociative
    <3> QED
      BY <1>0, <2>3, <3>1, <3>2, ConcatProperties
  <2> HIDE DEF text
  <2>7. CASE buffer' = text /\ sending' = sending
    <3>1. posted' \o sending' \o buffer' = posted \o text
      BY <1>0, <2>1, <2>4, <2>7, ConcatEmptySeq
    <3> QED
      BY <3>1, <2>4, <2>6 DEF TextOrder
  <2>8. CASE Flush(text, "select")
    <3>1. posted \o sending' \o buffer' = posted \o text
      BY <1>0, <2>1, <2>6, <2>8, FlushKeepsText
    <3> QED
      BY <3>1, <2>4, <2>6 DEF TextOrder
  <2> QED
    BY <2>5, <2>7, <2>8
<1>6. CASE Tick
  <2>1. /\ sending = << >> /\ posted' = posted /\ read' = read
        /\ Flush(buffer, "select")
    BY <1>6 DEF Tick, Shape, logVars
  <2>2. posted \o sending' \o buffer' = posted \o buffer
    BY <1>0, <2>1, FlushKeepsText
  <2> QED
    BY <2>1, <2>2, <1>a DEF TextOrder
<1>7. CASE Drained
  <2>1. /\ sending = << >> /\ posted' = posted /\ read' = read
        /\ Flush(buffer, IF dropped > 0 THEN "notice" ELSE "done")
    BY <1>7 DEF Drained, Shape, logVars
  <2>2. posted \o sending' \o buffer' = posted \o buffer
    BY <1>0, <2>1, FlushKeepsText
  <2> QED
    BY <2>1, <2>2, <1>a DEF TextOrder
<1>8. CASE WriteNotice
  <2>1. /\ sending = << >> /\ buffer = << >> /\ posted' = posted
        /\ read' = read \o NoticeText /\ Flush(NoticeText, "done")
    BY <1>8 DEF WriteNotice, Shape
  <2>2. posted \o sending' \o buffer' = posted \o NoticeText
    BY <1>0, <2>1, NoticeType, FlushKeepsText
  <2>3. read = posted
    BY <1>0, <1>a, <2>1, ConcatEmptySeq
  <2> QED
    BY <2>1, <2>2, <2>3 DEF TextOrder
<1>9. ASSUME NEW ok \in BOOLEAN, SendPart(ok) PROVE TextOrder'
  <2>1. PICK cut \in Cuts(sending) :
           /\ posted' = posted \o SubSeq(sending, 1, cut)
           /\ sending' = SubSeq(sending, cut + 1, Len(sending))
    BY <1>9 DEF SendPart
  <2> DEFINE b == SubSeq(sending, 1, cut)
             s == SubSeq(sending, cut + 1, Len(sending))
  <2>2. Len(sending) \in Nat /\ cut \in 1..Len(sending)
    BY <1>0, LenProperties, SizeAssumption DEF Cuts
  <2>3. b \in Seq(Unit) /\ s \in Seq(Unit)
    BY <1>0, <2>2, SubSeqProperties, LenProperties
  <2>4. b \o s = SubSeq(sending, 1, Len(sending))
    BY <1>0, <2>2, ConcatAdjacentSubSeq
  <2>5. b \o s = sending
    BY <1>0, <2>4, SubSeqFull
  <2> HIDE DEF b, s
  <2>6. (posted \o b) \o s = posted \o sending
    <3>1. (posted \o b) \o s = posted \o (b \o s)
      BY SMTT(30), <1>0, <2>3, ConcatAssociative
    <3> QED
      BY <2>5, <3>1
  <2>7. buffer' = buffer /\ read' = read
    BY <1>9 DEF SendPart
  <2> QED
    BY <1>0, <2>1, <2>6, <2>7 DEF TextOrder, b, s
<1>10. CASE SendDone
  BY <1>10 DEF SendDone, TextOrder, logVars
<1>11. CASE UNCHANGED vars
  BY <1>11 DEF vars, queueVars, runVars, logVars, TextOrder
<1> QED
  BY <1>1, <1>2, <1>3, <1>4, <1>5, <1>6, <1>7, <1>8, <1>9, <1>10, <1>11 DEF Next, Run

(* Accepted output reaches Discord's queue of posts once and in order.     *)
THEOREM NothingLostOrReordered == Spec => []InOrder
<1>1. Init => InOrder
  <2> SUFFICES ASSUME Init PROVE InOrder
    OBVIOUS
  <2>1. ChannelOrder
    BY SubSeqEmpty DEF Init, ChannelOrder, Holding
  <2>2. TextOrder
    BY EmptySeq, ConcatEmptySeq DEF Init, TextOrder
  <2> QED
    BY <2>1, <2>2 DEF InOrder
<1>2. TypeOK /\ Shape /\ InOrder /\ [Next]_vars => InOrder'
  BY NextChannelOrder, NextTextOrder DEF InOrder
<1> QED
  BY <1>1, <1>2, Typing, PTL DEF Spec

-----------------------------------------------------------------------------
(***************************************************************************)
(* Labels: run flushes before it changes currentStream, so the text under  *)
(* one label is all of one stream.                                         *)
(***************************************************************************)

(* A flush keeps the text it moves under its label. *)
LEMMA FlushKeepsLabel ==
    ASSUME LabelFits, NEW text, NEW next, Flush(text, next), NEW label,
           sending = << >>,
           \A i \in DOMAIN text : text[i].src = label
    PROVE  /\ \A i \in DOMAIN buffer' : buffer'[i].src = label
           /\ \A i \in DOMAIN sending' : sending'[i].src = label
BY DEF Flush

(* Every step keeps text and label together. *)
LEMMA NextLabels ==
    TypeOK /\ Shape /\ LabelFits /\ StreamsNeverMixed /\ [Next]_vars
        => LabelFits' /\ StreamsNeverMixed'
<1> SUFFICES ASSUME TypeOK, Shape, LabelFits, StreamsNeverMixed, [Next]_vars
             PROVE  LabelFits' /\ StreamsNeverMixed'
  OBVIOUS
<1>0. buffer \in Seq(Unit) /\ sending \in Seq(Unit) /\ posts \in Seq(Post)
  BY DEF TypeOK
<1>1. ASSUME NEW r \in Record, Add(r) PROVE LabelFits' /\ StreamsNeverMixed'
  BY <1>1 DEF Add, LabelFits, StreamsNeverMixed, runVars, logVars
<1>2. CASE Close
  BY <1>2 DEF Close, LabelFits, StreamsNeverMixed, runVars, logVars
<1>3. CASE CloseReturn
  BY <1>3 DEF CloseReturn, LabelFits, StreamsNeverMixed, runVars, logVars
<1>4. CASE TakeRecord
  <2>1. sending = << >> /\ UNCHANGED <<posts, currentStream>>
    BY <1>4 DEF TakeRecord, Shape
  <2>2. CASE Flush(buffer, "append")
    BY <2>1, <2>2, FlushKeepsLabel DEF LabelFits, StreamsNeverMixed
  <2>3. CASE UNCHANGED <<buffer, sending>>
    BY <2>1, <2>3 DEF LabelFits, StreamsNeverMixed
  <2> QED
    BY <1>4, <2>2, <2>3 DEF TakeRecord
<1>5. CASE AppendRecord
  <2> DEFINE t == Text(held[1])
             text == buffer \o t
             s == normalizeStream(held[1].stream)
  <2>1. pc = "append" /\ Len(held) = 1 /\ sending = << >>
    BY <1>5 DEF AppendRecord, Shape, Holding
  <2>2. held[1] \in Record
    <3>1. held \in Seq(Record)
      BY DEF TypeOK
    <3> QED
      BY <2>1, <3>1, ElementOfSeq
  <2>3. t \in Seq(Unit) /\ \A i \in DOMAIN t : t[i].src = s
    BY <2>2, TextType
  <2>4. buffer = << >> \/ s = currentStream
    BY <2>1 DEF Shape
  <2>5. /\ currentStream' = s /\ posts' = posts
        /\ \/ buffer' = text /\ sending' = sending
           \/ Flush(text, "select")
    BY <1>5 DEF AppendRecord
  <2> HIDE DEF t, s
  <2>6. \A i \in DOMAIN buffer : buffer[i].src = s
    BY <2>4 DEF LabelFits
  <2>7. /\ DOMAIN text = 1..(Len(buffer) + Len(t))
        /\ Len(buffer) \in Nat /\ Len(t) \in Nat
        /\ DOMAIN buffer = 1..Len(buffer) /\ DOMAIN t = 1..Len(t)
        /\ \A i \in 1..(Len(buffer) + Len(t)) :
              text[i] = IF i <= Len(buffer) THEN buffer[i] ELSE t[i - Len(buffer)]
    BY <1>0, <2>3, ConcatProperties, LenProperties
  <2> HIDE DEF text
  <2>8. \A i \in DOMAIN text : text[i].src = s
    BY <2>3, <2>6, <2>7
  <2>9. CASE buffer' = text /\ sending' = sending
    BY <2>1, <2>5, <2>8, <2>9 DEF LabelFits, StreamsNeverMixed
  <2>10. CASE Flush(text, "select")
    <3>1. /\ \A i \in DOMAIN buffer' : buffer'[i].src = s
          /\ \A i \in DOMAIN sending' : sending'[i].src = s
      BY <2>1, <2>8, <2>10, FlushKeepsLabel
    <3> QED
      BY <2>5, <3>1 DEF LabelFits, StreamsNeverMixed
  <2> QED
    BY <2>5, <2>9, <2>10
<1>6. CASE Tick
  <2>1. /\ sending = << >> /\ UNCHANGED <<posts, currentStream>>
        /\ Flush(buffer, "select")
    BY <1>6 DEF Tick, Shape, logVars
  <2> QED
    BY <2>1, FlushKeepsLabel DEF LabelFits, StreamsNeverMixed
<1>7. CASE Drained
  <2>1. /\ sending = << >> /\ UNCHANGED <<posts, currentStream>>
        /\ Flush(buffer, IF dropped > 0 THEN "notice" ELSE "done")
    BY <1>7 DEF Drained, Shape, logVars
  <2> QED
    BY <2>1, FlushKeepsLabel DEF LabelFits, StreamsNeverMixed
<1>8. CASE WriteNotice
  <2>1. /\ sending = << >> /\ posts' = posts /\ currentStream' = "system"
        /\ Flush(NoticeText, "done")
    BY <1>8 DEF WriteNotice, Shape
  <2> QED
    BY SMTT(30), <2>1, NoticeType, FlushKeepsLabel DEF LabelFits, StreamsNeverMixed
<1>9. ASSUME NEW ok \in BOOLEAN, SendPart(ok) PROVE LabelFits' /\ StreamsNeverMixed'
  <2>1. PICK cut \in Cuts(sending) :
           /\ posts' = Append(posts, [stream |-> currentStream,
                                      body |-> SubSeq(sending, 1, cut), ok |-> ok])
           /\ sending' = SubSeq(sending, cut + 1, Len(sending))
    BY <1>9 DEF SendPart
  <2> DEFINE b == SubSeq(sending, 1, cut)
             s == SubSeq(sending, cut + 1, Len(sending))
             p == [stream |-> currentStream, body |-> b, ok |-> ok]
  <2>2. Len(sending) \in Nat /\ cut \in 1..Len(sending) /\ DOMAIN sending = 1..Len(sending)
    BY <1>0, LenProperties, SizeAssumption DEF Cuts
  <2>3. \A i \in 1..Len(sending) : sending[i].src = currentStream
    BY <2>2 DEF LabelFits
  <2>4. /\ DOMAIN b = 1..cut /\ \A i \in 1..cut : b[i] = sending[i]
        /\ DOMAIN s = 1..(Len(sending) - cut)
        /\ \A i \in 1..(Len(sending) - cut) : s[i] = sending[cut + i]
    BY <1>0, <2>2
  <2>5. /\ UNCHANGED <<buffer, currentStream>> /\ buffer = << >>
    BY <1>9 DEF SendPart, Shape
  <2> HIDE DEF b, s
  <2>6. LabelFits'
    <3>1. \A i \in DOMAIN s : s[i].src = currentStream
      BY <2>2, <2>3, <2>4
    <3> QED
      BY <2>1, <2>5, <3>1 DEF LabelFits, s
  <2>7. \A i \in DOMAIN b : b[i].src = currentStream
    BY <2>2, <2>3, <2>4
  <2>8. /\ Len(posts) \in Nat /\ DOMAIN posts = 1..Len(posts)
        /\ DOMAIN posts' = 1..(Len(posts) + 1)
        /\ posts'[Len(posts) + 1] = p
        /\ \A k \in 1..Len(posts) : posts'[k] = posts[k]
    BY <1>0, <2>1, AppendProperties, LenProperties DEF b
  <2>9. StreamsNeverMixed'
    BY <2>7, <2>8 DEF StreamsNeverMixed
  <2> QED
    BY <2>6, <2>9
<1>10. CASE SendDone
  BY <1>10 DEF SendDone, LabelFits, StreamsNeverMixed, logVars
<1>11. CASE UNCHANGED vars
  BY <1>11 DEF vars, runVars, logVars, LabelFits, StreamsNeverMixed
<1> QED
  BY <1>1, <1>2, <1>3, <1>4, <1>5, <1>6, <1>7, <1>8, <1>9, <1>10, <1>11 DEF Next, Run

(* No post shows text of one stream under the label of another.            *)
THEOREM LabelsAreTrue == Spec => []StreamsNeverMixed
<1>1. Init => LabelFits /\ StreamsNeverMixed
  BY DEF Init, LabelFits, StreamsNeverMixed
<1> QED
  BY <1>1, NextLabels, Typing, PTL DEF Spec

-----------------------------------------------------------------------------
(***************************************************************************)
(* Errors: firstErr is written once, by the first post that fails.         *)
(***************************************************************************)

(* Only SendPart posts, and it records the number of the post it made.     *)
LEMMA NextFirstError ==
    TypeOK /\ FirstErrorKept /\ [Next]_vars => FirstErrorKept'
<1> SUFFICES ASSUME TypeOK, FirstErrorKept, [Next]_vars PROVE FirstErrorKept'
  OBVIOUS
<1>1. CASE UNCHANGED <<posts, firstErr>>
  BY <1>1 DEF FirstErrorKept
<1>2. ASSUME NEW ok \in BOOLEAN, SendPart(ok) PROVE FirstErrorKept'
  <2>1. PICK b : posts' = Append(posts, [stream |-> currentStream, body |-> b, ok |-> ok])
    BY <1>2 DEF SendPart
  <2> DEFINE n == Len(posts)
  <2>2. /\ n \in Nat /\ DOMAIN posts = 1..n /\ DOMAIN posts' = 1..(n + 1)
        /\ posts'[n + 1].ok = ok
        /\ \A k \in 1..n : posts'[k] = posts[k]
    BY <2>1, LenProperties DEF TypeOK
  <2>3. firstErr' = (IF ok \/ firstErr # 0 THEN firstErr ELSE n + 1)
    BY <1>2 DEF SendPart, recordError
  <2> HIDE DEF n
  <2>4. CASE firstErr # 0
    BY <2>2, <2>3, <2>4 DEF FirstErrorKept
  <2>5. CASE firstErr = 0 /\ ok
    <3>1. firstErr' = 0
      BY <2>3, <2>5
    <3>2. \A k \in 1..n : posts'[k].ok
      BY <2>2, <2>5 DEF FirstErrorKept
    <3>3. posts'[n + 1].ok
      BY <2>2, <2>5
    <3>4. \A k \in 1..(n + 1) : k \in 1..n \/ k = n + 1
      BY <2>2
    <3>5. \A k \in DOMAIN posts' : posts'[k].ok
      BY <2>2, <3>2, <3>3, <3>4
    <3> QED
      BY <3>1, <3>5 DEF FirstErrorKept
  <2>6. CASE firstErr = 0 /\ ~ok
    BY <2>2, <2>3, <2>6 DEF FirstErrorKept
  <2> QED
    BY <2>4, <2>5, <2>6
<1> QED
  BY <1>1, <1>2 DEF Next, Run, Add, Close, CloseReturn, TakeRecord, AppendRecord,
     Tick, Drained, WriteNotice, SendDone, logVars, vars

(* What Close returns is the error of the first post that failed.          *)
THEOREM FirstErrorIsReported == Spec => []FirstErrorKept
<1>1. Init => FirstErrorKept
  BY DEF Init, FirstErrorKept
<1> QED
  BY <1>1, NextFirstError, Typing, PTL DEF Spec

-----------------------------------------------------------------------------
(***************************************************************************)
(* The end: Close returns only after the channel is drained, the text      *)
(* posted and the notice, if there is one, posted after it.                *)
(***************************************************************************)

(* Every step keeps the order of the ending. *)
LEMMA NextEnd ==
    TypeOK /\ Shape /\ EndsInOrder /\ [Next]_vars => EndsInOrder'
<1> SUFFICES ASSUME TypeOK, Shape, EndsInOrder, [Next]_vars PROVE EndsInOrder'
  OBVIOUS
<1>1. ASSUME NEW r \in Record, Add(r) PROVE EndsInOrder'
  <2>1. /\ ~closed /\ UNCHANGED <<pc, after, currentStream, sending, posts, noticed, returned, closed>>
    BY <1>1 DEF Add, runVars, logVars
  <2>2. ~Ending
    BY <2>1 DEF EndsInOrder
  <2> QED
    BY <2>1, <2>2 DEF EndsInOrder, Ending, NoticeIsLast
<1>2. CASE Close
  BY <1>2 DEF Close, EndsInOrder, Ending, NoticeIsLast, runVars, logVars
<1>3. CASE CloseReturn
  BY <1>3 DEF CloseReturn, EndsInOrder, Ending, NoticeIsLast, queueVars, runVars, logVars
<1>4. CASE TakeRecord
  BY <1>4 DEF TakeRecord, Flush, EndsInOrder, Ending
<1>5. CASE AppendRecord
  <2>1. /\ pc = "append" /\ UNCHANGED <<noticed, returned>>
        /\ pc' = "select" \/ (pc' = "send" /\ after' = "select")
    BY <1>5 DEF AppendRecord, Flush
  <2> QED
    BY <2>1 DEF EndsInOrder, Ending
<1>6. CASE Tick
  BY <1>6 DEF Tick, Flush, EndsInOrder, Ending, logVars
<1>7. CASE Drained
  <2>1. /\ pc = "select" /\ closed /\ events = << >> /\ dropped \in Nat
        /\ UNCHANGED <<events, closed, dropped, noticed, returned, posts>>
    BY <1>7 DEF Drained, TypeOK, queueVars, logVars
  <2>2. noticed = 0 /\ ~returned
    BY <2>1 DEF EndsInOrder, Ending
  <2>3. CASE dropped > 0
    <3>1. pc' = "notice" \/ (pc' = "send" /\ after' = "notice")
      BY <1>7, <2>3 DEF Drained, Flush
    <3> QED
      BY <2>1, <2>2, <2>3, <3>1 DEF EndsInOrder, Ending
  <2>4. CASE dropped = 0
    <3>1. pc' = "done" \/ (pc' = "send" /\ after' = "done")
      BY <1>7, <2>4 DEF Drained, Flush
    <3> QED
      BY <2>1, <2>2, <2>4, <3>1 DEF EndsInOrder, Ending
  <2> QED
    BY <2>1, <2>3, <2>4
<1>8. CASE WriteNotice
  <2>1. /\ closed /\ events = << >> /\ dropped > 0 /\ ~returned
    BY <1>8 DEF WriteNotice, EndsInOrder, Ending
  <2>2. /\ pc' = "send" /\ after' = "done" /\ sending' = NoticeText
        /\ currentStream' = "system" /\ noticed' = dropped
        /\ UNCHANGED <<events, closed, dropped, returned>>
    BY <1>8 DEF WriteNotice, Flush, NoticeText, queueVars
  <2> QED
    BY <2>1, <2>2 DEF EndsInOrder, Ending
<1>9. ASSUME NEW ok \in BOOLEAN, SendPart(ok) PROVE EndsInOrder'
  <2>1. PICK cut \in Cuts(sending) :
           /\ posts' = Append(posts, [stream |-> currentStream,
                                      body |-> SubSeq(sending, 1, cut), ok |-> ok])
           /\ sending' = SubSeq(sending, cut + 1, Len(sending))
    BY <1>9 DEF SendPart
  <2>2. /\ pc = "send" /\ sending # << >>
        /\ UNCHANGED <<pc, after, currentStream, events, closed, dropped, noticed, returned>>
    BY <1>9 DEF SendPart, queueVars
  <2>3. ASSUME sending = NoticeText, currentStream = "system"
        PROVE  sending' = << >> /\ NoticeIsLast'
    <3>1. cut = 1
      BY <2>3, NoticeType, SizeAssumption DEF Cuts
    <3>2. sending' = << >>
      BY <2>1, <2>3, <3>1, NoticeType, SubSeqEmpty
    <3>3. SubSeq(sending, 1, cut) = NoticeText
      BY <2>3, <3>1, NoticeType, SubSeqFull
    <3>4. /\ Len(posts') = Len(posts) + 1 /\ Len(posts) \in Nat
          /\ posts'[Len(posts) + 1] = [stream |-> "system", body |-> NoticeText, ok |-> ok]
      <4>1. posts \in Seq(Post) /\ Len(posts) \in Nat
        BY LenProperties DEF TypeOK
      <4>2. posts' = Append(posts, [stream |-> "system", body |-> NoticeText, ok |-> ok])
        BY <2>1, <2>3, <3>3
      <4> QED
        BY <4>1, <4>2
    <3>5. posts' # << >>
      BY <3>4, EmptySeq
    <3> QED
      BY <3>2, <3>4, <3>5 DEF NoticeIsLast
  <2>4. CASE after = "done"
    BY <2>2, <2>3, <2>4 DEF EndsInOrder, Ending
  <2>5. CASE after # "done"
    BY <2>2, <2>5 DEF EndsInOrder, Ending
  <2> QED
    BY <2>4, <2>5
<1>10. CASE SendDone
  <2>1. /\ pc = "send" /\ sending = << >> /\ pc' = after
        /\ UNCHANGED <<after, events, closed, dropped, noticed, returned, posts>>
    BY <1>10 DEF SendDone, queueVars, logVars
  <2>2. sending # NoticeText
    BY SMTT(30), <2>1, NoticeType, EmptySeq
  <2>3. NoticeIsLast' = NoticeIsLast
    BY <2>1 DEF NoticeIsLast
  <2>4. after \in {"select", "append", "notice", "done"}
    BY DEF TypeOK
  <2> QED
    BY <2>1, <2>2, <2>3, <2>4 DEF EndsInOrder, Ending
<1>11. CASE UNCHANGED vars
  BY <1>11 DEF vars, queueVars, runVars, logVars, EndsInOrder, Ending, NoticeIsLast
<1> QED
  BY <1>1, <1>2, <1>3, <1>4, <1>5, <1>6, <1>7, <1>8, <1>9, <1>10, <1>11 DEF Next, Run

(* An empty channel means every accepted record has been read. *)
LEMMA EmptyMeansTaken ==
    ASSUME TypeOK, InOrder, events = << >>
    PROVE  taken = Len(arrived)
<1>1. Len(arrived) \in Nat /\ taken \in Nat /\ taken <= Len(arrived)
  BY LenProperties DEF TypeOK, InOrder, ChannelOrder
<1>2. CASE taken < Len(arrived)
  <2>1. SubSeq(arrived, taken + 1, Len(arrived)) \in Seq(Record)
    BY DEF TypeOK, InOrder, ChannelOrder
  <2>2. \A i \in (taken + 1)..Len(arrived) : arrived[i] \in Record
    BY <1>1, ElementOfSeq DEF TypeOK
  <2>3. Len(SubSeq(arrived, taken + 1, Len(arrived))) = Len(arrived) - taken
    BY <1>1, <1>2, <2>2, SubSeqProperties
  <2> QED
    <3>1. Len(events) = Len(arrived) - taken
      BY <2>3 DEF InOrder, ChannelOrder
    <3>2. Len(events) = 0
      BY EmptySeq
    <3> QED
      BY <1>1, <1>2, <3>1, <3>2
<1> QED
  BY <1>1, <1>2

(* The three invariants together say what has happened when Close returns. *)
LEMMA EndMeansDelivered ==
    TypeOK /\ Shape /\ InOrder /\ EndsInOrder => CloseDelivers
<1> SUFFICES ASSUME TypeOK, Shape, InOrder, EndsInOrder, returned PROVE CloseDelivers
  BY DEF CloseDelivers
<1>1. pc = "done" /\ events = << >> /\ noticed = dropped /\ (dropped > 0 => NoticeIsLast)
  BY DEF EndsInOrder, Ending
<1>2. taken = Len(arrived)
  BY <1>1, EmptyMeansTaken
<1>3. posted = read
  <2>1. posted \in Seq(Unit) /\ sending = << >> /\ buffer = << >>
    BY <1>1 DEF TypeOK, Shape
  <2> QED
    BY <2>1, ConcatEmptySeq DEF InOrder, TextOrder
<1> QED
  BY <1>1, <1>2, <1>3 DEF CloseDelivers

(* When Close returns, all accepted output was tried and any overflow was  *)
(* announced last, with the count the handler also gets.                   *)
THEOREM CloseIsComplete == Spec => []CloseDelivers
<1>1. Init => EndsInOrder
  BY DEF Init, EndsInOrder, Ending
<1> QED
  BY <1>1, NextEnd, EndMeansDelivered, Typing, NothingLostOrReordered, PTL DEF Spec

-----------------------------------------------------------------------------
(***************************************************************************)
(* The size of the buffer, and all of it together.                         *)
(***************************************************************************)

(* Flush leaves the buffer empty, and AppendRecord keeps a buffer only     *)
(* below the limit; on the way back to select it is empty.                 *)
LEMMA NextBounded == TypeOK /\ Shape /\ BufferBounded /\ [Next]_vars => BufferBounded'
<1> SUFFICES ASSUME TypeOK, Shape, BufferBounded, [Next]_vars, pc' = "select"
             PROVE  Len(buffer') < MaxLogBytes
  BY DEF BufferBounded
<1> USE SizeAssumption
<1>1. Len(<< >>) < MaxLogBytes
  BY EmptySeq
<1>2. CASE pc = "select" /\ UNCHANGED buffer
  BY <1>2 DEF BufferBounded
<1>3. CASE buffer' = << >>
  BY <1>1, <1>3
<1>4. ASSUME NEW r \in Record, Add(r) PROVE pc = "select" /\ UNCHANGED buffer
  BY <1>4 DEF Add, runVars
<1>5. CASE Close \/ CloseReturn
  BY <1>2, <1>5 DEF Close, CloseReturn, runVars
<1>6. CASE TakeRecord
  BY <1>6 DEF TakeRecord, Flush
<1>7. CASE AppendRecord
  <2> DEFINE text == buffer \o Text(held[1])
  <2>1. CASE Len(text) >= MaxLogBytes
    BY <1>3, <1>7, <2>1 DEF AppendRecord, Flush
  <2>2. CASE ~(Len(text) >= MaxLogBytes)
    <3>1. buffer' = text
      BY <1>7, <2>2 DEF AppendRecord
    <3>2. Len(held) = 1 /\ held \in Seq(Record)
      BY <1>7 DEF AppendRecord, Shape, Holding, TypeOK
    <3>3. Text(held[1]) \in Seq(Unit)
      BY <3>2, ElementOfSeq, TextType
    <3>4. Len(text) \in Nat
      BY <3>3, ConcatProperties, LenProperties DEF TypeOK
    <3> QED
      BY <2>2, <3>1, <3>4
  <2> QED
    BY <2>1, <2>2
<1>8. CASE Tick \/ Drained \/ WriteNotice
  BY <1>3, <1>8 DEF Tick, Drained, WriteNotice, Flush
<1>9. ASSUME NEW ok \in BOOLEAN, SendPart(ok) PROVE FALSE
  BY <1>9 DEF SendPart
<1>10. CASE SendDone
  BY <1>1, <1>10 DEF SendDone, Shape
<1>11. CASE UNCHANGED vars
  BY <1>2, <1>11 DEF vars, runVars
<1> QED
  BY <1>2, <1>4, <1>5, <1>6, <1>7, <1>8, <1>9, <1>10, <1>11 DEF Next, Run

(* The data of a run are sound in every order of its events: labels true,  *)
(* the first error kept, everything tried and announced when Close         *)
(* returns, and never a full buffer that waits (batcher.go).               *)
THEOREM BatcherIsSafe == Spec => []Safety
<1>1. Init => BufferBounded
  BY SizeAssumption, EmptySeq DEF Init, BufferBounded
<1>2. Spec => []BufferBounded
  BY <1>1, NextBounded, Typing, PTL DEF Spec
<1>3. TypeOK /\ StreamsNeverMixed /\ FirstErrorKept /\ CloseDelivers /\ BufferBounded => Safety
  BY DEF Safety
<1> QED
  BY <1>2, <1>3, Typing, LabelsAreTrue, FirstErrorIsReported, CloseIsComplete, PTL

-----------------------------------------------------------------------------
(***************************************************************************)
(* The refinement.                                                         *)
(***************************************************************************)
(* A sequence begins with itself, and a longer one with what it was made   *)
(* from.                                                                   *)
LEMMA ExtendsConcat ==
    ASSUME NEW s \in Seq(Unit), NEW t \in Seq(Unit)
    PROVE  Log!Extends(s \o t, s) /\ Log!Extends(s, s)
<1>1. /\ Len(s) \in Nat /\ Len(t) \in Nat /\ Len(s \o t) = Len(s) + Len(t)
  BY LenProperties, ConcatProperties
<1>2. SubSeq(s \o t, 1, Len(s)) = s
  <2>1. CASE Len(s) = 0
    BY <2>1, SubSeqEmpty, EmptySeq
  <2>2. CASE Len(s) > 0
    <3>1. SubSeq(s \o t, 1, Len(s)) = SubSeq(s, 1, Len(s))
      BY <1>1, <2>2, SubSeqOfConcat1
    <3> QED
      BY <3>1, SubSeqFull
  <2> QED
    BY <1>1, <2>1, <2>2
<1> QED
  BY <1>1, <1>2, SubSeqFull DEF Log!Extends

(* To extend is transitive. *)
LEMMA ExtendsTransitive ==
    ASSUME NEW s \in Seq(Unit), NEW t \in Seq(Unit), NEW u \in Seq(Unit),
           Log!Extends(t, s), Log!Extends(u, t)
    PROVE  Log!Extends(u, s)
<1>1. /\ Len(s) \in Nat /\ Len(t) \in Nat /\ Len(u) \in Nat
      /\ Len(s) <= Len(t) /\ Len(t) <= Len(u)
      /\ s = SubSeq(t, 1, Len(s)) /\ t = SubSeq(u, 1, Len(t))
  BY LenProperties DEF Log!Extends
<1>2. CASE Len(s) = 0
  BY <1>1, <1>2, SubSeqEmpty, EmptySeq DEF Log!Extends
<1>3. CASE Len(s) > 0
  <2>1. /\ 1 \in 1..Len(u) /\ Len(t) \in 1..Len(u)
        /\ 1 \in 1..(Len(t) - 1 + 1) /\ Len(s) \in 1..(Len(t) - 1 + 1)
    BY <1>1, <1>3
  <2>2. SubSeq(SubSeq(u, 1, Len(t)), 1, Len(s)) = SubSeq(u, 1, Len(s))
    <3>1. SubSeq(SubSeq(u, 1, Len(t)), 1, Len(s)) = SubSeq(u, 1 + 1 - 1, 1 + Len(s) - 1)
      BY <2>1, SubSeqOfSubSeq
    <3> QED
      BY <1>1, <3>1
  <2> QED
    BY <1>1, <2>2 DEF Log!Extends
<1> QED
  BY <1>1, <1>2, <1>3

-----------------------------------------------------------------------------
(***************************************************************************)
(* The invariant.                                                          *)
(***************************************************************************)
HeardType == heard \in Seq(Seq(Unit))

LogInv == /\ TypeOK /\ Shape /\ InOrder /\ EndsInOrder
          /\ HeardType /\ HeardGrows /\ ReadIsHeard

(* A record that is accepted lengthens heard by one entry; other steps     *)
(* leave it alone.                                                         *)
LEMMA NextHeardGrows ==
    TypeOK /\ HeardType /\ HeardGrows /\ [LogNext]_logSpecVars => HeardType' /\ HeardGrows'
<1> SUFFICES ASSUME TypeOK, HeardType, HeardGrows, [LogNext]_logSpecVars
             PROVE  HeardType' /\ HeardGrows'
  OBVIOUS
<1> DEFINE n == Len(arrived)
<1>0. /\ n \in Nat /\ Len(heard) = n + 1 /\ heard \in Seq(Seq(Unit))
      /\ DOMAIN heard = 1..(n + 1) /\ DOMAIN arrived = 1..n /\ arrived \in Seq(Record)
      /\ heard[n + 1] \in Seq(Unit)
  BY LenProperties, ElementOfSeq DEF TypeOK, HeardType, HeardGrows
<1>1. CASE arrived' = arrived /\ heard' = heard
  BY <1>1 DEF HeardType, HeardGrows
<1>2. ASSUME NEW r \in Record, Enqueue(r),
             heard' = Append(heard, heard[Len(heard)] \o Text(arrived'[Len(arrived')]))
      PROVE  HeardType' /\ HeardGrows'
  <2>1. /\ Len(arrived') = n + 1 /\ arrived'[n + 1] = r /\ DOMAIN arrived' = 1..(n + 1)
        /\ \A i \in 1..n : arrived'[i] = arrived[i]
    <3>1. arrived' = Append(arrived, r) /\ arrived' \in Seq(Record)
      BY <1>0, <1>2, AppendProperties DEF Enqueue
    <3>2. Len(arrived') = n + 1 /\ DOMAIN arrived' = 1..Len(arrived')
      BY <1>0, <3>1, AppendProperties, LenProperties
    <3> QED
      BY <1>0, <3>1, <3>2, AppendProperties
  <2> DEFINE new == heard[n + 1] \o Text(r)
  <2>2. Text(r) \in Seq(Unit) /\ new \in Seq(Unit)
    BY <1>0, TextType, ConcatProperties
  <2>3. heard' = Append(heard, new)
    BY <1>0, <1>2, <2>1
  <2>4. Log!Extends(new, heard[n + 1])
    BY <1>0, <2>2, ExtendsConcat
  <2>5. Log!Extends(new, new)
    BY <1>0, <2>2, ExtendsConcat
  <2> HIDE DEF new
  <2>6. /\ heard' \in Seq(Seq(Unit)) /\ Len(heard') = n + 2 /\ heard'[n + 2] = new
        /\ \A i \in 1..(n + 1) : heard'[i] = heard[i]
    <3>1. /\ Append(heard, new) \in Seq(Seq(Unit))
          /\ Len(Append(heard, new)) = Len(heard) + 1
          /\ \A i \in 1..Len(heard) : Append(heard, new)[i] = heard[i]
          /\ Append(heard, new)[Len(heard) + 1] = new
      BY <1>0, <2>2, AppendProperties
    <3> QED
      BY <1>0, <2>3, <3>1
  <2>7. \A k \in 1..(n + 1) : heard'[k + 1] = heard'[k] \o Text(arrived'[k])
    <3> TAKE k \in 1..(n + 1)
    <3>1. CASE k = n + 1
      <4>1. heard'[k + 1] = new /\ heard'[k] = heard[n + 1] /\ arrived'[k] = r
        BY <1>0, <2>1, <2>6, <3>1
      <4> QED
        BY <4>1 DEF new
    <3>2. CASE k \in 1..n
      <4>1. k \in 1..(n + 1) /\ k + 1 \in 1..(n + 1) /\ k \in DOMAIN arrived
        BY <1>0, <3>2
      <4>2. heard'[k + 1] = heard[k + 1] /\ heard'[k] = heard[k] /\ arrived'[k] = arrived[k]
        BY <2>1, <2>6, <3>2, <4>1
      <4> QED
        BY <4>1, <4>2 DEF HeardGrows
    <3>3. k = n + 1 \/ k \in 1..n
      BY <1>0
    <3> QED
      BY <3>1, <3>2, <3>3
  <2>8. \A k \in 1..(n + 2) : Log!Extends(new, heard'[k])
    <3> TAKE k \in 1..(n + 2)
    <3>1. CASE k = n + 2
      BY <2>5, <2>6, <3>1
    <3>2. CASE k \in 1..(n + 1)
      <4>1. heard'[k] = heard[k] /\ heard[k] \in Seq(Unit)
        BY <1>0, <2>6, <3>2, ElementOfSeq
      <4>2. Log!Extends(heard[n + 1], heard[k])
        BY <1>0, <3>2 DEF HeardGrows
      <4> QED
        BY <1>0, <2>2, <2>4, <4>1, <4>2, ExtendsTransitive
    <3> QED
      BY <1>0, <3>1, <3>2
  <2>9. DOMAIN heard' = 1..(n + 2)
    BY <2>6, LenProperties
  <2>10. HeardGrows'
    <3>1. Len(heard') = Len(arrived') + 1
      BY <1>0, <2>1, <2>6
    <3>2. \A k \in DOMAIN arrived' : heard'[k + 1] = heard'[k] \o Text(arrived'[k])
      BY <2>1, <2>7
    <3>3. heard'[Len(heard')] = new
      BY <2>6
    <3>4. \A k \in DOMAIN heard' : Log!Extends(heard'[Len(heard')], heard'[k])
      BY <2>8, <2>9, <3>3
    <3> HIDE DEF n
    <3> QED
      BY <3>1, <3>2, <3>4 DEF HeardGrows
  <2> QED
    BY <2>6, <2>10 DEF HeardType
<1>3. CASE LogNext
  <2>1. CASE \E r \in Record : Add(r)
    <3>1. PICK r \in Record : Add(r)
      BY <2>1
    <3>2. CASE Enqueue(r)
      <4>1. arrived' # arrived
        <5>1. Len(arrived') = Len(arrived) + 1 /\ Len(arrived) \in Nat
          BY <1>0, <3>1, <3>2, AppendProperties DEF Enqueue
        <5> QED
          BY <5>1
      <4>2. heard' = Append(heard, heard[Len(heard)] \o Text(arrived'[Len(arrived')]))
        BY <1>3, <4>1 DEF LogNext
      <4> QED
        BY <1>2, <3>2, <4>2
    <3>3. CASE Overflow(r)
      BY <1>0, <1>1, <1>3, <3>3 DEF LogNext, Overflow
    <3> QED
      BY <3>1, <3>2, <3>3 DEF Add
  <2>2. CASE Close \/ CloseReturn \/ Run
    <3>1. arrived' = arrived
      BY <2>2 DEF Close, CloseReturn, Run, TakeRecord, AppendRecord, Tick, Drained,
                  WriteNotice, SendPart, SendDone, queueVars
    <3> QED
      BY <1>0, <1>1, <1>3, <3>1 DEF LogNext
  <2> QED
    BY <1>3, <2>1, <2>2 DEF LogNext, Next
<1>4. CASE UNCHANGED logSpecVars
  BY <1>1, <1>4 DEF logSpecVars, vars, queueVars
<1> QED
  BY <1>3, <1>4

(* AppendRecord and WriteNotice lengthen the text read; every other step   *)
(* leaves it, and the entry of heard it stands at, alone.                  *)
LEMMA NextReadIsHeard ==
    LogInv /\ [LogNext]_logSpecVars => ReadIsHeard'
<1> SUFFICES ASSUME LogInv, [LogNext]_logSpecVars PROVE ReadIsHeard'
  OBVIOUS
<1> DEFINE AtNotice == pc = "notice" \/ (pc = "send" /\ after = "notice")
<1>0. /\ taken \in Nat /\ noticed \in Nat /\ dropped \in Nat /\ Len(arrived) \in Nat
      /\ arrived \in Seq(Record) /\ after \in {"select", "append", "notice", "done"}
      /\ heard \in Seq(Seq(Unit)) /\ Len(heard) = Len(arrived) + 1
      /\ ReadUpTo \in 1..Len(heard)
      /\ \A k \in 1..Len(heard) : heard[k] \in Seq(Unit)
  <2>1. /\ taken \in Nat /\ noticed \in Nat /\ dropped \in Nat /\ Len(arrived) \in Nat
        /\ arrived \in Seq(Record) /\ after \in {"select", "append", "notice", "done"}
    BY LenProperties DEF LogInv, TypeOK
  <2>2. heard \in Seq(Seq(Unit)) /\ Len(heard) = Len(arrived) + 1
    BY DEF LogInv, HeardType, HeardGrows
  <2>3. taken <= Len(arrived) /\ (Holding => taken > 0)
    BY DEF LogInv, InOrder, ChannelOrder
  <2>4. ReadUpTo \in 1..Len(heard)
    BY <2>1, <2>2, <2>3 DEF ReadUpTo
  <2> QED
    BY <2>1, <2>2, <2>4, ElementOfSeq
<1>a. ASSUME read' = read, noticed' = noticed, ReadUpTo' = ReadUpTo,
             heard'[ReadUpTo] = heard[ReadUpTo], AtNotice' => noticed = 0
      PROVE  ReadIsHeard'
  BY <1>a DEF LogInv, ReadIsHeard
<1>b. AtNotice => noticed = 0
  BY DEF LogInv, ReadIsHeard
<1>1. ASSUME NEW r \in Record, Add(r), LogNext PROVE ReadIsHeard'
  <2>1. UNCHANGED <<pc, after, taken, read, noticed>>
    BY <1>1 DEF Add, runVars, logVars
  <2>2. ReadUpTo' = ReadUpTo /\ AtNotice' = AtNotice
    BY <2>1 DEF ReadUpTo, Holding
  <2>3. heard'[ReadUpTo] = heard[ReadUpTo]
    <3>1. CASE arrived' = arrived
      BY <1>1, <3>1 DEF LogNext
    <3>2. CASE arrived' # arrived
      <4>1. /\ arrived' = Append(arrived, r) /\ arrived'[Len(arrived')] = r
        <5>1. arrived' = Append(arrived, r)
          BY <1>1, <3>2 DEF Add, Enqueue, Overflow
        <5> QED
          BY <1>0, <1>1, <5>1, AppendProperties
      <4>2. heard' = Append(heard, heard[Len(heard)] \o Text(r))
        BY <1>1, <3>2, <4>1 DEF LogNext
      <4>3. heard[Len(heard)] \o Text(r) \in Seq(Unit)
        BY <1>0, <1>1, TextType, ConcatProperties
      <4> QED
        BY <1>0, <4>2, <4>3, AppendProperties
    <3> QED
      BY <3>1, <3>2
  <2> QED
    BY <1>a, <1>b, <2>1, <2>2, <2>3
<1>c. ASSUME LogNext, arrived' = arrived, read' = read, noticed' = noticed,
             ReadUpTo' = ReadUpTo, AtNotice' => noticed = 0
      PROVE  ReadIsHeard'
  <2>1. heard' = heard
    BY <1>c DEF LogNext
  <2> QED
    BY <1>a, <1>c, <2>1
<1>d. pc \in {"select", "append"} => noticed = 0
  BY DEF LogInv, EndsInOrder, Ending
<1>2. CASE LogNext /\ (Close \/ CloseReturn)
  <2>1. UNCHANGED <<pc, after, taken, read, noticed, arrived>>
    BY <1>2 DEF Close, CloseReturn, queueVars, runVars, logVars
  <2>2. ReadUpTo' = ReadUpTo /\ AtNotice' = AtNotice
    BY <2>1 DEF ReadUpTo, Holding
  <2> QED
    BY <1>2, <1>b, <1>c, <2>1, <2>2
<1>3. CASE LogNext /\ TakeRecord
  <2>1. /\ pc = "select" /\ taken' = taken + 1 /\ UNCHANGED <<read, noticed, arrived>>
        /\ Holding'
    BY <1>3 DEF TakeRecord, Flush, Holding
  <2>2. ReadUpTo' = ReadUpTo
    BY <2>1 DEF ReadUpTo, Holding
  <2> QED
    BY <1>3, <1>c, <1>d, <2>1, <2>2
<1>4. CASE LogNext /\ AppendRecord
  <2>1. /\ pc = "append" /\ read' = read \o Text(held[1])
        /\ UNCHANGED <<taken, noticed, arrived>>
        /\ pc' = "select" \/ (pc' = "send" /\ after' = "select")
    BY <1>4 DEF AppendRecord, Flush, queueVars
  <2>2. /\ heard' = heard /\ noticed = 0 /\ noticed' = 0
        /\ Holding /\ ~Holding' /\ ~AtNotice'
    BY <1>4, <1>d, <2>1 DEF LogNext, Holding
  <2>3. /\ ReadUpTo = taken /\ ReadUpTo' = taken + 1 /\ taken \in DOMAIN arrived
        /\ held[1] = arrived[taken]
    <3>1. taken > 0 /\ taken <= Len(arrived) /\ held[1] = arrived[taken]
      BY <2>2 DEF LogInv, InOrder, ChannelOrder
    <3> QED
      BY <1>0, <2>1, <2>2, <3>1, LenProperties DEF ReadUpTo
  <2>4. heard[taken + 1] = heard[taken] \o Text(arrived[taken])
    BY <2>3 DEF LogInv, HeardGrows
  <2>5. read = heard[taken]
    BY <2>2, <2>3 DEF LogInv, ReadIsHeard
  <2>6. read' = heard'[ReadUpTo']
    BY <2>1, <2>2, <2>3, <2>4, <2>5
  <2> QED
    BY <2>2, <2>6 DEF ReadIsHeard
<1>5. CASE LogNext /\ (Tick \/ Drained)
  <2>1. /\ pc = "select" /\ UNCHANGED <<taken, read, noticed, arrived>> /\ ~Holding'
    BY <1>5 DEF Tick, Drained, Flush, queueVars, logVars, Holding
  <2>2. ReadUpTo' = ReadUpTo
    BY <2>1 DEF ReadUpTo, Holding
  <2> QED
    BY <1>5, <1>c, <1>d, <2>1, <2>2
<1>6. CASE LogNext /\ WriteNotice
  <2>1. /\ pc = "notice" /\ read' = read \o NoticeText /\ noticed' = dropped
        /\ UNCHANGED <<taken, arrived>> /\ pc' = "send" /\ after' = "done"
    BY <1>6 DEF WriteNotice, Flush, queueVars, NoticeText
  <2>2. heard' = heard /\ noticed = 0 /\ dropped > 0
    BY <1>6, <1>b, <2>1 DEF LogNext, LogInv, EndsInOrder
  <2>3. ReadUpTo' = ReadUpTo /\ ~AtNotice'
    BY <2>1 DEF ReadUpTo, Holding
  <2>4. read = heard[ReadUpTo]
    BY <2>2 DEF LogInv, ReadIsHeard
  <2>5. read' = heard'[ReadUpTo'] \o NoticeText
    BY <2>1, <2>2, <2>3, <2>4
  <2> QED
    BY <1>0, <2>1, <2>2, <2>3, <2>5 DEF ReadIsHeard
<1>7. ASSUME NEW ok \in BOOLEAN, SendPart(ok), LogNext PROVE ReadIsHeard'
  <2>1. UNCHANGED <<pc, after, taken, read, noticed, arrived>>
    BY <1>7 DEF SendPart, queueVars
  <2>2. ReadUpTo' = ReadUpTo /\ AtNotice' = AtNotice
    BY <2>1 DEF ReadUpTo, Holding
  <2> QED
    BY <1>7, <1>b, <1>c, <2>1, <2>2
<1>8. CASE LogNext /\ SendDone
  <2>1. /\ pc = "send" /\ pc' = after /\ after' = after
        /\ UNCHANGED <<taken, read, noticed, arrived>>
    BY <1>8 DEF SendDone, queueVars, logVars
  <2>2. ReadUpTo' = ReadUpTo /\ (AtNotice' => AtNotice)
    BY <1>0, <2>1 DEF ReadUpTo, Holding
  <2> QED
    BY <1>8, <1>b, <1>c, <2>1, <2>2
<1>9. CASE UNCHANGED logSpecVars
  <2>1. UNCHANGED <<pc, after, taken, read, noticed, heard>>
    BY <1>9 DEF logSpecVars, vars, runVars, logVars
  <2>2. ReadUpTo' = ReadUpTo /\ AtNotice' = AtNotice
    BY <2>1 DEF ReadUpTo, Holding
  <2> QED
    BY <1>a, <1>b, <2>1, <2>2
<1>10. CASE LogNext
  <2>1. Next
    BY <1>10 DEF LogNext
  <2> QED
    BY <1>1, <1>2, <1>3, <1>4, <1>5, <1>6, <1>7, <1>8, <1>10, <2>1 DEF Next, Run
<1> QED
  BY <1>9, <1>10

-----------------------------------------------------------------------------
(***************************************************************************)
(* What the invariant says of the abstract state.                          *)
(***************************************************************************)

(* Before the notice, what was posted begins the text accepted. *)
LEMMA PostedIsAccepted ==
    ASSUME LogInv, noticed = 0
    PROVE  Log!Extends(Accepted, posted)
<1> DEFINE h == heard[ReadUpTo]
<1>1. /\ posted \in Seq(Unit) /\ sending \in Seq(Unit) /\ buffer \in Seq(Unit)
      /\ posted \o sending \in Seq(Unit) /\ read \in Seq(Unit)
  BY ConcatProperties DEF LogInv, TypeOK
<1>2. ReadUpTo \in DOMAIN heard /\ Accepted \in Seq(Unit) /\ h \in Seq(Unit)
  <2>1. /\ taken \in Nat /\ Len(arrived) \in Nat /\ heard \in Seq(Seq(Unit))
        /\ Len(heard) = Len(arrived) + 1 /\ DOMAIN heard = 1..Len(heard)
    BY LenProperties DEF LogInv, TypeOK, HeardType, HeardGrows
  <2>2. taken <= Len(arrived) /\ (Holding => taken > 0)
    BY DEF LogInv, InOrder, ChannelOrder
  <2>3. ReadUpTo \in 1..Len(heard) /\ Len(heard) \in 1..Len(heard)
    BY <2>1, <2>2 DEF ReadUpTo
  <2> QED
    BY <2>1, <2>3, ElementOfSeq DEF Accepted
<1>3. Log!Extends(Accepted, h)
  BY <1>2 DEF LogInv, HeardGrows, Accepted
<1>4. h = (posted \o sending) \o buffer
  BY DEF LogInv, ReadIsHeard, InOrder, TextOrder
<1> HIDE DEF h
<1>5. Log!Extends(h, posted \o sending)
  BY <1>1, <1>4, ExtendsConcat
<1>6. Log!Extends(posted \o sending, posted)
  BY <1>1, ExtendsConcat
<1> QED
  BY <1>1, <1>2, <1>3, <1>5, <1>6, ExtendsTransitive

(* Once the notice is written, all that was accepted has been posted, and  *)
(* the notice is the only text after it.                                   *)
LEMMA NoticeComesLast ==
    ASSUME LogInv, noticed > 0
    PROVE  /\ closed /\ noticed = dropped /\ dropped > 0 /\ Shown = Accepted
           /\ sending = NoticeText \/ sending = << >>
           /\ pc = "done" => sending = << >>
<1>1. /\ noticed \in Nat /\ posted \in Seq(Unit) /\ Accepted \in Seq(Unit)
      /\ taken \in Nat /\ Len(arrived) \in Nat /\ Len(heard) = Len(arrived) + 1
  <2>1. /\ noticed \in Nat /\ posted \in Seq(Unit)
        /\ taken \in Nat /\ Len(arrived) \in Nat
    BY LenProperties DEF LogInv, TypeOK
  <2>2. heard \in Seq(Seq(Unit)) /\ Len(heard) = Len(arrived) + 1
    BY DEF LogInv, HeardType, HeardGrows
  <2> QED
    BY <2>1, <2>2, ElementOfSeq DEF Accepted
<1>2. /\ Ending /\ closed /\ events = << >>
      /\ pc = "done" \/ (pc = "send" /\ after = "done")
  BY <1>1 DEF LogInv, EndsInOrder, Ending, ReadIsHeard
<1>3. noticed = dropped /\ dropped > 0 /\ buffer = << >>
  BY <1>1, <1>2 DEF LogInv, EndsInOrder, Shape
<1>4. /\ sending = NoticeText \/ sending = << >>
      /\ pc = "done" => sending = << >>
  BY <1>2, <1>3 DEF LogInv, EndsInOrder, Shape
<1>5. ~Holding /\ taken = Len(arrived)
  BY <1>2, EmptyMeansTaken DEF LogInv, Holding
<1>6. heard[ReadUpTo] = Accepted
  BY <1>1, <1>5 DEF ReadUpTo, Accepted
<1>7. posted \o sending = Accepted \o NoticeText
  <2>1. posted \o sending \o buffer = Accepted \o NoticeText
    BY <1>6 DEF LogInv, ReadIsHeard, InOrder, TextOrder
  <2>2. posted \o sending \in Seq(Unit)
    BY ConcatProperties DEF LogInv, TypeOK
  <2> QED
    BY <1>3, <2>1, <2>2, ConcatEmptySeq
<1>8. Shown = Accepted
  <2>1. CASE sending = NoticeText
    <3>1. ~Told
      BY <2>1 DEF Told, NoticeText
    <3>2. posted = Accepted
      BY <1>1, <1>7, <2>1, NoticeType, ConcatSimplifications
    <3> QED
      BY <3>1, <3>2 DEF Shown
  <2>2. CASE sending = << >>
    <3>1. Told /\ posted = Accepted \o NoticeText
      BY <1>1, <1>7, <2>2, ConcatEmptySeq DEF Told
    <3>2. Len(posted) - 1 = Len(Accepted)
      <4>1. Len(posted) = Len(Accepted) + 1 /\ Len(Accepted) \in Nat
        <5>1. NoticeText \in Seq(Unit) /\ Len(NoticeText) = 1 /\ Accepted \in Seq(Unit)
          BY <1>1, NoticeType
        <5>2. Len(Accepted \o NoticeText) = Len(Accepted) + Len(NoticeText)
          BY <5>1, ConcatProperties
        <5>3. Len(Accepted) \in Nat
          BY <5>1, LenProperties
        <5> QED
          BY <3>1, <5>1, <5>2, <5>3
      <4> QED
        BY <4>1
    <3>3. SubSeq(posted, 1, Len(Accepted)) = Accepted
      BY <1>1, <3>1, NoticeType, ExtendsConcat DEF Log!Extends
    <3> QED
      BY <3>1, <3>2, <3>3 DEF Shown
  <2> QED
    BY <1>4, <2>1, <2>2
<1> QED
  BY <1>2, <1>3, <1>4, <1>8

(* When the goroutine is done, everything was posted and told. *)
LEMMA DoneMeansAll ==
    ASSUME LogInv, pc = "done"
    PROVE  closed /\ Shown = Accepted /\ ToldOf = dropped
<1>1. /\ closed /\ events = << >> /\ noticed = dropped /\ noticed \in Nat
      /\ buffer = << >> /\ sending = << >>
  BY DEF LogInv, EndsInOrder, Ending, Shape, TypeOK
<1>2. CASE noticed > 0
  BY <1>1, <1>2, NoticeComesLast DEF ToldOf, Told
<1>3. CASE noticed = 0
  <2>1. ReadUpTo = Len(heard)
    <3>1. taken = Len(arrived)
      BY EmptyMeansTaken, <1>1 DEF LogInv
    <3>2. Len(heard) = Len(arrived) + 1 /\ ~Holding
      BY DEF LogInv, HeardGrows, Holding
    <3> QED
      BY <3>1, <3>2 DEF ReadUpTo
  <2>2. posted \o sending \o buffer = Accepted
    BY <1>3, <2>1 DEF LogInv, ReadIsHeard, InOrder, TextOrder, Accepted
  <2>3. posted = Accepted
    BY <1>1, <2>2, ConcatEmptySeq DEF LogInv, TypeOK
  <2> QED
    BY <1>1, <1>3, <2>3 DEF ToldOf, Told, Shown
<1> QED
  BY <1>1, <1>2, <1>3

(* The same, as facts of one state: what was posted, the notice aside, is  *)
(* the beginning of what was accepted, and all of it once there is one.    *)
PostedFits == /\ noticed = 0 => Log!Extends(Accepted, posted)
              /\ noticed > 0 => Shown = Accepted

-----------------------------------------------------------------------------
(***************************************************************************)
(* The simulation: each step of the batcher is a step of the log, or none. *)
(***************************************************************************)

(* The batcher starts as an empty log. *)
LEMMA InitLog == LogInit => LogInv /\ Log!Init
<1> SUFFICES ASSUME LogInit PROVE LogInv /\ Log!Init
  OBVIOUS
<1>1. Init /\ heard = << << >> >> /\ << >> \in Seq(Unit)
  BY EmptySeq DEF LogInit
<1>2. /\ Len(heard) = 1 /\ heard[1] = << >> /\ heard \in Seq(Seq(Unit))
      /\ DOMAIN heard = 1..1
  BY <1>1
<1>3. TypeOK /\ Shape
  BY <1>1, InitTypes
<1>4. ChannelOrder
  <2>1. /\ arrived = << >> /\ events = << >> /\ taken = 0 /\ Len(arrived) = 0
        /\ pc = "select"
    BY <1>1, EmptySeq DEF Init
  <2>2. SubSeq(arrived, 1, 0) = << >>
    BY <2>1, SubSeqEmpty
  <2> QED
    BY <2>1, <2>2 DEF ChannelOrder, Holding
<1>5. TextOrder
  BY <1>1, ConcatEmptySeq DEF Init, TextOrder
<1>6. EndsInOrder
  BY <1>1 DEF Init, EndsInOrder, Ending
<1>7. HeardGrows
  <2>1. Len(arrived) = 0 /\ DOMAIN arrived = {}
    BY <1>1, EmptySeq DEF Init
  <2>2. Log!Extends(<< >>, << >>)
    BY <1>1, ExtendsConcat
  <2>3. \A k \in DOMAIN heard : Log!Extends(heard[Len(heard)], heard[k])
    BY <1>2, <2>2
  <2> QED
    BY <1>2, <2>1, <2>3 DEF HeardGrows
<1>8. ReadIsHeard
  BY <1>1, <1>2 DEF Init, ReadIsHeard, ReadUpTo, Holding
<1>9. Log!Init
  BY <1>1, <1>2 DEF Init, Log!Init, Accepted, Shown, ToldOf, Told, Failed, Phase
<1> QED
  BY <1>2, <1>3, <1>4, <1>5, <1>6, <1>7, <1>8, <1>9 DEF LogInv, InOrder, HeardType

(* A post shows more of the text, or is the notice. *)
LEMMA SendPartStep ==
    ASSUME LogInv, PostedFits', NEW ok \in BOOLEAN, SendPart(ok), heard' = heard
    PROVE  Log!Show \/ Log!Tell
<1>1. PICK cut \in Cuts(sending) :
         /\ posted' = posted \o SubSeq(sending, 1, cut)
         /\ sending' = SubSeq(sending, cut + 1, Len(sending))
  BY DEF SendPart
<1>2. /\ pc = "send" /\ sending # << >> /\ ~returned
      /\ UNCHANGED <<pc, after, noticed, dropped, closed, returned, arrived>>
  BY DEF SendPart, queueVars, LogInv, EndsInOrder
<1>3. /\ posted \in Seq(Unit) /\ sending \in Seq(Unit) /\ noticed \in Nat
      /\ firstErr \in Nat /\ Len(posts) \in Nat /\ cut \in 1..Len(sending)
      /\ Len(sending) \in Nat
  BY LenProperties, SizeAssumption DEF LogInv, TypeOK, Cuts
<1>4. Failed' \in BOOLEAN /\ (Failed => Failed')
  BY <1>3 DEF SendPart, recordError, Failed
<1>5. Accepted' = Accepted /\ Phase' = Phase /\ Phase # "finished"
  BY <1>2 DEF Accepted, Phase
<1>6. CASE noticed = 0
  <2>1. /\ Shown = posted /\ Shown' = posted' /\ ToldOf = 0 /\ ToldOf' = 0
    BY <1>2, <1>6 DEF Shown, ToldOf, Told
  <2>2. SubSeq(sending, 1, cut) \in Seq(Unit)
    BY <1>3, SubSeqProperties
  <2>3. Log!Extends(posted', posted)
    BY <1>1, <1>3, <2>2, ExtendsConcat
  <2>4. Log!Extends(Accepted, posted')
    <3>1. (noticed = 0)'
      BY <1>2, <1>6
    <3>2. Log!Extends(Accepted', posted')
      BY <3>1 DEF PostedFits, Log!Extends
    <3> QED
      BY <1>5, <3>2
  <2> QED
    BY <1>2, <1>4, <1>5, <2>1, <2>3, <2>4 DEF Log!Show
<1>7. CASE noticed > 0
  <2>1. /\ closed /\ noticed = dropped /\ dropped > 0 /\ Shown = Accepted
        /\ sending = NoticeText
    BY <1>2, <1>7, NoticeComesLast
  <2>2. sending' = << >>
    <3>1. cut = 1 /\ Len(sending) = 1
      BY <1>3, <2>1, NoticeType
    <3> QED
      BY <1>1, <3>1, SubSeqEmpty
  <2>3. Shown' = Accepted'
    <3>1. (noticed > 0)'
      BY <1>2, <1>7
    <3> QED
      BY <3>1 DEF PostedFits
  <2>4. ToldOf = 0 /\ ToldOf' = dropped /\ Phase = "ending"
    BY <1>2, <1>7, <2>1, <2>2 DEF ToldOf, Told, Phase
  <2> QED
    BY <1>2, <1>4, <1>5, <2>1, <2>3, <2>4 DEF Log!Tell
<1> QED
  BY <1>3, <1>6, <1>7

(* Every step of the batcher. *)
LEMMA NextLog ==
    LogInv /\ PostedFits' /\ [LogNext]_logSpecVars => [Log!Next]_Log!vars
<1> SUFFICES ASSUME LogInv, PostedFits', [LogNext]_logSpecVars
             PROVE  Log!Next \/ UNCHANGED Log!vars
  OBVIOUS
<1>0. /\ noticed \in Nat /\ dropped \in Nat /\ returned \in BOOLEAN /\ closed \in BOOLEAN
      /\ heard \in Seq(Seq(Unit)) /\ Len(heard) = Len(arrived) + 1
      /\ Len(arrived) \in Nat /\ arrived \in Seq(Record) /\ Accepted \in Seq(Unit)
  <2>1. /\ noticed \in Nat /\ dropped \in Nat /\ returned \in BOOLEAN /\ closed \in BOOLEAN
        /\ Len(arrived) \in Nat /\ arrived \in Seq(Record)
    BY LenProperties DEF LogInv, TypeOK
  <2>2. heard \in Seq(Seq(Unit)) /\ Len(heard) = Len(arrived) + 1
    BY DEF LogInv, HeardType, HeardGrows
  <2> QED
    BY <2>1, <2>2, ElementOfSeq DEF Accepted
<1>r. returned => closed
  BY DEF LogInv, EndsInOrder, Ending
<1>a. ASSUME heard' = heard, UNCHANGED <<dropped, posted, firstErr, returned, closed>>,
             noticed' = noticed, noticed = 0 \/ sending' = sending
      PROVE  UNCHANGED Log!vars
  <2>1. Told' = Told /\ Accepted' = Accepted /\ Failed' = Failed /\ Phase' = Phase
    BY <1>0, <1>a DEF Told, Accepted, Failed, Phase
  <2>2. Shown' = Shown /\ ToldOf' = ToldOf
    BY <1>a, <2>1 DEF Shown, ToldOf
  <2> QED
    BY <1>a, <2>1, <2>2 DEF Log!vars
<1>b. pc \in {"select", "append"} => noticed = 0
  BY DEF LogInv, EndsInOrder, Ending
<1>1. ASSUME NEW r \in Record, Add(r), LogNext PROVE Log!Next \/ UNCHANGED Log!vars
  <2>1. /\ ~closed /\ ~returned
        /\ UNCHANGED <<closed, returned, posted, firstErr, noticed, sending>>
    BY <1>1, <1>r DEF Add, runVars, logVars
  <2>2. /\ Phase = "open" /\ Phase' = "open" /\ Told' = Told /\ Failed' = Failed
    BY <2>1 DEF Phase, Told, Failed
  <2>3. Shown' = Shown /\ ToldOf' = ToldOf
    BY <2>1, <2>2 DEF Shown, ToldOf
  <2>4. CASE Enqueue(r)
    <3>1. arrived' = Append(arrived, r) /\ dropped' = dropped
      BY <2>4 DEF Enqueue
    <3>2. /\ Len(arrived') = Len(arrived) + 1 /\ arrived'[Len(arrived')] = r
          /\ arrived' # arrived
      BY <1>0, <1>1, <3>1, AppendProperties
    <3>3. heard' = Append(heard, Accepted \o Text(r))
      BY <1>1, <3>2 DEF LogNext, Accepted
    <3>4. Accepted \o Text(r) \in Seq(Unit) /\ Text(r) \in Seq(Unit)
      BY <1>0, <1>1, TextType, ConcatProperties
    <3>5. Accepted' = Accepted \o Text(r)
      <4>1. /\ Len(Append(heard, Accepted \o Text(r))) = Len(heard) + 1
            /\ Append(heard, Accepted \o Text(r))[Len(heard) + 1] = Accepted \o Text(r)
        BY <1>0, <3>4, AppendProperties
      <4> QED
        BY <3>3, <4>1 DEF Accepted
    <3>6. Log!Extends(Accepted', Accepted)
      BY <1>0, <3>4, <3>5, ExtendsConcat
    <3> QED
      BY <2>2, <2>3, <3>1, <3>6 DEF Log!Next, Log!Accept
  <2>5. CASE Overflow(r)
    <3>1. arrived' = arrived /\ dropped' = dropped + Len(r.data) /\ heard' = heard
      BY <1>1, <2>5 DEF Overflow, LogNext
    <3>2. Len(r.data) \in Nat /\ Len(r.data) > 0
      BY <1>1, RecordAssumption, EmptySeq, LenProperties
    <3>3. dropped' > dropped /\ Accepted' = Accepted
      BY <1>0, <3>1, <3>2 DEF Accepted
    <3> QED
      BY <2>2, <2>3, <3>3 DEF Log!Next, Log!Omit
  <2> QED
    BY <1>1, <2>4, <2>5 DEF Add
<1>c. ASSUME LogNext, arrived' = arrived PROVE heard' = heard
  BY <1>c DEF LogNext
<1>2. CASE LogNext /\ Close
  <2>1. /\ ~closed /\ ~returned /\ closed'
        /\ UNCHANGED <<returned, posted, firstErr, noticed, sending, dropped, arrived>>
    BY <1>2, <1>r DEF Close, runVars, logVars
  <2>2. /\ Phase = "open" /\ Phase' = "ending" /\ Told' = Told /\ Failed' = Failed
        /\ Accepted' = Accepted
    BY <1>2, <1>c, <2>1 DEF Phase, Told, Failed, Accepted
  <2>3. Shown' = Shown /\ ToldOf' = ToldOf
    BY <2>1, <2>2 DEF Shown, ToldOf
  <2> QED
    BY <2>1, <2>2, <2>3 DEF Log!Next, Log!End
<1>3. CASE LogNext /\ CloseReturn
  <2>1. /\ closed /\ pc = "done" /\ ~returned /\ returned'
        /\ UNCHANGED <<closed, posted, firstErr, noticed, sending, dropped, arrived>>
    BY <1>3 DEF CloseReturn, queueVars, runVars, logVars
  <2>2. /\ Phase = "ending" /\ Phase' = "finished" /\ Told' = Told /\ Failed' = Failed
        /\ Accepted' = Accepted
    BY <1>3, <1>c, <2>1 DEF Phase, Told, Failed, Accepted
  <2>3. Shown' = Shown /\ ToldOf' = ToldOf
    BY <2>1, <2>2 DEF Shown, ToldOf
  <2>4. Shown = Accepted /\ ToldOf = dropped
    BY <2>1, DoneMeansAll
  <2> QED
    BY <2>1, <2>2, <2>3, <2>4 DEF Log!Next, Log!Finish
<1>4. CASE LogNext /\ (TakeRecord \/ AppendRecord \/ Tick \/ Drained)
  <2>1. /\ pc \in {"select", "append"} /\ noticed' = noticed
        /\ UNCHANGED <<dropped, posted, firstErr, returned, closed, arrived>>
    BY <1>4 DEF TakeRecord, AppendRecord, Tick, Drained, queueVars, logVars
  <2> QED
    BY <1>4, <1>a, <1>b, <1>c, <2>1
<1>5. CASE LogNext /\ WriteNotice
  <2>1. /\ pc = "notice" /\ noticed' = dropped /\ sending' = NoticeText
        /\ UNCHANGED <<dropped, posted, firstErr, returned, closed, arrived>>
    BY <1>5 DEF WriteNotice, Flush, NoticeText, queueVars
  <2>2. noticed = 0 /\ ~Told
    BY <2>1 DEF LogInv, ReadIsHeard, Told
  <2>3. ~Told'
    BY <2>1 DEF Told, NoticeText
  <2>4. /\ Shown' = Shown /\ ToldOf' = ToldOf /\ Accepted' = Accepted
        /\ Failed' = Failed /\ Phase' = Phase
    BY <1>5, <1>c, <2>1, <2>2, <2>3 DEF Shown, ToldOf, Accepted, Failed, Phase
  <2> QED
    BY <2>1, <2>4 DEF Log!vars
<1>6. ASSUME NEW ok \in BOOLEAN, SendPart(ok), LogNext PROVE Log!Next
  <2>1. heard' = heard
    BY <1>6, <1>c DEF SendPart, queueVars
  <2> QED
    BY <1>6, <2>1, SendPartStep DEF Log!Next
<1>7. CASE LogNext /\ SendDone
  <2>1. /\ noticed' = noticed /\ sending' = sending
        /\ UNCHANGED <<dropped, posted, firstErr, returned, closed, arrived>>
    BY <1>7 DEF SendDone, queueVars, logVars
  <2> QED
    BY <1>7, <1>a, <1>c, <2>1
<1>8. CASE UNCHANGED logSpecVars
  <2>1. /\ heard' = heard /\ noticed' = noticed /\ sending' = sending
        /\ UNCHANGED <<dropped, posted, firstErr, returned, closed>>
    BY <1>8 DEF logSpecVars, vars, queueVars, runVars, logVars
  <2> QED
    BY <1>a, <2>1
<1>9. CASE LogNext
  <2>1. Next
    BY <1>9 DEF LogNext
  <2> QED
    BY <1>1, <1>2, <1>3, <1>4, <1>5, <1>6, <1>7, <1>9, <2>1 DEF Next, Run
<1> QED
  BY <1>8, <1>9

(* Every invariant the simulation needs, at every step. *)
LEMMA NextLogInv == LogInv /\ [LogNext]_logSpecVars => LogInv'
<1> SUFFICES ASSUME LogInv, [LogNext]_logSpecVars PROVE LogInv'
  OBVIOUS
<1>1. [Next]_vars
  BY DEF LogNext, logSpecVars
<1>2. TypeOK' /\ Shape'
  BY <1>1, NextTypes DEF LogInv
<1>3. InOrder'
  BY <1>1, NextChannelOrder, NextTextOrder DEF LogInv, InOrder
<1>4. EndsInOrder'
  BY <1>1, NextEnd DEF LogInv
<1>5. HeardType' /\ HeardGrows'
  BY NextHeardGrows DEF LogInv
<1>6. ReadIsHeard'
  BY NextReadIsHeard
<1> QED
  BY <1>2, <1>3, <1>4, <1>5, <1>6 DEF LogInv

(* Between the channel, the hand, the buffer and the post in progress no   *)
(* accepted text is lost, and the notice comes after all of it.            *)
THEOREM ReadIsAccepted == LogSpec => []ReadIsHeard
<1>1. LogInv => ReadIsHeard
  BY DEF LogInv
<1> QED
  BY <1>1, InitLog, NextLogInv, PTL DEF LogSpec

(* The batcher implements the abstract log: what Add accepts is shown in   *)
(* order, what it drops is told once and last, and Close returns only when *)
(* both are done.                                                          *)
THEOREM BatcherImplementsLog == LogSpec => ImplementsRunLog
<1>1. LogInv => PostedFits
  BY PostedIsAccepted, NoticeComesLast DEF PostedFits
<1> QED
  BY <1>1, InitLog, NextLogInv, NextLog, PTL DEF LogSpec, ImplementsRunLog, Log!Spec

=============================================================================
