--------------------------- MODULE SessionProofs ---------------------------
(***************************************************************************)
(* Proofs about Session, for any capacities of the queue and the network   *)
(* and any number of writes of any size.  The argument: what the relay has *)
(* decoded, what is on the wire and what upload has in hand are together a *)
(* beginning of the accepted events, and all but the queue's as long as no *)
(* encoding failed; what is accepted has the form of the protocol; and a   *)
(* success needs a response that is only given at the end of the body.     *)
(***************************************************************************)
EXTENDS Session, SequenceTheorems, WellFoundedInduction, TLAPS

(* Events are events. *)
LEMMA EventTypes ==
    /\ StartEvent \in Event /\ ExitEvent \in Event
    /\ \A n \in Nat, bytes \in Nat : Output(n, bytes) \in Event /\ NoticeEvent(bytes) \in Event
BY DEF StartEvent, ExitEvent, Output, NoticeEvent, Event

(* What is in the channel, in hand, on the wire and at the relay *)
QueueTypes ==
    /\ events \in Seq(Event) /\ Len(events) <= QueueSize
    /\ accepted \in Seq(Event)
WireTypes ==
    /\ inHand \in Seq(Event) /\ Len(inHand) <= 1
    /\ wire \in Seq(Event) /\ Len(wire) <= NetBuffer
    /\ received \in Seq(Event)

(* The wrapper's variables *)
MainTypes ==
    /\ main \in {"start", "running", "closing", "await", "returned"}
    /\ closed \in BOOLEAN
    /\ dropped \in Nat /\ writes \in 0..MaxWrites /\ written \in Nat
    /\ result \in {"none", "ok", "error"}

(* Those of upload and of the connection *)
UpTypes ==
    /\ up \in {"new", "take", "encode", "response", "ended"}
    /\ encodeErr \in BOOLEAN /\ bodyEnd \in BOOLEAN
    /\ done \in {"none", "ok", "error"}
    /\ conn \in {"idle", "dialing", "open", "shut"}
    /\ response \in {"none", "ok", "refused", "broken"}

Types == QueueTypes /\ WireTypes /\ MainTypes /\ UpTypes

(* Where upload is says whether it has an event in hand; after a failed    *)
(* encoding it never has one again.                                        *)
Hand ==
    /\ IF up = "encode" THEN Len(inHand) = 1 ELSE inHand = << >>
    /\ encodeErr => up # "encode"

(* An event that is accepted is an event, and there was room for it. *)
LEMMA EnqueueTypes ==
    ASSUME QueueTypes, NEW e \in Event, Enqueue(e)
    PROVE  QueueTypes'
<1>1. /\ events' = Append(events, e) /\ accepted' = Append(accepted, e)
      /\ Len(events) < QueueSize
  BY DEF Enqueue, Room
<1>2. /\ events' \in Seq(Event) /\ Len(events') = Len(events) + 1
      /\ accepted' \in Seq(Event)
  BY <1>1, AppendProperties DEF QueueTypes
<1>3. Len(events) \in Nat
  BY LenProperties DEF QueueTypes
<1> QED
  BY <1>1, <1>2, <1>3, SessionAssumption DEF QueueTypes

(* The initial state has the types, and nothing is in hand. *)
LEMMA InitTypes == Init => Types /\ Hand
<1> SUFFICES ASSUME Init PROVE Types /\ Hand
  OBVIOUS
<1>1. << >> \in Seq(Event) /\ Len(<< >>) = 0
  BY EmptySeq
<1>2. QueueTypes /\ WireTypes
  BY <1>1, SessionAssumption DEF Init, QueueTypes, WireTypes
<1>3. closed \in BOOLEAN /\ encodeErr \in BOOLEAN /\ bodyEnd \in BOOLEAN
  BY DEF Init
<1>4. MainTypes /\ UpTypes
  BY <1>3, SessionAssumption DEF Init, MainTypes, UpTypes
<1> QED
  BY <1>2, <1>4 DEF Types, Hand, Init

(* Every step of the wrapper keeps the types. *)
LEMMA WrapperTypes == Types /\ Hand /\ Wrapper => Types' /\ Hand'
<1> SUFFICES ASSUME Types, Hand, Wrapper PROVE Types' /\ Hand'
  OBVIOUS
<1>1. UNCHANGED <<upVars, netVars>>
  BY DEF Wrapper, SendStart, CloseNotice, CloseExit, CloseExitTimeout, AwaitResult,
         AwaitTimeout, Write
<1>2. WireTypes' /\ UpTypes' /\ Hand'
  BY <1>1 DEF Types, WireTypes, UpTypes, Hand, upVars, netVars
<1>3. CASE SendStart
  <2>1. QueueTypes'
    BY <1>3, EventTypes, EnqueueTypes DEF SendStart, Types
  <2> QED
    BY <1>2, <1>3, <2>1 DEF SendStart, Types, MainTypes
<1>4. ASSUME NEW bytes \in Sizes, Write(bytes) PROVE Types' /\ Hand'
  <2>1. bytes \in Nat /\ writes \in Nat /\ writes + 1 \in 0..MaxWrites
    BY <1>4, SessionAssumption DEF Write, Types, MainTypes
  <2>2. MainTypes'
    BY <1>4, <2>1 DEF Write, Types, MainTypes
  <2>3. CASE Enqueue(Output(writes + 1, bytes))
    BY <1>2, <2>1, <2>2, <2>3, EventTypes, EnqueueTypes DEF Types
  <2>4. CASE UNCHANGED <<events, accepted>>
    BY <1>2, <2>2, <2>4 DEF Types, QueueTypes
  <2> QED
    BY <1>4, <2>3, <2>4 DEF Write
<1>5. CASE CloseNotice
  <2>1. MainTypes'
    BY <1>5 DEF CloseNotice, Types, MainTypes
  <2>2. CASE Enqueue(NoticeEvent(dropped))
    <3>1. dropped \in Nat
      BY DEF Types, MainTypes
    <3> QED
      BY <1>2, <2>1, <2>2, <3>1, EventTypes, EnqueueTypes DEF Types
  <2>3. CASE UNCHANGED <<events, accepted>>
    BY <1>2, <2>1, <2>3 DEF Types, QueueTypes
  <2> QED
    BY <1>5, <2>2, <2>3 DEF CloseNotice
<1>6. CASE CloseExit
  <2>1. QueueTypes'
    BY <1>6, EventTypes, EnqueueTypes DEF CloseExit, Types
  <2>2. MainTypes'
    BY <1>6 DEF CloseExit, Types, MainTypes
  <2> QED
    BY <1>2, <2>1, <2>2 DEF Types
<1>7. CASE CloseExitTimeout \/ AwaitTimeout
  BY <1>2, <1>7 DEF CloseExitTimeout, AwaitTimeout, Types, MainTypes, QueueTypes
<1>8. CASE AwaitResult
  BY <1>2, <1>8 DEF AwaitResult, Types, MainTypes, UpTypes, QueueTypes
<1> QED
  BY <1>3, <1>4, <1>5, <1>6, <1>7, <1>8 DEF Wrapper

(* Every step of upload and of the network keeps them.                     *)
LEMMA OtherTypes ==
    Types /\ Hand /\ (Upload \/ Network \/ UNCHANGED vars) => Types' /\ Hand'
<1> SUFFICES ASSUME Types, Hand, Upload \/ Network \/ UNCHANGED vars PROVE Types' /\ Hand'
  OBVIOUS
<1>1. MainTypes'
  BY DEF Upload, Network, NewRequest, Take, Encode, EncodeFails, PipeClose, Finish, Dialed, Broken,
         RelayReads, RelayRefuses, RelayAccepts, BodyShut, vars, mainVars, Types, MainTypes
<1>2. CASE NewRequest
  BY <1>1, <1>2 DEF NewRequest, Types, QueueTypes, WireTypes, UpTypes, Hand
<1>3. CASE Take
  <2>1. /\ Head(events) \in Event /\ Tail(events) \in Seq(Event)
        /\ Len(Tail(events)) = Len(events) - 1 /\ Len(events) \in Nat
    BY <1>3, HeadTailProperties, LenProperties DEF Take, Types, QueueTypes
  <2>2. QueueTypes'
    BY <1>3, <2>1, SessionAssumption DEF Take, Types, QueueTypes
  <2>3. <<Head(events)>> \in Seq(Event) /\ Len(<<Head(events)>>) = 1
    BY <2>1
  <2>4. \/ UNCHANGED <<up, inHand>>
        \/ up' = "encode" /\ inHand' = <<Head(events)>> /\ ~encodeErr
    BY <1>3 DEF Take
  <2>5. UNCHANGED <<encodeErr, bodyEnd, done, netVars>>
    BY <1>3 DEF Take
  <2>6. inHand' \in Seq(Event) /\ Len(inHand') <= 1 /\ up' \in {"take", "encode"} /\ Hand'
    <3>1. CASE UNCHANGED <<up, inHand>>
      BY <1>3, <3>1 DEF Take, Hand, Types, WireTypes
    <3>2. CASE up' = "encode" /\ inHand' = <<Head(events)>> /\ ~encodeErr
      BY <2>3, <2>5, <3>2 DEF Hand
    <3> QED
      BY <2>4, <3>1, <3>2
  <2>7. WireTypes' /\ UpTypes'
    BY <2>5, <2>6 DEF Types, WireTypes, UpTypes, netVars
  <2> QED
    BY <1>1, <2>2, <2>6, <2>7 DEF Types
<1>4. CASE Encode
  <2>1. /\ Len(inHand) = 1 /\ wire' = wire \o inHand /\ inHand' = << >> /\ up' = "take"
        /\ Len(wire) < NetBuffer
        /\ UNCHANGED <<events, accepted, encodeErr, bodyEnd, done, conn, response, received>>
    BY <1>4 DEF Encode, Hand
  <2>2. wire' \in Seq(Event) /\ Len(wire') = Len(wire) + 1 /\ Len(wire) \in Nat
    <3>1. wire \in Seq(Event) /\ inHand \in Seq(Event)
      BY DEF Types, WireTypes
    <3>2. wire \o inHand \in Seq(Event) /\ Len(wire \o inHand) = Len(wire) + Len(inHand)
      BY <3>1, ConcatProperties
    <3>3. Len(wire) \in Nat
      BY <3>1, LenProperties
    <3> QED
      BY <2>1, <3>2, <3>3
  <2>3. inHand' \in Seq(Event) /\ Len(inHand') = 0
    BY <2>1, EmptySeq
  <2>4. WireTypes'
    BY <2>1, <2>2, <2>3, SessionAssumption DEF Types, WireTypes
  <2> QED
    BY <1>1, <2>1, <2>4 DEF Types, QueueTypes, UpTypes, Hand
<1>5. CASE EncodeFails
  BY <1>1, <1>5, EmptySeq DEF EncodeFails, Types, QueueTypes, WireTypes, UpTypes, Hand, netVars
<1>6. CASE PipeClose
  <2>1. bodyEnd' \in BOOLEAN
    BY <1>6 DEF PipeClose
  <2> QED
    BY <1>1, <1>6, <2>1 DEF PipeClose, Types, QueueTypes, WireTypes, UpTypes, Hand, netVars
<1>7. CASE Finish
  BY <1>1, <1>7 DEF Finish, Types, QueueTypes, WireTypes, UpTypes, Hand, netVars
<1>8. CASE RelayReads
  <2>1. /\ Head(wire) \in Event /\ Tail(wire) \in Seq(Event)
        /\ Len(Tail(wire)) = Len(wire) - 1 /\ Len(wire) \in Nat
    BY <1>8, HeadTailProperties, LenProperties DEF RelayReads, Types, WireTypes
  <2>2. received' \in Seq(Event)
    BY <1>8, <2>1, AppendProperties DEF RelayReads, Types, WireTypes
  <2>3. WireTypes'
    BY <1>8, <2>1, <2>2, SessionAssumption DEF RelayReads, Types, WireTypes, upVars
  <2> QED
    BY <1>1, <1>8, <2>3 DEF RelayReads, Types, QueueTypes, UpTypes, Hand, upVars
<1>9. CASE Dialed \/ Broken \/ RelayRefuses \/ RelayAccepts \/ BodyShut
  BY <1>1, <1>9 DEF Dialed, Broken, RelayRefuses, RelayAccepts, BodyShut, Types, QueueTypes,
                    WireTypes, UpTypes, Hand, upVars
<1>10. CASE UNCHANGED vars
  BY <1>1, <1>10 DEF vars, upVars, netVars, Types, QueueTypes, WireTypes, UpTypes, Hand
<1> QED
  BY <1>2, <1>3, <1>4, <1>5, <1>6, <1>7, <1>8, <1>9, <1>10 DEF Upload, Network

(* Types hold in every reachable state. *)
LEMMA Typing == Spec => [](Types /\ Hand)
<1>1. Types /\ Hand /\ [Next]_vars => Types' /\ Hand'
  BY WrapperTypes, OtherTypes DEF Next
<1> QED
  BY <1>1, InitTypes, PTL DEF Spec

-----------------------------------------------------------------------------
(***************************************************************************)
(* Order: events only move along.                                          *)
(***************************************************************************)

(* A sequence is its head followed by its tail, wherever they are put.     *)
LEMMA HeadThenTail ==
    ASSUME NEW s \in Seq(Event), s # << >>
    PROVE  <<Head(s)>> \o Tail(s) = s
<1> DEFINE joined == <<Head(s)>> \o Tail(s)
<1>1. /\ <<Head(s)>> \in Seq(Event) /\ Tail(s) \in Seq(Event)
      /\ Len(Tail(s)) = Len(s) - 1
      /\ \A i \in 1..Len(Tail(s)) : Tail(s)[i] = s[i + 1]
  BY HeadTailProperties
<1>2. Len(<<Head(s)>>) = 1 /\ <<Head(s)>>[1] = Head(s)
  OBVIOUS
<1>3. /\ joined \in Seq(Event) /\ Len(joined) = 1 + Len(Tail(s))
      /\ \A i \in 1..(1 + Len(Tail(s))) :
            joined[i] = IF i <= 1 THEN <<Head(s)>>[i] ELSE Tail(s)[i - 1]
  <2>1. /\ joined \in Seq(Event) /\ Len(joined) = Len(<<Head(s)>>) + Len(Tail(s))
        /\ \A i \in 1..(Len(<<Head(s)>>) + Len(Tail(s))) :
              joined[i] = IF i <= Len(<<Head(s)>>) THEN <<Head(s)>>[i]
                          ELSE Tail(s)[i - Len(<<Head(s)>>)]
    BY <1>1, ConcatProperties
  <2> QED
    BY <1>2, <2>1
<1>4. Len(s) \in Nat \ {0} /\ Head(s) = s[1]
  BY EmptySeq
<1> HIDE DEF joined
<1>5. Len(joined) = Len(s)
  BY <1>1, <1>3, <1>4
<1>6. ASSUME NEW i \in 1..Len(joined) PROVE joined[i] = s[i]
  <2>1. CASE i = 1
    BY <1>2, <1>3, <1>4, <1>5, <2>1
  <2>2. CASE i > 1
    <3>1. i - 1 \in 1..Len(Tail(s)) /\ joined[i] = Tail(s)[i - 1]
      BY <1>1, <1>3, <1>4, <1>5, <2>2
    <3>2. Tail(s)[i - 1] = s[(i - 1) + 1]
      BY <1>1, <3>1
    <3> QED
      BY <3>1, <3>2
  <2> QED
    BY <1>4, <1>5, <2>1, <2>2
<1>7. joined = s
  BY <1>3, <1>5, <1>6, SeqEqual
<1> QED
  BY <1>7 DEF joined

(* An event that goes from the front of one sequence to the end of the one *)
(* before it stays where it is in both together.                           *)
LEMMA MoveHead ==
    ASSUME NEW r \in Seq(Event), NEW w \in Seq(Event), w # << >>
    PROVE  Append(r, Head(w)) \o Tail(w) = r \o w
<1>1. Head(w) \in Event /\ <<Head(w)>> \in Seq(Event) /\ Tail(w) \in Seq(Event)
  BY HeadTailProperties
<1>2. Append(r, Head(w)) = r \o <<Head(w)>>
  BY <1>1, AppendIsConcat
<1>3. (r \o <<Head(w)>>) \o Tail(w) = r \o (<<Head(w)>> \o Tail(w))
  BY <1>1, ConcatAssociative
<1> QED
  BY <1>2, <1>3, HeadThenTail

(* What the relay has and will get, then the rest; and the rest is on its  *)
(* way unless an encoding failed.                                          *)
Flow == \E rest \in Seq(Event) :
            /\ (received \o wire) \o rest = accepted
            /\ encodeErr \/ rest = inHand \o events

(* An event that is accepted is the last of the rest. *)
LEMMA EnqueueFlow ==
    ASSUME Types, Flow, NEW e \in Event, Enqueue(e), UNCHANGED <<upVars, netVars>>
    PROVE  Flow'
<1>1. PICK rest \in Seq(Event) : /\ (received \o wire) \o rest = accepted
                                 /\ encodeErr \/ rest = inHand \o events
  BY DEF Flow
<1>2. /\ events \in Seq(Event) /\ accepted \in Seq(Event) /\ inHand \in Seq(Event)
      /\ received \o wire \in Seq(Event) /\ <<e>> \in Seq(Event)
  BY ConcatProperties DEF Types, QueueTypes, WireTypes
<1>3. events' = events \o <<e>> /\ accepted' = accepted \o <<e>>
  BY <1>2, AppendIsConcat DEF Enqueue
<1>4. UNCHANGED <<received, wire, inHand, encodeErr>>
  BY DEF upVars, netVars
<1>5. (received \o wire) \o (rest \o <<e>>) = accepted'
  <2> DEFINE sent == received \o wire
  <2>1. sent \in Seq(Event) /\ <<e>> \in Seq(Event) /\ sent \o rest = accepted
    BY <1>1, <1>2
  <2> HIDE DEF sent
  <2>2. (sent \o rest) \o <<e>> = sent \o (rest \o <<e>>)
    BY <2>1, ConcatAssociative
  <2>3. sent \o (rest \o <<e>>) = accepted'
    BY <1>3, <2>1, <2>2
  <2> QED
    BY <2>3 DEF sent
<1>6. encodeErr \/ rest \o <<e>> = inHand \o events'
  <2>1. (inHand \o events) \o <<e>> = inHand \o (events \o <<e>>)
    BY SMTT(30), <1>2, ConcatAssociative
  <2> QED
    BY <1>1, <1>3, <2>1
<1>7. rest \o <<e>> \in Seq(Event)
  BY <1>2, ConcatProperties
<1> QED
  BY <1>4, <1>5, <1>6, <1>7 DEF Flow

(* Every step keeps the flow: the wrapper extends it at one end, upload,   *)
(* the wire and the relay move events along, and a failed encoding cuts    *)
(* off the rest for good.                                                  *)
LEMMA NextFlow == Types /\ Hand /\ Flow /\ [Next]_vars => Flow'
<1> SUFFICES ASSUME Types, Hand, Flow, [Next]_vars PROVE Flow'
  OBVIOUS
<1>1. /\ events \in Seq(Event) /\ accepted \in Seq(Event) /\ inHand \in Seq(Event)
      /\ received \in Seq(Event) /\ wire \in Seq(Event)
  BY DEF Types, QueueTypes, WireTypes
<1>2. PICK rest \in Seq(Event) : /\ (received \o wire) \o rest = accepted
                                 /\ encodeErr \/ rest = inHand \o events
  BY DEF Flow
<1>3. CASE UNCHANGED <<events, accepted, inHand, encodeErr, wire, received>>
  BY <1>3 DEF Flow
<1>4. CASE SendStart
  BY <1>4, EnqueueFlow, EventTypes DEF SendStart
<1>5. ASSUME NEW bytes \in Sizes, Write(bytes) PROVE Flow'
  <2>1. Output(writes + 1, bytes) \in Event
    <3>1. bytes \in Nat /\ writes + 1 \in Nat
      BY SessionAssumption DEF Types, MainTypes
    <3> QED
      BY <3>1, EventTypes
  <2>2. CASE Enqueue(Output(writes + 1, bytes))
    BY <1>5, <2>1, <2>2, EnqueueFlow DEF Write
  <2>3. CASE UNCHANGED <<events, accepted>>
    BY <1>3, <1>5, <2>3 DEF Write, upVars, netVars
  <2> QED
    BY <1>5, <2>2, <2>3 DEF Write
<1>6. CASE CloseNotice
  <2>1. NoticeEvent(dropped) \in Event
    BY EventTypes DEF Types, MainTypes
  <2>2. CASE Enqueue(NoticeEvent(dropped))
    BY <1>6, <2>1, <2>2, EnqueueFlow DEF CloseNotice
  <2>3. CASE UNCHANGED <<events, accepted>>
    BY <1>3, <1>6, <2>3 DEF CloseNotice, upVars, netVars
  <2> QED
    BY <1>6, <2>2, <2>3 DEF CloseNotice
<1>7. CASE CloseExit
  BY <1>7, EnqueueFlow, EventTypes DEF CloseExit
<1>8. CASE Take
  <2>1. UNCHANGED <<received, wire, accepted, encodeErr>> /\ events' = Tail(events)
        /\ events # << >> /\ inHand = << >>
    BY <1>8 DEF Take, netVars, Hand
  <2>2. CASE encodeErr
    BY <1>2, <2>1, <2>2 DEF Flow
  <2>3. CASE ~encodeErr
    <3>1. inHand' = <<Head(events)>>
      BY <1>8, <2>3 DEF Take
    <3>2. Tail(events) \in Seq(Event)
      BY <1>1, <2>1, HeadTailProperties
    <3>3. <<Head(events)>> \o Tail(events) = events
      BY <1>1, <2>1, HeadThenTail
    <3>4. inHand \o events = events
      BY <1>1, <2>1, ConcatEmptySeq
    <3> QED
      BY <1>2, <2>1, <2>3, <3>1, <3>2, <3>3, <3>4 DEF Flow
  <2> QED
    BY <2>2, <2>3
<1>9. CASE Encode
  <2>1. /\ wire' = wire \o inHand /\ inHand' = << >>
        /\ UNCHANGED <<events, accepted, encodeErr, received>>
    BY <1>9 DEF Encode
  <2>2. CASE encodeErr
    BY <1>9, <2>2 DEF Encode, Hand
  <2>3. CASE ~encodeErr
    <3>1. accepted = (received \o wire) \o (inHand \o events)
      BY <1>2, <2>3
    <3>2. accepted = ((received \o wire) \o inHand) \o events
      BY SMTT(30), <1>1, <3>1, ConcatProperties, ConcatAssociative
    <3>3. (received \o wire) \o inHand = received \o (wire \o inHand)
      BY SMTT(30), <1>1, ConcatAssociative
    <3>4. inHand' \o events = events
      BY <1>1, <2>1, ConcatEmptySeq
    <3> QED
      BY <1>1, <2>1, <3>2, <3>3, <3>4 DEF Flow
  <2> QED
    BY <2>2, <2>3
<1>10. CASE EncodeFails
  BY <1>2, <1>10 DEF EncodeFails, Flow, netVars
<1>11. CASE RelayReads
  <2>1. /\ received' = Append(received, Head(wire)) /\ wire' = Tail(wire) /\ wire # << >>
        /\ UNCHANGED <<events, accepted, inHand, encodeErr>>
    BY <1>11 DEF RelayReads, upVars
  <2>2. received' \o wire' = received \o wire
    BY <1>1, <2>1, MoveHead
  <2> QED
    BY <1>2, <2>1, <2>2 DEF Flow
<1>12. CASE CloseExitTimeout \/ AwaitResult \/ AwaitTimeout
  BY <1>3, <1>12 DEF CloseExitTimeout, AwaitResult, AwaitTimeout, upVars, netVars
<1>13. CASE NewRequest \/ PipeClose \/ Finish
  BY <1>3, <1>13 DEF NewRequest, PipeClose, Finish, netVars
<1>14. CASE Dialed \/ Broken \/ RelayRefuses \/ RelayAccepts \/ BodyShut
  BY <1>3, <1>14 DEF Dialed, Broken, RelayRefuses, RelayAccepts, BodyShut, upVars
<1>15. CASE UNCHANGED vars
  BY <1>3, <1>15 DEF vars, upVars, netVars
<1> QED
  BY <1>4, <1>5, <1>6, <1>7, <1>8, <1>9, <1>10, <1>11, <1>12, <1>13, <1>14, <1>15
     DEF Next, Wrapper, Upload, Network

-----------------------------------------------------------------------------
(***************************************************************************)
(* Form: what is accepted keeps to the protocol.                           *)
(***************************************************************************)
Start  == \A i \in 1..Len(accepted) : accepted[i].type = "start" <=> i = 1
Exit   == \A i \in 1..Len(accepted) :
              accepted[i].type = "exit" => i = Len(accepted) /\ accepted[i] = ExitEvent
Notice == \A i \in 1..Len(accepted) : accepted[i].type = "notice" =>
              \A j \in (i + 1)..Len(accepted) : accepted[j].type = "exit"
Phase ==
    /\ main = "start" <=> accepted = << >>
    /\ main \in {"start", "running"} =>
          \A i \in 1..Len(accepted) : accepted[i].type \in {"start", "output"}
    /\ main \in {"start", "running", "closing"} =>
          \A i \in 1..Len(accepted) : accepted[i].type # "exit"

Form == Start /\ Exit /\ Notice /\ Phase

(* What an accepted event does to the sequence. *)
LEMMA EnqueueElements ==
    ASSUME Types, NEW e \in Event, Enqueue(e)
    PROVE  /\ Len(accepted) \in Nat /\ Len(accepted') = Len(accepted) + 1
           /\ accepted' # << >> /\ accepted'[Len(accepted')] = e
           /\ \A i \in 1..Len(accepted) : accepted'[i] = accepted[i]
<1>1. accepted \in Seq(Event) /\ accepted' = Append(accepted, e)
  BY DEF Types, QueueTypes, Enqueue
<1> QED
  BY <1>1, AppendProperties, LenProperties

(* The wrapper sends the start event first, output while it is running,    *)
(* a notice when it begins to close, and the exit event once.              *)
LEMMA NextForm == Types /\ Form /\ [Next]_vars => Form'
<1> SUFFICES ASSUME Types, Form, [Next]_vars PROVE Form'
  OBVIOUS
<1> USE DEF Form, Start, Exit, Notice, Phase
<1>0. (accepted = << >>) <=> (Len(accepted) = 0)
  BY EmptySeq DEF Types, QueueTypes
<1>1. CASE UNCHANGED <<main, accepted>>
  BY <1>1
<1>2. CASE SendStart
  <2>1. Len(accepted) = 0 /\ main = "start" /\ main' = "running" /\ Enqueue(StartEvent)
    BY <1>0, <1>2 DEF SendStart
  <2>2. StartEvent \in Event /\ StartEvent.type = "start"
    BY EventTypes DEF StartEvent
  <2>3. Len(accepted') = 1 /\ accepted' # << >> /\ accepted'[1] = StartEvent
    BY <2>1, <2>2, EnqueueElements
  <2> QED
    BY <2>1, <2>2, <2>3
<1>3. ASSUME NEW bytes \in Sizes, Write(bytes) PROVE Form'
  <2>1. CASE UNCHANGED accepted
    BY <1>3, <2>1 DEF Write
  <2>2. CASE Enqueue(Output(writes + 1, bytes))
    <3>1. bytes \in Nat /\ writes + 1 \in Nat
      BY SessionAssumption DEF Types, MainTypes
    <3>2. Output(writes + 1, bytes) \in Event /\ Output(writes + 1, bytes).type = "output"
      BY <3>1, EventTypes DEF Output
    <3>3. main = "running" /\ main' = "running"
      BY <1>3 DEF Write
    <3>4. Len(accepted) \in Nat \ {0}
      BY <1>0, <2>2, <3>2, <3>3, EnqueueElements
    <3> HIDE DEF Form, Start, Exit, Notice, Phase
    <3>5. /\ Len(accepted') = Len(accepted) + 1 /\ accepted' # << >>
          /\ accepted'[Len(accepted')].type = "output"
          /\ \A i \in 1..Len(accepted) : accepted'[i] = accepted[i]
      BY <2>2, <3>2, EnqueueElements
    <3>6. Start'
      BY <3>4, <3>5 DEF Form, Start
    <3>7. \A i \in 1..Len(accepted') : accepted'[i].type \in {"start", "output"}
      BY <3>3, <3>4, <3>5 DEF Form, Phase
    <3>8. Exit' /\ Notice' /\ Phase'
      BY <3>3, <3>5, <3>7 DEF Exit, Notice, Phase
    <3> QED
      BY <3>6, <3>8 DEF Form
  <2> QED
    BY <1>3, <2>1, <2>2 DEF Write
<1>4. CASE CloseNotice
  <2>1. main = "running" /\ main' = "closing"
    BY <1>4 DEF CloseNotice
  <2>2. CASE UNCHANGED accepted
    BY <2>1, <2>2
  <2>3. CASE Enqueue(NoticeEvent(dropped))
    <3>1. NoticeEvent(dropped) \in Event /\ NoticeEvent(dropped).type = "notice"
      BY EventTypes DEF NoticeEvent, Types, MainTypes
    <3>2. Len(accepted) \in Nat \ {0}
      BY <1>0, <2>1, <2>3, <3>1, EnqueueElements
    <3> HIDE DEF Form, Start, Exit, Notice, Phase
    <3>3. /\ Len(accepted') = Len(accepted) + 1 /\ accepted' # << >>
          /\ accepted'[Len(accepted')].type = "notice"
          /\ \A i \in 1..Len(accepted) : accepted'[i] = accepted[i]
      BY <2>3, <3>1, EnqueueElements
    <3>4. \A i \in 1..Len(accepted) : accepted'[i].type \in {"start", "output"}
      BY <2>1, <3>3 DEF Form, Phase
    <3>5. Start'
      BY <3>2, <3>3 DEF Form, Start
    <3>6. \A i \in 1..Len(accepted') : accepted'[i].type # "exit"
      BY <3>2, <3>3, <3>4
    <3>7. Exit' /\ Phase'
      BY <2>1, <3>3, <3>6 DEF Exit, Phase
    <3>8. Notice'
      BY <3>2, <3>3, <3>4 DEF Notice
    <3> QED
      BY <3>5, <3>7, <3>8 DEF Form
  <2> QED
    BY <1>4, <2>2, <2>3 DEF CloseNotice
<1>5. CASE CloseExit
  <2>1. main = "closing" /\ main' = "await" /\ Enqueue(ExitEvent)
    BY <1>5 DEF CloseExit
  <2>2. ExitEvent \in Event /\ ExitEvent.type = "exit"
    BY EventTypes DEF ExitEvent
  <2>3. Len(accepted) \in Nat \ {0}
    BY <1>0, <2>1, <2>2, EnqueueElements
  <2> HIDE DEF Form, Start, Exit, Notice, Phase
  <2>4. /\ Len(accepted') = Len(accepted) + 1 /\ accepted' # << >>
        /\ accepted'[Len(accepted')] = ExitEvent
        /\ \A i \in 1..Len(accepted) : accepted'[i] = accepted[i]
    BY <2>1, <2>2, EnqueueElements
  <2>5. Start'
    BY <2>2, <2>3, <2>4 DEF Form, Start
  <2>6. \A i \in 1..Len(accepted) : accepted'[i].type # "exit"
    BY <2>1, <2>4 DEF Form, Phase
  <2>7. Exit' /\ Phase'
    BY <2>1, <2>3, <2>4, <2>6 DEF Exit, Phase
  <2>8. Notice'
    <3> SUFFICES ASSUME NEW i \in 1..Len(accepted'), accepted'[i].type = "notice",
                        NEW j \in (i + 1)..Len(accepted')
                 PROVE  accepted'[j].type = "exit"
      BY DEF Notice
    <3>1. i \in 1..Len(accepted) /\ accepted[i].type = "notice"
      BY <2>3, <2>4
    <3>2. CASE j \in (i + 1)..Len(accepted)
      <4>1. accepted[j].type = "exit" /\ j \in 1..Len(accepted)
        BY <2>3, <3>1, <3>2 DEF Form, Notice
      <4> QED
        BY <2>4, <4>1
    <3>3. CASE j = Len(accepted')
      BY <2>2, <2>4, <3>3
    <3> QED
      BY <2>3, <2>4, <3>2, <3>3
  <2> QED
    BY <2>5, <2>7, <2>8 DEF Form
<1>6. CASE CloseExitTimeout
  BY <1>6 DEF CloseExitTimeout
<1>7. CASE AwaitResult \/ AwaitTimeout
  BY <1>7 DEF AwaitResult, AwaitTimeout
<1>8. CASE Upload
  BY <1>1, <1>8 DEF Upload, NewRequest, Take, Encode, EncodeFails, PipeClose, Finish, mainVars
<1>9. CASE Network \/ UNCHANGED vars
  BY <1>1, <1>9 DEF Network, Dialed, Broken, RelayReads, RelayRefuses, RelayAccepts, BodyShut,
                    vars, mainVars
<1> QED
  BY <1>2, <1>3, <1>4, <1>5, <1>6, <1>7, <1>8, <1>9 DEF Next, Wrapper

(* The form holds at the start, when nothing is accepted. *)
LEMMA InitForm == Init => Form /\ Flow
<1> SUFFICES ASSUME Init PROVE Form /\ Flow
  OBVIOUS
<1>1. accepted = << >> /\ Len(accepted) = 0 /\ main = "start"
  BY EmptySeq DEF Init
<1>2. Form
  BY <1>1 DEF Form, Start, Exit, Notice, Phase
<1>3. << >> \in Seq(Event) /\ << >> \o << >> = << >>
  BY EmptySeq, ConcatEmptySeq
<1>4. Flow
  BY <1>3 DEF Init, Flow
<1> QED
  BY <1>2, <1>4

(* What the relay has decoded is a beginning of what was accepted. *)
LEMMA Beginning ==
    ASSUME Types, Flow
    PROVE  /\ received \in Seq(Event) /\ accepted \in Seq(Event)
           /\ Len(received) \in Nat /\ Len(accepted) \in Nat
           /\ Len(received) <= Len(accepted)
           /\ \A i \in 1..Len(received) : accepted[i] = received[i]
<1>1. PICK rest \in Seq(Event) : (received \o wire) \o rest = accepted
  BY DEF Flow
<1>2. /\ accepted \in Seq(Event) /\ received \in Seq(Event)
      /\ wire \in Seq(Event) /\ wire \o rest \in Seq(Event)
  BY ConcatProperties DEF Types, QueueTypes, WireTypes
<1>3. accepted = received \o (wire \o rest)
  <2>1. received \in Seq(Event) /\ wire \in Seq(Event) /\ rest \in Seq(Event)
    BY <1>1, <1>2
  <2>2. (received \o wire) \o rest = received \o (wire \o rest)
    BY <2>1, ConcatAssociative
  <2> QED
    BY <1>1, <2>2, Zenon
<1> DEFINE later == wire \o rest
<1>4. later \in Seq(Event) /\ accepted = received \o later
  BY <1>2, <1>3
<1> HIDE DEF later
<1>5. Len(received) \in Nat /\ Len(later) \in Nat
  BY <1>2, <1>4, LenProperties
<1>6. /\ Len(accepted) = Len(received) + Len(later)
      /\ \A i \in 1..(Len(received) + Len(later)) :
            accepted[i] = IF i <= Len(received) THEN received[i] ELSE later[i - Len(received)]
  BY <1>2, <1>4, ConcatProperties
<1> QED
  BY <1>2, <1>5, <1>6

(* Flow and form together are what the relay may rely on. *)
LEMMA FlowMeansOrder == Types /\ Flow /\ Form => Safety
<1> SUFFICES ASSUME Types, Flow, Form PROVE Safety
  OBVIOUS
<1>1. PICK rest \in Seq(Event) : /\ (received \o wire) \o rest = accepted
                                 /\ encodeErr \/ rest = inHand \o events
  BY DEF Flow
<1>2. /\ events \in Seq(Event) /\ accepted \in Seq(Event) /\ inHand \in Seq(Event)
      /\ received \in Seq(Event) /\ wire \in Seq(Event)
  BY DEF Types, QueueTypes, WireTypes
<1>4. /\ Len(received) \in Nat /\ Len(accepted) \in Nat /\ Len(received) <= Len(accepted)
      /\ \A i \in 1..Len(received) : accepted[i] = received[i]
  BY Beginning
<1>5. IsPrefix(received, accepted)
  <2>1. SubSeq(received, 1, Len(received)) = received
    BY <1>2, SubSeqFull
  <2>2. SubSeq(accepted, 1, Len(received)) = received
    <3>1. \A i \in 1..Len(received) : accepted[i] \in Event
      BY <1>2, <1>4, ElementOfSeq
    <3>2. /\ SubSeq(accepted, 1, Len(received)) \in Seq(Event)
          /\ Len(SubSeq(accepted, 1, Len(received))) =
               IF 1 <= Len(received) THEN Len(received) - 1 + 1 ELSE 0
          /\ \A i \in 1..(Len(received) - 1 + 1) :
                SubSeq(accepted, 1, Len(received))[i] = accepted[1 + i - 1]
      BY <1>4, <3>1, SubSeqProperties
    <3>3. /\ Len(SubSeq(accepted, 1, Len(received))) = Len(received)
          /\ \A i \in 1..Len(received) : SubSeq(accepted, 1, Len(received))[i] = received[i]
      BY <1>4, <3>2
    <3> QED
      BY <1>2, <3>2, <3>3, SeqEqual
  <2> QED
    BY <1>4, <2>1, <2>2 DEF IsPrefix
<1>6. ~encodeErr => received \o wire \o inHand \o events = accepted
  <2> SUFFICES ASSUME ~encodeErr PROVE ((received \o wire) \o inHand) \o events = accepted
    OBVIOUS
  <2> DEFINE sent == received \o wire
  <2>1. sent \in Seq(Event) /\ sent \o (inHand \o events) = accepted
    BY <1>1, <1>2, ConcatProperties
  <2> HIDE DEF sent
  <2>2. sent \in Seq(Event) /\ inHand \in Seq(Event) /\ events \in Seq(Event)
    BY <1>2, <2>1
  <2>3. (sent \o inHand) \o events = sent \o (inHand \o events)
    BY <2>2, ConcatAssociative
  <2>4. (sent \o inHand) \o events = accepted
    BY <2>1, <2>3, Zenon
  <2> QED
    BY <2>4 DEF sent
<1>7. ProtocolOrder
  <2>1. DOMAIN received = 1..Len(received)
    BY <1>2, LenProperties
  <2> SUFFICES ASSUME NEW i \in 1..Len(received)
               PROVE  /\ received[i].type = "start" <=> i = 1
                      /\ received[i].type = "exit" => i = Len(received)
                      /\ received[i].type = "notice" =>
                            \A j \in (i+1)..Len(received) : received[j].type = "exit"
    BY <2>1 DEF ProtocolOrder
  <2>2. i \in 1..Len(accepted) /\ received[i] = accepted[i]
    BY <1>4
  <2>3. received[i].type = "start" <=> i = 1
    BY <2>2 DEF Form, Start
  <2>4. received[i].type = "exit" => i = Len(received)
    BY <1>4, <2>2 DEF Form, Exit
  <2>5. ASSUME received[i].type = "notice", NEW j \in (i+1)..Len(received)
        PROVE  received[j].type = "exit"
    <3>1. j \in (i+1)..Len(accepted) /\ j \in 1..Len(received)
      BY <1>4
    <3> QED
      BY <1>4, <2>2, <2>5, <3>1 DEF Form, Notice
  <2> QED
    BY <2>3, <2>4, <2>5
<1>8. TypeOK
  BY DEF Types, QueueTypes, WireTypes, MainTypes, UpTypes, TypeOK
<1> QED
  BY <1>5, <1>6, <1>7, <1>8 DEF Safety, RelayedInOrder

(* The relay sees a beginning of what was accepted, in the order of the    *)
(* protocol, whatever breaks or times out (session.go).                    *)
THEOREM SessionIsSafe == Spec => []Safety
<1>1. Spec => [](Types /\ Hand /\ Flow /\ Form)
  BY InitForm, Typing, NextFlow, NextForm, PTL DEF Spec
<1> QED
  BY <1>1, FlowMeansOrder, PTL

-----------------------------------------------------------------------------
(***************************************************************************)
(* Success: a 2xx counts only at the end of a whole body.                  *)
(***************************************************************************)
BodyComplete ==
    /\ closed <=> main \in {"await", "returned"}
    /\ bodyEnd => /\ closed /\ events = << >> /\ ~encodeErr
                  /\ up \in {"response", "ended"}
    /\ response = "ok" => /\ bodyEnd /\ wire = << >>
                          /\ \E i \in DOMAIN received : received[i].type = "exit"
    /\ done = "ok" => response = "ok"
    /\ result = "ok" => done = "ok"

(* Nothing is added to a body that has ended, and a result once given is   *)
(* not revised.                                                            *)
LEMMA NextBodyComplete == Types /\ BodyComplete /\ [Next]_vars => BodyComplete'
<1> SUFFICES ASSUME Types, BodyComplete, [Next]_vars PROVE BodyComplete'
  OBVIOUS
<1> USE DEF BodyComplete
<1>1. CASE SendStart \/ CloseNotice \/ (\E bytes \in Sizes : Write(bytes))
  <2>1. ~closed /\ ~closed' /\ main' \in {"running", "closing"} /\ UNCHANGED <<result, upVars, netVars>>
    BY <1>1 DEF SendStart, CloseNotice, Write
  <2> QED
    BY <2>1 DEF upVars, netVars
<1>2. CASE CloseExit \/ CloseExitTimeout
  <2>1. ~closed /\ closed' /\ main' = "await" /\ UNCHANGED <<result, upVars, netVars>>
    BY <1>2 DEF CloseExit, CloseExitTimeout
  <2> QED
    BY <2>1 DEF upVars, netVars
<1>3. CASE AwaitResult \/ AwaitTimeout
  <2>1. /\ main = "await" /\ main' = "returned" /\ (result' = "error" \/ result' = done)
        /\ UNCHANGED <<closed, events, upVars, netVars>>
    BY <1>3 DEF AwaitResult, AwaitTimeout
  <2> QED
    BY <2>1 DEF upVars, netVars
<1>4. CASE NewRequest
  BY <1>4 DEF NewRequest, mainVars
<1>5. CASE Take
  BY <1>5 DEF Take, mainVars, netVars
<1>6. CASE Encode
  BY <1>6 DEF Encode, mainVars
<1>7. CASE EncodeFails
  BY <1>7 DEF EncodeFails, mainVars, netVars
<1>8. CASE PipeClose
  <2>1. /\ closed /\ events = << >> /\ up = "take" /\ up' = "response" /\ bodyEnd' = ~encodeErr
        /\ UNCHANGED <<mainVars, events, encodeErr, done, netVars>>
    BY <1>8 DEF PipeClose
  <2>2. response # "ok"
    BY <2>1
  <2> QED
    BY <2>1, <2>2 DEF mainVars, netVars
<1>9. CASE Finish
  <2>1. /\ up = "response" /\ up' = "ended" /\ (done' = "ok" => response = "ok")
        /\ UNCHANGED <<mainVars, events, encodeErr, bodyEnd, netVars>>
    BY <1>9 DEF Finish
  <2>2. result = "ok" => response = "ok" /\ ~encodeErr
    OBVIOUS
  <2>3. result = "ok" => done' = "ok"
    BY <1>9, <2>2 DEF Finish
  <2> QED
    BY <2>1, <2>3 DEF mainVars, netVars
<1>10. CASE RelayReads
  <2>1. wire # << >> /\ UNCHANGED <<mainVars, events, upVars, conn, response>>
    BY <1>10 DEF RelayReads
  <2>2. response # "ok"
    BY <2>1
  <2> QED
    BY <2>1, <2>2 DEF mainVars, upVars
<1>11. CASE Dialed \/ BodyShut
  BY <1>11 DEF Dialed, BodyShut, mainVars, upVars
<1>12. CASE Broken \/ RelayRefuses
  BY <1>12 DEF Broken, RelayRefuses, mainVars, upVars
<1>13. CASE RelayAccepts
  BY <1>13 DEF RelayAccepts, mainVars, upVars
<1>14. CASE UNCHANGED vars
  BY <1>14 DEF vars, mainVars, upVars, netVars
<1> QED
  BY <1>1, <1>2, <1>3, <1>4, <1>5, <1>6, <1>7, <1>8, <1>9, <1>10, <1>11, <1>12, <1>13, <1>14
     DEF Next, Wrapper, Upload, Network

(* A body that was read to its end, with an exit event in it, is all that  *)
(* was accepted, and its last event is the exit event.                     *)
LEMMA WholeBody ==
    ASSUME Types, Hand, Flow, Form, BodyComplete, bodyEnd, wire = << >>,
           \E i \in DOMAIN received : received[i].type = "exit"
    PROVE  /\ received = accepted /\ accepted[Len(accepted)] = ExitEvent
           /\ main \in {"await", "returned"}
<1>1. closed /\ events = << >> /\ ~encodeErr /\ up \in {"response", "ended"}
  BY DEF BodyComplete
<1>2. inHand = << >>
  BY <1>1 DEF Hand
<1>3. received \in Seq(Event)
  BY DEF Types, WireTypes
<1>4. << >> \in Seq(Event) /\ << >> \o << >> = << >>
  BY EmptySeq, ConcatEmptySeq
<1>5. received = accepted
  <2>1. (received \o << >>) \o << >> = accepted
    BY <1>1, <1>2, <1>4 DEF Flow
  <2> QED
    BY <1>3, <2>1, ConcatEmptySeq
<1>6. PICK i \in 1..Len(accepted) : accepted[i].type = "exit"
  BY <1>3, <1>5, LenProperties
<1> QED
  BY <1>1, <1>5, <1>6 DEF Form, Exit, BodyComplete

(* A success means that the relay has decoded every accepted event, the    *)
(* exit event last, for any queue and any network (Close, upload).         *)
THEOREM SuccessMeansComplete == Spec => []SuccessIsComplete
<1>1. Init => BodyComplete
  BY DEF Init, BodyComplete
<1>2. Types /\ Hand /\ Flow /\ Form /\ BodyComplete => SuccessIsComplete
  BY WholeBody DEF BodyComplete, SuccessIsComplete
<1>3. Spec => [](Types /\ Hand /\ Flow /\ Form)
  BY InitForm, Typing, NextFlow, NextForm, PTL DEF Spec
<1> QED
  BY <1>1, <1>2, <1>3, NextBodyComplete, PTL DEF Spec

-----------------------------------------------------------------------------
(***************************************************************************)
(* The bytes of the output, which a recursive function sums up.            *)
(***************************************************************************)

(* A set of numbers that has 0 and with each number the next has them all. *)
LEMMA AllNumbers ==
    ASSUME NEW T \in SUBSET Nat, 0 \in T, \A n \in T : n + 1 \in T
    PROVE  T = Nat
<1> DEFINE Less == {p \in Nat \X Nat : p[1] < p[2]}
           Rest == Nat \ T
<1>1. IsWellFoundedOn(Less, Nat)
  BY NatLessThanWellFounded, Zenon DEF OpToRel
<1> SUFFICES ASSUME Rest # {} PROVE FALSE
  OBVIOUS
<1>2. Rest \subseteq Nat
  OBVIOUS
<1>3. \E x \in Rest : \A y \in Rest : ~(<<y, x>> \in Less)
  <2> HIDE DEF Less, Rest
  <2> QED
    BY <1>1, <1>2, WFMin
<1>4. PICK x \in Rest : \A y \in Rest : ~(y < x)
  BY <1>3
<1>5. x - 1 \in Nat /\ x - 1 \notin Rest
  BY <1>4
<1> QED
  BY <1>4, <1>5

Weight(e) == IF e.type = "output" THEN e.bytes ELSE 0

(* f sums up the first n elements of s. *)
Sums(f, s, n) == f = [k \in 0..n |-> IF k = 0 THEN 0 ELSE f[k - 1] + Weight(s[k])]

(* There is such a function for every sequence. *)
LEMMA SumsExist == \A s : \A n \in Nat : \E f : Sums(f, s, n)
<1> SUFFICES ASSUME NEW s PROVE \A n \in Nat : \E f : Sums(f, s, n)
  OBVIOUS
<1> DEFINE T == {n \in Nat : \E f : Sums(f, s, n)}
<1>1. 0 \in T
  <2>1. Sums([k \in 0..0 |-> 0], s, 0)
    BY DEF Sums
  <2> QED
    BY <2>1
<1>2. ASSUME NEW n \in T PROVE n + 1 \in T
  <2>1. PICK f : Sums(f, s, n)
    OBVIOUS
  <2> DEFINE g == [k \in 0..(n + 1) |-> IF k = n + 1 THEN f[n] + Weight(s[n + 1]) ELSE f[k]]
  <2>2. \A k \in 0..n : f[k] = IF k = 0 THEN 0 ELSE f[k - 1] + Weight(s[k])
    BY <2>1 DEF Sums
  <2>3. ASSUME NEW k \in 0..(n + 1)
        PROVE  g[k] = IF k = 0 THEN 0 ELSE g[k - 1] + Weight(s[k])
    <3>1. CASE k = n + 1
      BY <3>1
    <3>2. CASE k \in 0..n
      <4>1. k # n + 1 /\ (k # 0 => k - 1 \in 0..(n + 1) /\ k - 1 # n + 1)
        BY <3>2
      <4> QED
        BY <2>2, <3>2, <4>1
    <3> QED
      BY <3>1, <3>2
  <2>4. Sums(g, s, n + 1)
    <3>1. g = [k \in 0..(n + 1) |-> g[k]]
      OBVIOUS
    <3> HIDE DEF g
    <3> QED
      BY <2>3, <3>1 DEF Sums
  <2> QED
    BY <2>4
<1>3. T = Nat
  <2>1. T \in SUBSET Nat
    OBVIOUS
  <2> HIDE DEF T
  <2> QED
    BY <1>1, <1>2, <2>1, AllNumbers
<1> QED
  BY <1>3

(* OutputBytes is such a sum. *)
LEMMA BytesAreSum ==
    ASSUME NEW s, Len(s) \in Nat
    PROVE  \E f : Sums(f, s, Len(s)) /\ OutputBytes(s) = f[Len(s)]
<1> DEFINE f == CHOOSE h : Sums(h, s, Len(s))
<1>1. Sums(f, s, Len(s))
  BY SumsExist
<1>2. OutputBytes(s) = f[Len(s)]
  BY DEF OutputBytes, Sums, Weight
<1> QED
  BY <1>1, <1>2

(* Two sums of sequences that begin alike agree as far as that goes. *)
LEMMA SumsAgree ==
    ASSUME NEW s \in Seq(Event), NEW t \in Seq(Event), Len(s) <= Len(t),
           \A i \in 1..Len(s) : t[i] = s[i],
           NEW f, NEW g, Sums(f, s, Len(s)), Sums(g, t, Len(t))
    PROVE  f[Len(s)] = g[Len(s)] /\ f[Len(s)] \in Nat
<1> DEFINE T == {n \in Nat : n <= Len(s) => f[n] = g[n] /\ f[n] \in Nat}
<1>1. Len(s) \in Nat /\ Len(t) \in Nat
  BY LenProperties
<1>2. \A k \in 0..Len(s) : f[k] = IF k = 0 THEN 0 ELSE f[k - 1] + Weight(s[k])
  BY DEF Sums
<1>3. \A k \in 0..Len(t) : g[k] = IF k = 0 THEN 0 ELSE g[k - 1] + Weight(t[k])
  BY DEF Sums
<1>4. 0 \in T
  BY <1>1, <1>2, <1>3
<1>5. ASSUME NEW n \in T PROVE n + 1 \in T
  <2> SUFFICES ASSUME n + 1 <= Len(s) PROVE f[n + 1] = g[n + 1] /\ f[n + 1] \in Nat
    OBVIOUS
  <2>1. f[n] = g[n] /\ f[n] \in Nat
    BY <1>1
  <2>2. n + 1 \in 0..Len(s) /\ n + 1 \in 0..Len(t) /\ n + 1 \in 1..Len(s) /\ n + 1 # 0
    BY <1>1
  <2>3. f[n + 1] = f[n] + Weight(s[n + 1]) /\ g[n + 1] = g[n] + Weight(t[n + 1])
    BY <1>2, <1>3, <2>2
  <2>4. s[n + 1] \in Event
    BY <2>2, ElementOfSeq
  <2>5. Weight(s[n + 1]) \in Nat
    BY <2>4 DEF Weight, Event
  <2> QED
    BY <2>1, <2>2, <2>3, <2>5
<1>6. T = Nat
  <2>1. T \in SUBSET Nat
    OBVIOUS
  <2> HIDE DEF T
  <2> QED
    BY <1>4, <1>5, <2>1, AllNumbers
<1> QED
  BY <1>1, <1>6

(* No event, no bytes; and one event more adds its own. *)
LEMMA BytesOfNone == OutputBytes(<< >>) = 0
<1>1. Len(<< >>) = 0
  BY EmptySeq
<1>2. PICK f : Sums(f, << >>, 0) /\ OutputBytes(<< >>) = f[0]
  BY <1>1, BytesAreSum
<1> QED
  BY <1>2 DEF Sums

(* An event more adds its weight. *)
LEMMA BytesOfMore ==
    ASSUME NEW s \in Seq(Event), NEW e \in Event
    PROVE  /\ OutputBytes(Append(s, e)) = OutputBytes(s) + Weight(e)
           /\ OutputBytes(s) \in Nat
<1> DEFINE t == Append(s, e)
<1>1. /\ t \in Seq(Event) /\ Len(t) = Len(s) + 1 /\ Len(s) \in Nat
      /\ \A i \in 1..Len(s) : t[i] = s[i]
      /\ t[Len(s) + 1] = e
  BY AppendProperties, LenProperties
<1> HIDE DEF t
<1>2. PICK f : Sums(f, s, Len(s)) /\ OutputBytes(s) = f[Len(s)]
  BY <1>1, BytesAreSum
<1>3. PICK g : Sums(g, t, Len(t)) /\ OutputBytes(t) = g[Len(t)]
  BY <1>1, BytesAreSum
<1>4. f[Len(s)] = g[Len(s)] /\ f[Len(s)] \in Nat
  BY <1>1, <1>2, <1>3, SumsAgree
<1>5. g[Len(t)] = g[Len(s)] + Weight(e)
  <2>1. Len(t) \in 0..Len(t) /\ Len(t) # 0 /\ Len(t) - 1 = Len(s)
    BY <1>1
  <2>2. \A k \in 0..Len(t) : g[k] = IF k = 0 THEN 0 ELSE g[k - 1] + Weight(t[k])
    BY <1>3 DEF Sums
  <2>3. t[Len(t)] = e
    BY <1>1
  <2> QED
    BY <2>1, <2>2, <2>3
<1> QED
  BY <1>2, <1>3, <1>4, <1>5 DEF t

(* The sum of what is accepted and of what is counted, and the number a    *)
(* notice states; and the chunks keep the numbers they were written under. *)
Accounted == written = dropped + OutputBytes(accepted)
NoticeExact == \A i \in 1..Len(accepted) :
                  accepted[i].type = "notice" => accepted[i].bytes = dropped
Numbering ==
    /\ \A i \in 1..Len(accepted) : accepted[i].n <= writes
    /\ \A i, j \in 1..Len(accepted) :
          i < j /\ accepted[j].type = "output" => accepted[i].n < accepted[j].n

(* An event that is accepted adds its bytes, and is the last. *)
LEMMA EnqueueAccounts ==
    ASSUME Types, Numbering, NEW e \in Event, Enqueue(e),
           writes' \in Nat, e.n <= writes', writes <= writes', e.type = "output" => writes < e.n
    PROVE  Numbering' /\ OutputBytes(accepted') = OutputBytes(accepted) + Weight(e)
<1> DEFINE n == Len(accepted)
<1>1. /\ n \in Nat /\ Len(accepted') = n + 1 /\ accepted'[n + 1] = e
      /\ \A i \in 1..n : accepted'[i] = accepted[i]
  BY EnqueueElements
<1>2. accepted \in Seq(Event) /\ accepted' = Append(accepted, e)
  BY DEF Enqueue, Types, QueueTypes
<1>3. OutputBytes(accepted') = OutputBytes(accepted) + Weight(e)
  BY <1>2, BytesOfMore
<1>4. \A i \in 1..n : accepted[i].n \in Nat /\ accepted[i].n <= writes
  <2>1. \A i \in 1..n : accepted[i] \in Event
    BY <1>2, ElementOfSeq
  <2> QED
    BY <2>1 DEF Numbering, Event
<1>5. e.n \in Nat /\ writes \in Nat /\ writes' >= writes
  BY DEF Event, Types, MainTypes
<1> HIDE DEF n
<1>6. \A i \in 1..(n + 1) : i \in 1..n \/ i = n + 1
  BY <1>1
<1>7. ASSUME NEW i \in 1..(n + 1) PROVE accepted'[i].n <= writes'
  <2>1. CASE i = n + 1
    BY <1>1, <2>1
  <2>2. CASE i \in 1..n
    <3>1. accepted'[i].n \in Nat /\ accepted'[i].n <= writes
      BY <1>1, <1>4, <2>2
    <3> QED
      BY <1>5, <3>1
  <2> QED
    BY <1>6, <2>1, <2>2
<1>8. ASSUME NEW i \in 1..(n + 1), NEW j \in 1..(n + 1), i < j, accepted'[j].type = "output"
      PROVE  accepted'[i].n < accepted'[j].n
  <2>1. i \in 1..n /\ accepted'[i] = accepted[i]
    BY <1>1, <1>6, <1>8
  <2>2. CASE j = n + 1
    BY <1>1, <1>4, <1>5, <1>8, <2>1, <2>2
  <2>3. CASE j \in 1..n
    BY <1>1, <1>8, <2>1, <2>3 DEF Numbering, n
  <2> QED
    BY <1>6, <2>2, <2>3
<1>9. Numbering'
  BY <1>1, <1>7, <1>8 DEF Numbering
<1> QED
  BY <1>3, <1>9

(* Only writes change the sum: each adds its chunk to one of its sides.    *)
LEMMA NextAccounted ==
    Types /\ Form /\ Accounted /\ NoticeExact /\ Numbering /\ [Next]_vars
        => Accounted' /\ NoticeExact' /\ Numbering'
<1> SUFFICES ASSUME Types, Form, Accounted, NoticeExact, Numbering, [Next]_vars
             PROVE  Accounted' /\ NoticeExact' /\ Numbering'
  OBVIOUS
<1>1. CASE UNCHANGED <<accepted, dropped, writes, written>>
  BY <1>1 DEF Accounted, NoticeExact, Numbering
<1>2. dropped \in Nat /\ writes \in Nat /\ written \in Nat /\ OutputBytes(accepted) \in Nat
  BY BytesOfMore, EventTypes DEF Types, QueueTypes, MainTypes
<1>3. ASSUME NEW e \in Event, Enqueue(e), e.type = "notice" => e.bytes = dropped',
             \A i \in 1..Len(accepted) : accepted[i].type = "notice" => dropped' = dropped
      PROVE  NoticeExact'
  <2>1. /\ Len(accepted) \in Nat /\ Len(accepted') = Len(accepted) + 1
        /\ accepted'[Len(accepted) + 1] = e
        /\ \A i \in 1..Len(accepted) : accepted'[i] = accepted[i]
    BY <1>3, EnqueueElements
  <2>2. \A i \in 1..Len(accepted') : i \in 1..Len(accepted) \/ i = Len(accepted) + 1
    BY <2>1
  <2> QED
    BY <1>3, <2>1, <2>2 DEF NoticeExact
<1>4. CASE SendStart
  <2>1. StartEvent \in Event /\ StartEvent.n = 0 /\ StartEvent.type = "start"
    BY EventTypes DEF StartEvent
  <2>2. Enqueue(StartEvent) /\ UNCHANGED <<dropped, writes, written>>
    BY <1>4 DEF SendStart
  <2>3. Numbering' /\ OutputBytes(accepted') = OutputBytes(accepted) + Weight(StartEvent)
    BY <1>2, <2>1, <2>2, EnqueueAccounts
  <2>4. Weight(StartEvent) = 0
    BY <2>1 DEF Weight
  <2> QED
    BY <1>2, <1>3, <2>1, <2>2, <2>3, <2>4 DEF Accounted
<1>5. ASSUME NEW bytes \in Sizes, Write(bytes)
      PROVE  Accounted' /\ NoticeExact' /\ Numbering'
  <2>1. /\ bytes \in Nat /\ main = "running"
        /\ writes' = writes + 1 /\ written' = written + bytes
    BY <1>5, SessionAssumption DEF Write
  <2>2. \A i \in 1..Len(accepted) : accepted[i].type # "notice"
    BY <2>1 DEF Form, Phase
  <2>3. CASE Enqueue(Output(writes + 1, bytes)) /\ UNCHANGED dropped
    <3> DEFINE e == Output(writes + 1, bytes)
    <3>1. e \in Event /\ e.n = writes + 1 /\ e.type = "output" /\ e.bytes = bytes
      BY <1>2, <2>1, EventTypes DEF Output
    <3> HIDE DEF e
    <3>2. Enqueue(e)
      BY <2>3 DEF e
    <3>3. Numbering' /\ OutputBytes(accepted') = OutputBytes(accepted) + Weight(e)
      BY <1>2, <2>1, <3>1, <3>2, EnqueueAccounts
    <3>4. Weight(e) = bytes
      BY <3>1 DEF Weight
    <3>5. NoticeExact'
      BY <1>3, <2>2, <3>1, <3>2
    <3> QED
      BY <1>2, <2>1, <2>3, <3>3, <3>4, <3>5 DEF Accounted
  <2>4. CASE dropped' = dropped + bytes /\ UNCHANGED accepted
    <3>1. Numbering'
      <4>1. \A i \in 1..Len(accepted) : accepted[i].n \in Nat
        <5>1. accepted \in Seq(Event)
          BY DEF Types, QueueTypes
        <5>2. \A i \in 1..Len(accepted) : accepted[i] \in Event
          BY <5>1, ElementOfSeq
        <5> QED
          BY <5>2 DEF Event
      <4> QED
        BY <1>2, <2>1, <2>4, <4>1 DEF Numbering
    <3> QED
      BY <1>2, <2>1, <2>2, <2>4, <3>1 DEF Accounted, NoticeExact
  <2> QED
    BY <1>5, <2>3, <2>4 DEF Write
<1>6. CASE CloseNotice
  <2>1. UNCHANGED <<dropped, writes, written>>
    BY <1>6 DEF CloseNotice
  <2>2. CASE Enqueue(NoticeEvent(dropped))
    <3> DEFINE e == NoticeEvent(dropped)
    <3>1. e \in Event /\ e.n = 0 /\ e.type = "notice" /\ e.bytes = dropped
      BY <1>2, EventTypes DEF NoticeEvent
    <3> HIDE DEF e
    <3>2. Enqueue(e)
      BY <2>2 DEF e
    <3>3. Numbering' /\ OutputBytes(accepted') = OutputBytes(accepted) + Weight(e)
      BY <1>2, <2>1, <3>1, <3>2, EnqueueAccounts
    <3>4. Weight(e) = 0
      BY <3>1 DEF Weight
    <3>5. NoticeExact'
      BY <1>3, <2>1, <3>1, <3>2
    <3> QED
      BY <1>2, <2>1, <3>3, <3>4, <3>5 DEF Accounted
  <2>3. CASE UNCHANGED accepted
    BY <1>1, <2>1, <2>3
  <2> QED
    BY <1>6, <2>2, <2>3 DEF CloseNotice
<1>7. CASE CloseExit
  <2>1. ExitEvent \in Event /\ ExitEvent.n = 0 /\ ExitEvent.type = "exit"
    BY EventTypes DEF ExitEvent
  <2>2. Enqueue(ExitEvent) /\ UNCHANGED <<dropped, writes, written>>
    BY <1>7 DEF CloseExit
  <2>3. Numbering' /\ OutputBytes(accepted') = OutputBytes(accepted) + Weight(ExitEvent)
    BY <1>2, <2>1, <2>2, EnqueueAccounts
  <2>4. Weight(ExitEvent) = 0
    BY <2>1 DEF Weight
  <2> QED
    BY <1>2, <1>3, <2>1, <2>2, <2>3, <2>4 DEF Accounted
<1>8. CASE CloseExitTimeout \/ AwaitResult \/ AwaitTimeout
  BY <1>1, <1>8 DEF CloseExitTimeout, AwaitResult, AwaitTimeout
<1>9. CASE Upload
  BY <1>1, <1>9 DEF Upload, NewRequest, Take, Encode, EncodeFails, PipeClose, Finish, mainVars
<1>10. CASE Network \/ UNCHANGED vars
  BY <1>1, <1>10 DEF Network, Dialed, Broken, RelayReads, RelayRefuses, RelayAccepts, BodyShut,
                     vars, mainVars
<1> QED
  BY <1>4, <1>5, <1>6, <1>7, <1>8, <1>9, <1>10 DEF Next, Wrapper

(* All of it together is inductive. *)
LEMMA SessionInvariant ==
    Spec => [](/\ Types /\ Hand /\ Flow /\ Form /\ BodyComplete
               /\ Accounted /\ NoticeExact /\ Numbering)
<1>1. Init => BodyComplete
  BY DEF Init, BodyComplete
<1>2. Init => Accounted /\ NoticeExact /\ Numbering
  <2> SUFFICES ASSUME Init PROVE Accounted /\ NoticeExact /\ Numbering
    OBVIOUS
  <2>1. accepted = << >> /\ Len(accepted) = 0 /\ written = 0 /\ dropped = 0
    BY EmptySeq DEF Init
  <2> QED
    BY <2>1, BytesOfNone DEF Accounted, NoticeExact, Numbering
<1> QED
  BY <1>1, <1>2, InitForm, Typing, NextFlow, NextForm, NextBodyComplete, NextAccounted, PTL
     DEF Spec

(* Every byte of the command's output is in an accepted event or counted   *)
(* as dropped, and a notice states the final count, for any chunks and any *)
(* queue (Write and Close in session.go).                                  *)
THEOREM NoByteUnaccounted == Spec => []BytesAccounted
<1>1. Types /\ Accounted /\ NoticeExact => BytesAccounted
  BY LenProperties DEF Types, QueueTypes, Accounted, NoticeExact, BytesAccounted
<1> QED
  BY <1>1, SessionInvariant, PTL

=============================================================================
