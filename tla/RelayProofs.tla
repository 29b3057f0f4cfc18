---------------------------- MODULE RelayProofs ----------------------------
(***************************************************************************)
(* Proofs about the composition, for any capacities, chunks, events and    *)
(* parts.                                                                  *)
(*                                                                         *)
(* First, the daemon is the relay the client's session assumes: every step *)
(* of the composition is a step of Session, or none of its business.  Only *)
(* one step is not one by itself: a 200 of the daemon must be what Session *)
(* calls an acceptance, which is only given at the end of a whole body     *)
(* with an exit event in it.  The invariant follows that from the          *)
(* handler's decoder over its verdict to its answer.                       *)
(*                                                                         *)
(* Then all that is proved of either end by itself (SessionProofs and      *)
(* ServerProofs) holds here, and what joins the two is the event an output *)
(* is: the daemon counts the events it decodes and knows their text by     *)
(* that count.  With it, what the channel shows is true, and a success is  *)
(* of the whole run.                                                       *)
(***************************************************************************)
EXTENDS Relay, FiniteSetTheorems, SequenceTheorems, TLAPS

(* What the client's events go through, and the numbers in them *)
ClientTypes ==
    /\ events \in Seq(Client!Event) /\ inHand \in Seq(Client!Event)
    /\ wire \in Seq(Client!Event) /\ received \in Seq(Client!Event)
    /\ writes \in Nat /\ omitted \in Nat

(* Once the body has ended nothing is encoded any more. *)
BodyOver == bodyEnd => up \in {"response", "ended"}

ExitRead == \E i \in DOMAIN received : received[i].type = "exit"

(* A body that was read to its end stays so. *)
BodyRead == bodyEnd /\ wire = << >>

(* What the handler decides by *)
DaemonTypes ==
    /\ pc \in [{"run"} -> Daemon!Places] /\ reply \in [{"run"} -> Nat]
    /\ count \in [{"run"} -> Nat] /\ exitEvent \in [{"run"} -> Nat]
    /\ streamErr \in [{"run"} -> BOOLEAN]

(* An exit event the handler knows was received; a handler that knows of   *)
(* no error has read the whole body; and 200 needs both.                   *)
AnswerFits ==
    /\ exitEvent["run"] # 0 => ExitRead
    /\ pc["run"] \in {"close", "final"} /\ ~streamErr["run"] => BodyRead
    /\ reply["run"] = 200 => BodyRead /\ ExitRead

Inv == ClientTypes /\ BodyOver /\ DaemonTypes /\ AnswerFits

-----------------------------------------------------------------------------
(* The wrapper queues events, and touches nothing that is on its way. *)
LEMMA WrapperKeeps ==
    ASSUME ClientTypes, BodyOver, Client!Wrapper
    PROVE  ClientTypes' /\ BodyOver' /\ UNCHANGED <<bodyEnd, wire, received>>
<1>1. UNCHANGED <<up, inHand, bodyEnd, wire, received>>
  BY DEF Client!Wrapper, Client!SendStart, Client!Write, Client!CloseNotice, Client!CloseExit,
         Client!CloseExitTimeout, Client!AwaitResult, Client!AwaitTimeout,
         Client!upVars, Client!netVars
<1>2. BodyOver'
  BY <1>1 DEF BodyOver
<1>3. ASSUME NEW e \in Client!Event, Client!Enqueue(e) PROVE events' \in Seq(Client!Event)
  BY <1>3, AppendProperties DEF ClientTypes, Client!Enqueue
<1>4. events' \in Seq(Client!Event) /\ writes' \in Nat /\ omitted' \in Nat
  <2>1. CASE Client!SendStart
    <3>1. Client!StartEvent \in Client!Event
      BY DEF Client!StartEvent, Client!Event
    <3> QED
      BY <1>3, <2>1, <3>1 DEF Client!SendStart, ClientTypes
  <2>2. ASSUME NEW bytes \in Sizes, Client!Write(bytes)
        PROVE  events' \in Seq(Client!Event) /\ writes' \in Nat /\ omitted' \in Nat
    <3>1. bytes \in Nat
      BY RelayAssumption
    <3>2. Client!Output(writes + 1, bytes) \in Client!Event
      BY <3>1 DEF Client!Output, Client!Event, ClientTypes
    <3>3. writes' \in Nat /\ omitted' \in Nat
      BY <2>2, <3>1 DEF Client!Write, ClientTypes
    <3> QED
      BY <1>3, <2>2, <3>2, <3>3 DEF Client!Write, ClientTypes
  <2>3. CASE Client!CloseNotice
    <3>1. Client!NoticeEvent(omitted) \in Client!Event
      BY DEF Client!NoticeEvent, Client!Event, ClientTypes
    <3> QED
      BY <1>3, <2>3, <3>1 DEF Client!CloseNotice, ClientTypes
  <2>4. CASE Client!CloseExit
    <3>1. Client!ExitEvent \in Client!Event
      BY DEF Client!ExitEvent, Client!Event
    <3> QED
      BY <1>3, <2>4, <3>1 DEF Client!CloseExit, ClientTypes
  <2>5. CASE Client!CloseExitTimeout \/ Client!AwaitResult \/ Client!AwaitTimeout
    BY <2>5 DEF Client!CloseExitTimeout, Client!AwaitResult, Client!AwaitTimeout, ClientTypes
  <2> QED
    BY <2>1, <2>2, <2>3, <2>4, <2>5 DEF Client!Wrapper
<1> QED
  BY <1>1, <1>2, <1>4 DEF ClientTypes

(* The upload moves events on, and nothing once the body has ended. *)
LEMMA UploadKeeps ==
    ASSUME ClientTypes, BodyOver, Client!Upload
    PROVE  ClientTypes' /\ BodyOver' /\ (BodyRead => BodyRead') /\ UNCHANGED received
<1>1. CASE Client!NewRequest \/ Client!EncodeFails \/ Client!Finish
  <2>1. << >> \in Seq(Client!Event)
    BY EmptySeq
  <2>2. UNCHANGED <<events, wire, received, writes, omitted, bodyEnd>>
    BY <1>1 DEF Client!NewRequest, Client!EncodeFails, Client!Finish,
                Client!mainVars, Client!netVars
  <2>3. inHand' = inHand \/ inHand' = << >>
    BY <1>1 DEF Client!NewRequest, Client!EncodeFails, Client!Finish
  <2>4. bodyEnd => up' \in {"response", "ended"}
    BY <1>1 DEF Client!NewRequest, Client!EncodeFails, Client!Finish, BodyOver
  <2> QED
    BY <2>1, <2>2, <2>3, <2>4 DEF ClientTypes, BodyOver, BodyRead
<1>2. CASE Client!Take
  <2>1. events \in Seq(Client!Event) /\ events # << >>
    BY <1>2 DEF Client!Take, ClientTypes
  <2>2. Head(events) \in Client!Event /\ Tail(events) \in Seq(Client!Event)
    BY <2>1, HeadTailProperties
  <2>3. <<Head(events)>> \in Seq(Client!Event)
    BY <2>2
  <2>4. UNCHANGED <<wire, received, writes, omitted, bodyEnd>> /\ up = "take"
    BY <1>2 DEF Client!Take, Client!mainVars, Client!netVars
  <2>5. events' = Tail(events) /\ (inHand' = inHand \/ inHand' = <<Head(events)>>)
    BY <1>2 DEF Client!Take
  <2> QED
    BY <2>2, <2>3, <2>4, <2>5 DEF ClientTypes, BodyOver, BodyRead
<1>3. CASE Client!Encode
  <2>1. << >> \in Seq(Client!Event) /\ wire \o inHand \in Seq(Client!Event)
    BY EmptySeq, ConcatProperties DEF ClientTypes
  <2>2. UNCHANGED <<events, received, writes, omitted, bodyEnd>> /\ up = "encode"
    BY <1>3 DEF Client!Encode, Client!mainVars
  <2>3. wire' = wire \o inHand /\ inHand' = << >>
    BY <1>3 DEF Client!Encode
  <2> QED
    BY <2>1, <2>2, <2>3 DEF ClientTypes, BodyOver, BodyRead
<1>4. CASE Client!PipeClose
  <2>1. /\ UNCHANGED <<events, inHand, wire, received, writes, omitted>>
        /\ up = "take" /\ up' = "response"
    BY <1>4 DEF Client!PipeClose, Client!mainVars, Client!netVars
  <2> QED
    BY <2>1 DEF ClientTypes, BodyOver, BodyRead
<1> QED
  BY <1>1, <1>2, <1>3, <1>4 DEF Client!Upload

(* The connection comes and goes; what is on it stays. *)
LEMMA NetworkKeeps ==
    ASSUME ClientTypes, BodyOver, Client!Dialed \/ Client!Broken \/ Client!BodyShut
    PROVE  ClientTypes' /\ BodyOver' /\ UNCHANGED <<bodyEnd, wire, received>>
BY DEF Client!Dialed, Client!Broken, Client!BodyShut, Client!mainVars, Client!upVars,
       ClientTypes, BodyOver

(* The daemon decodes an event. *)
LEMMA ReadKeeps ==
    ASSUME ClientTypes, BodyOver, Client!RelayReads
    PROVE  /\ ClientTypes' /\ BodyOver' /\ (ExitRead => ExitRead') /\ wire # << >>
           /\ Head(wire).type = "exit" => ExitRead'
<1>1. /\ wire \in Seq(Client!Event) /\ wire # << >> /\ received \in Seq(Client!Event)
      /\ wire' = Tail(wire) /\ received' = Append(received, Head(wire))
  BY DEF Client!RelayReads, ClientTypes
<1>2. Head(wire) \in Client!Event /\ Tail(wire) \in Seq(Client!Event)
  BY <1>1, HeadTailProperties
<1>3. /\ received' \in Seq(Client!Event) /\ Len(received') = Len(received) + 1
      /\ \A i \in 1..Len(received) : received'[i] = received[i]
      /\ received'[Len(received) + 1] = Head(wire)
  BY <1>1, <1>2, AppendProperties
<1>4. /\ Len(received) \in Nat /\ DOMAIN received = 1..Len(received)
      /\ DOMAIN received' = 1..(Len(received) + 1)
  BY <1>1, <1>3, LenProperties
<1>5. UNCHANGED <<events, inHand, writes, omitted, up, bodyEnd>>
  BY DEF Client!RelayReads, Client!mainVars, Client!upVars
<1>6. ExitRead => ExitRead'
  <2> SUFFICES ASSUME NEW i \in DOMAIN received, received[i].type = "exit" PROVE ExitRead'
    BY DEF ExitRead
  <2>1. i \in DOMAIN received' /\ received'[i] = received[i]
    BY <1>3, <1>4
  <2> QED
    BY <2>1 DEF ExitRead
<1>7. Head(wire).type = "exit" => ExitRead'
  <2>1. Len(received) + 1 \in DOMAIN received'
    BY <1>4
  <2> QED
    BY <1>3, <2>1 DEF ExitRead
<1> QED
  BY <1>1, <1>2, <1>3, <1>5, <1>6, <1>7 DEF ClientTypes, BodyOver

-----------------------------------------------------------------------------
(* A handler that refuses a request does not answer 200. *)
LEMMA RefusalKeeps ==
    ASSUME DaemonTypes,
           \/ Daemon!Unauthorized("run") \/ Daemon!TooManyRuns("run") \/ Daemon!BadStart("run")
    PROVE  /\ DaemonTypes' /\ reply'["run"] # 200 /\ UNCHANGED <<exitEvent, streamErr>>
           /\ pc'["run"] \notin {"close", "final"}
BY DEF Daemon!Unauthorized, Daemon!TooManyRuns, Daemon!BadStart, Daemon!Reply, Daemon!Goto,
       Daemon!stream, Daemon!Places, DaemonTypes

(* What the handler does with an event that is neither a refusal nor the   *)
(* end                                                                     *)
LEMMA EventKeeps ==
    ASSUME DaemonTypes,
           \/ Daemon!Acquire("run") \/ Daemon!GoodStart("run") \/ Daemon!Output("run")
           \/ Daemon!Exit("run")
    PROVE  /\ DaemonTypes' /\ UNCHANGED <<reply, streamErr>>
           /\ pc'["run"] \notin {"close", "final"}
           /\ ~Daemon!Exit("run") => UNCHANGED exitEvent
<1>1. CASE Daemon!Acquire("run") \/ Daemon!GoodStart("run")
  BY <1>1 DEF Daemon!Acquire, Daemon!GoodStart, Daemon!Goto, Daemon!stream, Daemon!Places,
              DaemonTypes
<1>2. CASE Daemon!Output("run") \/ Daemon!Exit("run")
  <2>1. /\ count' \in [{"run"} -> Nat] /\ count'["run"] \in Nat
        /\ UNCHANGED <<pc, reply, streamErr>> /\ pc["run"] = "stream"
    BY <1>2 DEF Daemon!Output, Daemon!Exit, Daemon!NextEvent, Daemon!At, DaemonTypes
  <2>2. exitEvent' = exitEvent \/ exitEvent' = [exitEvent EXCEPT !["run"] = count'["run"]]
    BY <1>2 DEF Daemon!Output, Daemon!Exit
  <2>3. Daemon!Output("run") => exitEvent' = exitEvent
    BY DEF Daemon!Output
  <2> QED
    BY <1>2, <2>1, <2>2, <2>3 DEF DaemonTypes
<1> QED
  BY <1>1, <1>2

(* The end of the decoding loop *)
LEMMA EndKeeps ==
    ASSUME DaemonTypes, Daemon!EndOfStream("run") \/ Daemon!StreamFails("run")
    PROVE  /\ DaemonTypes' /\ UNCHANGED <<reply, exitEvent>>
           /\ Daemon!StreamFails("run") => streamErr'["run"]
<1>1. CASE Daemon!EndOfStream("run")
  <2>1. ~Daemon!StreamFails("run") \/ streamErr'["run"]
    BY DEF Daemon!StreamFails, DaemonTypes
  <2> QED
    BY <1>1, <2>1 DEF Daemon!EndOfStream, Daemon!Goto, Daemon!stream, Daemon!Places, DaemonTypes
<1>2. CASE Daemon!StreamFails("run")
  BY <1>2 DEF Daemon!StreamFails, Daemon!Goto, Daemon!Places, DaemonTypes
<1> QED
  BY <1>1, <1>2

(* What the daemon does of its own accord keeps what the handler knows,    *)
(* and answers 200 only to a verdict of "exit".                            *)
LEMMA DaemonKeeps ==
    ASSUME DaemonTypes, DaemonStep
    PROVE  /\ DaemonTypes' /\ UNCHANGED <<exitEvent, streamErr>>
           /\ pc'["run"] \in {"close", "final"} => pc["run"] \in {"close", "final"}
           /\ reply'["run"] = 200 =>
                 \/ reply["run"] = 200
                 \/ pc["run"] = "final" /\ ~streamErr["run"] /\ exitEvent["run"] # 0
<1>1. CASE Daemon!Batch("run")
  <2>1. UNCHANGED <<reply, count, exitEvent, streamErr>>
    BY <1>1 DEF Daemon!Batch, Daemon!BatcherTake, Daemon!CloseReturns, Daemon!BatcherPost,
                Daemon!BatcherNotice, Daemon!stream
  <2>2. pc' = pc \/ (pc["run"] = "close" /\ pc' = [pc EXCEPT !["run"] = "final"])
    BY <1>1 DEF Daemon!Batch, Daemon!BatcherTake, Daemon!CloseReturns, Daemon!BatcherPost,
                Daemon!BatcherNotice, Daemon!Drained, Daemon!At, Daemon!Goto
  <2> QED
    BY <2>1, <2>2 DEF DaemonTypes, Daemon!Places
<1>2. CASE Daemon!Return("run")
  BY <1>2 DEF Daemon!Return, Daemon!Goto, Daemon!stream, DaemonTypes, Daemon!Places
<1>3. ASSUME NEW ok \in BOOLEAN, Daemon!PostStart("run", ok) PROVE
           /\ DaemonTypes' /\ UNCHANGED <<exitEvent, streamErr>>
           /\ pc'["run"] \notin {"close", "final"}
           /\ reply'["run"] = 200 => reply["run"] = 200
  <2>1. UNCHANGED <<count, exitEvent, streamErr>> /\ pc["run"] = "announce"
    BY <1>3 DEF Daemon!PostStart, Daemon!At, Daemon!stream
  <2>2. \/ /\ pc' = [pc EXCEPT !["run"] = "return"]
           /\ reply' = [reply EXCEPT !["run"] = 502]
        \/ pc' = [pc EXCEPT !["run"] = "stream"] /\ reply' = reply
        \/ pc' = pc /\ reply' = reply
    BY <1>3 DEF Daemon!PostStart, Daemon!Reply, Daemon!Goto
  <2> QED
    BY <2>1, <2>2 DEF DaemonTypes, Daemon!Places
<1>4. ASSUME NEW ok \in BOOLEAN, Daemon!PostFinal("run", ok) PROVE
           /\ DaemonTypes' /\ UNCHANGED <<exitEvent, streamErr>>
           /\ pc["run"] = "final"
           /\ reply'["run"] = 200 =>
                 reply["run"] = 200 \/ (~streamErr["run"] /\ exitEvent["run"] # 0)
  <2>1. UNCHANGED <<count, exitEvent, streamErr>> /\ pc["run"] = "final"
    BY <1>4 DEF Daemon!PostFinal, Daemon!At, Daemon!stream
  <2>2. \/ /\ pc' = [pc EXCEPT !["run"] = "return"]
           /\ reply' = [reply EXCEPT !["run"] = Daemon!Status("run", ok)]
        \/ pc' = pc /\ reply' = reply
    BY <1>4 DEF Daemon!PostFinal, Daemon!Reply, Daemon!Goto
  <2>3. /\ Daemon!Status("run", ok) \in Nat
        /\ Daemon!Status("run", ok) = 200 => ~streamErr["run"] /\ exitEvent["run"] # 0
    BY DEF Daemon!Status, Daemon!Verdict
  <2> QED
    BY <2>1, <2>2, <2>3 DEF DaemonTypes, Daemon!Places
<1>5. CASE Daemon!Signal \/ Daemon!Stop
  BY <1>5 DEF Daemon!Signal, Daemon!Stop, Daemon!stream, DaemonTypes
<1> QED
  BY <1>1, <1>2, <1>3, <1>4, <1>5 DEF DaemonStep, Daemon!Answer

-----------------------------------------------------------------------------
(* At the start nothing was sent and nothing answered. *)
LEMMA InitInv == Init => Inv
<1> SUFFICES ASSUME Init PROVE Inv
  OBVIOUS
<1>1. ClientTypes /\ BodyOver
  BY EmptySeq DEF Init, Client!Init, ClientTypes, BodyOver
<1>2. DaemonTypes /\ AnswerFits
  BY DEF Init, Daemon!Init, DaemonTypes, Daemon!Places, AnswerFits
<1> QED
  BY <1>1, <1>2 DEF Inv

(* Every step of either end keeps what the answer rests on. *)
LEMMA NextInv == Inv /\ [Next]_vars => Inv'
<1> SUFFICES ASSUME Inv, [Next]_vars PROVE Inv'
  OBVIOUS
<1> USE DEF Inv
<1>1. CASE Arrive
  <2>1. UNCHANGED clientVars
    BY <1>1 DEF Arrive
  <2>2. ClientTypes' /\ BodyOver' /\ (BodyRead => BodyRead') /\ (ExitRead => ExitRead')
    BY <2>1 DEF clientVars, ClientTypes, BodyOver, BodyRead, ExitRead
  <2>3. CASE Daemon!Unauthorized("run") \/ Daemon!TooManyRuns("run")
    BY <2>2, <2>3, RefusalKeeps DEF AnswerFits
  <2>4. CASE Daemon!Acquire("run")
    <3>1. ~Daemon!Exit("run")
      BY <2>4 DEF Daemon!Acquire, Daemon!Exit, Daemon!NextEvent, Daemon!At
    <3> QED
      BY <2>2, <2>4, <3>1, EventKeeps DEF AnswerFits
  <2> QED
    BY <1>1, <2>3, <2>4 DEF Arrive
<1>2. CASE Decode
  <2>1. /\ ClientTypes' /\ BodyOver' /\ (ExitRead => ExitRead') /\ wire # << >>
        /\ Head(wire).type = "exit" => ExitRead'
    BY <1>2, ReadKeeps DEF Decode
  <2>2. ~BodyRead /\ reply["run"] # 200
    BY <2>1 DEF BodyRead, AnswerFits
  <2>3. CASE Daemon!BadStart("run")
    BY <2>1, <2>3, RefusalKeeps DEF AnswerFits
  <2>4. CASE Daemon!GoodStart("run") \/ Daemon!Output("run")
    <3>1. /\ DaemonTypes' /\ UNCHANGED <<reply, streamErr>>
          /\ pc'["run"] \notin {"close", "final"}
      BY <2>4, EventKeeps
    <3>2. UNCHANGED exitEvent
      BY <2>4 DEF Daemon!GoodStart, Daemon!Output, Daemon!stream
    <3> QED
      BY <2>1, <2>2, <3>1, <3>2 DEF AnswerFits
  <2>5. CASE Head(wire).type = "exit" /\ Daemon!Exit("run")
    <3>1. /\ DaemonTypes' /\ UNCHANGED <<reply, streamErr>>
          /\ pc'["run"] \notin {"close", "final"}
      BY <2>5, EventKeeps
    <3> QED
      BY <2>1, <2>2, <2>5, <3>1 DEF AnswerFits
  <2> QED
    BY <1>2, <2>3, <2>4, <2>5 DEF Decode
<1>3. CASE EndOfStream \/ Interrupted
  <2>1. UNCHANGED clientVars
    BY <1>3 DEF EndOfStream, Interrupted
  <2>2. ClientTypes' /\ BodyOver' /\ (BodyRead => BodyRead') /\ (ExitRead => ExitRead')
    BY <2>1 DEF clientVars, ClientTypes, BodyOver, BodyRead, ExitRead
  <2>3. CASE Daemon!BadStart("run")
    BY <2>2, <2>3, RefusalKeeps DEF AnswerFits
  <2>4. CASE BodyRead /\ Daemon!EndOfStream("run")
    BY <2>2, <2>4, EndKeeps DEF AnswerFits
  <2>5. CASE Daemon!StreamFails("run")
    BY <2>2, <2>5, EndKeeps DEF AnswerFits
  <2> QED
    BY <1>3, <2>3, <2>4, <2>5 DEF EndOfStream, Interrupted, BodyRead
<1>4. CASE Answered
  BY <1>4 DEF Answered, daemonVars, ClientTypes, BodyOver, DaemonTypes, AnswerFits, BodyRead,
              ExitRead
<1>5. CASE ClientStep
  <2>1. UNCHANGED daemonVars
    BY <1>5 DEF ClientStep
  <2>2. ClientTypes' /\ BodyOver' /\ (BodyRead => BodyRead') /\ (ExitRead => ExitRead')
    <3>1. CASE Client!Wrapper
      BY <3>1, WrapperKeeps DEF BodyRead, ExitRead
    <3>2. CASE Client!Upload
      BY <3>2, UploadKeeps DEF ExitRead
    <3>3. CASE Client!Dialed \/ Client!Broken \/ Client!BodyShut
      BY <3>3, NetworkKeeps DEF BodyRead, ExitRead
    <3> QED
      BY <1>5, <3>1, <3>2, <3>3 DEF ClientStep
  <2>3. DaemonTypes' /\ AnswerFits'
    BY <2>1, <2>2 DEF daemonVars, DaemonTypes, AnswerFits
  <2> QED
    BY <2>2, <2>3
<1>6. CASE DaemonStep
  <2>1. UNCHANGED clientVars
    BY <1>6 DEF DaemonStep
  <2>2. ClientTypes' /\ BodyOver' /\ (BodyRead => BodyRead') /\ (ExitRead => ExitRead')
    BY <2>1 DEF clientVars, ClientTypes, BodyOver, BodyRead, ExitRead
  <2> QED
    BY <1>6, <2>2, DaemonKeeps DEF AnswerFits
<1>7. CASE UNCHANGED vars
  BY <1>7 DEF vars, clientVars, daemonVars, ClientTypes, BodyOver, DaemonTypes, AnswerFits,
              BodyRead, ExitRead
<1> QED
  BY <1>1, <1>2, <1>3, <1>4, <1>5, <1>6, <1>7 DEF Next

(* What is not a step of the client leaves it alone. *)
LEMMA NextIsClients == Inv /\ [Next]_vars => [Client!Next]_(Client!vars)
<1> SUFFICES ASSUME Inv, [Next]_vars PROVE [Client!Next]_(Client!vars)
  OBVIOUS
<1>1. UNCHANGED clientVars => UNCHANGED Client!vars
  BY DEF clientVars, Client!vars, Client!mainVars, Client!upVars, Client!netVars
<1>2. CASE Arrive \/ EndOfStream \/ Interrupted \/ DaemonStep \/ UNCHANGED vars
  BY <1>1, <1>2 DEF Arrive, EndOfStream, Interrupted, DaemonStep, vars
<1>3. CASE Decode
  BY <1>3 DEF Decode, Client!Next, Client!Network
<1>4. CASE Answered
  <2>1. UNCHANGED <<Client!mainVars, events, accepted, Client!upVars, conn, wire, received>>
    BY <1>4 DEF Answered, Client!mainVars, Client!upVars
  <2>2. CASE reply["run"] = 200
    <3>1. response' = "ok" /\ Client!Alive /\ conn = "open" /\ response = "none"
      BY <1>4, <2>2 DEF Answered
    <3>2. bodyEnd /\ wire = << >> /\ \E i \in DOMAIN received : received[i].type = "exit"
      BY <2>2 DEF Inv, AnswerFits, BodyRead, ExitRead
    <3>3. Client!RelayAccepts
      BY <2>1, <3>1, <3>2 DEF Client!RelayAccepts
    <3> QED
      BY <3>3 DEF Client!Next, Client!Network
  <2>3. CASE reply["run"] # 200
    <3>1. Client!RelayRefuses
      BY <1>4, <2>1, <2>3 DEF Answered, Client!RelayRefuses
    <3> QED
      BY <3>1 DEF Client!Next, Client!Network
  <2> QED
    BY <2>2, <2>3
<1>5. CASE ClientStep
  BY <1>5 DEF ClientStep, Client!Next, Client!Network
<1> QED
  BY <1>2, <1>3, <1>4, <1>5 DEF Next

(* The daemon, its batcher and the connection are the relay that Session   *)
(* leaves to choice: what is proved of a session with any such relay holds *)
(* with this one (handleStream in server.go, responseError in session.go). *)
THEOREM DaemonIsTheRelay == Spec => ImplementsSession
<1>1. Init => Client!Init
  BY DEF Init
<1> QED
  BY <1>1, InitInv, NextInv, NextIsClients, PTL DEF Spec, ImplementsSession, Client!Spec

-----------------------------------------------------------------------------
(***************************************************************************)
(* What is proved of each end by itself, for this composition.             *)
(***************************************************************************)
D == INSTANCE ServerProofs WITH Run <- {"run"}, MaxConcurrentRuns <- 1,
                                QueueSize <- DaemonQueue
C == INSTANCE SessionProofs WITH QueueSize <- ClientQueue, dropped <- omitted

(* What holds the two ends together: the numbers under which the daemon    *)
(* handles the output are those of the events it has decoded, all of them  *)
(* of text, and none is missing from its count; it says that the command   *)
(* has ended, and the session believes in a success, only at the end of    *)
(* the whole body.                                                         *)
Numbers ==
    /\ count["run"] = IF received = << >> THEN 0 ELSE Len(received) - 1
    /\ pc["run"] \in {"idle", "start"} => received = << >>
    /\ pc["run"] \in {"announce", "stream", "close", "final"} => received # << >>
TextKept ==
    /\ \A n \in D!Kept("run") : received[n + 1].type \in {"output", "notice"}
    /\ Cardinality(D!Kept("run")) + dropped["run"] = Cardinality(TextEvents(received))
EndKnown ==
    /\ \A i \in DOMAIN posts["run"] : posts["run"][i].kind = "exit" => BodyRead /\ ExitRead
    /\ response = "ok" => reply["run"] = 200

Link == Numbers /\ TextKept /\ EndKnown

(* An instance of a module brings its own copy of what the module defines: *)
(* these are the copies.                                                   *)
LEMMA SameBytes == \A s : Client!OutputBytes(s) = C!OutputBytes(s)
BY DEF Client!OutputBytes, C!OutputBytes

(* The same of the size of a set and of finiteness. *)
LEMMA SameSize == \A T : /\ D!Cardinality(T) = Cardinality(T)
                         /\ D!IsFiniteSet(T) <=> IsFiniteSet(T)
<1>1. \A T : D!Cardinality(T) = Cardinality(T)
  BY DEF D!Cardinality, Cardinality
<1>2. \A T : D!IsFiniteSet(T) <=> IsFiniteSet(T)
  BY DEF D!IsFiniteSet, IsFiniteSet
<1> QED
  BY <1>1, <1>2

(* The capacities are what either end assumes of them. *)
LEMMA CapacitiesFit == D!ServerAssumption /\ C!SessionAssumption
<1>1. D!IsFiniteSet({"run"})
  BY FS_Singleton, SameSize
<1>2. 1 \in Nat \ {0}
  OBVIOUS
<1>3. D!ServerAssumption
  BY <1>1, <1>2, RelayAssumption DEF D!ServerAssumption
<1> QED
  BY <1>3, RelayAssumption DEF C!SessionAssumption

(* The daemon's actions in Relay are those the proofs about Server are of. *)
LEMMA SameAdmission ==
    /\ Daemon!Unauthorized("run") => D!Unauthorized("run")
    /\ Daemon!TooManyRuns("run") => D!TooManyRuns("run")
    /\ Daemon!Acquire("run") => D!Acquire("run")
    /\ Daemon!BadStart("run") => D!BadStart("run")
    /\ Daemon!GoodStart("run") => D!GoodStart("run")
BY DEF Daemon!Unauthorized, D!Unauthorized, Daemon!TooManyRuns, D!TooManyRuns,
       Daemon!Acquire, D!Acquire, Daemon!BadStart, D!BadStart, Daemon!GoodStart, D!GoodStart,
       Daemon!At, D!At, Daemon!Goto, D!Goto, Daemon!Reply, D!Reply,
       Daemon!control, D!control, Daemon!stream, D!stream, Daemon!batcher, D!batcher

(* The decoding loop, *)
LEMMA SameLoop ==
    /\ Daemon!Output("run") => D!Output("run")
    /\ Daemon!Exit("run") => D!Exit("run")
    /\ Daemon!EndOfStream("run") => D!EndOfStream("run")
    /\ Daemon!StreamFails("run") => D!StreamFails("run")
BY DEF Daemon!Output, D!Output, Daemon!Exit, D!Exit, Daemon!EndOfStream, D!EndOfStream,
       Daemon!StreamFails, D!StreamFails, Daemon!NextEvent, D!NextEvent,
       Daemon!At, D!At, Daemon!Goto, D!Goto,
       Daemon!control, D!control, Daemon!stream, D!stream, Daemon!batcher, D!batcher

(* the batcher, *)
LEMMA SameBatch == Daemon!Batch("run") => D!Batch("run")
BY DEF Daemon!Batch, D!Batch, Daemon!BatcherTake, D!BatcherTake,
       Daemon!CloseReturns, D!CloseReturns, Daemon!BatcherPost, D!BatcherPost,
       Daemon!BatcherNotice, D!BatcherNotice, Daemon!BatcherRuns, D!BatcherRuns,
       Daemon!Drained, D!Drained, Daemon!Post, D!Post,
       Daemon!At, D!At, Daemon!Goto, D!Goto,
       Daemon!control, D!control, Daemon!stream, D!stream, Daemon!batcher, D!batcher

(* the messages of the handler and its return, *)
LEMMA SameAnswer == Daemon!Answer("run") => D!Answer("run")
BY DEF Daemon!Answer, D!Answer, Daemon!Return, D!Return, Daemon!PostStart, D!PostStart,
       Daemon!PostFinal, D!PostFinal, Daemon!Post, D!Post, Daemon!Reply, D!Reply,
       Daemon!Verdict, D!Verdict, Daemon!FailedBy, D!FailedBy, Daemon!Status, D!Status,
       Daemon!At, D!At, Daemon!Goto, D!Goto,
       Daemon!control, D!control, Daemon!stream, D!stream, Daemon!batcher, D!batcher

(* and the process. *)
LEMMA SameProcess == (Daemon!Signal \/ Daemon!Stop) => (D!Signal \/ D!Stop)
BY DEF Daemon!Signal, D!Signal, Daemon!Stop, D!Stop, Daemon!stream, D!stream,
       Daemon!batcher, D!batcher

(* What leaves an end alone leaves it alone in its own module. *)
LEMMA SameVars ==
    /\ UNCHANGED daemonVars => UNCHANGED D!vars
    /\ UNCHANGED Client!vars => UNCHANGED C!vars
BY DEF daemonVars, D!vars, D!control, D!stream, D!batcher, Client!vars, C!vars,
       Client!mainVars, C!mainVars, Client!upVars, C!upVars, Client!netVars, C!netVars

(* And so with the session: the wrapper, *)
LEMMA SameWrapper == Client!Wrapper => C!Wrapper
BY DEF Client!Wrapper, C!Wrapper, Client!SendStart, C!SendStart, Client!Write, C!Write,
       Client!CloseNotice, C!CloseNotice, Client!CloseExit, C!CloseExit,
       Client!CloseExitTimeout, C!CloseExitTimeout, Client!AwaitResult, C!AwaitResult,
       Client!AwaitTimeout, C!AwaitTimeout, Client!Enqueue, C!Enqueue, Client!Room, C!Room,
       Client!StartEvent, C!StartEvent, Client!ExitEvent, C!ExitEvent,
       Client!Output, C!Output, Client!NoticeEvent, C!NoticeEvent,
       Client!upVars, C!upVars, Client!netVars, C!netVars

(* the upload, *)
LEMMA SameUpload == Client!Upload => C!Upload
BY DEF Client!Upload, C!Upload, Client!NewRequest, C!NewRequest, Client!Take, C!Take,
       Client!Encode, C!Encode, Client!EncodeFails, C!EncodeFails, Client!PipeClose, C!PipeClose,
       Client!Finish, C!Finish, Client!Alive, C!Alive,
       Client!mainVars, C!mainVars, Client!netVars, C!netVars

(* and the connection with the relay. *)
LEMMA SameNetwork == Client!Network => C!Network
BY DEF Client!Network, C!Network, Client!Dialed, C!Dialed, Client!Broken, C!Broken,
       Client!RelayReads, C!RelayReads, Client!RelayRefuses, C!RelayRefuses,
       Client!RelayAccepts, C!RelayAccepts, Client!BodyShut, C!BodyShut, Client!Alive, C!Alive,
       Client!mainVars, C!mainVars, Client!upVars, C!upVars

(* Both ends start as they do by themselves. *)
LEMMA InitIsBoth == Init => D!Init /\ C!Init
BY DEF Init, Daemon!Init, D!Init, Client!Init, C!Init

-----------------------------------------------------------------------------
(* Every step of the composition is one of either end, or none.            *)
LEMMA StepIsServers == [Next]_vars => [D!Next]_(D!vars)
<1> SUFFICES ASSUME [Next]_vars PROVE [D!Next]_(D!vars)
  OBVIOUS
<1>1. CASE Arrive \/ Decode \/ EndOfStream \/ Interrupted
  <2>1. D!Client("run")
    BY <1>1, SameAdmission, SameLoop DEF Arrive, Decode, EndOfStream, Interrupted, D!Client
  <2> QED
    BY <2>1 DEF D!Next
<1>2. CASE DaemonStep
  BY <1>2, SameBatch, SameAnswer, SameProcess DEF DaemonStep, D!Next
<1>3. CASE Answered \/ ClientStep \/ UNCHANGED vars
  <2>1. UNCHANGED daemonVars
    BY <1>3 DEF Answered, ClientStep, vars
  <2> QED
    BY <2>1, SameVars
<1> QED
  BY <1>1, <1>2, <1>3 DEF Next

(* The same of the session, whose relay the daemon is. *)
LEMMA StepIsSessions == Inv /\ [Next]_vars => [C!Next]_(C!vars)
<1> SUFFICES ASSUME [Client!Next]_(Client!vars) PROVE [C!Next]_(C!vars)
  BY NextIsClients
<1> QED
  BY SameWrapper, SameUpload, SameNetwork, SameVars DEF Client!Next, C!Next

(* So what is proved of either end with any other holds with this one.     *)
ServerSide == D!SlotInv /\ D!Typed /\ D!AllRuns
SessionSide == /\ C!Types /\ C!Hand /\ C!Flow /\ C!Form /\ C!BodyComplete
               /\ C!Accounted /\ C!NoticeExact /\ C!Numbering

(* What is proved of either end by itself is an invariant here. *)
LEMMA BothSides == Spec => [](Inv /\ ServerSide /\ SessionSide) /\ []C!Safety /\ []C!SuccessIsComplete
<1>1. Spec => []Inv
  BY InitInv, NextInv, PTL DEF Spec
<1>2. Spec => D!Spec
  BY InitIsBoth, StepIsServers, PTL DEF Spec, D!Spec
<1>3. Spec => C!Spec
  BY <1>1, InitIsBoth, StepIsSessions, PTL DEF Spec, C!Spec
<1>4. D!Spec => []ServerSide
  BY D!ServerInvariant, CapacitiesFit DEF D!ServerAssumption, ServerSide
<1>5. C!Spec => []SessionSide
  BY C!SessionInvariant, CapacitiesFit DEF C!SessionAssumption, SessionSide
<1>6. C!Spec => []C!Safety
  BY C!SessionIsSafe, CapacitiesFit DEF C!SessionAssumption
<1>7. C!Spec => []C!SuccessIsComplete
  BY C!SuccessMeansComplete, CapacitiesFit DEF C!SessionAssumption
<1> QED
  BY <1>1, <1>2, <1>3, <1>4, <1>5, <1>6, <1>7, PTL

(* What the daemon does of its own accord, and what it does with the end   *)
(* of a stream, leaves the text it has read alone.                         *)
LEMMA TextStays ==
    ASSUME ServerSide,
           \/ Arrive \/ EndOfStream \/ Interrupted \/ DaemonStep
           \/ Daemon!GoodStart("run") \/ Daemon!BadStart("run") \/ Daemon!Exit("run")
    PROVE  D!SameText("run")
<1>1. D!Typed /\ D!RunInv("run") /\ "run" \in {"run"} /\ D!ServerAssumption
  BY CapacitiesFit DEF ServerSide, D!AllRuns
<1>2. CASE Arrive \/ Daemon!GoodStart("run") \/ Daemon!BadStart("run")
  <2>1. \/ D!Unauthorized("run") \/ D!TooManyRuns("run") \/ D!Acquire("run")
        \/ D!BadStart("run") \/ D!GoodStart("run")
    BY <1>2, SameAdmission DEF Arrive
  <2> QED
    BY <1>1, <2>1, D!AdmissionKeeps DEF D!ServerAssumption
<1>3. CASE Daemon!Exit("run")
  BY <1>1, <1>3, SameLoop, D!ExitKeeps DEF D!ServerAssumption
<1>4. CASE Daemon!EndOfStream("run") \/ Daemon!StreamFails("run")
  <2>1. D!EndOfStream("run") \/ D!StreamFails("run")
    BY <1>4, SameLoop
  <2> QED
    BY <1>1, <2>1, D!LeavingKeeps DEF D!ServerAssumption
<1>5. CASE D!Batch("run")
  BY <1>1, <1>5, D!TakeKeeps, D!LeavingKeeps, D!BatcherPostKeeps, D!BatcherNoticeKeeps
     DEF D!Batch, D!ServerAssumption
<1>6. CASE D!Answer("run")
  BY <1>1, <1>6, D!LeavingKeeps, D!PostStartKeeps, D!PostFinalKeeps DEF D!Answer, D!ServerAssumption
<1>7. CASE D!Signal \/ D!Stop
  <2>1. D!Same("run")
    BY <1>7 DEF D!Signal, D!Stop, D!Same, D!stream, D!batcher
  <2> QED
    BY <1>1, <2>1, D!Untouched DEF D!ServerAssumption
<1> QED
  BY <1>2, <1>3, <1>4, <1>5, <1>6, <1>7, SameBatch, SameAnswer, SameProcess
     DEF EndOfStream, Interrupted, DaemonStep

(* A handler that posts its exit message has seen the end of the body and  *)
(* no error.                                                               *)
LEMMA ExitPosted ==
    ASSUME ServerSide, DaemonStep,
           NEW i \in DOMAIN posts'["run"], posts'["run"][i].kind = "exit"
    PROVE  \/ \E j \in DOMAIN posts["run"] : posts["run"][j].kind = "exit"
           \/ pc["run"] = "final" /\ ~streamErr["run"] /\ exitEvent["run"] # 0
<1>1. D!Typed /\ "run" \in {"run"} /\ D!ServerAssumption /\ D!TypeOK
  BY CapacitiesFit DEF ServerSide, D!Typed
<1>2. ASSUME NEW kind \in {"start", "output", "notice"} \cup D!Finals, NEW text \in Seq(Nat),
             NEW ok \in BOOLEAN, D!Post("run", kind, text, ok)
      PROVE  kind = "exit" \/ \E j \in DOMAIN posts["run"] : posts["run"][j].kind = "exit"
  <2>1. D!Grows("run", kind, text, ok)
    BY <1>1, <1>2, D!Posted DEF D!ServerAssumption
  <2>2. i \in 1..Len(posts["run"]) \/ i = Len(posts["run"]) + 1
    BY <2>1 DEF D!Grows
  <2> QED
    BY <2>1, <2>2 DEF D!Grows
<1>3. << >> \in Seq(Nat) /\ buffer["run"] \in Seq(Nat)
  BY <1>1, EmptySeq DEF D!TypeOK
<1>4. CASE posts' = posts
  BY <1>4
<1>5. ASSUME NEW ok \in BOOLEAN,
             \/ D!PostStart("run", ok) \/ D!BatcherPost("run", ok) \/ D!BatcherNotice("run", ok)
      PROVE  \E j \in DOMAIN posts["run"] : posts["run"][j].kind = "exit"
  <2>1. \/ D!Post("run", "start", << >>, ok) \/ D!Post("run", "output", buffer["run"], ok)
        \/ D!Post("run", "notice", << >>, ok)
    BY <1>5 DEF D!PostStart, D!BatcherPost, D!BatcherNotice
  <2> QED
    BY <1>2, <1>3, <2>1
<1>6. ASSUME NEW ok \in BOOLEAN, D!PostFinal("run", ok)
      PROVE  \/ \E j \in DOMAIN posts["run"] : posts["run"][j].kind = "exit"
             \/ pc["run"] = "final" /\ ~streamErr["run"] /\ exitEvent["run"] # 0
  <2>1. pc["run"] = "final" /\ D!Post("run", D!Verdict("run"), << >>, ok)
    BY <1>6 DEF D!PostFinal, D!At
  <2>2. D!Verdict("run") \in D!Finals
    BY DEF D!Verdict, D!Finals
  <2>3. D!Verdict("run") = "exit" => ~streamErr["run"] /\ exitEvent["run"] # 0
    BY DEF D!Verdict
  <2> QED
    BY <1>2, <1>3, <2>1, <2>2, <2>3
<1>7. CASE D!Signal \/ D!Stop
  BY <1>4, <1>7 DEF D!Signal, D!Stop
<1>8. CASE D!Batch("run")
  BY <1>4, <1>5, <1>8 DEF D!Batch, D!BatcherTake, D!CloseReturns
<1>9. CASE D!Answer("run")
  BY <1>4, <1>5, <1>6, <1>9 DEF D!Answer, D!Return
<1> QED
  BY <1>7, <1>8, <1>9, SameBatch, SameAnswer, SameProcess DEF DaemonStep

(* Nor does it move the handler into the loop or out of its way there, or  *)
(* answer twice.                                                           *)
LEMMA HandlerGoesOn ==
    ASSUME ServerSide, DaemonStep
    PROVE  /\ count' = count
           /\ pc'["run"] \in {"idle", "start"} => pc["run"] \in {"idle", "start"}
           /\ pc'["run"] \in {"announce", "stream", "close", "final"} =>
                 pc["run"] \in {"announce", "stream", "close", "final"}
           /\ reply["run"] # 0 => reply'["run"] = reply["run"]
<1>1. /\ pc \in [{"run"} -> D!Places]
      /\ reply["run"] # 0 => pc["run"] \in {"return", "done"}
  BY DEF ServerSide, D!Typed, D!TypeOK, D!AllRuns, D!RunInv, D!Stage
<1>2. CASE D!Batch("run")
  BY <1>1, <1>2 DEF D!Batch, D!BatcherTake, D!CloseReturns, D!BatcherPost, D!BatcherNotice,
              D!Drained, D!At, D!Goto, D!stream
<1>3. CASE D!Signal \/ D!Stop \/ D!Return("run")
  BY <1>1, <1>3 DEF D!Signal, D!Stop, D!Return, D!At, D!Goto, D!stream
<1>4. ASSUME NEW ok \in BOOLEAN, D!PostStart("run", ok) \/ D!PostFinal("run", ok)
      PROVE  /\ count' = count
             /\ pc["run"] \in {"announce", "final"}
             /\ pc'["run"] \in {"announce", "stream", "final", "return"}
  BY <1>1, <1>4 DEF D!PostStart, D!PostFinal, D!At, D!Goto, D!Reply, D!stream
<1> QED
  BY <1>1, <1>2, <1>3, <1>4, SameBatch, SameAnswer, SameProcess DEF DaemonStep, D!Answer

(* What the decoder does to what was received, and to the text in it. *)
LEMMA ReadMore ==
    ASSUME ClientTypes, Client!RelayReads
    PROVE  /\ Len(received) \in Nat /\ Len(received') = Len(received) + 1
           /\ received = << >> <=> Len(received) = 0
           /\ DOMAIN received = 1..Len(received) /\ DOMAIN received' = 1..(Len(received) + 1)
           /\ \A i \in 1..Len(received) : received'[i] = received[i]
           /\ received'[Len(received) + 1] = Head(wire)
<1>1. /\ wire \in Seq(Client!Event) /\ wire # << >> /\ received \in Seq(Client!Event)
      /\ received' = Append(received, Head(wire))
  BY DEF Client!RelayReads, ClientTypes
<1>2. Head(wire) \in Client!Event
  BY <1>1, HeadTailProperties
<1>3. /\ received' \in Seq(Client!Event) /\ Len(received') = Len(received) + 1
      /\ \A i \in 1..Len(received) : received'[i] = received[i]
      /\ received'[Len(received) + 1] = Head(wire)
  BY <1>1, <1>2, AppendProperties
<1>4. received = << >> <=> Len(received) = 0
  BY <1>1, EmptySeq
<1> QED
  BY <1>1, <1>3, <1>4, LenProperties

(* One more event of text, if it is one. *)
LEMMA TextMore ==
    ASSUME ClientTypes, Client!RelayReads
    PROVE  /\ Cardinality(TextEvents(received)) \in Nat
           /\ Cardinality(TextEvents(received')) = Cardinality(TextEvents(received)) +
                 IF Head(wire).type \in {"output", "notice"} THEN 1 ELSE 0
<1> DEFINE n == Len(received)
           T == TextEvents(received)
<1>1. /\ n \in Nat /\ DOMAIN received = 1..n /\ DOMAIN received' = 1..(n + 1)
      /\ \A i \in 1..n : received'[i] = received[i]
      /\ received'[n + 1] = Head(wire)
  BY ReadMore
<1> HIDE DEF n
<1>2. T \subseteq 1..n
  BY <1>1 DEF TextEvents
<1>3. IsFiniteSet(T) /\ Cardinality(T) \in Nat
  <2> HIDE DEF T
  <2>1. IsFiniteSet(1..n)
    BY <1>1, FS_Interval
  <2>2. IsFiniteSet(T)
    BY <1>2, <2>1, FS_Subset
  <2> QED
    BY <2>2, FS_CardinalityType
<1>4. n + 1 \notin T
  BY <1>1, <1>2
<1>5. \A i \in 1..(n + 1) : i \in 1..n \/ i = n + 1
  BY <1>1
<1>6. n + 1 \in 1..(n + 1) /\ 1..n \subseteq 1..(n + 1)
  BY <1>1
<1>7. CASE Head(wire).type \in {"output", "notice"}
  <2>1. TextEvents(received') = T \cup {n + 1}
    BY <1>1, <1>5, <1>6, <1>7 DEF TextEvents
  <2>2. Cardinality(T \cup {n + 1}) = Cardinality(T) + 1
    BY <1>3, <1>4, FS_AddElement
  <2> QED
    BY <1>3, <1>7, <2>1, <2>2
<1>8. CASE Head(wire).type \notin {"output", "notice"}
  <2>1. TextEvents(received') = T
    BY <1>1, <1>5, <1>6, <1>8 DEF TextEvents
  <2> QED
    BY <1>3, <1>8, <2>1
<1> QED
  BY <1>7, <1>8

(* What the daemon keeps are numbers of events it has decoded. *)
LEMMA KeptDecoded ==
    ASSUME ServerSide
    PROVE  /\ count["run"] \in Nat /\ dropped["run"] \in Nat
           /\ D!Kept("run") \subseteq 1..count["run"]
           /\ Cardinality(D!Kept("run")) \in Nat
<1>1. D!Typed /\ D!RunInv("run") /\ "run" \in {"run"} /\ D!ServerAssumption
  BY CapacitiesFit DEF ServerSide, D!AllRuns
<1>2. dropped["run"] \in Nat
  BY <1>1 DEF D!Typed, D!TypeOK
<1> QED
  BY <1>1, <1>2, D!KeptArrived, SameSize DEF D!ServerAssumption

(* The daemon's text is that of the events it has decoded: an event's      *)
(* number is its place after the start event.                              *)
LEMMA TextRead ==
    ASSUME ServerSide, Inv, Numbers, TextKept, Decode
    PROVE  TextKept'
<1> DEFINE n == Len(received)
           K == D!Kept("run")
           T == Cardinality(TextEvents(received))
<1>1. /\ n \in Nat /\ (received = << >> <=> n = 0)
      /\ \A i \in 1..n : received'[i] = received[i]
      /\ received'[n + 1] = Head(wire)
  BY ReadMore DEF Decode, Inv
<1>2. /\ T \in Nat
      /\ Cardinality(TextEvents(received')) =
            T + IF Head(wire).type \in {"output", "notice"} THEN 1 ELSE 0
  BY TextMore DEF Decode, Inv
<1>3. /\ count["run"] \in Nat /\ K \subseteq 1..count["run"] /\ dropped["run"] \in Nat
      /\ Cardinality(K) \in Nat /\ Cardinality(K) + dropped["run"] = T
      /\ \A m \in K : received[m + 1].type \in {"output", "notice"}
  BY KeptDecoded DEF TextKept
<1>4. \A m \in K : m + 1 \in 1..n
  <2> HIDE DEF n, K
  <2>1. count["run"] = IF received = << >> THEN 0 ELSE n - 1
    BY DEF Numbers, n
  <2> QED
    BY <1>1, <1>3, <2>1
<1>5. CASE Head(wire).type \notin {"output", "notice"}
  <2>1. Daemon!GoodStart("run") \/ Daemon!BadStart("run") \/ Daemon!Exit("run")
    BY <1>5 DEF Decode
  <2>2. D!Kept("run")' = K /\ dropped'["run"] = dropped["run"]
    BY <2>1, TextStays DEF D!SameText
  <2>3. \A m \in K : received'[m + 1].type \in {"output", "notice"}
    BY <1>1, <1>3, <1>4
  <2>4. Cardinality(TextEvents(received')) = T
    BY <1>2, <1>5
  <2> QED
    BY <1>3, <2>2, <2>3, <2>4 DEF TextKept
<1>6. CASE Head(wire).type \in {"output", "notice"}
  <2>1. Daemon!Output("run") /\ pc["run"] = "stream"
    BY <1>6 DEF Decode, Daemon!Output, Daemon!NextEvent, Daemon!At
  <2>2. D!OneMore("run")
    BY <2>1, SameLoop, CapacitiesFit, D!OutputKeeps DEF ServerSide, D!AllRuns, D!ServerAssumption
  <2>3. count["run"] = n - 1
    BY <1>1, <2>1 DEF Numbers
  <2>4. D!Kept("run")' \subseteq K \cup {n}
    BY <1>1, <2>2, <2>3 DEF D!OneMore
  <2>5. \A m \in D!Kept("run")' : received'[m + 1].type \in {"output", "notice"}
    <3>1. \A m \in K : received'[m + 1].type \in {"output", "notice"}
      BY <1>1, <1>3, <1>4
    <3> QED
      BY <1>1, <1>6, <2>4, <3>1
  <2>6. Cardinality(D!Kept("run")') + dropped'["run"] = (Cardinality(K) + dropped["run"]) + 1
    BY <2>2, SameSize DEF D!OneMore
  <2>7. Cardinality(TextEvents(received')) = T + 1
    BY <1>2, <1>6
  <2> QED
    BY <1>3, <2>5, <2>6, <2>7 DEF TextKept
<1> QED
  BY <1>5, <1>6

(* The end of the body, once reached, stays, and so does an exit event. *)
LEMMA EndStays ==
    ASSUME Inv, [Next]_vars
    PROVE  /\ ~Decode => received' = received
           /\ ClientStep => received' = received
           /\ BodyRead => BodyRead'
           /\ ExitRead => ExitRead'
<1>1. ClientTypes /\ BodyOver
  BY DEF Inv
<1>2. CASE ClientStep
  <2>1. received' = received
    BY <1>1, <1>2, WrapperKeeps, UploadKeeps, NetworkKeeps DEF ClientStep
  <2>2. BodyRead => BodyRead'
    BY <1>1, <1>2, WrapperKeeps, UploadKeeps, NetworkKeeps DEF ClientStep, BodyRead
  <2> QED
    BY <2>1, <2>2 DEF ExitRead
<1>3. CASE Decode
  <2>1. (ExitRead => ExitRead') /\ wire # << >>
    BY <1>1, <1>3, ReadKeeps DEF Decode
  <2> QED
    BY <1>2, <1>3, <2>1 DEF BodyRead
<1>4. CASE ~ClientStep /\ ~Decode
  <2>1. UNCHANGED <<bodyEnd, wire, received>>
    BY <1>4 DEF Next, Arrive, EndOfStream, Interrupted, Answered, DaemonStep, vars, clientVars
  <2> QED
    BY <1>4, <2>1 DEF BodyRead, ExitRead
<1> QED
  BY <1>2, <1>3, <1>4

(* The handler's count follows the decoder. *)
LEMMA NumbersKept ==
    ASSUME ServerSide, Inv, Numbers, [Next]_vars
    PROVE  Numbers'
<1>1. /\ pc \in [{"run"} -> D!Places] /\ count \in [{"run"} -> Nat]
  BY DEF ServerSide, D!Typed, D!TypeOK
<1>2. CASE Decode
  <2>1. /\ Len(received) \in Nat /\ Len(received') = Len(received) + 1
        /\ (received = << >> <=> Len(received) = 0)
    BY <1>2, ReadMore DEF Decode, Inv
  <2>2. received' # << >>
    BY <2>1
  <2>3. CASE Daemon!GoodStart("run") \/ Daemon!BadStart("run")
    <3>1. /\ pc["run"] = "start" /\ count' = count
          /\ pc'["run"] \in {"announce", "return"}
      BY <1>1, <2>3 DEF Daemon!GoodStart, Daemon!BadStart, Daemon!At, Daemon!Goto, Daemon!Reply,
                        Daemon!stream
    <3> QED
      BY <2>1, <2>2, <3>1 DEF Numbers
  <2>4. CASE Daemon!Output("run") \/ Daemon!Exit("run")
    <3>1. pc["run"] = "stream" /\ pc' = pc /\ count'["run"] = count["run"] + 1
      BY <1>1, <2>4 DEF Daemon!Output, Daemon!Exit, Daemon!NextEvent, Daemon!At
    <3> QED
      BY <2>1, <2>2, <3>1 DEF Numbers
  <2> QED
    BY <1>2, <2>3, <2>4 DEF Decode
<1>3. CASE Arrive
  <2>1. received' = received /\ count' = count /\ pc["run"] = "idle"
    BY <1>3 DEF Arrive, clientVars, Daemon!Unauthorized, Daemon!TooManyRuns, Daemon!Acquire,
                Daemon!stream
  <2>2. pc'["run"] \in {"start", "done"}
    BY <1>1, <1>3 DEF Arrive, Daemon!Unauthorized, Daemon!TooManyRuns, Daemon!Acquire, Daemon!Goto
  <2> QED
    BY <2>1, <2>2 DEF Numbers
<1>4. CASE EndOfStream \/ Interrupted
  <2>1. received' = received /\ count' = count
    BY <1>4 DEF EndOfStream, Interrupted, clientVars, Daemon!EndOfStream, Daemon!StreamFails,
                Daemon!BadStart, Daemon!stream
  <2>2. \/ pc["run"] = "stream" /\ pc'["run"] = "close"
        \/ pc'["run"] = "return"
    BY <1>1, <1>4 DEF EndOfStream, Interrupted, Daemon!EndOfStream, Daemon!StreamFails,
                      Daemon!BadStart, Daemon!At, Daemon!Goto, Daemon!Reply
  <2> QED
    BY <2>1, <2>2 DEF Numbers
<1>5. CASE DaemonStep
  <2>1. received' = received
    BY <1>5 DEF DaemonStep, clientVars
  <2> QED
    BY <1>5, <2>1, HandlerGoesOn DEF Numbers
<1>6. CASE Answered \/ ClientStep \/ UNCHANGED vars
  <2>1. pc' = pc /\ count' = count
    BY <1>6 DEF Answered, ClientStep, vars, daemonVars
  <2>2. received' = received
    BY <1>6, EndStays DEF Answered, vars, clientVars
  <2> QED
    BY <2>1, <2>2 DEF Numbers
<1> QED
  BY <1>2, <1>3, <1>4, <1>5, <1>6 DEF Next

(* An exit message and a success are only at the end of the body. *)
LEMMA EndKnownKept ==
    ASSUME ServerSide, Inv, EndKnown, [Next]_vars
    PROVE  EndKnown'
<1>1. /\ pc \in [{"run"} -> D!Places]
      /\ reply["run"] # 0 => pc["run"] \in {"return", "done"}
  BY DEF ServerSide, D!Typed, D!TypeOK, D!AllRuns, D!RunInv, D!Stage
<1>2. (BodyRead => BodyRead') /\ (ExitRead => ExitRead')
  BY EndStays
<1>3. CASE Arrive \/ Decode \/ EndOfStream \/ Interrupted
  <2>1. posts' = posts
    BY <1>3 DEF Arrive, Decode, EndOfStream, Interrupted, Daemon!Unauthorized,
                Daemon!TooManyRuns, Daemon!Acquire, Daemon!GoodStart, Daemon!BadStart,
                Daemon!Output, Daemon!Exit, Daemon!EndOfStream, Daemon!StreamFails
  <2>2. response' = response
    BY <1>3 DEF Arrive, Decode, EndOfStream, Interrupted, Client!RelayReads, clientVars
  <2>3. reply["run"] = 0
    BY <1>1, <1>3 DEF Arrive, Decode, EndOfStream, Interrupted, Daemon!Unauthorized,
                Daemon!TooManyRuns, Daemon!Acquire, Daemon!GoodStart, Daemon!BadStart,
                Daemon!Output, Daemon!Exit, Daemon!EndOfStream, Daemon!StreamFails,
                Daemon!NextEvent, Daemon!At
  <2> QED
    BY <1>2, <2>1, <2>2, <2>3 DEF EndKnown
<1>4. CASE DaemonStep
  <2>1. response' = response
    BY <1>4 DEF DaemonStep, clientVars
  <2>2. response = "ok" => reply'["run"] = 200
    BY <1>4, HandlerGoesOn DEF EndKnown
  <2>3. \A i \in DOMAIN posts'["run"] : posts'["run"][i].kind = "exit" => BodyRead' /\ ExitRead'
    <3> SUFFICES ASSUME NEW i \in DOMAIN posts'["run"], posts'["run"][i].kind = "exit"
                 PROVE  BodyRead' /\ ExitRead'
      OBVIOUS
    <3>1. \/ \E j \in DOMAIN posts["run"] : posts["run"][j].kind = "exit"
          \/ pc["run"] = "final" /\ ~streamErr["run"] /\ exitEvent["run"] # 0
      BY <1>4, ExitPosted
    <3>2. BodyRead /\ ExitRead
      BY <3>1 DEF EndKnown, Inv, AnswerFits
    <3> QED
      BY <1>2, <3>2
  <2> QED
    BY <2>1, <2>2, <2>3 DEF EndKnown
<1>5. CASE Answered
  BY <1>2, <1>5 DEF Answered, daemonVars, EndKnown
<1>6. CASE ClientStep \/ UNCHANGED vars
  <2>1. UNCHANGED daemonVars /\ posts' = posts /\ reply' = reply
    BY <1>6 DEF ClientStep, vars, daemonVars
  <2>2. response' = response \/ response' = "broken"
    BY <1>6 DEF ClientStep, vars, clientVars, Client!Wrapper, Client!SendStart, Client!Write,
       Client!CloseNotice, Client!CloseExit, Client!CloseExitTimeout, Client!AwaitResult,
       Client!AwaitTimeout, Client!Upload, Client!NewRequest, Client!Take, Client!Encode,
       Client!EncodeFails, Client!PipeClose, Client!Finish, Client!Dialed, Client!Broken,
       Client!BodyShut, Client!netVars
  <2> QED
    BY <1>2, <2>1, <2>2 DEF EndKnown
<1> QED
  BY <1>3, <1>4, <1>5, <1>6 DEF Next

(* At the start neither end has anything. *)
LEMMA InitLink == Init => Link
<1> SUFFICES ASSUME Init PROVE Link
  OBVIOUS
<1>1. /\ received = << >> /\ count["run"] = 0 /\ pc["run"] = "idle" /\ dropped["run"] = 0
      /\ posts["run"] = << >> /\ channel["run"] = << >> /\ buffer["run"] = << >>
      /\ response = "none"
  BY DEF Init, Client!Init, Daemon!Init
<1>2. Numbers /\ EndKnown
  BY <1>1 DEF Numbers, EndKnown
<1>3. D!Kept("run") = {} /\ TextEvents(received) = {}
  BY <1>1 DEF D!Kept, D!Texts, D!Items, TextEvents
<1>4. Cardinality(D!Kept("run")) = 0 /\ Cardinality(TextEvents(received)) = 0
  BY <1>3, FS_EmptySet, Zenon
<1>5. TextKept
  BY <1>1, <1>3, <1>4 DEF TextKept
<1> QED
  BY <1>2, <1>5 DEF Link

(* Every step of either end keeps the link. *)
LEMMA NextLink == ServerSide /\ Inv /\ Link /\ [Next]_vars => Link'
<1> SUFFICES ASSUME ServerSide, Inv, Numbers, TextKept, EndKnown, [Next]_vars
             PROVE  Link'
  BY DEF Link
<1>1. Numbers' /\ EndKnown'
  BY NumbersKept, EndKnownKept
<1>2. TextKept'
  <2>1. CASE Decode
    BY <2>1, TextRead
  <2>2. CASE ~Decode
    <3>1. received' = received
      BY <2>2, EndStays
    <3>2. D!Kept("run")' = D!Kept("run") /\ dropped'["run"] = dropped["run"]
      <4>1. CASE Arrive \/ EndOfStream \/ Interrupted \/ DaemonStep
        BY <4>1, TextStays DEF D!SameText
      <4>2. CASE Answered \/ ClientStep \/ UNCHANGED vars
        BY <4>2 DEF Answered, ClientStep, vars, daemonVars, D!Kept, D!Texts, D!Items
      <4> QED
        BY <2>2, <4>1, <4>2 DEF Next
    <3> QED
      BY <3>1, <3>2 DEF TextKept
  <2> QED
    BY <2>1, <2>2
<1> QED
  BY <1>1, <1>2 DEF Link

(* Both ends and their link are inductive. *)
LEMMA RelayInvariant == Spec => [](Inv /\ ServerSide /\ SessionSide /\ Link)
BY BothSides, InitLink, NextLink, PTL DEF Spec

(* The text of a message, of all messages, and of what the daemon keeps *)
LEMMA TextShown ==
    ASSUME NEW i \in DOMAIN posts["run"], NEW m \in ShownIn(i)
    PROVE  /\ m \in D!Kept("run") /\ m \in Shown
           /\ \E k \in DOMAIN posts["run"][i].text : posts["run"][i].text[k] = m
BY DEF ShownIn, Shown, Range, D!Kept, D!Texts

(* What is shown is what the server's proofs call the texts. *)
LEMMA AllShown == Shown = D!Texts("run")
BY DEF ShownIn, Shown, Range, D!Texts

(* A message of text m, or of the events after it, is of a received event. *)
LEMMA TextReceived ==
    ASSUME ServerSide, SessionSide, Link, NEW m \in D!Kept("run")
    PROVE  /\ m \in Nat /\ m + 1 \in 1..Len(received)
           /\ received[m + 1] = accepted[m + 1] /\ m + 1 \in 1..Len(accepted)
           /\ received[m + 1].type \in {"output", "notice"}
<1>1. /\ Len(received) \in Nat /\ Len(accepted) \in Nat /\ Len(received) <= Len(accepted)
      /\ \A i \in 1..Len(received) : accepted[i] = received[i]
  BY C!Beginning, CapacitiesFit DEF SessionSide, C!SessionAssumption
<1>2. m \in 1..count["run"] /\ count["run"] \in Nat
  BY KeptDecoded
<1>3. count["run"] = Len(received) - 1
  BY <1>1, <1>2 DEF Link, Numbers
<1>4. m \in Nat /\ m + 1 \in 1..Len(received)
  BY <1>1, <1>2, <1>3
<1> QED
  BY <1>1, <1>4 DEF Link, TextKept

(* What the channel shows is true, at every moment, whatever has failed    *)
(* and for any capacities: it is text the command wrote, or the client's   *)
(* notice, in their order and nothing twice; and it says that the command  *)
(* has ended only when it has and all that was queued has arrived (Write   *)
(* and Close in session.go, handleStream and Batcher in the daemon).       *)
THEOREM TheChannelIsTrue == Spec => []ChannelIsTrue
<1>1. ASSUME ServerSide, SessionSide, Link PROVE ShownInOrder
  <2>1. ASSUME NEW n \in Shown PROVE received[n + 1].type \in {"output", "notice"}
    <3>1. n \in D!Kept("run")
      BY AllShown DEF D!Kept
    <3> QED
      BY <1>1, <3>1, TextReceived
  <2>2. ASSUME NEW i \in DOMAIN posts["run"], NEW j \in DOMAIN posts["run"], i < j,
               NEW m \in ShownIn(i), NEW n \in ShownIn(j)
        PROVE  /\ m < n
               /\ received[n + 1].type = "output" => received[m + 1].n < received[n + 1].n
    <3>1. /\ m \in D!Kept("run") /\ n \in D!Kept("run")
          /\ \E k \in DOMAIN posts["run"][i].text : posts["run"][i].text[k] = m
          /\ \E k \in DOMAIN posts["run"][j].text : posts["run"][j].text[k] = n
      BY TextShown
    <3>2. m < n
      BY <1>1, <2>2, <3>1 DEF ServerSide, D!AllRuns, D!RunInv, D!TextInOrder
    <3>3. /\ m \in Nat /\ m + 1 \in 1..Len(accepted) /\ received[m + 1] = accepted[m + 1]
          /\ n \in Nat /\ n + 1 \in 1..Len(accepted) /\ received[n + 1] = accepted[n + 1]
      BY <1>1, <3>1, TextReceived
    <3>4. m + 1 < n + 1
      BY <3>2, <3>3
    <3>5. \A k, l \in 1..Len(accepted) :
              k < l /\ accepted[l].type = "output" => accepted[k].n < accepted[l].n
      BY <1>1 DEF SessionSide, C!Numbering
    <3> QED
      BY <3>2, <3>3, <3>4, <3>5
  <2> QED
    BY <2>1, <2>2 DEF ShownInOrder
<1>2. ASSUME Inv, SessionSide, Link PROVE ExitIsTrue
  <2> SUFFICES ASSUME NEW i \in DOMAIN posts["run"], posts["run"][i].kind = "exit"
               PROVE  /\ main \in {"await", "returned"} /\ received = accepted
                      /\ accepted[Len(accepted)] = Client!ExitEvent
    BY DEF ExitIsTrue
  <2>1. bodyEnd /\ wire = << >> /\ \E k \in DOMAIN received : received[k].type = "exit"
    BY <1>2 DEF Link, EndKnown, BodyRead, ExitRead
  <2>2. C!ExitEvent = Client!ExitEvent
    BY DEF C!ExitEvent, Client!ExitEvent
  <2> QED
    BY <1>2, <2>1, <2>2, C!WholeBody, CapacitiesFit DEF SessionSide, C!SessionAssumption
<1>3. Inv /\ ServerSide /\ SessionSide /\ Link => ChannelIsTrue
  BY <1>1, <1>2 DEF ChannelIsTrue
<1> QED
  BY <1>3, RelayInvariant, PTL

(* When the wrapper reports no error the channel has the whole run, for    *)
(* any chunks and any two queues: every byte is in a message that went     *)
(* through or in a count, and the daemon has told its count.               *)
THEOREM SuccessMeansComplete == Spec => []SuccessIsComplete
<1>1. ASSUME Inv, ServerSide, SessionSide, Link, C!SuccessIsComplete
      PROVE  SuccessIsComplete
  <2> SUFFICES ASSUME result = "ok"
               PROVE  /\ \A i \in DOMAIN posts["run"] : posts["run"][i].ok
                      /\ written = omitted + Client!OutputBytes(accepted)
                      /\ Cardinality(Shown) + dropped["run"] = Cardinality(TextEvents(accepted))
                      /\ dropped["run"] > 0 =>
                            \E i \in DOMAIN posts["run"] : posts["run"][i].kind = "notice"
    BY DEF SuccessIsComplete
  <2>1. received = accepted /\ response = "ok"
    BY <1>1 DEF C!SuccessIsComplete, SessionSide, C!BodyComplete
  <2>2. reply["run"] = 200
    BY <1>1, <2>1 DEF Link, EndKnown
  <2>3. D!RunInv("run")
    BY <1>1 DEF ServerSide, D!AllRuns
  <2>4. /\ \A i \in DOMAIN posts["run"] : posts["run"][i].ok
        /\ dropped["run"] > 0 => \E i \in DOMAIN posts["run"] : posts["run"][i].kind = "notice"
    BY <2>2, <2>3 DEF D!RunInv, D!Complete, D!NoFailure
  <2>5. written = omitted + Client!OutputBytes(accepted)
    BY <1>1, SameBytes DEF SessionSide, C!Accounted
  <2>6. channel["run"] = << >> /\ buffer["run"] = << >>
    BY <2>2, <2>3 DEF D!RunInv, D!Stage
  <2>7. D!Kept("run") = Shown
    BY <2>6, AllShown DEF D!Kept, D!Items
  <2>8. Cardinality(Shown) + dropped["run"] = Cardinality(TextEvents(accepted))
    BY <1>1, <2>1, <2>7 DEF Link, TextKept
  <2> QED
    BY <2>4, <2>5, <2>8
<1>2. Inv /\ ServerSide /\ SessionSide /\ Link /\ C!SuccessIsComplete => SuccessIsComplete
  BY <1>1
<1> QED
  BY <1>2, BothSides, RelayInvariant, PTL

=============================================================================
