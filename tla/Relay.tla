-------------------------------- MODULE Relay --------------------------------
(***************************************************************************)
(* One run from end to end: the client's session (Session) and the         *)
(* daemon's handler with its batcher (Server) at the two ends of one       *)
(* connection.                                                             *)
(*                                                                         *)
(* Each end leaves the other to choice.  Here the daemon's handler decodes *)
(* what the session's upload has encoded, the session hears what the       *)
(* handler answers, and both may outlive the other: the wrapper returns    *)
(* after five seconds whatever the daemon does, the daemon works off what  *)
(* it was sent.                                                            *)
(***************************************************************************)
EXTENDS Naturals, Sequences, FiniteSets, Functions

CONSTANTS
    ClientQueue, NetBuffer, Sizes, MaxWrites,  \* of Session
    DaemonQueue, MaxEvents, MaxParts           \* of Server

ASSUME RelayAssumption ==
    /\ ClientQueue \in Nat \ {0} /\ NetBuffer \in Nat \ {0}
    /\ Sizes \subseteq Nat \ {0} /\ MaxWrites \in Nat
    /\ DaemonQueue \in Nat \ {0} /\ MaxEvents \in Nat /\ MaxParts \in Nat \ {0}

VARIABLES
    \* of Session, its dropped renamed:
    main, events, closed, omitted, up, inHand, encodeErr, conn, wire, bodyEnd,
    response, done, result, writes, written, accepted, received,
    \* of Server:
    daemon, semaphore, pc, reply, parts, count, exitEvent, streamErr, channel,
    buffer, dropped, noticed, batchErr, posts

Client == INSTANCE Session WITH QueueSize <- ClientQueue, dropped <- omitted
Daemon == INSTANCE Server WITH Run <- {"run"}, MaxConcurrentRuns <- 1,
                               QueueSize <- DaemonQueue

clientVars == <<main, events, closed, omitted, up, inHand, encodeErr, conn, wire, bodyEnd,
                response, done, result, writes, written, accepted, received>>
daemonVars == <<daemon, semaphore, pc, reply, parts, count, exitEvent, streamErr, channel,
                buffer, dropped, noticed, batchErr, posts>>
vars == <<clientVars, daemonVars>>

Init == Client!Init /\ Daemon!Init

-----------------------------------------------------------------------------
(* The handler begins with the request's header. *)
Arrive ==
    /\ conn = "open"
    /\ Daemon!Unauthorized("run") \/ Daemon!TooManyRuns("run") \/ Daemon!Acquire("run")
    /\ UNCHANGED clientVars

(* Decode of one event: the start event, which may name a channel that is  *)
(* not allowed; output or the client's notice, which is output on stderr;  *)
(* the exit event                                                          *)
Decode ==
    /\ Client!RelayReads
    /\ LET type == Head(wire).type IN
       \/ type = "start" /\ (Daemon!GoodStart("run") \/ Daemon!BadStart("run"))
       \/ type \in {"output", "notice"} /\ Daemon!Output("run")
       \/ type = "exit" /\ Daemon!Exit("run")

(* The body was closed and read to its end. *)
EndOfStream ==
    /\ bodyEnd /\ wire = << >>
    /\ Daemon!EndOfStream("run")
    /\ UNCHANGED clientVars

Gone == conn = "shut" \/ main = "returned"

(* The connection is gone, or the body too long. *)
Interrupted ==
    /\ Gone \/ wire # << >>
    /\ Daemon!StreamFails("run") \/ Daemon!BadStart("run")
    /\ UNCHANGED clientVars

(* Mutant: any answer of the daemon is taken for a success. *)
AnsweredAnyhow ==
    /\ reply["run"] # 0 /\ Client!Alive /\ conn = "open" /\ response = "none"
    /\ response' = "ok"
    /\ UNCHANGED <<main, events, closed, omitted, up, inHand, encodeErr, conn, wire, bodyEnd,
                   done, result, writes, written, accepted, received, daemonVars>>

(* client.Do returns the handler's response. *)
Answered ==
    /\ reply["run"] # 0 /\ Client!Alive /\ conn = "open" /\ response = "none"
    /\ response' = IF reply["run"] = 200 THEN "ok" ELSE "refused"
    /\ UNCHANGED <<main, events, closed, omitted, up, inHand, encodeErr, conn, wire, bodyEnd,
                   done, result, writes, written, accepted, received, daemonVars>>

(* What each end does on its own *)
ClientStep ==
    /\ Client!Wrapper \/ Client!Upload \/ Client!Dialed \/ Client!Broken \/ Client!BodyShut
    /\ UNCHANGED daemonVars

DaemonStep ==
    /\ Daemon!Batch("run") \/ Daemon!Answer("run") \/ Daemon!Signal \/ Daemon!Stop
    /\ UNCHANGED clientVars

Next == Arrive \/ Decode \/ EndOfStream \/ Interrupted \/ Answered \/ ClientStep \/ DaemonStep

Spec == Init /\ [][Next]_vars

(***************************************************************************)
(* The daemon's goroutines run and its posts end (Server), and it learns   *)
(* that the connection is gone.  Nothing is assumed of the wrapper but     *)
(* what Session assumes.                                                   *)
(***************************************************************************)
Fairness ==
    /\ WF_vars(DaemonStep /\ Daemon!BatcherTake("run"))
    /\ WF_vars(DaemonStep /\ Daemon!CloseReturns("run"))
    /\ WF_vars(DaemonStep /\ \E ok \in BOOLEAN : Daemon!BatcherPost("run", ok))
    /\ WF_vars(DaemonStep /\ \E ok \in BOOLEAN : Daemon!BatcherNotice("run", ok))
    /\ WF_vars(DaemonStep /\ Daemon!Answer("run"))
    /\ WF_vars(Gone /\ Interrupted)

FairSpec == Spec /\ Fairness

-----------------------------------------------------------------------------
(***************************************************************************)
(* Properties.                                                             *)
(***************************************************************************)
(* The daemon is the relay Session assumes: above all, it answers 200 only *)
(* after it has read the whole body and an exit event in it.               *)
ImplementsSession == Client!Spec

(* The numbers of the events whose text was posted; event n is the n-th    *)
(* after the start event.                                                  *)
ShownIn(i) == Range(posts["run"][i].text)
Shown == UNION {ShownIn(i) : i \in DOMAIN posts["run"]}

(* The events whose text the channel should show *)
TextEvents(s) == {i \in DOMAIN s : s[i].type \in {"output", "notice"}}

(* If the wrapper reports no error, the channel has the whole run: every   *)
(* byte the command wrote is in an event the client sent or was counted by *)
(* it, every event it sent is in a message that went through or was        *)
(* counted by the daemon, and the daemon told its count (Close in          *)
(* session.go, handleStream in server.go).                                 *)
SuccessIsComplete ==
    result = "ok" =>
        /\ \A i \in DOMAIN posts["run"] : posts["run"][i].ok
        /\ written = omitted + Client!OutputBytes(accepted)
        /\ Cardinality(Shown) + dropped["run"] = Cardinality(TextEvents(accepted))
        /\ dropped["run"] > 0 => \E i \in DOMAIN posts["run"] : posts["run"][i].kind = "notice"

(* What the channel shows is true: of the output, what the command wrote,  *)
(* in its order and nothing twice, at every moment and whatever has        *)
(* failed; and the exit message, when the command has ended and the daemon *)
(* has received all the client could queue.                                *)
ShownInOrder ==
    /\ \A n \in Shown : received[n + 1].type \in {"output", "notice"}
    /\ \A i, j \in DOMAIN posts["run"] : i < j =>
          \A m \in ShownIn(i) : \A n \in ShownIn(j) :
              m < n /\ (received[n + 1].type = "output" => received[m + 1].n < received[n + 1].n)

ExitIsTrue ==
    \A i \in DOMAIN posts["run"] : posts["run"][i].kind = "exit" =>
        /\ main \in {"await", "returned"} /\ received = accepted
        /\ accepted[Len(accepted)] = Client!ExitEvent

ChannelIsTrue == ShownInOrder /\ ExitIsTrue

(* Once the wrapper has returned, of its own accord or by the timeout, its *)
(* run ends in the daemon too and gives back its slot; and a handler that  *)
(* waits for its batcher gets through, whatever the wrapper does.          *)
RunEnds ==
    /\ main = "returned" ~> pc["run"] \in {"idle", "done"} \/ daemon = "down"
    /\ pc["run"] = "close" ~> pc["run"] = "done" \/ daemon = "down"

=============================================================================
