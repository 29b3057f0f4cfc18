------------------------------ MODULE Session ------------------------------
(***************************************************************************)
(* The client's relay session (src/internal/clientstream/session.go), as   *)
(* wrapping-bot's run uses it: the start event, the output of the wrapped  *)
(* command, then Close with the exit event.                                *)
(*                                                                         *)
(* Four activities interleave: the wrapper (run, and the goroutines that   *)
(* copy the command's stdout and stderr into Write), the upload goroutine, *)
(* the goroutine that waits for the HTTP response, and the relay at the    *)
(* other end of the connection.  The first two meet in the events channel, *)
(* the second and the last in the request body.                            *)
(*                                                                         *)
(* When Close returns, run prints what it got and the process exits, so    *)
(* the client does nothing after it.                                       *)
(***************************************************************************)
EXTENDS Naturals, Sequences, SequencesExt

CONSTANTS
    QueueSize,     \* capacity of the events channel
    NetBuffer,     \* events that fit between the pipe and the relay
    Sizes,         \* sizes of the chunks the command writes
    MaxWrites      \* bound: chunks written by one command

ASSUME SessionAssumption ==
    /\ QueueSize \in Nat \ {0} /\ NetBuffer \in Nat \ {0}
    /\ Sizes \subseteq Nat \ {0} /\ MaxWrites \in Nat

(* protocol.Event: its type, its number among the chunks, and how many     *)
(* bytes it carries or, in the overflow notice, reports.                   *)
StartEvent == [type |-> "start", n |-> 0, bytes |-> 0]
ExitEvent  == [type |-> "exit",  n |-> 0, bytes |-> 0]
Output(n, bytes) == [type |-> "output", n |-> n, bytes |-> bytes]
NoticeEvent(bytes) == [type |-> "notice", n |-> 0, bytes |-> bytes]

Event == [type : {"start", "output", "notice", "exit"}, n : Nat, bytes : Nat]

VARIABLES
    main,          \* where run is
    events,        \* s.events
    closed,        \* s.closed, and the channel is closed
    dropped,       \* s.dropped
    up,            \* where upload is
    inHand,        \* the event upload has taken and not yet encoded
    encodeErr,     \* upload's encodeErr # nil
    conn,          \* the connection: dialing, open, or shut for the body
    wire,          \* events encoded and not yet read by the relay
    bodyEnd,       \* the pipe was closed: the relay will read the end
    response,      \* responseCh: none, ok (2xx), refused, or broken
    done,          \* s.done: none, ok or error
    result,        \* what Close returned: none, ok or error
    \* History, for the properties:
    writes,        \* chunks written by the command
    written,       \* their bytes
    accepted,      \* the events that went into the channel
    received       \* the events the relay has decoded

mainVars == <<main, closed, dropped, writes, written, result>>
upVars   == <<up, inHand, encodeErr, bodyEnd, done>>
netVars  == <<conn, wire, response, received>>
vars     == <<mainVars, events, accepted, upVars, netVars>>

Init ==
    /\ main = "start" /\ closed = FALSE /\ dropped = 0
    /\ writes = 0 /\ written = 0 /\ result = "none"
    /\ events = << >> /\ accepted = << >>
    /\ up = "new" /\ inHand = << >> /\ encodeErr = FALSE /\ bodyEnd = FALSE
    /\ done = "none"
    /\ conn = "idle" /\ wire = << >> /\ response = "none" /\ received = << >>

Alive == main # "returned"

Room == Len(events) < QueueSize

Enqueue(e) ==
    /\ Room
    /\ events' = Append(events, e)
    /\ accepted' = Append(accepted, e)

-----------------------------------------------------------------------------
(***************************************************************************)
(* run and the goroutines that copy the command's output.                  *)
(***************************************************************************)
SendStart ==
    /\ main = "start"
    /\ Enqueue(StartEvent)
    /\ main' = "running"
    /\ UNCHANGED <<closed, dropped, writes, written, result, upVars, netVars>>

(* Mutant: a copying goroutine outlives Wait, and closed is not tested. *)
WriteLate(bytes) ==
    /\ main \notin {"start", "returned"} /\ writes < MaxWrites
    /\ writes' = writes + 1
    /\ written' = written + bytes
    /\ \/ Enqueue(Output(writes + 1, bytes)) /\ UNCHANGED dropped
       \/ ~Room /\ dropped' = dropped + bytes /\ UNCHANGED <<events, accepted>>
    /\ UNCHANGED <<main, closed, result, upVars, netVars>>

(* Mutant: dropped counts events. *)
WriteCountingEvents(bytes) ==
    /\ main = "running" /\ writes < MaxWrites
    /\ writes' = writes + 1
    /\ written' = written + bytes
    /\ \/ Enqueue(Output(writes + 1, bytes)) /\ UNCHANGED dropped
       \/ ~Room /\ dropped' = dropped + 1 /\ UNCHANGED <<events, accepted>>
    /\ UNCHANGED <<main, closed, result, upVars, netVars>>

(* Write of one chunk: it never waits.  With no room its bytes are counted *)
(* and it is gone.                                                         *)
Write(bytes) ==
    /\ main = "running" /\ writes < MaxWrites
    /\ writes' = writes + 1
    /\ written' = written + bytes
    /\ \/ Enqueue(Output(writes + 1, bytes)) /\ UNCHANGED dropped
       \/ ~Room /\ dropped' = dropped + bytes /\ UNCHANGED <<events, accepted>>
    /\ UNCHANGED <<main, closed, result, upVars, netVars>>

(* cmd.Wait has returned, after the last Write; Close begins: an overflow  *)
(* notice if bytes were dropped and if there is room at this moment.       *)
CloseNotice ==
    /\ main = "running"
    /\ main' = "closing"
    /\ IF dropped > 0 /\ Room
         THEN Enqueue(NoticeEvent(dropped))
         ELSE UNCHANGED <<events, accepted>>
    /\ UNCHANGED <<closed, dropped, writes, written, result, upVars, netVars>>

(* The exit event is queued, or finalSendTimeout passes while there is no  *)
(* room; then the channel is closed.                                       *)
CloseExit ==
    /\ main = "closing"
    /\ Enqueue(ExitEvent)
    /\ closed' = TRUE /\ main' = "await"
    /\ UNCHANGED <<dropped, writes, written, result, upVars, netVars>>

CloseExitTimeout ==
    /\ main = "closing" /\ ~Room
    /\ closed' = TRUE /\ main' = "await"
    /\ UNCHANGED <<dropped, writes, written, result, events, accepted, upVars, netVars>>

(* The result of the upload, or the rest of the timeout                    *)
AwaitResult ==
    /\ main = "await" /\ done # "none"
    /\ result' = done /\ main' = "returned"
    /\ UNCHANGED <<closed, dropped, writes, written, events, accepted, upVars, netVars>>

(* Mutant: the timer runs only once the whole body is out. *)
AwaitTimeoutOfResponse ==
    /\ main = "await" /\ up = "response"
    /\ result' = "error" /\ main' = "returned"
    /\ UNCHANGED <<closed, dropped, writes, written, events, accepted, upVars, netVars>>

AwaitTimeout ==
    /\ main = "await"
    /\ result' = "error" /\ main' = "returned"
    /\ UNCHANGED <<closed, dropped, writes, written, events, accepted, upVars, netVars>>

-----------------------------------------------------------------------------
(***************************************************************************)
(* The upload goroutine.                                                   *)
(***************************************************************************)

(* NewRequest succeeds and the HTTP goroutine starts to dial, or it fails: *)
(* then upload ends and nobody reads the channel.                          *)
NewRequest ==
    /\ Alive /\ up = "new"
    /\ \/ up' = "take" /\ conn' = "dialing" /\ UNCHANGED done
       \/ up' = "ended" /\ done' = "error" /\ UNCHANGED conn
    /\ UNCHANGED <<mainVars, events, accepted, inHand, encodeErr, bodyEnd,
                   wire, response, received>>

Take ==
    /\ Alive /\ up = "take" /\ events # << >>
    /\ events' = Tail(events)
    /\ IF encodeErr
         THEN UNCHANGED <<up, inHand>>                 \* drained, not sent
         ELSE up' = "encode" /\ inHand' = <<Head(events)>>
    /\ UNCHANGED <<mainVars, accepted, encodeErr, bodyEnd, done, netVars>>

(* Mutant: an event the pipe does not take at once is skipped. *)
EncodeOrSkip ==
    /\ Alive /\ up = "encode" /\ conn = "open"
    /\ wire' = IF Len(wire) < NetBuffer THEN wire \o inHand ELSE wire
    /\ inHand' = << >> /\ up' = "take"
    /\ UNCHANGED <<mainVars, events, accepted, encodeErr, bodyEnd, done,
                   conn, response, received>>

(* Encode writes the event into the pipe, and waits while nobody reads it. *)
Encode ==
    /\ Alive /\ up = "encode" /\ conn = "open" /\ Len(wire) < NetBuffer
    /\ wire' = wire \o inHand
    /\ inHand' = << >> /\ up' = "take"
    /\ UNCHANGED <<mainVars, events, accepted, encodeErr, bodyEnd, done,
                   conn, response, received>>

(* The transport has closed the body: every later event is discarded.      *)
EncodeFails ==
    /\ Alive /\ up = "encode" /\ conn = "shut"
    /\ encodeErr' = TRUE
    /\ inHand' = << >> /\ up' = "take"
    /\ UNCHANGED <<mainVars, events, accepted, bodyEnd, done, netVars>>

(* The channel is closed and empty: the body ends.                         *)
PipeClose ==
    /\ Alive /\ up = "take" /\ closed /\ events = << >>
    /\ up' = "response"
    /\ bodyEnd' = ~encodeErr
    /\ UNCHANGED <<mainVars, events, accepted, inHand, encodeErr, done, netVars>>

(* A 2xx response does not hide an encoding error.                         *)
Finish ==
    /\ Alive /\ up = "response" /\ response # "none"
    /\ up' = "ended"
    /\ done' = IF response = "ok" /\ ~encodeErr THEN "ok" ELSE "error"
    /\ UNCHANGED <<mainVars, events, accepted, inHand, encodeErr, bodyEnd, netVars>>

-----------------------------------------------------------------------------
(***************************************************************************)
(* The connection and the relay.                                           *)
(***************************************************************************)
Dialed ==
    /\ Alive /\ conn = "dialing"
    /\ conn' = "open"
    /\ UNCHANGED <<mainVars, events, accepted, upVars, wire, response, received>>

(* client.Do fails: the relay cannot be reached, or the connection breaks. *)
Broken ==
    /\ Alive /\ conn \in {"dialing", "open"} /\ response = "none"
    /\ conn' = "shut" /\ response' = "broken"
    /\ UNCHANGED <<mainVars, events, accepted, upVars, wire, received>>

(* The relay decodes an event, also one that was on the way when the       *)
(* connection broke or the wrapper returned.                               *)
RelayReads ==
    /\ wire # << >>
    /\ received' = Append(received, Head(wire))
    /\ wire' = Tail(wire)
    /\ UNCHANGED <<mainVars, events, accepted, upVars, conn, response>>

(* The relay refuses: at once (401, 429, 400, 403, 502), in the middle of  *)
(* the stream (400), or at its end.                                        *)
RelayRefuses ==
    /\ Alive /\ conn = "open" /\ response = "none"
    /\ response' = "refused"
    /\ UNCHANGED <<mainVars, events, accepted, upVars, conn, wire, received>>

(* Mutant: the exit event is not asked for. *)
RelayAcceptsAnyEnd ==
    /\ Alive /\ conn = "open" /\ response = "none"
    /\ bodyEnd /\ wire = << >>
    /\ response' = "ok"
    /\ UNCHANGED <<mainVars, events, accepted, upVars, conn, wire, received>>

(* The relay answers 200 only at the end of the body and after an exit     *)
(* event.                                                                  *)
RelayAccepts ==
    /\ Alive /\ conn = "open" /\ response = "none"
    /\ bodyEnd /\ wire = << >>
    /\ \E i \in DOMAIN received : received[i].type = "exit"
    /\ response' = "ok"
    /\ UNCHANGED <<mainVars, events, accepted, upVars, conn, wire, received>>

(* After the response the transport stops sending the body.                *)
BodyShut ==
    /\ Alive /\ conn = "open" /\ response # "none"
    /\ conn' = "shut"
    /\ UNCHANGED <<mainVars, events, accepted, upVars, wire, response, received>>

-----------------------------------------------------------------------------
Wrapper == \/ SendStart \/ CloseNotice \/ CloseExit \/ CloseExitTimeout
           \/ AwaitResult \/ AwaitTimeout
           \/ \E bytes \in Sizes : Write(bytes)

Upload  == NewRequest \/ Take \/ Encode \/ EncodeFails \/ PipeClose \/ Finish

Network == Dialed \/ Broken \/ RelayReads \/ RelayRefuses \/ RelayAccepts \/ BodyShut

Next == Wrapper \/ Upload \/ Network

Spec == Init /\ [][Next]_vars

(***************************************************************************)
(* The wrapper's goroutine is scheduled and its timers fire.  Nothing is   *)
(* assumed of the network or of the relay, which may hang for ever.        *)
(***************************************************************************)
WrapperFairness ==
    /\ WF_vars(SendStart) /\ WF_vars(CloseExit \/ CloseExitTimeout)
    /\ WF_vars(AwaitResult \/ AwaitTimeout)

FairSpec == Spec /\ WrapperFairness

-----------------------------------------------------------------------------
(***************************************************************************)
(* Properties.                                                             *)
(***************************************************************************)
(* Every variable has its type; neither the events channel nor the network *)
(* holds more than its capacity (session.go, New).                         *)
TypeOK ==
    /\ main \in {"start", "running", "closing", "await", "returned"}
    /\ events \in Seq(Event) /\ Len(events) <= QueueSize
    /\ closed \in BOOLEAN /\ encodeErr \in BOOLEAN /\ bodyEnd \in BOOLEAN
    /\ dropped \in Nat /\ writes \in 0..MaxWrites /\ written \in Nat
    /\ up \in {"new", "take", "encode", "response", "ended"}
    /\ inHand \in Seq(Event) /\ Len(inHand) <= 1
    /\ conn \in {"idle", "dialing", "open", "shut"}
    /\ wire \in Seq(Event) /\ Len(wire) <= NetBuffer
    /\ response \in {"none", "ok", "refused", "broken"}
    /\ done \in {"none", "ok", "error"} /\ result \in {"none", "ok", "error"}
    /\ accepted \in Seq(Event) /\ received \in Seq(Event)

(* The relay sees the accepted events in order, without a gap and without  *)
(* a repetition, and while no encoding failed every accepted event is      *)
(* somewhere on the way.                                                   *)
RelayedInOrder ==
    /\ IsPrefix(received, accepted)
    /\ ~encodeErr => received \o wire \o inHand \o events = accepted

(* The protocol the daemon relies on: the start event comes first, the     *)
(* exit event last, and both once; the notice is next to last or last.     *)
ProtocolOrder ==
    \A i \in DOMAIN received :
        /\ received[i].type = "start" <=> i = 1
        /\ received[i].type = "exit" => i = Len(received)
        /\ received[i].type = "notice" =>
              \A j \in (i+1)..Len(received) : received[j].type = "exit"

(* What the relay sees is a beginning of what was accepted, in the order   *)
(* the protocol asks for, whatever breaks or times out (session.go).       *)
Safety == TypeOK /\ RelayedInOrder /\ ProtocolOrder

(* The bytes of the output events in s *)
OutputBytes(s) ==
    LET sum[n \in 0..Len(s)] ==
            IF n = 0 THEN 0
            ELSE sum[n - 1] + (IF s[n].type = "output" THEN s[n].bytes ELSE 0)
    IN  sum[Len(s)]

(* Every byte the command wrote is in an accepted event or is counted as   *)
(* dropped, and a notice that went out states the final count.             *)
BytesAccounted ==
    /\ written = dropped + OutputBytes(accepted)
    /\ \A i \in DOMAIN accepted :
          accepted[i].type = "notice" => accepted[i].bytes = dropped

(* Close reports success only if the relay has decoded every accepted      *)
(* event, the exit event included: an early 2xx, a timeout while queueing  *)
(* the exit event, or a broken body is an error.                           *)
SuccessIsComplete ==
    result = "ok" => /\ received = accepted
                     /\ received[Len(received)] = ExitEvent

(* Once the command has ended the wrapper returns with its exit code, even *)
(* if the relay accepts the connection and then never reads or answers.    *)
WrapperReturns == (main = "closing") ~> (main = "returned")

(* README.md: the omitted byte count is reported in Discord or on stderr.  *)
(* run prints only the daemon's own count after a success, so the notice   *)
(* must have reached the relay.                                            *)
LossReported ==
    (result = "ok" /\ dropped > 0) =>
        \E i \in DOMAIN received : received[i].type = "notice"

=============================================================================
