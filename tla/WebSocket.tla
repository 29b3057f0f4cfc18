----------------------------- MODULE WebSocket -----------------------------
(***************************************************************************)
(* One WebSocket connection (src/internal/wsclient/wsclient.go) as the     *)
(* Gateway client uses it.                                                 *)
(*                                                                         *)
(* Several goroutines share the connection: the reader calls ReadJSON in a *)
(* loop, answers pings inside it and now and then calls WriteJSON; the     *)
(* heartbeat calls WriteJSON; and whoever gives up, or sees the context    *)
(* cancelled, calls Close.  A frame is written in two pieces, header and   *)
(* payload, under writeMu.  The write deadline belongs to the socket, not  *)
(* to a frame: WriteJSON's caller and Close set it, nobody clears it.      *)
(*                                                                         *)
(* A payload is its size; a message is the list of the frames it is made   *)
(* of, by their numbers.  Masks and lengths are left out.                  *)
(***************************************************************************)
EXTENDS Integers, Sequences, FiniteSets

CONSTANTS
    Closers,         \* goroutines that wait for the end and call Close
    Frame,           \* the frames the peer may send
    MaxMessage,      \* maxMessageSize
    MaxControl,      \* the largest payload of a control frame (125)
    WriteTimeout,    \* the write deadline gateway.go sets, in units of time
    CloseTimeout,    \* the one Close sets
    ReadTimeout,     \* of the handshake, and of the first message
    MaxFrames,       \* bound: frames the peer sends
    MaxWrites        \* bound: calls of WriteJSON

Opcode == {"text", "continuation", "ping", "pong", "close", "other"}
Users  == {"reader", "heartbeat"}
Procs  == Users \cup Closers
Never  == -1         \* time.Time{}, no deadline

ASSUME CloserAssumption == "none" \notin Closers
ASSUME FrameAssumption == Frame \subseteq [op : Opcode, fin : BOOLEAN, size : Nat]
ASSUME TimeAssumption ==
    {WriteTimeout, CloseTimeout, ReadTimeout} \subseteq Nat \ {0}

VARIABLES
    sock,       \* "dial", "handshake", "open", "closed"; "failed": no Conn
    tls,        \* wss: after a failed write every later one fails
    at,         \* where each goroutine is
    kind,       \* the frame it writes, or wrote last
    holder,     \* who holds writeMu
    gatewayMu,  \* who holds the mutex of gateway.go's writeJSON
    deadline,   \* the write deadline: time left, 0 expired, or Never
    readBy,     \* the read deadline
    failed,     \* a write has failed on the open connection
    writes,     \* number of WriteJSON calls
    message,    \* the message being read
    delivered,  \* the messages ReadJSON has read
    \* History and environment, for the properties:
    frames,     \* the frames received
    begun,      \* the frame whose header is the last piece written, if any
    torn,       \* a piece was written that does not continue that frame
    pongs,      \* pongs written whole
    fault       \* the network failed

procVars == <<at, kind, holder, gatewayMu>>
readVars == <<message, delivered, frames>>
wireVars == <<begun, torn, pongs>>
vars == <<sock, tls, procVars, deadline, readBy, failed, writes, readVars,
          wireVars, fault>>

Init ==
    /\ sock = "dial" /\ tls \in BOOLEAN
    /\ at = [p \in Procs |-> "idle"] /\ kind = [p \in Procs |-> "text"]
    /\ holder = "none" /\ gatewayMu = "none"
    /\ deadline = Never /\ readBy = Never
    /\ failed = FALSE /\ writes = 0
    /\ message = << >> /\ delivered = << >> /\ frames = << >>
    /\ begun = << >> /\ torn = FALSE /\ pongs = 0 /\ fault = FALSE

Go(p, place) == at' = [at EXCEPT ![p] = place]

-----------------------------------------------------------------------------
(* DialContext: the TCP or TLS connection, within the dialer's timeout. *)
Dial ==
    /\ sock = "dial"
    /\ \/ sock' = "handshake" /\ deadline' = ReadTimeout /\ readBy' = ReadTimeout
       \/ sock' = "failed" /\ UNCHANGED <<deadline, readBy>>
    /\ UNCHANGED <<tls, procVars, failed, writes, readVars, wireVars, fault>>

(* The peer upgrades: no deadline any more, but one for the first message. *)
Upgraded ==
    /\ sock = "handshake" /\ deadline # 0
    /\ sock' = "open" /\ deadline' = Never /\ readBy' = ReadTimeout
    /\ UNCHANGED <<tls, procVars, failed, writes, readVars, wireVars, fault>>

(* A bad status, header or key, a fault, or the deadline. *)
NotUpgraded ==
    /\ sock = "handshake" /\ sock' = "failed"
    /\ UNCHANGED <<tls, procVars, deadline, readBy, failed, writes, readVars, wireVars, fault>>

-----------------------------------------------------------------------------
(***************************************************************************)
(* Writing.                                                                *)
(***************************************************************************)

(* WriteJSON under gateway.go's mutex, after it has set the deadline.  The *)
(* Gateway writes nothing before the first message, its hello, is read.    *)
WriteJSON(p) ==
    /\ delivered # << >> /\ at[p] = "idle" /\ gatewayMu = "none"
    /\ writes < MaxWrites
    /\ writes' = writes + 1 /\ gatewayMu' = p
    /\ deadline' = WriteTimeout
    /\ kind' = [kind EXCEPT ![p] = "text"] /\ Go(p, "lock")
    /\ UNCHANGED <<sock, tls, holder, readBy, failed, readVars, wireVars, fault>>

(* Mutant: the frames of two goroutines are not kept apart. *)
LockShared(p) ==
    /\ at[p] = "lock"
    /\ holder' = p /\ Go(p, "header")
    /\ UNCHANGED <<sock, tls, kind, gatewayMu, deadline, readBy, failed, writes,
                   readVars, wireVars, fault>>

(* writeFrame locks writeMu. *)
Lock(p) ==
    /\ at[p] = "lock" /\ holder = "none"
    /\ holder' = p /\ Go(p, "header")
    /\ UNCHANGED <<sock, tls, kind, gatewayMu, deadline, readBy, failed, writes,
                   readVars, wireVars, fault>>

(* Mutant: a failed pong does not end the read. *)
NextPlaceIgnoringPong(p, ok) ==
    CASE kind[p] = "close" -> "shut"
      [] kind[p] = "pong"  -> "read"
      [] kind[p] = "text"  -> IF ok THEN "idle" ELSE "leave"
      [] kind[p] = "reply" -> "leave"

(* Where a goroutine goes on after a frame: a failed write makes its user  *)
(* give up the connection, Close and the answer to a close ignore it.      *)
NextPlace(p, ok) ==
    CASE kind[p] = "close" -> "shut"
      [] kind[p] = "pong"  -> IF ok THEN "read" ELSE "leave"
      [] kind[p] = "text"  -> IF ok THEN "idle" ELSE "leave"
      [] kind[p] = "reply" -> "leave"

(* The end of writeFrame, and of writeJSON around it *)
Written(p, ok) ==
    /\ holder' = "none"
    /\ gatewayMu' = IF gatewayMu = p THEN "none" ELSE gatewayMu
    /\ Go(p, NextPlace(p, ok))

(* What makes a Write of the socket fail before it has written anything *)
Refused == sock # "open" \/ deadline = 0 \/ fault \/ (tls /\ failed)

(* The peer takes one piece. *)
WritePiece(p) ==
    /\ at[p] \in {"header", "payload"} /\ ~Refused
    /\ IF at[p] = "header"
         THEN /\ begun' = <<p, kind[p]>> /\ torn' = (torn \/ begun # << >>)
              /\ Go(p, "payload") /\ UNCHANGED <<holder, gatewayMu, pongs>>
         ELSE /\ begun' = << >> /\ torn' = (torn \/ begun # <<p, kind[p]>>)
              /\ pongs' = IF kind[p] = "pong" THEN pongs + 1 ELSE pongs
              /\ Written(p, TRUE)
    /\ UNCHANGED <<sock, tls, kind, deadline, readBy, failed, writes, readVars, fault>>

WriteFails(p) ==
    /\ at[p] \in {"header", "payload"} /\ Refused
    /\ failed' = TRUE
    /\ Written(p, FALSE)
    /\ UNCHANGED <<sock, tls, kind, deadline, readBy, writes, readVars, wireVars, fault>>

-----------------------------------------------------------------------------
(***************************************************************************)
(* Reading.                                                                *)
(***************************************************************************)
(* The length of a message, given by the numbers of its frames *)
Total(sizes) ==
    LET sum[n \in 0..Len(sizes)] == IF n = 0 THEN 0 ELSE sizes[n] + sum[n-1]
    IN  sum[Len(sizes)]
SizeOf(list) == Total([n \in 1..Len(list) |-> frames[list[n]].size])

ReadJSON ==
    /\ sock \in {"open", "closed"} /\ at["reader"] = "idle"
    /\ message' = << >> /\ Go("reader", "read")
    /\ UNCHANGED <<sock, tls, kind, holder, gatewayMu, deadline, readBy, failed,
                   writes, delivered, frames, wireVars, fault>>

(* What readFrame refuses *)
IsControl(f) == f.op \in {"close", "ping", "pong"}
BadFrame(f) == \/ f.size > MaxMessage
               \/ IsControl(f) /\ (~f.fin \/ f.size > MaxControl)

(* The answer to a ping or a close is written by the reader itself. *)
Answer(as) ==
    /\ kind' = [kind EXCEPT !["reader"] = as] /\ Go("reader", "lock")
    /\ UNCHANGED <<message, delivered, readBy>>

GiveUp == Go("reader", "leave") /\ UNCHANGED <<kind, message, delivered, readBy>>

(* Mutant: a new text frame may come inside a message. *)
OutOfPlaceInside(f) == f.op = "continuation" /\ message = << >>

(* A text frame inside a message, or a continuation outside *)
OutOfPlace(f) ==
    \/ f.op = "text" /\ message # << >>
    \/ f.op = "continuation" /\ message = << >>

(* Text is added to the message, which may now be too long or complete.    *)
(* The caller clears the read deadline after the first message.            *)
Data(f) ==
    /\ message' = Append(message, Len(frames'))
    /\ LET fits == SizeOf(message)' <= MaxMessage IN
       \/ ~fits /\ Go("reader", "leave") /\ UNCHANGED <<delivered, readBy>>
       \/ fits /\ ~f.fin /\ UNCHANGED <<at, delivered, readBy>>
       \/ /\ fits /\ f.fin
          /\ delivered' = Append(delivered, message') /\ readBy' = Never
          /\ Go("reader", "idle")
    /\ UNCHANGED kind

(* One frame arrives at readMessage.  It may come from the buffer of       *)
(* bufio.Reader, and so after a deadline, a fault or a Close.              *)
Receive(f) ==
    /\ at["reader"] = "read" /\ Len(frames) < MaxFrames
    /\ frames' = Append(frames, f)
    /\ CASE BadFrame(f) \/ f.op = "other" \/ OutOfPlace(f) -> GiveUp
         [] ~BadFrame(f) /\ f.op = "ping"  -> Answer("pong")
         [] ~BadFrame(f) /\ f.op = "close" -> Answer("reply")
         [] ~BadFrame(f) /\ f.op = "pong"  -> UNCHANGED <<at, kind, message, delivered, readBy>>
         [] OTHER -> Data(f)
    /\ UNCHANGED <<sock, tls, holder, gatewayMu, deadline, failed, writes, wireVars, fault>>

(* The socket is closed, the deadline over, or the network down. *)
ReadFails ==
    /\ at["reader"] = "read" /\ (sock # "open" \/ readBy = 0 \/ fault)
    /\ Go("reader", "leave")
    /\ UNCHANGED <<sock, tls, kind, holder, gatewayMu, deadline, readBy, failed, writes,
                   readVars, wireVars, fault>>

-----------------------------------------------------------------------------
(***************************************************************************)
(* Closing.                                                                *)
(***************************************************************************)

(* Mutant: Close sets no deadline. *)
CloseWithoutDeadline(p) ==
    /\ sock \in {"open", "closed"}
    /\ at[p] = "leave" \/ (p \in Closers /\ at[p] = "idle")
    /\ kind' = [kind EXCEPT ![p] = "close"] /\ Go(p, "lock")
    /\ UNCHANGED <<sock, tls, holder, gatewayMu, deadline, readBy, failed, writes, readVars,
                   wireVars, fault>>

(* Close sets its deadline, which also ends a write that waits, and then   *)
(* queues for writeMu to send its frame.  The reader closes when it leaves *)
(* connectAndServe, the watcher of the heartbeat on its behalf, a closer   *)
(* when the context is cancelled.                                          *)
Close(p) ==
    /\ sock \in {"open", "closed"}
    /\ at[p] = "leave" \/ (p \in Closers /\ at[p] = "idle")
    /\ deadline' = CloseTimeout
    /\ kind' = [kind EXCEPT ![p] = "close"] /\ Go(p, "lock")
    /\ UNCHANGED <<sock, tls, holder, gatewayMu, readBy, failed, writes, readVars,
                   wireVars, fault>>

Shut(p) ==
    /\ at[p] = "shut"
    /\ sock' = "closed" /\ Go(p, "done")
    /\ UNCHANGED <<tls, kind, holder, gatewayMu, deadline, readBy, failed, writes, readVars,
                   wireVars, fault>>

-----------------------------------------------------------------------------
(* The network fails. *)
Fault ==
    /\ sock = "open" /\ ~fault /\ fault' = TRUE
    /\ UNCHANGED <<sock, tls, procVars, deadline, readBy, failed, writes, readVars, wireVars>>

Earlier(d) == IF d > 0 THEN d - 1 ELSE d

(* One unit of time passes. *)
Tick ==
    /\ deadline > 0 \/ readBy > 0
    /\ deadline' = Earlier(deadline) /\ readBy' = Earlier(readBy)
    /\ UNCHANGED <<sock, tls, procVars, failed, writes, readVars, wireVars, fault>>

Next ==
    \/ Dial \/ Upgraded \/ NotUpgraded
    \/ \E p \in Users : WriteJSON(p)
    \/ \E p \in Procs : Lock(p) \/ WritePiece(p) \/ WriteFails(p) \/ Close(p) \/ Shut(p)
    \/ ReadJSON \/ (\E f \in Frame : Receive(f)) \/ ReadFails
    \/ Fault \/ Tick

Spec == Init /\ [][Next]_vars

(***************************************************************************)
(* Time passes, dialling and the handshake end by their timeouts, and each *)
(* goroutine goes on, through writeMu too because Go's mutex does not      *)
(* starve.  Nothing is assumed of the peer: it may send nothing and accept *)
(* nothing.  A closer need not begin.                                      *)
(***************************************************************************)
Fairness ==
    /\ WF_vars(Tick) /\ WF_vars(Dial) /\ WF_vars(deadline = 0 /\ NotUpgraded)
    /\ WF_vars(ReadJSON) /\ WF_vars(ReadFails)
    /\ \A p \in Procs : SF_vars(Lock(p)) /\ WF_vars(WriteFails(p)) /\ WF_vars(Shut(p))
    /\ \A p \in Users : WF_vars(Close(p))

FairSpec == Spec /\ Fairness

-----------------------------------------------------------------------------
(***************************************************************************)
(* Properties.                                                             *)
(***************************************************************************)
Places == {"idle", "read", "lock", "header", "payload", "leave", "shut", "done"}

(* Types; and writeMu is held exactly by the goroutine that writes.        *)
TypeOK ==
    /\ sock \in {"dial", "handshake", "open", "closed", "failed"} /\ tls \in BOOLEAN
    /\ at \in [Procs -> Places]
    /\ kind \in [Procs -> {"text", "pong", "reply", "close"}]
    /\ \A p \in Procs : (holder = p) <=> (at[p] \in {"header", "payload"})
    /\ holder \in Procs \cup {"none"} /\ gatewayMu \in Users \cup {"none"}
    /\ deadline \in Int /\ readBy \in Int /\ writes \in Nat
    /\ frames \in Seq(Frame) /\ message \in Seq(Nat) /\ delivered \in Seq(Seq(Nat))
    /\ begun \in {<< >>} \cup (Procs \X {"text", "pong", "reply", "close"})
    /\ torn \in BOOLEAN /\ pongs \in Nat
    /\ failed \in BOOLEAN /\ fault \in BOOLEAN

(* What reaches the peer is whole frames, each header followed by its own  *)
(* payload, whoever writes them - over TLS always, without it until a      *)
(* write fails (writeFrame, and crypto/tls refusing writes after that).    *)
FramesWhole == tls \/ ~failed => ~torn

(* The types, and that the frames of several goroutines never mix.         *)
Safety == TypeOK /\ FramesWhole

IsData(i) == frames[i].op \in {"text", "continuation"}

(* What ReadJSON hands to the Gateway are the peer's messages: the data    *)
(* frames in order, none left out between the first and the last, cut      *)
(* where the peer cut them, whatever control frames came in between, and   *)
(* none longer than the limit, however it was cut (readMessage).           *)
MessagesWhole ==
    \A k \in DOMAIN delivered :
        LET d == delivered[k] IN
        /\ frames[d[1]].op = "text" /\ frames[d[Len(d)]].fin
        /\ \A i \in 2..Len(d) : frames[d[i]].op = "continuation" /\ ~frames[d[i-1]].fin
        /\ \A i \in 2..Len(d) : \A j \in (d[i-1] + 1)..(d[i] - 1) : ~IsData(j)
        /\ k > 1 => LET e == delivered[k-1] IN
                    \A j \in (e[Len(e)] + 1)..(d[1] - 1) : ~IsData(j)
        /\ SizeOf(d) <= MaxMessage

(* Every ping the reader has read past was answered, by a whole pong: a    *)
(* peer that checks the connection by pings sees it alive as long as it is *)
(* read (readMessage).                                                     *)
PingsAnswered ==
    at["reader"] \in {"read", "idle"} =>
        Cardinality({i \in DOMAIN frames : frames[i].op = "ping"}) = pongs

Closing(p) == at[p] \in {"leave", "shut"} \/ (kind[p] = "close" /\ at[p] # "done")

(* Close returns although the peer accepts nothing and another goroutine   *)
(* is in the middle of a frame; once one is over the reader is out of      *)
(* ReadJSON and gone, and nobody still writes; and dialling ends:          *)
(* connectAndServe returns.                                                *)
ClosedEndsAll ==
    /\ \A p \in Procs : Closing(p) ~> at[p] = "done"
    /\ sock = "closed" ~> at["reader"] = "done" /\ at["heartbeat"] \in {"idle", "done"}
    /\ sock \in {"dial", "handshake"} ~> sock \in {"open", "failed"}

=============================================================================
