------------------------------- MODULE Server -------------------------------
(***************************************************************************)
(* The relay daemon (src/internal/daemon/server.go, src/cmd/wrapping-botd):*)
(* one handleStream per request, all of them sharing the semaphore that    *)
(* bounds the concurrent runs, each with a Batcher of its own, and the     *)
(* process that stops within ten seconds of a signal.                      *)
(*                                                                         *)
(* A Batcher is here what module Batcher proves of it: accepted outputs    *)
(* are posted in order, Close returns when all of them and the overflow    *)
(* notice were tried.  One post stands for all the parts of one flush.     *)
(***************************************************************************)
EXTENDS Naturals, Sequences, FiniteSets

CONSTANTS
    Run,               \* requests to POST /v1/runs/stream
    MaxConcurrentRuns, \* capacity of the semaphore
    QueueSize,         \* capacity of one batcher's channel
    MaxEvents,         \* bound: events after the start event, per run
    MaxParts           \* bound: parts sendLong splits a message into

ASSUME ServerAssumption ==
    /\ IsFiniteSet(Run)
    /\ MaxConcurrentRuns \in Nat \ {0} /\ QueueSize \in Nat \ {0}
    /\ MaxEvents \in Nat /\ MaxParts \in Nat \ {0}

VARIABLES
    daemon,        \* up, draining after a signal, or down
    semaphore,     \* tokens in s.semaphore
    pc,            \* where each handler is
    reply,         \* the status it has written, 0 before
    parts,         \* parts of the start or final message still to send
    count,         \* events read after the start event
    exitEvent,     \* number of the latest exit event, 0 for nil
    streamErr,     \* streamErr # nil
    channel,       \* the batcher's channel: numbers of output events
    buffer,        \* outputs its goroutine has read and not posted
    dropped,       \* outputs Add found no room for
    noticed,       \* the overflow notice was posted
    batchErr,      \* a post of the run failed: batchErr # nil
    posts          \* history: the messages of each run, in order

control == <<daemon, semaphore>>
stream  == <<count, exitEvent, streamErr>>
batcher == <<channel, buffer, dropped, noticed>>
vars    == <<control, pc, reply, parts, stream, batcher, batchErr, posts>>

Init ==
    /\ daemon = "up" /\ semaphore = 0
    /\ pc = [r \in Run |-> "idle"]
    /\ reply = [r \in Run |-> 0] /\ parts = [r \in Run |-> 0]
    /\ count = [r \in Run |-> 0] /\ exitEvent = [r \in Run |-> 0]
    /\ streamErr = [r \in Run |-> FALSE]
    /\ channel = [r \in Run |-> << >>] /\ buffer = [r \in Run |-> << >>]
    /\ dropped = [r \in Run |-> 0] /\ noticed = [r \in Run |-> FALSE]
    /\ batchErr = [r \in Run |-> FALSE]
    /\ posts = [r \in Run |-> << >>]

(* The handler of r is at p, in a process that still runs. *)
At(r, p) == pc[r] = p /\ daemon # "down"

Goto(r, p) == pc' = [pc EXCEPT ![r] = p]

Post(r, kind, text, ok) ==
    posts' = [posts EXCEPT ![r] =
                Append(@, [kind |-> kind, text |-> text, ok |-> ok,
                           dropped |-> dropped[r], failed |-> batchErr[r]])]

(* writeJSON, then return: the slot is given back after the response.      *)
Reply(r, status) ==
    /\ reply' = [reply EXCEPT ![r] = status]
    /\ Goto(r, "return")

-----------------------------------------------------------------------------
(***************************************************************************)
(* Admission.                                                              *)
(***************************************************************************)
Unauthorized(r) ==
    /\ pc[r] = "idle" /\ daemon = "up"
    /\ reply' = [reply EXCEPT ![r] = 401] /\ Goto(r, "done")
    /\ UNCHANGED <<control, parts, stream, batcher, batchErr, posts>>

TooManyRuns(r) ==
    /\ pc[r] = "idle" /\ daemon = "up" /\ semaphore >= MaxConcurrentRuns
    /\ reply' = [reply EXCEPT ![r] = 429] /\ Goto(r, "done")
    /\ UNCHANGED <<control, parts, stream, batcher, batchErr, posts>>

Acquire(r) ==
    /\ pc[r] = "idle" /\ daemon = "up" /\ semaphore < MaxConcurrentRuns
    /\ semaphore' = semaphore + 1
    /\ Goto(r, "start")
    /\ UNCHANGED <<daemon, reply, parts, stream, batcher, batchErr, posts>>

(* Mutant: this way out does not release the slot. *)
BadStartKeepsSlot(r) ==
    /\ At(r, "start")
    /\ reply' = [reply EXCEPT ![r] = 400] /\ Goto(r, "done")
    /\ UNCHANGED <<control, parts, stream, batcher, batchErr, posts>>

(* No start event, one validateStart refuses, or a channel that is not     *)
(* allowed                                                                 *)
BadStart(r) ==
    /\ At(r, "start")
    /\ \E status \in {400, 403} : Reply(r, status)
    /\ UNCHANGED <<control, parts, stream, batcher, batchErr, posts>>

GoodStart(r) ==
    /\ At(r, "start")
    /\ \E n \in 1..MaxParts : parts' = [parts EXCEPT ![r] = n]
    /\ Goto(r, "announce")
    /\ UNCHANGED <<control, reply, stream, batcher, batchErr, posts>>

(* sendLong of the start message stops at the first part that fails: 502.  *)
PostStart(r, ok) ==
    /\ At(r, "announce")
    /\ Post(r, "start", << >>, ok)
    /\ parts' = [parts EXCEPT ![r] = @ - 1]
    /\ \/ ~ok /\ Reply(r, 502)
       \/ ok /\ parts[r] = 1 /\ Goto(r, "stream") /\ UNCHANGED reply
       \/ ok /\ parts[r] > 1 /\ UNCHANGED <<pc, reply>>
    /\ UNCHANGED <<control, stream, batcher, batchErr>>

-----------------------------------------------------------------------------
(***************************************************************************)
(* The decoding loop.                                                      *)
(***************************************************************************)
NextEvent(r) ==
    /\ At(r, "stream") /\ count[r] < MaxEvents
    /\ count' = [count EXCEPT ![r] = @ + 1]

Output(r) ==
    /\ NextEvent(r)
    /\ IF Len(channel[r]) < QueueSize
         THEN channel' = [channel EXCEPT ![r] = Append(@, count'[r])] /\ UNCHANGED dropped
         ELSE dropped' = [dropped EXCEPT ![r] = @ + 1] /\ UNCHANGED channel
    /\ UNCHANGED <<control, pc, reply, parts, exitEvent, streamErr, buffer, noticed,
                   batchErr, posts>>

(* The loop goes on after an exit event; the latest one counts.            *)
Exit(r) ==
    /\ NextEvent(r)
    /\ exitEvent' = [exitEvent EXCEPT ![r] = count'[r]]
    /\ UNCHANGED <<control, pc, reply, parts, streamErr, batcher, batchErr, posts>>

EndOfStream(r) ==
    /\ At(r, "stream")
    /\ Goto(r, "close")
    /\ UNCHANGED <<control, reply, parts, stream, batcher, batchErr, posts>>

(* Mutant: a broken stream is answered at once. *)
StreamFailsAtOnce(r) ==
    /\ At(r, "stream")
    /\ streamErr' = [streamErr EXCEPT ![r] = TRUE]
    /\ Reply(r, 400)
    /\ UNCHANGED <<control, parts, count, exitEvent, batcher, batchErr, posts>>

(* The connection breaks, the body is too long or not JSON, or an event    *)
(* has another version or run ID or an unknown type.                       *)
StreamFails(r) ==
    /\ At(r, "stream")
    /\ streamErr' = [streamErr EXCEPT ![r] = TRUE]
    /\ Goto(r, "close")
    /\ UNCHANGED <<control, reply, parts, count, exitEvent, batcher, batchErr, posts>>

-----------------------------------------------------------------------------
(***************************************************************************)
(* The run's batcher.                                                      *)
(***************************************************************************)
BatcherRuns(r) == pc[r] \in {"stream", "close"} /\ daemon # "down"

BatcherTake(r) ==
    /\ BatcherRuns(r) /\ channel[r] # << >>
    /\ channel' = [channel EXCEPT ![r] = Tail(@)]
    /\ buffer' = [buffer EXCEPT ![r] = Append(@, Head(channel[r]))]
    /\ UNCHANGED <<control, pc, reply, parts, stream, dropped, noticed, batchErr, posts>>

BatcherPost(r, ok) ==
    /\ BatcherRuns(r) /\ buffer[r] # << >>
    /\ Post(r, "output", buffer[r], ok)
    /\ buffer' = [buffer EXCEPT ![r] = << >>]
    /\ batchErr' = [batchErr EXCEPT ![r] = @ \/ ~ok]
    /\ UNCHANGED <<control, pc, reply, parts, stream, channel, dropped, noticed>>

Drained(r) == At(r, "close") /\ channel[r] = << >> /\ buffer[r] = << >>

(* Mutant: the notice is written before the last flush. *)
BatcherNoticeEarly(r, ok) ==
    /\ At(r, "close") /\ dropped[r] > 0 /\ ~noticed[r]
    /\ Post(r, "notice", << >>, ok)
    /\ noticed' = [noticed EXCEPT ![r] = TRUE]
    /\ batchErr' = [batchErr EXCEPT ![r] = @ \/ ~ok]
    /\ UNCHANGED <<control, pc, reply, parts, stream, channel, buffer, dropped>>

BatcherNotice(r, ok) ==
    /\ Drained(r) /\ dropped[r] > 0 /\ ~noticed[r]
    /\ Post(r, "notice", << >>, ok)
    /\ noticed' = [noticed EXCEPT ![r] = TRUE]
    /\ batchErr' = [batchErr EXCEPT ![r] = @ \/ ~ok]
    /\ UNCHANGED <<control, pc, reply, parts, stream, channel, buffer, dropped>>

(* Mutant: Close waits for a notice when nothing was dropped, too. *)
CloseReturnsNoticed(r) ==
    /\ Drained(r) /\ noticed[r]
    /\ \E n \in 1..MaxParts : parts' = [parts EXCEPT ![r] = n]
    /\ Goto(r, "final")
    /\ UNCHANGED <<control, reply, stream, batcher, batchErr, posts>>

(* batcher.Close() returns to the handler *)
CloseReturns(r) ==
    /\ Drained(r) /\ (dropped[r] > 0 => noticed[r])
    /\ \E n \in 1..MaxParts : parts' = [parts EXCEPT ![r] = n]
    /\ Goto(r, "final")
    /\ UNCHANGED <<control, reply, stream, batcher, batchErr, posts>>

-----------------------------------------------------------------------------
(***************************************************************************)
(* The final message and the response.                                     *)
(***************************************************************************)

(* What the final message says *)
Verdict(r) ==
    IF streamErr[r] THEN "interrupted"
    ELSE IF exitEvent[r] = 0 THEN "no exit"
    ELSE "exit"

(* Mutant: the exit message itself may fail. *)
FailedByBatch(r, ok) == batchErr[r]

(* A failure to send the exit message counts like a failed post; one to    *)
(* send the other two is ignored.                                          *)
FailedBy(r, ok) == batchErr[r] \/ (Verdict(r) = "exit" /\ ~ok)

(* Mutant: a run without an exit event is answered like any other. *)
StatusOfPosts(r, ok) == IF FailedBy(r, ok) THEN 502 ELSE 200

Status(r, ok) ==
    IF Verdict(r) # "exit" THEN 400
    ELSE IF FailedBy(r, ok) THEN 502
    ELSE 200

PostFinal(r, ok) ==
    /\ At(r, "final")
    /\ Post(r, Verdict(r), << >>, ok)
    /\ parts' = [parts EXCEPT ![r] = @ - 1]
    /\ batchErr' = [batchErr EXCEPT ![r] = FailedBy(r, ok)]
    /\ IF ok /\ parts[r] > 1
         THEN UNCHANGED <<pc, reply>>
         ELSE Reply(r, Status(r, ok))
    /\ UNCHANGED <<control, stream, batcher>>

(* handleStream returns: the deferred receive from the semaphore           *)
Return(r) ==
    /\ At(r, "return")
    /\ semaphore' = semaphore - 1
    /\ Goto(r, "done")
    /\ UNCHANGED <<daemon, reply, parts, stream, batcher, batchErr, posts>>

-----------------------------------------------------------------------------
(***************************************************************************)
(* The process (serve in src/cmd/wrapping-botd/main.go).                   *)
(***************************************************************************)

(* SIGINT or SIGTERM: Shutdown stops accepting and waits for the handlers. *)
Signal ==
    /\ daemon = "up"
    /\ daemon' = "draining"
    /\ UNCHANGED <<semaphore, pc, reply, parts, stream, batcher, batchErr, posts>>

(* All handlers have returned, or ten seconds have passed, or the listener *)
(* has failed: the process exits, with whatever runs are left.             *)
Stop ==
    /\ daemon \in {"up", "draining"}
    /\ daemon' = "down"
    /\ UNCHANGED <<semaphore, pc, reply, parts, stream, batcher, batchErr, posts>>

Batch(r) == \/ BatcherTake(r) \/ CloseReturns(r)
            \/ \E ok \in BOOLEAN : BatcherPost(r, ok) \/ BatcherNotice(r, ok)

Answer(r) == Return(r) \/ \E ok \in BOOLEAN : PostStart(r, ok) \/ PostFinal(r, ok)

Client(r) == \/ Unauthorized(r) \/ TooManyRuns(r) \/ Acquire(r)
             \/ BadStart(r) \/ GoodStart(r)
             \/ Output(r) \/ Exit(r) \/ EndOfStream(r) \/ StreamFails(r)

Next == (\E r \in Run : Client(r) \/ Batch(r) \/ Answer(r)) \/ Signal \/ Stop

Spec == Init /\ [][Next]_vars

-----------------------------------------------------------------------------
(***************************************************************************)
(* Properties.                                                             *)
(***************************************************************************)
Places == {"idle", "start", "announce", "stream", "close", "final", "return", "done"}
Finals == {"interrupted", "no exit", "exit"}
Message == [kind : {"start", "output", "notice"} \cup Finals, text : Seq(Nat),
            ok : BOOLEAN, dropped : Nat, failed : BOOLEAN]

(* Every variable has its type; the semaphore is never released below zero *)
(* (server.go, handleStream).                                              *)
TypeOK ==
    /\ daemon \in {"up", "draining", "down"} /\ semaphore \in Nat
    /\ pc \in [Run -> Places]
    /\ reply \in [Run -> {0, 200, 400, 401, 403, 429, 502}]
    /\ parts \in [Run -> Nat] /\ count \in [Run -> Nat] /\ exitEvent \in [Run -> Nat]
    /\ streamErr \in [Run -> BOOLEAN]
    /\ channel \in [Run -> Seq(Nat)] /\ buffer \in [Run -> Seq(Nat)]
    /\ dropped \in [Run -> Nat] /\ noticed \in [Run -> BOOLEAN]
    /\ batchErr \in [Run -> BOOLEAN]
    /\ posts \in [Run -> Seq(Message)]

(* The handlers between the semaphore and their return *)
Holders == {r \in Run : pc[r] \notin {"idle", "done"}}

(* The semaphore counts the handlers that hold a slot, on every path out   *)
(* of handleStream, and never more than MaxConcurrentRuns of them run.     *)
SlotsExact ==
    /\ semaphore = Cardinality(Holders)
    /\ semaphore <= MaxConcurrentRuns

Kinds(r) == [i \in DOMAIN posts[r] |-> posts[r][i].kind]

Rank(kind) == CASE kind = "start"  -> 1 [] kind = "output" -> 2
                [] kind = "notice" -> 3 [] OTHER -> 4

(* What a reader of the channel sees of one run: the start message, then   *)
(* output, then at most one notice, then parts of one final message, and   *)
(* nothing after it, though two goroutines post.                           *)
MessagesInOrder ==
    \A r \in Run : \A i, j \in DOMAIN posts[r] : i < j =>
        /\ Rank(Kinds(r)[i]) <= Rank(Kinds(r)[j])
        /\ Rank(Kinds(r)[i]) = Rank(Kinds(r)[j]) =>
              /\ Kinds(r)[i] = Kinds(r)[j]
              /\ Kinds(r)[i] # "notice"
              /\ Kinds(r)[i] # "output" => posts[r][i].ok

(* The text of two posts is in the order of arrival, and none is posted    *)
(* twice.                                                                  *)
OutputInOrder ==
    \A r \in Run : \A i, j \in DOMAIN posts[r] : i < j =>
        \A m \in DOMAIN posts[r][i].text : \A n \in DOMAIN posts[r][j].text :
            posts[r][i].text[m] < posts[r][j].text[n]

(* A reader of the channel sees one run in its order, nothing twice and    *)
(* nothing after the end, though handler and batcher both post.            *)
Safety == TypeOK /\ MessagesInOrder /\ OutputInOrder

(* How many outputs the posts of r show *)
Shown(r) == Cardinality(UNION {{posts[r][i].text[n] : n \in DOMAIN posts[r][i].text}
                                : i \in DOMAIN posts[r]})

(* A run answered with 200 is complete in the channel: every message went  *)
(* through, an exit event was received, and every output event is shown or *)
(* counted in a notice and in the exit message.                            *)
SuccessIsComplete ==
    \A r \in Run : reply[r] = 200 =>
        /\ \A i \in DOMAIN posts[r] : posts[r][i].ok
        /\ exitEvent[r] > 0 /\ ~streamErr[r]
        /\ LET last == posts[r][Len(posts[r])]
           IN  last.kind = "exit" /\ last.dropped = dropped[r] /\ ~last.failed
        /\ dropped[r] > 0 => \E i \in DOMAIN posts[r] : posts[r][i].kind = "notice"
        /\ \E exits \in 1..count[r] : count[r] = Shown(r) + dropped[r] + exits

(* A run that was announced in the channel is never left without an ending *)
(* there while the daemon lives: its handler answers only after it tried a *)
(* final message, also when the client vanished or sent nonsense.          *)
EndingTried ==
    \A r \in Run : (reply[r] # 0 /\ posts[r] # << >>) =>
        LET last == posts[r][Len(posts[r])]
        IN  last.kind \in Finals \/ (last.kind = "start" /\ ~last.ok)

=============================================================================
