------------------------------ MODULE Batcher ------------------------------
(***************************************************************************)
(* The daemon's per-run output batcher (src/internal/daemon/batcher.go).   *)
(*                                                                         *)
(* The request handler calls Add for every output event and Close once, at *)
(* the end of the stream.  Add never blocks: a record goes into a bounded  *)
(* channel or its bytes are counted as dropped.  A goroutine of its own    *)
(* (run) reads the channel, gathers text of one stream in a buffer, and    *)
(* posts the buffer to Discord when the stream changes, when it is full,   *)
(* when the ticker fires and at the end.                                   *)
(*                                                                         *)
(* Text is a sequence of units: a character of the output together with    *)
(* the stream it came from, so that a post can be compared with its label. *)
(* The zero-width spaces EscapeCodeFence inserts are not units; they and   *)
(* the preference for a newline only move the places where a long text is  *)
(* cut, and Cuts allows every place.                                       *)
(***************************************************************************)
EXTENDS Naturals, Sequences

CONSTANTS
    Char,          \* characters of the wrapped command's output
    EscHead,       \* the first half of an ANSI escape sequence
    EscTail,       \* the rest of it
    Notice,        \* the text of the overflow notice, as one character
    Record,        \* the records the handler may Add
    QueueSize,     \* capacity of the events channel
    MaxLogBytes,   \* size at which the buffer is flushed, and of one post
    StripsANSI,    \* the daemon's STRIP_ANSI option
    MaxAdds        \* bound: the number of Add calls of one run

(* protocol.StreamStdout, StreamStderr, StreamSystem *)
Streams == {"stdout", "stderr", "system"}

(* normalizeStream: a label the protocol does not know becomes system *)
normalizeStream(stream) == IF stream \in Streams THEN stream ELSE "system"

(* textutil.StripANSI applied to the data of one record *)
StripANSI(data) ==
    LET escapeAt(i) == i < Len(data) /\ data[i] = EscHead /\ data[i+1] = EscTail
        from[i \in 1..Len(data)+1] ==
            IF i > Len(data) THEN << >>
            ELSE IF escapeAt(i) THEN from[i+2]
            ELSE <<data[i]>> \o from[i+1]
    IN  from[1]

(* What run appends to its buffer for a record *)
Stripped(data) == IF StripsANSI THEN StripANSI(data) ELSE data

Unit == [src : Streams, ch : Char \cup {Notice}]

Text(record) ==
    [i \in 1..Len(Stripped(record.data)) |->
        [src |-> normalizeStream(record.stream), ch |-> Stripped(record.data)[i]]]

NoticeText == <<[src |-> "system", ch |-> Notice]>>

ASSUME RecordAssumption ==
    \A r \in Record : /\ r.data \in Seq(Char) \ {<< >>}
                      /\ Stripped(r.data) \in Seq(Char)
                      /\ r.stream \in STRING

ASSUME SizeAssumption ==
    /\ QueueSize \in Nat \ {0}
    /\ MaxLogBytes \in Nat \ {0}
    /\ MaxAdds \in Nat
    /\ StripsANSI \in BOOLEAN

VARIABLES
    events,        \* b.events: accepted records the goroutine has not read
    closed,        \* close(b.events) has been called
    dropped,       \* b.dropped
    firstErr,      \* b.firstErr: which post failed first, 0 for nil
    pc,            \* where the goroutine is
    after,         \* where it goes when the post in progress is finished
    held,          \* the record it has read and not yet appended
    currentStream, \* the label of the buffer, "none" before the first record
    buffer,        \* text waiting to be posted
    sending,       \* what is left of the text sendOutput is posting
    returned,      \* Close has returned b.dropped and b.firstErr
    adds,          \* number of Add calls so far
    \* History of the run, for the properties:
    arrived,       \* the records Add accepted
    taken,         \* how many of them the goroutine has read
    read,          \* the text of the records it has appended
    posts,         \* the posts tried: label, text, and whether Send succeeded
    posted,        \* the text of all of them
    noticed        \* the byte count the overflow notice states

queueVars == <<events, closed, dropped, adds, arrived>>
runVars   == <<pc, after, held, currentStream, buffer, sending>>
logVars   == <<taken, read, posts, posted, noticed, firstErr>>
vars      == <<queueVars, runVars, logVars, returned>>

Init ==
    /\ events = << >> /\ closed = FALSE /\ dropped = 0 /\ adds = 0
    /\ arrived = << >>
    /\ pc = "select" /\ after = "select" /\ held = << >>
    /\ currentStream = "none" /\ buffer = << >> /\ sending = << >>
    /\ taken = 0 /\ read = << >> /\ posts = << >> /\ posted = << >>
    /\ noticed = 0 /\ firstErr = 0
    /\ returned = FALSE

-----------------------------------------------------------------------------
(***************************************************************************)
(* The handler's side.                                                     *)
(***************************************************************************)

(* The send on the channel succeeds exactly when there is room. *)
Enqueue(r) ==
    /\ Len(events) < QueueSize
    /\ events' = Append(events, r)
    /\ arrived' = Append(arrived, r)
    /\ UNCHANGED dropped

(* Otherwise the bytes of the record are counted and lost. *)
Overflow(r) ==
    /\ Len(events) >= QueueSize
    /\ dropped' = dropped + Len(r.data)
    /\ UNCHANGED <<events, arrived>>

Add(r) ==
    /\ ~closed /\ adds < MaxAdds
    /\ adds' = adds + 1
    /\ Enqueue(r) \/ Overflow(r)
    /\ UNCHANGED <<closed, runVars, logVars, returned>>

Close ==
    /\ ~closed
    /\ closed' = TRUE
    /\ UNCHANGED <<events, dropped, adds, arrived, runVars, logVars, returned>>

(* <-b.done, then dropped and firstErr are returned to the handler *)
CloseReturn ==
    /\ closed /\ pc = "done" /\ ~returned
    /\ returned' = TRUE
    /\ UNCHANGED <<queueVars, runVars, logVars>>

-----------------------------------------------------------------------------
(***************************************************************************)
(* The goroutine's side.                                                   *)
(***************************************************************************)

(* flush with the buffer holding text; what follows is where to go next *)
Flush(text, next) ==
    /\ buffer' = << >>
    /\ IF text = << >>
         THEN pc' = next /\ UNCHANGED <<after, sending>>
         ELSE pc' = "send" /\ after' = next /\ sending' = text

(* Mutant: the label changes without a flush. *)
TakeRecordUnflushed ==
    /\ pc = "select" /\ events # << >>
    /\ events' = Tail(events) /\ held' = <<Head(events)>>
    /\ taken' = taken + 1 /\ pc' = "append"
    /\ UNCHANGED <<closed, dropped, adds, arrived, currentStream, after, buffer,
                   sending, read, posts, posted, noticed, firstErr, returned>>

(* A record is read; a change of stream posts the old stream's text first. *)
TakeRecord ==
    /\ pc = "select" /\ events # << >>
    /\ events' = Tail(events)
    /\ held' = <<Head(events)>>
    /\ taken' = taken + 1
    /\ IF currentStream # "none" /\ normalizeStream(Head(events).stream) # currentStream
         THEN Flush(buffer, "append")
         ELSE pc' = "append" /\ UNCHANGED <<after, buffer, sending>>
    /\ UNCHANGED <<closed, dropped, adds, arrived, currentStream,
                   read, posts, posted, noticed, firstErr, returned>>

(* The record's text is appended; a full buffer is posted. *)
AppendRecord ==
    /\ pc = "append"
    /\ held' = << >>
    /\ currentStream' = normalizeStream(held[1].stream)
    /\ read' = read \o Text(held[1])
    /\ LET text == buffer \o Text(held[1])
       IN  IF Len(text) >= MaxLogBytes
             THEN Flush(text, "select")
             ELSE pc' = "select" /\ buffer' = text /\ UNCHANGED <<after, sending>>
    /\ UNCHANGED <<queueVars, taken, posts, posted, noticed, firstErr, returned>>

(* Mutant: the ticker posts only a buffer that is full. *)
TickWhenFull ==
    /\ pc = "select" /\ Len(buffer) >= MaxLogBytes
    /\ Flush(buffer, "select")
    /\ UNCHANGED <<queueVars, held, currentStream, logVars, returned>>

(* The ticker posts what has gathered; with an empty buffer it does nothing. *)
Tick ==
    /\ pc = "select" /\ buffer # << >>
    /\ Flush(buffer, "select")
    /\ UNCHANGED <<queueVars, held, currentStream, logVars, returned>>

(* Mutant: a closed channel is taken for an empty one. *)
DrainedEarly ==
    /\ pc = "select" /\ closed
    /\ Flush(buffer, IF dropped > 0 THEN "notice" ELSE "done")
    /\ UNCHANGED <<queueVars, held, currentStream, logVars, returned>>

(* Mutant: no return after the last flush. *)
DrainedWithoutReturn ==
    /\ pc = "select" /\ closed /\ events = << >>
    /\ Flush(buffer, IF dropped > 0 THEN "notice" ELSE "select")
    /\ UNCHANGED <<queueVars, held, currentStream, logVars, returned>>

(* The channel is closed and empty: the last text is posted. *)
Drained ==
    /\ pc = "select" /\ closed /\ events = << >>
    /\ Flush(buffer, IF dropped > 0 THEN "notice" ELSE "done")
    /\ UNCHANGED <<queueVars, held, currentStream, logVars, returned>>

(* The overflow notice is posted last, under the system label. *)
WriteNotice ==
    /\ pc = "notice"
    /\ currentStream' = "system"
    /\ noticed' = dropped
    /\ read' = read \o NoticeText
    /\ Flush(NoticeText, "done")
    /\ UNCHANGED <<queueVars, held, taken, posts, posted, firstErr, returned>>

(* The lengths SplitUTF8 may give to the next part of text *)
Cuts(text) == {n \in 1..MaxLogBytes : n <= Len(text)}

(* recordError keeps the first error *)
recordError(post, ok) == IF ok \/ firstErr # 0 THEN firstErr ELSE post

(* Mutant: sendOutput gives up at the first part that fails. *)
SendPartOrGiveUp(ok) ==
    /\ pc = "send" /\ sending # << >>
    /\ \E cut \in Cuts(sending) :
         LET body == SubSeq(sending, 1, cut)
         IN  /\ posts' = Append(posts, [stream |-> currentStream, body |-> body, ok |-> ok])
             /\ posted' = posted \o body
             /\ sending' = IF ok THEN SubSeq(sending, cut + 1, Len(sending)) ELSE << >>
    /\ firstErr' = recordError(Len(posts) + 1, ok)
    /\ UNCHANGED <<queueVars, pc, after, held, currentStream, buffer,
                   taken, read, noticed, returned>>

(* One part is posted; sendOutput goes on with the next part if it fails. *)
SendPart(ok) ==
    /\ pc = "send" /\ sending # << >>
    /\ \E cut \in Cuts(sending) :
         LET body == SubSeq(sending, 1, cut)
         IN  /\ posts' = Append(posts, [stream |-> currentStream, body |-> body, ok |-> ok])
             /\ posted' = posted \o body
             /\ sending' = SubSeq(sending, cut + 1, Len(sending))
    /\ firstErr' = recordError(Len(posts) + 1, ok)
    /\ UNCHANGED <<queueVars, pc, after, held, currentStream, buffer,
                   taken, read, noticed, returned>>

SendDone ==
    /\ pc = "send" /\ sending = << >>
    /\ pc' = after
    /\ UNCHANGED <<queueVars, after, held, currentStream, buffer, sending,
                   logVars, returned>>

-----------------------------------------------------------------------------
Run ==
    \/ TakeRecord \/ AppendRecord \/ Tick \/ Drained \/ WriteNotice
    \/ \E ok \in BOOLEAN : SendPart(ok)
    \/ SendDone

Next ==
    \/ \E r \in Record : Add(r)
    \/ Close
    \/ CloseReturn
    \/ Run

Spec == Init /\ [][Next]_vars

(***************************************************************************)
(* The goroutine is scheduled, Send returns (the sender's attempts are     *)
(* bounded), and the ticker keeps firing.  Nothing is assumed of the       *)
(* handler: the stream may stay open for ever.                             *)
(***************************************************************************)
Fairness ==
    /\ WF_vars(TakeRecord) /\ WF_vars(AppendRecord) /\ WF_vars(Drained)
    /\ WF_vars(WriteNotice) /\ WF_vars(SendDone) /\ WF_vars(Tick)
    /\ WF_vars(\E ok \in BOOLEAN : SendPart(ok))
    /\ WF_vars(CloseReturn)

FairSpec == Spec /\ Fairness

-----------------------------------------------------------------------------
(***************************************************************************)
(* Properties.                                                             *)
(***************************************************************************)

(* One call of Send, and whether it succeeded *)
Post == [stream : Streams, body : Seq(Unit), ok : BOOLEAN]

(* Every variable has its type; in particular the channel never exceeds    *)
(* its capacity and a record is held only between its read and its append. *)
TypeOK ==
    /\ events \in Seq(Record) /\ Len(events) <= QueueSize
    /\ arrived \in Seq(Record)
    /\ closed \in BOOLEAN /\ returned \in BOOLEAN
    /\ dropped \in Nat /\ adds \in Nat
    /\ pc \in {"select", "append", "send", "notice", "done"}
    /\ after \in {"select", "append", "notice", "done"}
    /\ held \in Seq(Record)
    /\ currentStream \in Streams \cup {"none"}
    /\ buffer \in Seq(Unit) /\ sending \in Seq(Unit)
    /\ read \in Seq(Unit) /\ posted \in Seq(Unit)
    /\ taken \in Nat /\ noticed \in Nat /\ firstErr \in Nat
    /\ posts \in Seq(Post)

(* The goroutine is about to append, or will when its flush is over. *)
Holding == pc = "append" \/ (pc = "send" /\ after = "append")

(* What the goroutine's place says about its data: a record is held from   *)
(* its read to its append, a post in progress means an empty buffer, and   *)
(* text has a label.                                                       *)
Shape ==
    /\ IF Holding THEN Len(held) = 1 ELSE held = << >>
    /\ IF pc = "send" THEN currentStream # "none" /\ buffer = << >>
                      ELSE sending = << >>
    /\ currentStream = "none" => buffer = << >>
    /\ pc = "append" => \/ buffer = << >>
                        \/ normalizeStream(held[1].stream) = currentStream
    /\ pc \in {"notice", "done"} => buffer = << >>

(* The records not yet read are the last ones accepted, and the one in     *)
(* hand is the last one read.                                              *)
ChannelOrder ==
    /\ taken <= Len(arrived) /\ (Holding => taken > 0)
    /\ events = SubSeq(arrived, taken + 1, Len(arrived))
    /\ Holding => held[1] = arrived[taken]

(* The text posted, being posted and waiting is exactly the text read.     *)
TextOrder == posted \o sending \o buffer = read

(* Nothing that was accepted is lost, duplicated or reordered between the  *)
(* channel and Discord, whatever flush did in between (batcher.go, run).   *)
InOrder == ChannelOrder /\ TextOrder

(* A post is labelled with one stream, and every character in it came from *)
(* that stream: run flushes before it lets the label change.               *)
StreamsNeverMixed ==
    \A k \in DOMAIN posts : \A i \in DOMAIN posts[k].body :
        posts[k].body[i].src = posts[k].stream

(* What makes it so: the text not yet posted is all of the current stream. *)
LabelFits ==
    /\ \A i \in DOMAIN buffer : buffer[i].src = currentStream
    /\ \A i \in DOMAIN sending : sending[i].src = currentStream

(* The error Close returns is that of the first post that failed, though   *)
(* sendOutput goes on posting after it.                                    *)
FirstErrorKept ==
    IF firstErr = 0
      THEN \A k \in DOMAIN posts : posts[k].ok
      ELSE /\ firstErr \in DOMAIN posts
           /\ ~posts[firstErr].ok
           /\ \A k \in 1..(firstErr - 1) : posts[k].ok

(* The overflow notice is the last post. *)
NoticeIsLast ==
    /\ posts # << >>
    /\ posts[Len(posts)].stream = "system"
    /\ posts[Len(posts)].body = NoticeText

(* The last flush, or the last but one, is in progress or over. *)
Ending == pc \in {"notice", "done"} \/ (pc = "send" /\ after \in {"notice", "done"})

(* What holds while the goroutine ends: the channel is closed and drained, *)
(* and the notice is written, posted and then the last post.               *)
EndsInOrder ==
    /\ Ending => closed /\ events = << >>
    /\ returned => pc = "done"
    /\ pc = "notice" => dropped > 0
    /\ (pc = "send" /\ after = "notice") => dropped > 0
    /\ (pc = "send" /\ after = "done") =>
          /\ noticed = dropped
          /\ dropped > 0 => \/ sending = NoticeText /\ currentStream = "system"
                            \/ sending = << >> /\ NoticeIsLast
    /\ pc = "done" => noticed = dropped /\ (dropped > 0 => NoticeIsLast)
    /\ ~Ending => noticed = 0

(* When Close returns, everything the handler had accepted has been tried, *)
(* and an overflow, however late it happened, is announced by the last     *)
(* post, under the system label and with the final byte count.             *)
CloseDelivers ==
    returned =>
        /\ taken = Len(arrived) /\ posted = read
        /\ noticed = dropped
        /\ dropped > 0 => NoticeIsLast

(* Between two events the goroutine never sits on a full buffer, so the    *)
(* memory of a run is bounded by the channel and one buffer.               *)
BufferBounded == pc = "select" => Len(buffer) < MaxLogBytes

(* The data of a run are sound, in whatever order Add, Close, ticks and    *)
(* failing posts come: labels are true, the first error is kept, and when  *)
(* Close returns everything was tried and an overflow announced.           *)
Safety == TypeOK /\ StreamsNeverMixed /\ FirstErrorKept /\ CloseDelivers /\ BufferBounded

(* Close returns: neither a full channel, a failing Discord nor an         *)
(* overflow leaves the handler waiting for b.done.                         *)
CloseReturns == closed ~> returned

(* Output of a command that stays silent for long does not wait for its    *)
(* next output: the ticker posts what was appended.                        *)
NothingStuck ==
    \A n \in 1..MaxAdds : (Len(read) >= n) ~> (Len(posted) >= n)

(* README.md: terminal escape sequences are removed.  No post shows one.   *)
NoEscapeShown ==
    StripsANSI =>
        \A k \in DOMAIN posts : \A i \in 1..(Len(posts[k].body) - 1) :
            ~ (posts[k].body[i].ch = EscHead /\ posts[k].body[i+1].ch = EscTail)

=============================================================================
