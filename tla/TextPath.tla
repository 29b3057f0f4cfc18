------------------------------ MODULE TextPath ------------------------------
(***************************************************************************)
(* The bytes of one output stream on their way from the command's pipe to  *)
(* Discord: eventWriter.Write of the client cuts what it is given into     *)
(* chunks (src/internal/clientstream/session.go), JSON carries only valid  *)
(* UTF-8, and the daemon's batcher strips each chunk of terminal escapes,  *)
(* gathers the chunks, escapes code fences and splits the result           *)
(* (src/internal/daemon/batcher.go, src/internal/textutil/text.go).  Any   *)
(* chunk may be lost to a full queue; the queues themselves, the streams   *)
(* and failures are in Session and Batcher.                                *)
(*                                                                         *)
(* A byte is its class.  ASCII: "a" a character that can end a control     *)
(* sequence, "0" one of its parameters, "n" a newline, "q" a backtick, "e" *)
(* escape, "[", "]", "b" a backslash and "g" the bell.  Of longer          *)
(* characters: "c" a continuation byte, or the first byte: "2" of two      *)
(* bytes, "3" of three, "z" the zero-width space U+200B and "r" the        *)
(* replacement character U+FFFD, three bytes each.                         *)
(***************************************************************************)
EXTENDS Integers, Sequences

CONSTANTS
    Texts,         \* what the command may write: complete UTF-8
    ChunkBytes,    \* maxOutputEventBytes of session.go
    Limits         \* what maxLogBytes of the batcher may be set to

Byte == {"a", "0", "n", "q", "e", "[", "]", "b", "g", "c", "2", "3", "z", "r"}

ASSUME SizeAssumption == ChunkBytes \in Nat \ {0} /\ Limits \subseteq Nat \ {0}
ASSUME TextAssumption == Texts \subseteq Seq(Byte)

VARIABLES
    maxBytes,  \* maxLogBytes
    stripANSI, \* the batcher's setting, on by default
    unread,    \* what the copying goroutine has not read from the pipe
    pending,   \* p of eventWriter.Write: read, not yet cut into events
    buffer,    \* the batcher's buffer
    rest,      \* s in SplitUTF8
    parts,     \* the parts posted, all calls of SplitUTF8 together
    \* History, for the properties:
    written,   \* what the command has written
    lost,      \* an event was dropped because a queue was full or closed
    received,  \* the data of the other events, as it went into the buffer
    escaped,   \* what SplitUTF8 was called with, all calls together
    posted     \* the text of all parts

config == <<maxBytes, stripANSI>>
vars == <<config, unread, pending, buffer, rest, parts, written, lost, received, escaped, posted>>

-----------------------------------------------------------------------------
(***************************************************************************)
(* UTF-8.                                                                  *)
(***************************************************************************)
RuneStart(b) == b # "c"
Bytes(b) == IF b = "2" THEN 2 ELSE IF b \in {"3", "z", "r"} THEN 3 ELSE 1

(* The size DecodeRuneInString finds at i, 1 also for an invalid byte, and *)
(* whether there is a character                                            *)
Whole(s, i) ==
    /\ RuneStart(s[i]) /\ i + Bytes(s[i]) - 1 <= Len(s)
    /\ \A k \in 1..(Bytes(s[i]) - 1) : s[i + k] = "c"
RuneSize(s, i) == IF Whole(s, i) THEN Bytes(s[i]) ELSE 1

(* Every byte is in a character. *)
Valid(s) == \A i \in 1..Len(s) : \E j \in 1..i : Whole(s, j) /\ i < j + Bytes(s[j])

Largest(S) == CHOOSE n \in S : \A k \in S : k <= n

(* A text rewritten from the left: at place i the piece for it, and on to  *)
(* the place that many bytes behind                                        *)
Rewrite(step, piece) ==
    LET from[i \in 1..(Len(step) + 1)] ==
            IF i > Len(step) THEN << >> ELSE piece[i] \o from[i + step[i]]
    IN  from[1]

(* encoding/json: every byte that is not part of a character becomes       *)
(* U+FFFD.                                                                 *)
ToJSON(s) ==
    Rewrite([i \in 1..Len(s) |-> RuneSize(s, i)],
            [i \in 1..Len(s) |-> IF Whole(s, i) THEN SubSeq(s, i, i + Bytes(s[i]) - 1)
                                 ELSE <<"r", "c", "c">>])

(* Where an escape sequence that begins at i may end (ansiPattern): a      *)
(* control sequence, CSI, at the first byte that is no parameter ...       *)
ControlEnds(s, i) ==
    {k \in (i + 2)..Len(s) :
        /\ s[i] = "e" /\ s[i + 1] = "[" /\ s[k] \in {"a", "q", "[", "]", "b"}
        /\ \A m \in (i + 2)..(k - 1) : s[m] = "0"}

(* ... and an operating system command, OSC, at a bell or at an escape     *)
(* with a backslash, and never behind the first bell.                      *)
CommandEnds(s, i) ==
    {k \in (i + 2)..Len(s) :
        /\ s[i] = "e" /\ s[i + 1] = "]"
        /\ s[k] = "g" \/ (s[k] = "b" /\ k > i + 2 /\ s[k - 1] = "e")
        /\ \A m \in (i + 2)..(k - 1) : s[m] # "g"}

AnsiEnds(s, i) == ControlEnds(s, i) \cup CommandEnds(s, i)

(* Every sequence, as long as the greedy pattern makes it, is removed.     *)
StripANSI(s) ==
    Rewrite([i \in 1..Len(s) |-> IF AnsiEnds(s, i) # {} THEN Largest(AnsiEnds(s, i)) - i + 1
                                 ELSE RuneSize(s, i)],
            [i \in 1..Len(s) |-> IF AnsiEnds(s, i) # {} THEN << >>
                                 ELSE SubSeq(s, i, i + RuneSize(s, i) - 1)])

FenceAt(s, i) == i + 2 <= Len(s) /\ \A k \in 0..2 : s[i + k] = "q"
Fence == <<"q", "z", "c", "c", "q", "q">>

(* Mutant: the search goes on one byte too early. *)
EscapeCodeFenceOverlapping(s) ==
    Rewrite([i \in 1..Len(s) |-> IF FenceAt(s, i) THEN 2 ELSE 1],
            [i \in 1..Len(s) |-> IF FenceAt(s, i) THEN Fence ELSE <<s[i]>>])

(* Mutant: only the first fence is escaped. *)
EscapeCodeFenceOnce(s) ==
    LET fences == {i \in DOMAIN s : FenceAt(s, i)}
        first == CHOOSE i \in fences : \A k \in fences : i <= k
    IN  IF fences = {} THEN s
        ELSE SubSeq(s, 1, first) \o <<"z", "c", "c">> \o SubSeq(s, first + 1, Len(s))

(* strings.ReplaceAll of three backticks, from the left *)
EscapeCodeFence(s) ==
    Rewrite([i \in 1..Len(s) |-> IF FenceAt(s, i) THEN 3 ELSE 1],
            [i \in 1..Len(s) |-> IF FenceAt(s, i) THEN Fence ELSE <<s[i]>>])

-----------------------------------------------------------------------------
Init ==
    /\ maxBytes \in Limits /\ stripANSI \in BOOLEAN
    /\ unread \in Texts /\ written = unread
    /\ pending = << >> /\ buffer = << >> /\ rest = << >> /\ parts = << >>
    /\ lost = FALSE /\ received = << >> /\ escaped = << >> /\ posted = << >>

(* The copying goroutine reads some bytes of the pipe and calls Write. *)
Read ==
    /\ unread # << >> /\ pending = << >>
    /\ \E n \in 1..Len(unread) :
          /\ pending' = SubSeq(unread, 1, n)
          /\ unread' = SubSeq(unread, n + 1, Len(unread))
    /\ UNCHANGED <<config, buffer, rest, parts, written, lost, received, escaped, posted>>

(* One turn of the loop in Write: the first bytes of p become an event.    *)
NextChunk == IF Len(pending) > ChunkBytes THEN ChunkBytes ELSE Len(pending)
Chunk == SubSeq(pending, 1, NextChunk)
Cut == pending # << >> /\ pending' = SubSeq(pending, NextChunk + 1, Len(pending))

(* What the batcher makes of an event *)
Record == IF stripANSI THEN StripANSI(ToJSON(Chunk)) ELSE ToJSON(Chunk)

(* The event goes through client, connection and daemon into the buffer,   *)
(* which is flushed before the next one when it is full.                   *)
Write ==
    /\ rest = << >> /\ Len(buffer) < maxBytes
    /\ Cut
    /\ buffer' = buffer \o Record
    /\ received' = received \o Record
    /\ UNCHANGED <<config, unread, rest, parts, written, lost, escaped, posted>>

(* The session's or the batcher's channel is full, or the session closed.  *)
Drop ==
    /\ Cut
    /\ lost' = TRUE
    /\ UNCHANGED <<config, unread, buffer, rest, parts, written, received, escaped, posted>>

(* flush and sendOutput: at a tick, at the end, with the buffer full *)
SendOutput ==
    /\ buffer # << >> /\ rest = << >>
    /\ rest' = EscapeCodeFence(buffer) /\ buffer' = << >>
    /\ escaped' = escaped \o rest'
    /\ UNCHANGED <<config, unread, pending, parts, written, lost, received, posted>>

-----------------------------------------------------------------------------
(***************************************************************************)
(* SplitUTF8, one turn of its loop at a time.                              *)
(***************************************************************************)
(* The last place up to the limit where a character begins, or the end of  *)
(* a first character that is longer than the limit                         *)
AtCharacter(s) ==
    LET starts == {k \in 1..maxBytes : RuneStart(s[k + 1])}
    IN  IF starts = {} THEN RuneSize(s, 1) ELSE Largest(starts)

(* A newline in the second half of the part is a better place. *)
AtNewline(s, cut) ==
    LET newlines == {k \in (cut \div 2 + 1)..cut : s[k] = "n"}
    IN  IF newlines = {} THEN cut ELSE Largest(newlines)

(* Mutant: the newline itself is dropped at the cut. *)
PostPartTrimmed ==
    /\ Len(rest) > maxBytes
    /\ LET cut == AtNewline(rest, AtCharacter(rest))
       IN  /\ parts' = Append(parts, SubSeq(rest, 1, cut))
           /\ posted' = posted \o SubSeq(rest, 1, cut)
           /\ rest' = SubSeq(rest, IF rest[cut] = "n" THEN cut + 2 ELSE cut + 1, Len(rest))
    /\ UNCHANGED <<config, unread, pending, buffer, written, lost, received, escaped>>

PostPart ==
    /\ Len(rest) > maxBytes
    /\ LET cut == AtNewline(rest, AtCharacter(rest))
       IN  /\ parts' = Append(parts, SubSeq(rest, 1, cut))
           /\ posted' = posted \o SubSeq(rest, 1, cut)
           /\ rest' = SubSeq(rest, cut + 1, Len(rest))
    /\ UNCHANGED <<config, unread, pending, buffer, written, lost, received, escaped>>

PostLast ==
    /\ rest # << >> /\ Len(rest) <= maxBytes
    /\ parts' = Append(parts, rest) /\ posted' = posted \o rest
    /\ rest' = << >>
    /\ UNCHANGED <<config, unread, pending, buffer, written, lost, received, escaped>>

Next == Read \/ Write \/ Drop \/ SendOutput \/ PostPart \/ PostLast

Spec == Init /\ [][Next]_vars

-----------------------------------------------------------------------------
(***************************************************************************)
(* Properties.                                                             *)
(***************************************************************************)
(* Types; and what reaches the buffer is valid UTF-8, as every string is   *)
(* that comes out of JSON: StripANSI never removes a part of a character.  *)
TypeOK ==
    /\ Valid(received) /\ maxBytes \in Limits /\ {stripANSI, lost} \subseteq BOOLEAN
    /\ unread \in Seq(Byte) /\ pending \in Seq(Byte) /\ buffer \in Seq(Byte)
    /\ rest \in Seq(Byte) /\ parts \in Seq(Seq(Byte)) /\ written \in Seq(Byte)
    /\ received \in Seq(Byte) /\ escaped \in Seq(Byte) /\ posted \in Seq(Byte)

(* SplitUTF8 loses, repeats and reorders nothing, at any limit: its parts, *)
(* one after the other, are the text it was given.                         *)
PartsMakeText == posted \o rest = escaped

(* A part is never empty - so the loop ends - and fits the limit, unless   *)
(* it is one character.                                                    *)
PartsFit ==
    \A i \in DOMAIN parts :
        /\ parts[i] # << >>
        /\ Len(parts[i]) <= maxBytes \/ Len(parts[i]) = RuneSize(parts[i], 1)

(* No part begins or ends inside a character (SplitUTF8: "without breaking *)
(* UTF-8"): so no space that escapes a fence is cut into bytes.            *)
PartsWhole == \A i \in DOMAIN parts : Valid(parts[i])

(* What SplitUTF8 promises of the parts at every limit, also one smaller   *)
(* than a character.                                                       *)
Safety == TypeOK /\ PartsMakeText /\ PartsFit /\ PartsWhole

(* What a reader sees of s: a zero-width space is none of it. *)
Visible(s) ==
    LET Space(i) == s[i] = "z" /\ Whole(s, i)
    IN  Rewrite([i \in 1..Len(s) |-> IF Space(i) THEN 3 ELSE 1],
                [i \in 1..Len(s) |-> IF Space(i) THEN << >> ELSE <<s[i]>>])

(* What the channel shows is what went into the buffer, but for the spaces *)
(* EscapeCodeFence puts in, wherever flushes and parts cut it.             *)
ShownIsReceived == Visible(escaped) \o Visible(buffer) = Visible(received)

Backticks(s, k) == \E i \in 1..(Len(s) - k + 1) : \A j \in 0..(k - 1) : s[i + j] = "q"

NoFence == \A i \in DOMAIN parts : ~Backticks(parts[i], 3)

(* Output cannot close the code block it is shown in, however events,      *)
(* flushes and parts cut it: no part has three backticks in a row unless   *)
(* the text that went into the buffer has four (the escape leaves three of *)
(* them).  It has four only if the command wrote four, or something        *)
(* between them was stripped or lost.  (EscapeCodeFence before SplitUTF8   *)
(* on the whole buffer, but StripANSI before both.)                        *)
FenceKept ==
    /\ ~Backticks(received, 4) => NoFence
    /\ (~stripANSI /\ ~lost /\ ~Backticks(written, 4)) => ~Backticks(received, 4)

=============================================================================
