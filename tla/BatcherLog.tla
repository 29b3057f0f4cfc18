----------------------------- MODULE BatcherLog -----------------------------
(***************************************************************************)
(* The Batcher implements RunLog.  The text accepted so far is not in any  *)
(* of its variables - part of it is in the channel, in hand, in the        *)
(* buffer, or gone - so a history variable keeps it: heard[k+1] is the     *)
(* text of the first k records Add accepted.                               *)
(***************************************************************************)
EXTENDS Batcher

VARIABLE heard

LogInit == Init /\ heard = << << >> >>

(* Every step of the batcher; Add of an accepted record is heard.          *)
LogNext ==
    /\ Next
    /\ heard' = IF arrived' = arrived THEN heard
                ELSE Append(heard, heard[Len(heard)] \o Text(arrived'[Len(arrived')]))

logSpecVars == <<vars, heard>>

LogSpec == LogInit /\ [][LogNext]_logSpecVars

FairLogSpec == LogSpec /\ Fairness

(* The overflow notice was tried: it is not part of the run's own text.    *)
Told == noticed > 0 /\ sending = << >>

(* The refinement mapping. *)
Accepted == heard[Len(heard)]
Shown    == IF Told THEN SubSeq(posted, 1, Len(posted) - 1) ELSE posted
ToldOf   == IF Told THEN noticed ELSE 0
Failed   == firstErr # 0
Phase    == IF returned THEN "finished" ELSE IF closed THEN "ending" ELSE "open"

Log == INSTANCE RunLog WITH
    accepted <- Accepted, omitted <- dropped, shown <- Shown,
    told <- ToldOf, failed <- Failed, phase <- Phase

(* The refinement: what the batcher accepts, posts, counts and returns is  *)
(* a behaviour of the abstract log, whatever its goroutine, its ticker,    *)
(* full queues and failing posts do in between (batcher.go, Batcher).      *)
ImplementsRunLog == Log!Spec

(* How many entries of heard the goroutine has appended, the empty one too *)
ReadUpTo == IF Holding THEN taken ELSE taken + 1

(* Each entry of heard is the one before it and a record's text, and the   *)
(* last begins with all of them.                                           *)
HeardGrows ==
    /\ Len(heard) = Len(arrived) + 1
    /\ \A k \in DOMAIN arrived : heard[k+1] = heard[k] \o Text(arrived[k])
    /\ \A k \in DOMAIN heard : Log!Extends(heard[Len(heard)], heard[k])

(* Whatever the channel, the hand and the buffer hold, the text the        *)
(* goroutine has read is that of the first records Add accepted, without   *)
(* the one in hand; the notice, and nothing else, comes after all of it.   *)
ReadIsHeard ==
    /\ noticed = 0 => read = heard[ReadUpTo]
    /\ noticed > 0 => read = heard[ReadUpTo] \o NoticeText
    /\ (pc = "notice" \/ (pc = "send" /\ after = "notice")) => noticed = 0

=============================================================================
