------------------------------- MODULE RunLog -------------------------------
(***************************************************************************)
(* What a batcher promises to the handler of its run, without queues,      *)
(* buffers, tickers and goroutines: a log of text that is accepted or      *)
(* omitted while the run is open, shown in the channel in order, and       *)
(* finished only when all of it was tried and every omission was told.     *)
(*                                                                         *)
(* Text is any sequence; a step may accept or show any amount of it.       *)
(***************************************************************************)
EXTENDS Naturals, Sequences

VARIABLES
    accepted,   \* the text of the run, without what was omitted
    omitted,    \* bytes omitted
    shown,      \* the text a post was tried for
    told,       \* the omitted bytes the channel was told of
    failed,     \* a post failed: part of shown may not be in the channel
    phase       \* open, ending (no more text will come) or finished

vars == <<accepted, omitted, shown, told, failed, phase>>

Init ==
    /\ accepted = << >> /\ omitted = 0
    /\ shown = << >> /\ told = 0
    /\ failed = FALSE /\ phase = "open"

(* longer begins with text *)
Extends(longer, text) ==
    /\ Len(text) <= Len(longer)
    /\ text = SubSeq(longer, 1, Len(text))

Accept ==
    /\ phase = "open"
    /\ Extends(accepted', accepted)
    /\ UNCHANGED <<omitted, shown, told, failed, phase>>

Omit ==
    /\ phase = "open"
    /\ omitted' > omitted
    /\ UNCHANGED <<accepted, shown, told, failed, phase>>

End ==
    /\ phase = "open" /\ phase' = "ending"
    /\ UNCHANGED <<accepted, omitted, shown, told, failed>>

(* More of the text is shown, or its post fails; it goes on either way.    *)
Show ==
    /\ phase # "finished"
    /\ Extends(shown', shown) /\ Extends(accepted, shown')
    /\ failed' \in BOOLEAN /\ (failed => failed')
    /\ UNCHANGED <<accepted, omitted, told, phase>>

(* Omissions are told after all the text, once, with the final count.      *)
Tell ==
    /\ phase = "ending" /\ shown = accepted
    /\ told = 0 /\ told' = omitted
    /\ failed' \in BOOLEAN /\ (failed => failed')
    /\ UNCHANGED <<accepted, omitted, shown, phase>>

Finish ==
    /\ phase = "ending" /\ shown = accepted /\ told = omitted
    /\ phase' = "finished"
    /\ UNCHANGED <<accepted, omitted, shown, told, failed>>

Next == Accept \/ Omit \/ End \/ Show \/ Tell \/ Finish

Spec == Init /\ [][Next]_vars

=============================================================================
