----------------------------- MODULE MCTextPath -----------------------------
(* Texts for model-checking TextPath: every text of up to MaxChars         *)
(* characters of one to three bytes, some longer ones with backticks, and   *)
(* backticks around escape sequences whole, nested and unfinished.          *)
EXTENDS TextPath

CONSTANT MaxChars

Chars == {<<"a">>, <<"n">>, <<"q">>, <<"2", "c">>, <<"3", "c", "c">>}

(* of these, every text of four characters *)
Mixed == {<<"n">>, <<"q">>, <<"3", "c", "c">>}

Escapes ==
    {<<"e">>, <<"e", "[">>, <<"e", "[", "a">>, <<"e", "[", "0", "a">>,
     <<"e", "[", "n">>, <<"e", "]">>, <<"e", "]", "g">>, <<"e", "]", "e", "b">>,
     <<"e", "]", "b", "g">>, <<"e", "]", "g", "g">>, <<"e", "e", "[", "a">>,
     <<"e", "]", "2", "c", "g">>}

MCTexts ==
    LET texts[n \in 0..MaxChars] ==
            IF n = 0 THEN {<< >>}
            ELSE texts[n-1] \cup {t \o c : t \in texts[n-1], c \in Chars}
    IN  texts[MaxChars] \cup {c \o d \o e \o f : c, d, e, f \in Mixed} \cup
        {<<"q", "q", "q">> \o c \o <<"q", "q", "q">> : c \in Chars} \cup
        {c \o <<"q", "q", "q", "q">> : c \in Chars} \cup
        {c \o <<"z", "c", "c", "q", "q", "q">> : c \in Chars} \cup
        {<<"q">> \o e \o <<"q", "q", "q">> : e \in Escapes}
=============================================================================
