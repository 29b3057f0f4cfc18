--------------------------- MODULE TextPathProofs ---------------------------
(***************************************************************************)
(* Proofs about TextPath, for any texts, chunks and limits.                *)
(***************************************************************************)
EXTENDS TextPath, SequenceTheorems, NaturalsInduction, WellFoundedInduction, TLAPS

-----------------------------------------------------------------------------
(***************************************************************************)
(* Places are gone through from the last to the first.                     *)
(***************************************************************************)

(* Some numbers up to n have a greatest among them. *)
LEMMA HasGreatest ==
    ASSUME NEW n \in Nat, NEW P \in SUBSET (1..n), P # {}
    PROVE  \E i \in P : \A k \in P : k <= i
<1> DEFINE Less == {p \in Nat \X Nat : p[1] < p[2]}
           Back == {n - i : i \in P}
<1>1. IsWellFoundedOn(Less, Nat)
  BY NatLessThanWellFounded, Zenon DEF OpToRel
<1>2. Back \subseteq Nat /\ Back # {}
  <2>1. \A i \in P : n - i \in Nat
    <3>1. \A i \in P : i \in 1..n
      OBVIOUS
    <3> QED
      BY <3>1
  <2> QED
    BY <2>1
<1>3. \E x \in Back : \A y \in Back : ~(<<y, x>> \in Less)
  <2> HIDE DEF Less, Back
  <2> QED
    BY <1>1, <1>2, WFMin
<1>4. PICK x \in Back : \A y \in Back : ~(y < x)
  BY <1>2, <1>3
<1>5. PICK i \in P : x = n - i
  BY <1>4
<1>6. \A k \in P : n - k \in Back
  OBVIOUS
<1>7. \A k \in P : ~(n - k < n - i)
  BY <1>4, <1>5, <1>6
<1>8. \A k \in P : k \in 1..n
  OBVIOUS
<1> QED
  BY <1>7, <1>8

(* Largest finds one of them. *)
LEMMA LargestIs ==
    ASSUME NEW n \in Nat, NEW S \in SUBSET (1..n), S # {}
    PROVE  Largest(S) \in S
<1>1. \E m \in S : \A k \in S : k <= m
  BY HasGreatest
<1> QED
  BY <1>1 DEF Largest

(* What holds of a place if it holds of all behind it, holds of all.       *)
LEMMA Downward ==
    ASSUME NEW n \in Nat, NEW T,
           \A i \in 1..(n + 1) : (\A k \in (i + 1)..(n + 1) : k \in T) => i \in T
    PROVE  \A i \in 1..(n + 1) : i \in T
<1> DEFINE Rest == {i \in 1..(n + 1) : i \notin T}
<1> SUFFICES ASSUME Rest # {} PROVE FALSE
  OBVIOUS
<1>1. n + 1 \in Nat /\ Rest \in SUBSET (1..(n + 1))
  OBVIOUS
<1>2. PICK i \in Rest : \A k \in Rest : k <= i
  <2> HIDE DEF Rest
  <2> QED
    BY <1>1, HasGreatest
<1>3. i \in 1..(n + 1) /\ i \notin T
  OBVIOUS
<1>4. ASSUME NEW k \in (i + 1)..(n + 1) PROVE k \in T
  <2>1. k \in 1..(n + 1) /\ ~(k <= i)
    BY <1>3
  <2> QED
    BY <1>2, <2>1
<1> QED
  BY <1>3, <1>4

-----------------------------------------------------------------------------
(***************************************************************************)
(* Rewriting.                                                              *)
(***************************************************************************)

(* Every step leads on, and none beyond the end. *)
Steps(step) ==
    /\ Len(step) \in Nat
    /\ \A i \in 1..Len(step) : step[i] \in Nat \ {0} /\ i + step[i] <= Len(step) + 1

(* f is the function in Rewrite, from place m on. *)
Scan(f, step, piece, m) ==
    f = [i \in m..(Len(step) + 1) |->
            IF i > Len(step) THEN << >> ELSE piece[i] \o f[i + step[i]]]

(* There is such a function. *)
LEMMA ScanExists ==
    ASSUME NEW step, NEW piece, Steps(step)
    PROVE  \E f : Scan(f, step, piece, 1)
<1> DEFINE n == Len(step)
           T == {m \in 1..(n + 1) : \E f : Scan(f, step, piece, m)}
<1>1. n \in Nat
  BY DEF Steps
<1>2. ASSUME NEW m \in 1..(n + 1), \A k \in (m + 1)..(n + 1) : k \in T
      PROVE  m \in T
  <2>1. CASE m = n + 1
    <3>1. \A i \in m..(n + 1) : i > n
      BY <1>1, <2>1
    <3>2. Scan([i \in m..(n + 1) |-> << >>], step, piece, m)
      BY <3>1 DEF Scan
    <3> QED
      BY <3>2
  <2>2. CASE m \in 1..n
    <3>1. m + 1 \in (m + 1)..(n + 1) /\ m + 1 \in 1..(n + 1)
      BY <1>1, <2>2
    <3>2. m + 1 \in T
      BY <1>2, <3>1
    <3>3. PICK f : Scan(f, step, piece, m + 1)
      BY <3>2
    <3> DEFINE g == [i \in m..(n + 1) |->
                        IF i = m THEN piece[m] \o f[m + step[m]] ELSE f[i]]
    <3>4. \A i \in (m + 1)..(n + 1) :
              f[i] = IF i > n THEN << >> ELSE piece[i] \o f[i + step[i]]
      BY <3>3 DEF Scan
    <3>5. ASSUME NEW i \in m..(n + 1)
          PROVE  g[i] = IF i > n THEN << >> ELSE piece[i] \o g[i + step[i]]
      <4>1. CASE i = m
        <5>1. m + step[m] \in m..(n + 1) /\ m + step[m] # m /\ ~(m > n)
          BY <1>1, <2>2 DEF Steps
        <5>2. g[m + step[m]] = f[m + step[m]]
          BY <5>1
        <5>3. g[m] = piece[m] \o f[m + step[m]]
          BY <4>1
        <5> QED
          BY <4>1, <5>1, <5>2, <5>3
      <4>2. CASE i # m
        <5>1. i \in (m + 1)..(n + 1) /\ g[i] = f[i]
          BY <1>1, <2>2, <4>2
        <5>2. CASE i > n
          BY <3>4, <5>1, <5>2
        <5>3. CASE ~(i > n)
          <6>1. i + step[i] \in m..(n + 1) /\ i + step[i] # m
            BY <1>1, <2>2, <5>1, <5>3 DEF Steps
          <6>2. g[i + step[i]] = f[i + step[i]]
            BY <6>1
          <6> QED
            BY <3>4, <5>1, <5>3, <6>2
        <5> QED
          BY <5>2, <5>3
      <4> QED
        BY <4>1, <4>2
    <3>6. g = [i \in m..(n + 1) |-> g[i]]
      OBVIOUS
    <3>7. Scan(g, step, piece, m)
      <4> HIDE DEF g
      <4> QED
        BY <3>5, <3>6 DEF Scan
    <3> QED
      BY <3>7
  <2> QED
    BY <1>1, <2>1, <2>2
<1>3. \A m \in 1..(n + 1) : m \in T
  <2> HIDE DEF T
  <2> QED
    BY <1>1, <1>2, Downward
<1>4. 1 \in 1..(n + 1)
  BY <1>1
<1> QED
  BY <1>3, <1>4

(* What the text is rewritten to from each place on *)
Rewrites(f, step, piece) ==
    /\ Rewrite(step, piece) = f[1]
    /\ f[Len(step) + 1] = << >>
    /\ \A i \in 1..Len(step) : f[i] = piece[i] \o f[i + step[i]]

(* There is a function that tells it. *)
LEMMA Rewritten ==
    ASSUME NEW step, NEW piece, Steps(step)
    PROVE  \E f : Rewrites(f, step, piece)
<1> DEFINE f == CHOOSE h : Scan(h, step, piece, 1)
<1>1. Scan(f, step, piece, 1)
  BY ScanExists
<1>2. Rewrite(step, piece) = f[1]
  BY DEF Rewrite, Scan
<1>3. \A i \in 1..(Len(step) + 1) :
          f[i] = IF i > Len(step) THEN << >> ELSE piece[i] \o f[i + step[i]]
  <2> HIDE DEF f
  <2> QED
    BY <1>1 DEF Scan
<1>4. Len(step) \in Nat
  BY DEF Steps
<1>5. Len(step) + 1 \in 1..(Len(step) + 1) /\ Len(step) + 1 > Len(step)
  BY <1>4
<1>6. \A i \in 1..Len(step) : i \in 1..(Len(step) + 1) /\ ~(i > Len(step))
  BY <1>4
<1> QED
  BY <1>2, <1>3, <1>5, <1>6 DEF Rewrites

-----------------------------------------------------------------------------
(***************************************************************************)
(* Texts and their ends.                                                   *)
(***************************************************************************)
Text == Seq(Byte)

(* What is left of s from place i on *)
From(s, i) == SubSeq(s, i, Len(s))

(* Its length and its bytes *)
LEMMA FromIs ==
    ASSUME NEW s \in Text, NEW i \in 1..(Len(s) + 1)
    PROVE  /\ Len(s) \in Nat /\ From(s, i) \in Text /\ Len(From(s, i)) = Len(s) + 1 - i
           /\ \A k \in 1..(Len(s) + 1 - i) : From(s, i)[k] = s[i + k - 1]
<1>1. Len(s) \in Nat /\ \A k \in 1..Len(s) : s[k] \in Byte
  BY LenProperties, ElementOfSeq DEF Text
<1>2. \A k \in i..Len(s) : s[k] \in Byte
  BY <1>1
<1>3. /\ SubSeq(s, i, Len(s)) \in Seq(Byte)
      /\ Len(SubSeq(s, i, Len(s))) = IF i <= Len(s) THEN Len(s) - i + 1 ELSE 0
      /\ \A k \in 1..(Len(s) - i + 1) : SubSeq(s, i, Len(s))[k] = s[i + k - 1]
  BY <1>1, <1>2, SubSeqProperties, i \in Int, Len(s) \in Int
<1> QED
  BY <1>1, <1>3 DEF From, Text

(* Its two extremes *)
LEMMA FromEnds ==
    ASSUME NEW s \in Text
    PROVE  From(s, 1) = s /\ From(s, Len(s) + 1) = << >>
<1>1. Len(s) \in Nat
  BY LenProperties DEF Text
<1> QED
  BY <1>1, SubSeqFull, SubSeqEmpty DEF From, Text

(* It begins with any stretch from i on. *)
LEMMA FromSplit ==
    ASSUME NEW s \in Text, NEW i \in 1..(Len(s) + 1), NEW k \in i..(Len(s) + 1)
    PROVE  From(s, i) = SubSeq(s, i, k - 1) \o From(s, k)
<1>1. Len(s) \in Nat
  BY LenProperties DEF Text
<1>2. k - 1 \in (i - 1)..Len(s) /\ Len(s) \in (k - 1)..Len(s) /\ (k - 1) + 1 = k
  BY <1>1
<1> QED
  BY <1>1, <1>2, ConcatAdjacentSubSeq DEF From, Text

(* A stretch of s *)
LEMMA StretchIs ==
    ASSUME NEW s \in Text, NEW i \in 1..(Len(s) + 1), NEW k \in (i - 1)..Len(s)
    PROVE  /\ SubSeq(s, i, k) \in Text /\ Len(SubSeq(s, i, k)) = k - i + 1
           /\ \A n \in 1..(k - i + 1) : SubSeq(s, i, k)[n] = s[i + n - 1]
<1>1. Len(s) \in Nat /\ \A n \in 1..Len(s) : s[n] \in Byte
  BY LenProperties, ElementOfSeq DEF Text
<1>2. i \in Int /\ k \in Int /\ \A n \in i..k : s[n] \in Byte
  BY <1>1
<1> QED
  BY <1>1, <1>2, SubSeqProperties DEF Text

(* And with its first byte *)
LEMMA FromStep ==
    ASSUME NEW s \in Text, NEW i \in 1..Len(s)
    PROVE  /\ From(s, i) = <<s[i]>> \o From(s, i + 1) /\ s[i] \in Byte
           /\ i \in 1..(Len(s) + 1) /\ i + 1 \in 1..(Len(s) + 1)
<1>1. Len(s) \in Nat
  BY LenProperties DEF Text
<1>2. Len(s) \in i..Len(s)
  BY <1>1
<1>3. s[i] \in Byte
  BY ElementOfSeq DEF Text
<1> QED
  BY <1>1, <1>2, <1>3, SubSeqRecursiveFirst DEF From, Text

(* The length and the bytes of two texts together *)
LEMMA Joined ==
    ASSUME NEW s \in Text, NEW t \in Text
    PROVE  /\ s \o t \in Text /\ Len(s \o t) = Len(s) + Len(t)
           /\ Len(s) \in Nat /\ Len(t) \in Nat
           /\ \A i \in 1..Len(s) : (s \o t)[i] = s[i]
           /\ \A i \in 1..Len(t) : (s \o t)[Len(s) + i] = t[i]
<1>1. Len(s) \in Nat /\ Len(t) \in Nat
  BY LenProperties DEF Text
<1>2. /\ s \o t \in Seq(Byte) /\ Len(s \o t) = Len(s) + Len(t)
      /\ \A i \in 1..(Len(s) + Len(t)) :
            (s \o t)[i] = IF i <= Len(s) THEN s[i] ELSE t[i - Len(s)]
  BY ConcatProperties DEF Text
<1>3. ASSUME NEW i \in 1..Len(t) PROVE (s \o t)[Len(s) + i] = t[i]
  <2>1. Len(s) + i \in 1..(Len(s) + Len(t)) /\ ~(Len(s) + i <= Len(s)) /\ (Len(s) + i) - Len(s) = i
    BY <1>1
  <2> QED
    BY <1>2, <2>1
<1>4. ASSUME NEW i \in 1..Len(s) PROVE (s \o t)[i] = s[i]
  <2>1. i \in 1..(Len(s) + Len(t)) /\ i <= Len(s)
    BY <1>1
  <2> QED
    BY <1>2, <2>1
<1> QED
  BY <1>1, <1>2, <1>3, <1>4 DEF Text

(* Texts of one and of three bytes *)
LEMMA ShortTexts ==
    /\ << >> \in Text /\ Len(<< >>) = 0 /\ Fence \in Text
    /\ \A b \in Byte : <<b>> \in Text /\ Len(<<b>>) = 1 /\ <<b>>[1] = b
    /\ \A a, b, d \in Byte : <<a, b, d>> \in Text
BY DEF Text, Byte, Fence

-----------------------------------------------------------------------------
(***************************************************************************)
(* Characters.                                                             *)
(***************************************************************************)

(* Of one, two or three bytes *)
LEMMA BytesAre ==
    /\ \A b \in Byte : Bytes(b) \in 1..3
    /\ Bytes("a") = 1 /\ Bytes("n") = 1 /\ Bytes("q") = 1 /\ Bytes("c") = 1
    /\ Bytes("z") = 3 /\ Bytes("r") = 3
BY DEF Byte, Bytes

(* A character of s is one wherever its bytes stand. *)
LEMMA WholeMoves ==
    ASSUME NEW s, NEW t, NEW i \in Nat, NEW j \in Nat, Whole(s, i), s[i] \in Byte,
           j + Bytes(s[i]) - 1 <= Len(t),
           \A k \in 0..(Bytes(s[i]) - 1) : t[j + k] = s[i + k]
    PROVE  Whole(t, j) /\ t[j] = s[i]
<1>1. Bytes(s[i]) \in 1..3
  BY BytesAre
<1>2. t[j] = s[i]
  <2>1. 0 \in 0..(Bytes(s[i]) - 1) /\ j + 0 = j /\ i + 0 = i
    BY <1>1
  <2> QED
    BY <2>1
<1>3. \A k \in 1..(Bytes(s[i]) - 1) : k \in 0..(Bytes(s[i]) - 1)
  BY <1>1
<1> QED
  BY <1>2, <1>3 DEF Whole

(* In a valid text every byte that begins a character has all of it. *)
LEMMA ValidBegins ==
    ASSUME NEW s \in Text, Valid(s), NEW i \in 1..Len(s), RuneStart(s[i])
    PROVE  Whole(s, i)
<1>1. PICK j \in 1..i : Whole(s, j) /\ i < j + Bytes(s[j])
  BY DEF Valid
<1>2. Len(s) \in Nat /\ j \in 1..Len(s)
  BY LenProperties DEF Text
<1>3. s[j] \in Byte
  BY <1>2, ElementOfSeq DEF Text
<1>4. CASE j < i
  <2>1. i - j \in 1..(Bytes(s[j]) - 1) /\ j + (i - j) = i
    BY <1>1, <1>2, <1>3, <1>4, BytesAre
  <2> QED
    BY <1>1, <2>1 DEF Whole, RuneStart
<1> QED
  BY <1>1, <1>2, <1>4

(* It begins with a character, *)
LEMMA ValidFirst ==
    ASSUME NEW s \in Text, Valid(s), Len(s) > 0
    PROVE  Whole(s, 1)
<1>1. Len(s) \in Nat
  BY LenProperties DEF Text
<1>2. 1 \in 1..Len(s)
  BY <1>1
<1>3. PICK j \in 1..1 : Whole(s, j)
  BY <1>2 DEF Valid
<1> QED
  BY <1>3

(* and behind a character the next begins. *)
LEMMA ValidNext ==
    ASSUME NEW s \in Text, Valid(s), NEW i \in 1..Len(s), Whole(s, i), i + Bytes(s[i]) <= Len(s)
    PROVE  RuneStart(s[i + Bytes(s[i])])
<1> DEFINE n == i + Bytes(s[i])
<1>1. Len(s) \in Nat /\ s[i] \in Byte
  BY LenProperties, ElementOfSeq DEF Text
<1>2. n \in 1..Len(s) /\ n \in Nat /\ i < n
  BY <1>1, BytesAre
<1>3. PICK j \in 1..n : Whole(s, j) /\ n < j + Bytes(s[j])
  BY <1>2 DEF Valid
<1>4. j \in 1..Len(s) /\ s[j] \in Byte
  <2>1. j \in 1..Len(s)
    BY <1>1, <1>2
  <2> QED
    BY <2>1, ElementOfSeq DEF Text
<1>5. CASE j = n
  BY <1>3, <1>5 DEF Whole
<1>6. CASE j = i
  BY <1>2, <1>3, <1>6
<1>7. CASE i < j /\ j < n
  <2>1. j - i \in 1..(Bytes(s[i]) - 1) /\ i + (j - i) = j
    BY <1>1, <1>2, <1>4, <1>7, BytesAre
  <2>2. s[j] = "c"
    BY <2>1 DEF Whole
  <2> QED
    BY <1>3, <2>2 DEF Whole, RuneStart
<1>8. CASE j < i
  <2>1. i - j \in 1..(Bytes(s[j]) - 1) /\ j + (i - j) = i
    BY <1>1, <1>2, <1>3, <1>4, <1>8, BytesAre
  <2>2. s[i] = "c"
    BY <1>3, <2>1 DEF Whole
  <2> QED
    BY <2>2 DEF Whole, RuneStart
<1> QED
  BY <1>2, <1>4, <1>5, <1>6, <1>7, <1>8

(* Valid texts make a valid text. *)
LEMMA ValidJoined ==
    ASSUME NEW s \in Text, NEW t \in Text, Valid(s), Valid(t)
    PROVE  Valid(s \o t)
<1> DEFINE u == s \o t
<1>1. /\ u \in Text /\ Len(u) = Len(s) + Len(t) /\ Len(s) \in Nat /\ Len(t) \in Nat
      /\ \A i \in 1..Len(s) : u[i] = s[i]
      /\ \A i \in 1..Len(t) : u[Len(s) + i] = t[i]
  BY Joined
<1> HIDE DEF u
<1>2. ASSUME NEW i \in 1..Len(u)
      PROVE  \E j \in 1..i : Whole(u, j) /\ i < j + Bytes(u[j])
  <2>1. CASE i \in 1..Len(s)
    <3>1. PICK j \in 1..i : Whole(s, j) /\ i < j + Bytes(s[j])
      BY <2>1 DEF Valid
    <3>2. j \in 1..Len(s) /\ s[j] \in Byte
      <4>1. j \in 1..Len(s)
        BY <1>1, <2>1
      <4> QED
        BY <4>1, ElementOfSeq DEF Text
    <3>3. Bytes(s[j]) \in 1..3 /\ j + Bytes(s[j]) - 1 <= Len(s)
      BY <3>1, <3>2, BytesAre DEF Whole
    <3>4. ASSUME NEW k \in 0..(Bytes(s[j]) - 1) PROVE u[j + k] = s[j + k]
      <4>1. j + k \in 1..Len(s)
        BY <1>1, <3>2, <3>3
      <4> QED
        BY <1>1, <4>1
    <3>5. Whole(u, j) /\ u[j] = s[j]
      <4>1. j \in Nat /\ j + Bytes(s[j]) - 1 <= Len(u)
        BY <1>1, <3>2, <3>3
      <4> QED
        BY <3>1, <3>2, <3>4, <4>1, WholeMoves
    <3> QED
      BY <3>1, <3>5
  <2>2. CASE i > Len(s)
    <3> DEFINE i0 == i - Len(s)
    <3>1. i0 \in 1..Len(t)
      BY <1>1, <2>2
    <3>2. PICK j \in 1..i0 : Whole(t, j) /\ i0 < j + Bytes(t[j])
      BY <3>1 DEF Valid
    <3>3. j \in 1..Len(t) /\ t[j] \in Byte
      <4>1. j \in 1..Len(t)
        BY <1>1, <3>1
      <4> QED
        BY <4>1, ElementOfSeq DEF Text
    <3>4. Bytes(t[j]) \in 1..3 /\ j + Bytes(t[j]) - 1 <= Len(t)
      BY <3>2, <3>3, BytesAre DEF Whole
    <3>5. ASSUME NEW k \in 0..(Bytes(t[j]) - 1) PROVE u[(Len(s) + j) + k] = t[j + k]
      <4>1. j + k \in 1..Len(t) /\ Len(s) + (j + k) = (Len(s) + j) + k
        BY <1>1, <3>3, <3>4
      <4> QED
        BY <1>1, <4>1
    <3>6. Whole(u, Len(s) + j) /\ u[Len(s) + j] = t[j]
      <4>1. /\ j \in Nat /\ Len(s) + j \in Nat
            /\ (Len(s) + j) + Bytes(t[j]) - 1 <= Len(u)
        BY <1>1, <3>3, <3>4
      <4> QED
        BY <3>2, <3>3, <3>5, <4>1, WholeMoves
    <3>7. Len(s) + j \in 1..i /\ i < (Len(s) + j) + Bytes(t[j])
      BY <1>1, <3>1, <3>2, <3>3, <3>4
    <3> QED
      BY <3>6, <3>7
  <2> QED
    BY <1>1, <2>1, <2>2
<1> QED
  BY <1>2 DEF Valid, u

(* A valid text is cut into valid texts where a character begins. *)
LEMMA ValidCut ==
    ASSUME NEW s \in Text, Valid(s), NEW n \in 0..Len(s), n = Len(s) \/ RuneStart(s[n + 1])
    PROVE  Valid(SubSeq(s, 1, n)) /\ Valid(From(s, n + 1))
<1>1. Len(s) \in Nat /\ \A i \in 1..Len(s) : s[i] \in Byte
  BY LenProperties, ElementOfSeq DEF Text
<1>2. \A j \in 1..Len(s) : Whole(s, j) => Bytes(s[j]) \in 1..3 /\ j + Bytes(s[j]) - 1 <= Len(s)
  BY <1>1, BytesAre DEF Whole
<1>3. ASSUME NEW j \in 1..n, Whole(s, j) PROVE j + Bytes(s[j]) - 1 <= n
  <2>1. CASE n = Len(s)
    BY <1>2, <1>3, <2>1
  <2>2. CASE n < Len(s) /\ j + Bytes(s[j]) - 1 > n
    <3>1. (n + 1) - j \in 1..(Bytes(s[j]) - 1) /\ j + ((n + 1) - j) = n + 1
      BY <1>1, <1>2, <1>3, <2>2
    <3>2. s[n + 1] = "c"
      BY <1>3, <3>1 DEF Whole
    <3> QED
      BY <2>2, <3>2 DEF RuneStart
  <2>3. j \in 1..Len(s)
    BY <1>1
  <2>4. Bytes(s[j]) \in 1..3
    BY <1>2, <1>3, <2>3
  <2> QED
    BY <1>1, <2>1, <2>2, <2>3, <2>4
<1>4. Valid(SubSeq(s, 1, n))
  <2> DEFINE a == SubSeq(s, 1, n)
  <2>1. Len(a) = n /\ \A k \in 1..n : a[k] = s[k]
    <3>1. 1 \in 1..(Len(s) + 1) /\ n \in (1 - 1)..Len(s) /\ n - 1 + 1 = n
      BY <1>1
    <3>2. Len(a) = n - 1 + 1 /\ \A k \in 1..(n - 1 + 1) : a[k] = s[1 + k - 1]
      BY <3>1, StretchIs
    <3> HIDE DEF a
    <3>3. \A k \in 1..n : 1 + k - 1 = k
      OBVIOUS
    <3> QED
      BY <3>1, <3>2, <3>3
  <2> HIDE DEF a
  <2>2. ASSUME NEW i \in 1..Len(a)
        PROVE  \E j \in 1..i : Whole(a, j) /\ i < j + Bytes(a[j])
    <3>1. i \in 1..Len(s)
      BY <1>1, <2>1
    <3>2. PICK j \in 1..i : Whole(s, j) /\ i < j + Bytes(s[j])
      BY <3>1 DEF Valid
    <3>3. j \in 1..n /\ j \in Nat /\ s[j] \in Byte
      BY <1>1, <2>1
    <3>4. Bytes(s[j]) \in 1..3 /\ j + Bytes(s[j]) - 1 <= n
      BY <1>1, <1>2, <1>3, <3>2, <3>3
    <3>5. \A k \in 0..(Bytes(s[j]) - 1) : j + k \in 1..n
      BY <3>3, <3>4
    <3>6. Whole(a, j) /\ a[j] = s[j]
      BY <2>1, <3>2, <3>3, <3>4, <3>5, WholeMoves
    <3> QED
      BY <3>2, <3>6
  <2> QED
    BY <2>2 DEF Valid, a
<1>5. Valid(From(s, n + 1))
  <2> DEFINE b == From(s, n + 1)
  <2>1. Len(b) = Len(s) - n /\ \A k \in 1..(Len(s) - n) : b[k] = s[n + k]
    <3>1. n + 1 \in 1..(Len(s) + 1) /\ Len(s) + 1 - (n + 1) = Len(s) - n
      BY <1>1
    <3>2. /\ Len(b) = Len(s) + 1 - (n + 1)
          /\ \A k \in 1..(Len(s) + 1 - (n + 1)) : b[k] = s[(n + 1) + k - 1]
      BY <3>1, FromIs
    <3> HIDE DEF b
    <3>3. \A k \in 1..(Len(s) - n) : (n + 1) + k - 1 = n + k
      BY <1>1
    <3> QED
      BY <3>1, <3>2, <3>3
  <2> HIDE DEF b
  <2>2. ASSUME NEW i \in 1..Len(b)
        PROVE  \E j \in 1..i : Whole(b, j) /\ i < j + Bytes(b[j])
    <3>1. n + i \in 1..Len(s)
      BY <1>1, <2>1
    <3>2. PICK j \in 1..(n + i) : Whole(s, j) /\ n + i < j + Bytes(s[j])
      BY <3>1 DEF Valid
    <3>3. j \in 1..Len(s) /\ s[j] \in Byte
      BY <1>1, <3>1
    <3>4. Bytes(s[j]) \in 1..3 /\ j + Bytes(s[j]) - 1 <= Len(s) /\ j > n
      BY <1>1, <1>2, <1>3, <3>2, <3>3
    <3>5. j - n \in 1..i /\ n + (j - n) = j
      BY <1>1, <3>3, <3>4
    <3>6. ASSUME NEW k \in 0..(Bytes(s[j]) - 1) PROVE b[(j - n) + k] = s[j + k]
      <4>1. (j - n) + k \in 1..(Len(s) - n) /\ n + ((j - n) + k) = j + k
        BY <1>1, <3>3, <3>4, <3>5
      <4> QED
        BY <2>1, <4>1
    <3>7. Whole(b, j - n) /\ b[j - n] = s[j]
      <4>1. j \in Nat /\ j - n \in Nat /\ (j - n) + Bytes(s[j]) - 1 <= Len(b)
        BY <1>1, <2>1, <3>3, <3>4
      <4> QED
        BY <3>2, <3>3, <3>6, <4>1, WholeMoves
    <3>8. i < (j - n) + Bytes(s[j])
      BY <1>1, <2>1, <3>2, <3>3, <3>4
    <3> QED
      BY <3>5, <3>7, <3>8
  <2> QED
    BY <2>2 DEF Valid, b
<1> QED
  BY <1>4, <1>5

(* A character of s, U+FFFD, the escape, and a byte that is a character    *)
LEMMA ValidPieces ==
    /\ Valid(<< >>) /\ Valid(<<"r", "c", "c">>) /\ Valid(Fence)
    /\ \A s \in Text : \A i \in 1..Len(s) : Whole(s, i) =>
          /\ Bytes(s[i]) \in 1..3 /\ i + Bytes(s[i]) \in (i + 1)..(Len(s) + 1)
          /\ SubSeq(s, i, i + Bytes(s[i]) - 1) \in Text
          /\ Valid(SubSeq(s, i, i + Bytes(s[i]) - 1))
<1>1. Valid(<< >>)
  BY DEF Valid
<1>2. Valid(<<"r", "c", "c">>)
  <2> DEFINE u == <<"r", "c", "c">>
  <2>1. Len(u) = 3 /\ u[1] = "r" /\ u[2] = "c" /\ u[3] = "c"
    OBVIOUS
  <2> HIDE DEF u
  <2>2. Bytes(u[1]) = 3 /\ RuneStart(u[1])
    BY <2>1 DEF Bytes, RuneStart
  <2>3. \A k \in 1..2 : u[1 + k] = "c"
    BY <2>1
  <2>4. Whole(u, 1)
    BY <2>1, <2>2, <2>3 DEF Whole
  <2> QED
    BY <2>1, <2>2, <2>4 DEF Valid, u
<1>3. Valid(Fence)
  <2>1. /\ Len(Fence) = 6 /\ Fence[1] = "q" /\ Fence[2] = "z" /\ Fence[3] = "c" /\ Fence[4] = "c"
        /\ Fence[5] = "q" /\ Fence[6] = "q"
    BY DEF Fence
  <2>2. Bytes("q") = 1 /\ Bytes("z") = 3 /\ RuneStart("q") /\ RuneStart("z")
    BY DEF Bytes, RuneStart
  <2>3. Whole(Fence, 1) /\ Whole(Fence, 5) /\ Whole(Fence, 6)
    BY <2>1, <2>2 DEF Whole
  <2>4. Whole(Fence, 2)
    <3>1. \A k \in 1..2 : Fence[2 + k] = "c"
      BY <2>1
    <3> QED
      BY <2>1, <2>2, <3>1 DEF Whole
  <2>5. ASSUME NEW i \in 1..6
        PROVE  \E j \in 1..i : Whole(Fence, j) /\ i < j + Bytes(Fence[j])
    <3>1. CASE i \in {1, 5, 6}
      BY <2>1, <2>2, <2>3, <3>1
    <3>2. CASE i \in {2, 3, 4}
      <4>1. 2 \in 1..i
        BY <3>2
      <4> QED
        BY <2>1, <2>2, <2>4, <3>2, <4>1
    <3> QED
      BY <3>1, <3>2
  <2> QED
    BY <2>1, <2>5 DEF Valid
<1>4. ASSUME NEW s \in Text, NEW i \in 1..Len(s), Whole(s, i)
      PROVE  /\ Bytes(s[i]) \in 1..3 /\ i + Bytes(s[i]) \in (i + 1)..(Len(s) + 1)
             /\ SubSeq(s, i, i + Bytes(s[i]) - 1) \in Text
             /\ Valid(SubSeq(s, i, i + Bytes(s[i]) - 1))
  <2> DEFINE n == Bytes(s[i])
             a == SubSeq(s, i, i + n - 1)
  <2>1. Len(s) \in Nat /\ s[i] \in Byte
    BY LenProperties, ElementOfSeq DEF Text
  <2>2. n \in 1..3 /\ i + n - 1 <= Len(s) /\ i + n \in (i + 1)..(Len(s) + 1)
    BY <1>4, <2>1, BytesAre DEF Whole
  <2>3. a \in Text /\ Len(a) = n /\ \A k \in 1..n : a[k] = s[i + k - 1]
    <3>1. i \in 1..(Len(s) + 1) /\ i + n - 1 \in (i - 1)..Len(s) /\ (i + n - 1) - i + 1 = n
      <4> HIDE DEF n
      <4> QED
        BY <2>1, <2>2
    <3>2. /\ a \in Text /\ Len(a) = (i + n - 1) - i + 1
          /\ \A k \in 1..((i + n - 1) - i + 1) : a[k] = s[i + k - 1]
      BY <3>1, StretchIs
    <3> HIDE DEF a
    <3> QED
      BY <3>1, <3>2
  <2> HIDE DEF a
  <2>4. Whole(a, 1) /\ a[1] = s[i]
    <3>1. \A k \in 0..(n - 1) : a[1 + k] = s[i + k]
      <4>1. \A k \in 0..(n - 1) : 1 + k \in 1..n /\ i + (1 + k) - 1 = i + k
        BY <2>1, <2>2
      <4> QED
        BY <2>3, <4>1
    <3>2. 1 + n - 1 <= Len(a) /\ 1 \in Nat /\ i \in Nat
      BY <2>2, <2>3
    <3> QED
      BY <1>4, <2>1, <3>1, <3>2, WholeMoves
  <2>5. Valid(a)
    <3>1. \A k \in 1..Len(a) : 1 \in 1..k /\ k < 1 + Bytes(a[1])
      BY <2>2, <2>3, <2>4
    <3> QED
      BY <2>4, <3>1 DEF Valid
  <2> QED
    BY <2>2, <2>3, <2>5 DEF a
<1> QED
  BY <1>1, <1>2, <1>3, <1>4

-----------------------------------------------------------------------------
(***************************************************************************)
(* The four rewritings:  f[i] is what becomes of s from place i on.        *)
(***************************************************************************)
JSONOf(f, s) ==
    /\ f[Len(s) + 1] = << >>
    /\ \A i \in 1..Len(s) :
          f[i] = IF Whole(s, i)
                   THEN SubSeq(s, i, i + Bytes(s[i]) - 1) \o f[i + Bytes(s[i])]
                   ELSE <<"r", "c", "c">> \o f[i + 1]

EscapeOf(f, s) ==
    /\ f[Len(s) + 1] = << >>
    /\ \A i \in 1..Len(s) :
          f[i] = IF FenceAt(s, i) THEN Fence \o f[i + 3] ELSE <<s[i]>> \o f[i + 1]

StripOf(f, s) ==
    /\ f[Len(s) + 1] = << >>
    /\ \A i \in 1..Len(s) :
          f[i] = IF AnsiEnds(s, i) # {} THEN << >> \o f[Largest(AnsiEnds(s, i)) + 1]
                 ELSE SubSeq(s, i, i + RuneSize(s, i) - 1) \o f[i + RuneSize(s, i)]

Space(s, i) == s[i] = "z" /\ Whole(s, i)

VisibleOf(f, s) ==
    /\ f[Len(s) + 1] = << >>
    /\ \A i \in 1..Len(s) :
          f[i] = IF Space(s, i) THEN << >> \o f[i + 3] ELSE <<s[i]>> \o f[i + 1]

(* encoding/json *)
LEMMA JSONIs ==
    ASSUME NEW s \in Text
    PROVE  \E f : ToJSON(s) = f[1] /\ JSONOf(f, s)
<1> DEFINE step  == [i \in 1..Len(s) |-> RuneSize(s, i)]
           piece == [i \in 1..Len(s) |-> IF Whole(s, i) THEN SubSeq(s, i, i + Bytes(s[i]) - 1)
                                         ELSE <<"r", "c", "c">>]
<1>1. Len(s) \in Nat /\ Len(step) = Len(s)
  BY LenProperties DEF Text
<1>2. \A i \in 1..Len(s) : step[i] = RuneSize(s, i)
  OBVIOUS
<1>3. \A i \in 1..Len(s) : piece[i] = IF Whole(s, i) THEN SubSeq(s, i, i + Bytes(s[i]) - 1)
                                      ELSE <<"r", "c", "c">>
  OBVIOUS
<1>4. ToJSON(s) = Rewrite(step, piece)
  BY DEF ToJSON
<1> HIDE DEF step, piece
<1>5. ASSUME NEW i \in 1..Len(s) PROVE step[i] \in Nat \ {0} /\ i + step[i] <= Len(step) + 1
  <2>1. CASE Whole(s, i)
    <3>1. step[i] = Bytes(s[i])
      BY <1>2, <2>1 DEF RuneSize
    <3>2. Bytes(s[i]) \in 1..3 /\ i + Bytes(s[i]) \in (i + 1)..(Len(s) + 1)
      BY <2>1, ValidPieces
    <3> QED
      BY <1>1, <3>1, <3>2
  <2>2. CASE ~Whole(s, i)
    BY <1>1, <1>2, <2>2 DEF RuneSize
  <2> QED
    BY <2>1, <2>2
<1>6. Steps(step)
  BY <1>1, <1>5 DEF Steps
<1>7. PICK f : Rewrites(f, step, piece)
  BY <1>6, Rewritten
<1>8. ASSUME NEW i \in 1..Len(s)
      PROVE  f[i] = IF Whole(s, i)
                      THEN SubSeq(s, i, i + Bytes(s[i]) - 1) \o f[i + Bytes(s[i])]
                      ELSE <<"r", "c", "c">> \o f[i + 1]
  BY <1>1, <1>2, <1>3, <1>7 DEF Rewrites, RuneSize
<1> QED
  BY <1>1, <1>4, <1>7, <1>8 DEF Rewrites, JSONOf

(* strings.ReplaceAll *)
LEMMA EscapeIs ==
    ASSUME NEW s \in Text
    PROVE  \E f : EscapeCodeFence(s) = f[1] /\ EscapeOf(f, s)
<1> DEFINE step  == [i \in 1..Len(s) |-> IF FenceAt(s, i) THEN 3 ELSE 1]
           piece == [i \in 1..Len(s) |-> IF FenceAt(s, i) THEN Fence ELSE <<s[i]>>]
<1>1. Len(s) \in Nat /\ Len(step) = Len(s)
  BY LenProperties DEF Text
<1>2. \A i \in 1..Len(s) : step[i] = IF FenceAt(s, i) THEN 3 ELSE 1
  OBVIOUS
<1>3. \A i \in 1..Len(s) : piece[i] = IF FenceAt(s, i) THEN Fence ELSE <<s[i]>>
  OBVIOUS
<1>4. EscapeCodeFence(s) = Rewrite(step, piece)
  BY DEF EscapeCodeFence
<1> HIDE DEF step, piece
<1>5. \A i \in 1..Len(s) : step[i] \in Nat \ {0} /\ i + step[i] <= Len(step) + 1
  BY <1>1, <1>2 DEF FenceAt
<1>6. Steps(step)
  BY <1>1, <1>5 DEF Steps
<1>7. PICK f : Rewrites(f, step, piece)
  BY <1>6, Rewritten
<1>8. ASSUME NEW i \in 1..Len(s)
      PROVE  f[i] = IF FenceAt(s, i) THEN Fence \o f[i + 3] ELSE <<s[i]>> \o f[i + 1]
  BY <1>1, <1>2, <1>3, <1>7 DEF Rewrites
<1> QED
  BY <1>1, <1>4, <1>7, <1>8 DEF Rewrites, EscapeOf

(* What a reader sees *)
LEMMA VisibleIs ==
    ASSUME NEW s \in Text
    PROVE  \E f : Visible(s) = f[1] /\ VisibleOf(f, s)
<1> DEFINE step  == [i \in 1..Len(s) |-> IF Space(s, i) THEN 3 ELSE 1]
           piece == [i \in 1..Len(s) |-> IF Space(s, i) THEN << >> ELSE <<s[i]>>]
<1>1. Len(s) \in Nat /\ Len(step) = Len(s)
  BY LenProperties DEF Text
<1>2. \A i \in 1..Len(s) : step[i] = IF Space(s, i) THEN 3 ELSE 1
  OBVIOUS
<1>3. \A i \in 1..Len(s) : piece[i] = IF Space(s, i) THEN << >> ELSE <<s[i]>>
  OBVIOUS
<1>4. Visible(s) = Rewrite(step, piece)
  BY DEF Visible, Space
<1> HIDE DEF step, piece
<1>5. \A i \in 1..Len(s) : step[i] \in Nat \ {0} /\ i + step[i] <= Len(step) + 1
  BY <1>1, <1>2, BytesAre DEF Space, Whole
<1>6. Steps(step)
  BY <1>1, <1>5 DEF Steps
<1>7. PICK f : Rewrites(f, step, piece)
  BY <1>6, Rewritten
<1>8. ASSUME NEW i \in 1..Len(s)
      PROVE  f[i] = IF Space(s, i) THEN << >> \o f[i + 3] ELSE <<s[i]>> \o f[i + 1]
  BY <1>1, <1>2, <1>3, <1>7 DEF Rewrites
<1> QED
  BY <1>1, <1>4, <1>7, <1>8 DEF Rewrites, VisibleOf

-----------------------------------------------------------------------------
(***************************************************************************)
(* JSON.                                                                   *)
(***************************************************************************)

(* What comes out of JSON is valid, whatever goes in. *)
LEMMA JSONValid ==
    ASSUME NEW s \in Text, NEW f, JSONOf(f, s)
    PROVE  \A i \in 1..(Len(s) + 1) : f[i] \in Text /\ Valid(f[i])
<1> DEFINE T == {i \in 1..(Len(s) + 1) : f[i] \in Text /\ Valid(f[i])}
<1>1. Len(s) \in Nat
  BY LenProperties DEF Text
<1>2. ASSUME NEW i \in 1..(Len(s) + 1), \A k \in (i + 1)..(Len(s) + 1) : k \in T
      PROVE  i \in T
  <2>1. CASE i = Len(s) + 1
    BY <2>1, ShortTexts, ValidPieces DEF JSONOf
  <2>2. CASE i \in 1..Len(s) /\ Whole(s, i)
    <3> DEFINE a == SubSeq(s, i, i + Bytes(s[i]) - 1)
               k == i + Bytes(s[i])
    <3>1. a \in Text /\ Valid(a) /\ k \in (i + 1)..(Len(s) + 1)
      BY <2>2, ValidPieces
    <3>2. f[i] = a \o f[k]
      BY <2>2 DEF JSONOf
    <3> HIDE DEF a, k
    <3>3. f[k] \in Text /\ Valid(f[k])
      BY <1>2, <3>1
    <3> QED
      BY <3>1, <3>2, <3>3, Joined, ValidJoined
  <2>3. CASE i \in 1..Len(s) /\ ~Whole(s, i)
    <3> DEFINE a == <<"r", "c", "c">>
    <3>1. a \in Text /\ Valid(a) /\ i + 1 \in (i + 1)..(Len(s) + 1)
      <4>1. a \in Text /\ Valid(a)
        BY ShortTexts, ValidPieces DEF Byte
      <4> QED
        BY <1>1, <2>3, <4>1
    <3>2. f[i] = a \o f[i + 1]
      BY <2>3 DEF JSONOf
    <3> HIDE DEF a
    <3>3. f[i + 1] \in Text /\ Valid(f[i + 1])
      BY <1>2, <3>1
    <3> QED
      BY <3>1, <3>2, <3>3, Joined, ValidJoined
  <2> QED
    BY <1>1, <2>1, <2>2, <2>3
<1>3. \A i \in 1..(Len(s) + 1) : i \in T
  <2> HIDE DEF T
  <2> QED
    BY <1>1, <1>2, Downward
<1> QED
  BY <1>3

(* And so ToJSON is. *)
LEMMA ToJSONValid ==
    ASSUME NEW s \in Text
    PROVE  ToJSON(s) \in Text /\ Valid(ToJSON(s))
<1>1. PICK f : ToJSON(s) = f[1] /\ JSONOf(f, s)
  BY JSONIs
<1>2. 1 \in 1..(Len(s) + 1)
  BY LenProperties DEF Text
<1> QED
  BY <1>1, <1>2, JSONValid

-----------------------------------------------------------------------------
(***************************************************************************)
(* Terminal escapes.                                                       *)
(***************************************************************************)

(* A sequence ends behind its beginning, and with an ASCII character.      *)
LEMMA SequenceEnds ==
    ASSUME NEW s \in Text, NEW i \in 1..Len(s), AnsiEnds(s, i) # {}
    PROVE  /\ Largest(AnsiEnds(s, i)) \in (i + 2)..Len(s)
           /\ RuneStart(s[Largest(AnsiEnds(s, i))]) /\ Bytes(s[Largest(AnsiEnds(s, i))]) = 1
<1> DEFINE ends == AnsiEnds(s, i)
           k == Largest(ends)
<1>1. Len(s) \in Nat
  BY LenProperties DEF Text
<1>2. ends \in SUBSET (1..Len(s)) /\ ends # {}
  BY <1>1 DEF AnsiEnds, ControlEnds, CommandEnds
<1> HIDE DEF ends
<1>3. k \in ends
  BY <1>1, <1>2, LargestIs
<1>4. k \in ControlEnds(s, i) \/ k \in CommandEnds(s, i)
  BY <1>3 DEF ends, AnsiEnds
<1> HIDE DEF k
<1>5. k \in (i + 2)..Len(s) /\ s[k] \in {"a", "q", "[", "]", "b", "g"}
  BY <1>4 DEF ControlEnds, CommandEnds
<1>6. RuneStart(s[k]) /\ Bytes(s[k]) = 1
  BY <1>5 DEF RuneStart, Bytes
<1> QED
  BY <1>5, <1>6 DEF k, ends

(* ansiPattern.ReplaceAllString *)
LEMMA StripIs ==
    ASSUME NEW s \in Text
    PROVE  \E f : StripANSI(s) = f[1] /\ StripOf(f, s)
<1> DEFINE step  == [i \in 1..Len(s) |->
                        IF AnsiEnds(s, i) # {} THEN Largest(AnsiEnds(s, i)) - i + 1
                        ELSE RuneSize(s, i)]
           piece == [i \in 1..Len(s) |->
                        IF AnsiEnds(s, i) # {} THEN << >>
                        ELSE SubSeq(s, i, i + RuneSize(s, i) - 1)]
<1>1. Len(s) \in Nat /\ Len(step) = Len(s)
  BY LenProperties DEF Text
<1>2. \A i \in 1..Len(s) :
          step[i] = IF AnsiEnds(s, i) # {} THEN Largest(AnsiEnds(s, i)) - i + 1
                    ELSE RuneSize(s, i)
  OBVIOUS
<1>3. \A i \in 1..Len(s) :
          piece[i] = IF AnsiEnds(s, i) # {} THEN << >>
                     ELSE SubSeq(s, i, i + RuneSize(s, i) - 1)
  OBVIOUS
<1>4. StripANSI(s) = Rewrite(step, piece)
  BY DEF StripANSI
<1> HIDE DEF step, piece
<1>5. ASSUME NEW i \in 1..Len(s) PROVE step[i] \in Nat \ {0} /\ i + step[i] <= Len(step) + 1
  <2>1. CASE AnsiEnds(s, i) # {}
    BY <1>1, <1>2, <2>1, SequenceEnds
  <2>2. CASE AnsiEnds(s, i) = {} /\ Whole(s, i)
    <3>1. step[i] = Bytes(s[i])
      BY <1>2, <2>2 DEF RuneSize
    <3>2. Bytes(s[i]) \in 1..3 /\ i + Bytes(s[i]) \in (i + 1)..(Len(s) + 1)
      BY <2>2, ValidPieces
    <3> QED
      BY <1>1, <3>1, <3>2
  <2>3. CASE AnsiEnds(s, i) = {} /\ ~Whole(s, i)
    BY <1>1, <1>2, <2>3 DEF RuneSize
  <2> QED
    BY <2>1, <2>2, <2>3
<1>6. Steps(step)
  BY <1>1, <1>5 DEF Steps
<1>7. PICK f : Rewrites(f, step, piece)
  BY <1>6, Rewritten
<1>8. ASSUME NEW i \in 1..Len(s)
      PROVE  f[i] = IF AnsiEnds(s, i) # {} THEN << >> \o f[Largest(AnsiEnds(s, i)) + 1]
                    ELSE SubSeq(s, i, i + RuneSize(s, i) - 1) \o f[i + RuneSize(s, i)]
  <2>1. f[i] = piece[i] \o f[i + step[i]]
    BY <1>1, <1>7 DEF Rewrites
  <2>2. CASE AnsiEnds(s, i) # {}
    <3>1. i + step[i] = Largest(AnsiEnds(s, i)) + 1
      BY <1>1, <1>2, <2>2, SequenceEnds
    <3> QED
      BY <1>3, <2>1, <2>2, <3>1
  <2>3. CASE AnsiEnds(s, i) = {}
    BY <1>2, <1>3, <2>1, <2>3
  <2> QED
    BY <2>2, <2>3
<1> QED
  BY <1>1, <1>4, <1>7, <1>8 DEF Rewrites, StripOf

(* Stripping a valid text leaves a valid one: a sequence begins and ends   *)
(* with a whole character.                                                 *)
LEMMA StripValid ==
    ASSUME NEW s \in Text, Valid(s)
    PROVE  StripANSI(s) \in Text /\ Valid(StripANSI(s))
<1>1. Len(s) \in Nat
  BY LenProperties DEF Text
<1>2. PICK f : StripANSI(s) = f[1] /\ StripOf(f, s)
  BY StripIs
<1> DEFINE Begins(i) == i = Len(s) + 1 \/ RuneStart(s[i])
           T == {i \in 1..(Len(s) + 1) : Begins(i) => f[i] \in Text /\ Valid(f[i])}
<1>3. ASSUME NEW i \in 1..Len(s), Whole(s, i)
      PROVE  i + Bytes(s[i]) \in (i + 1)..(Len(s) + 1) /\ Begins(i + Bytes(s[i]))
  <2>1. Bytes(s[i]) \in 1..3 /\ i + Bytes(s[i]) \in (i + 1)..(Len(s) + 1)
    BY <1>3, ValidPieces
  <2>2. CASE i + Bytes(s[i]) <= Len(s)
    BY <1>3, <2>1, <2>2, ValidNext
  <2>3. CASE i + Bytes(s[i]) > Len(s)
    BY <1>1, <2>1, <2>3
  <2> QED
    BY <1>1, <2>1, <2>2, <2>3
<1>4. ASSUME NEW i \in 1..(Len(s) + 1), \A k \in (i + 1)..(Len(s) + 1) : k \in T
      PROVE  i \in T
  <2> SUFFICES ASSUME Begins(i) PROVE f[i] \in Text /\ Valid(f[i])
    OBVIOUS
  <2>1. CASE i = Len(s) + 1
    BY <1>2, <2>1, ShortTexts, ValidPieces DEF StripOf
  <2>2. CASE i \in 1..Len(s) /\ AnsiEnds(s, i) # {}
    <3> DEFINE k == Largest(AnsiEnds(s, i))
    <3>1. k \in (i + 2)..Len(s) /\ RuneStart(s[k]) /\ Bytes(s[k]) = 1
      BY <2>2, SequenceEnds
    <3>2. f[i] = << >> \o f[k + 1]
      BY <1>2, <2>2 DEF StripOf
    <3> HIDE DEF k
    <3>3. k \in 1..Len(s) /\ k + 1 \in (i + 1)..(Len(s) + 1)
      BY <1>1, <3>1
    <3>4. Begins(k + 1)
      BY <1>3, <3>1, <3>3, ValidBegins
    <3>5. f[k + 1] \in Text /\ Valid(f[k + 1])
      BY <1>4, <3>3, <3>4
    <3> QED
      BY <3>2, <3>5, ConcatEmptySeq DEF Text
  <2>3. CASE i \in 1..Len(s) /\ AnsiEnds(s, i) = {}
    <3> DEFINE a == SubSeq(s, i, i + Bytes(s[i]) - 1)
               k == i + Bytes(s[i])
    <3>1. Whole(s, i)
      BY <1>1, <2>3, ValidBegins
    <3>2. a \in Text /\ Valid(a)
      BY <2>3, <3>1, ValidPieces
    <3>3. f[i] = a \o f[k]
      BY <1>2, <2>3, <3>1 DEF StripOf, RuneSize
    <3>4. k \in (i + 1)..(Len(s) + 1) /\ Begins(k)
      BY <1>3, <2>3, <3>1
    <3> HIDE DEF a, k
    <3>5. f[k] \in Text /\ Valid(f[k])
      BY <1>4, <3>4
    <3> QED
      BY <3>2, <3>3, <3>5, Joined, ValidJoined
  <2> QED
    BY <1>1, <2>1, <2>2, <2>3
<1>5. \A i \in 1..(Len(s) + 1) : i \in T
  <2> HIDE DEF T
  <2> QED
    BY <1>1, <1>4, Downward
<1>6. 1 \in T /\ Begins(1)
  <2>1. 1 \in 1..(Len(s) + 1)
    BY <1>1
  <2>2. CASE Len(s) = 0
    BY <1>5, <2>1, <2>2
  <2>3. CASE Len(s) > 0
    BY <1>5, <2>1, <2>3, ValidFirst DEF Whole
  <2> QED
    BY <1>1, <2>2, <2>3
<1> QED
  BY <1>2, <1>6

-----------------------------------------------------------------------------
(***************************************************************************)
(* What a reader sees.                                                     *)
(***************************************************************************)

(* Joining texts *)
LEMMA Joining ==
    /\ \A s \in Text : s \o << >> = s /\ << >> \o s = s
    /\ \A s, t, u \in Text : (s \o t) \o u = s \o (t \o u)
BY ConcatEmptySeq, ConcatAssociative DEF Text

(* What is seen of a text, from each place on, is a text. *)
LEMMA VisibleTyped ==
    ASSUME NEW s \in Text, NEW f, VisibleOf(f, s)
    PROVE  /\ \A i \in 1..(Len(s) + 1) : f[i] \in Text
           /\ \A i \in 1..Len(s) : f[i] = IF Space(s, i) THEN f[i + 3] ELSE <<s[i]>> \o f[i + 1]
           /\ \A i \in 1..Len(s) : Space(s, i) => i + 3 <= Len(s) + 1
<1> DEFINE T == {i \in 1..(Len(s) + 1) : f[i] \in Text}
<1>1. Len(s) \in Nat /\ \A i \in 1..Len(s) : <<s[i]>> \in Text
  BY LenProperties, ElementOfSeq, ShortTexts DEF Text
<1>2. ASSUME NEW i \in 1..Len(s), Space(s, i) PROVE i + 3 <= Len(s) + 1
  BY <1>1, <1>2, BytesAre DEF Space, Whole
<1>3. ASSUME NEW i \in 1..(Len(s) + 1), \A k \in (i + 1)..(Len(s) + 1) : k \in T
      PROVE  i \in T
  <2>1. CASE i = Len(s) + 1
    BY <2>1, ShortTexts DEF VisibleOf
  <2>2. CASE i \in 1..Len(s) /\ Space(s, i)
    <3>1. i + 3 \in (i + 1)..(Len(s) + 1)
      BY <1>1, <1>2, <2>2
    <3>2. f[i] = << >> \o f[i + 3]
      BY <2>2 DEF VisibleOf
    <3>3. f[i + 3] \in Text
      BY <1>3, <3>1
    <3> QED
      BY <3>2, <3>3, Joining
  <2>3. CASE i \in 1..Len(s) /\ ~Space(s, i)
    <3>1. i + 1 \in (i + 1)..(Len(s) + 1)
      BY <1>1, <2>3
    <3>2. f[i] = <<s[i]>> \o f[i + 1]
      BY <2>3 DEF VisibleOf
    <3>3. f[i + 1] \in Text /\ <<s[i]>> \in Text
      BY <1>1, <1>3, <2>3, <3>1
    <3> QED
      BY <3>2, <3>3, Joined
  <2> QED
    BY <1>1, <2>1, <2>2, <2>3
<1>4. \A i \in 1..(Len(s) + 1) : i \in T
  <2> HIDE DEF T
  <2> QED
    BY <1>1, <1>3, Downward
<1>5. \A i \in 1..(Len(s) + 1) : f[i] \in Text
  BY <1>4
<1>6. ASSUME NEW i \in 1..Len(s)
      PROVE  f[i] = IF Space(s, i) THEN f[i + 3] ELSE <<s[i]>> \o f[i + 1]
  <2>1. CASE Space(s, i)
    <3>1. i + 3 \in 1..(Len(s) + 1)
      BY <1>1, <1>2, <2>1
    <3>2. f[i] = << >> \o f[i + 3]
      BY <2>1 DEF VisibleOf
    <3> QED
      BY <1>5, <2>1, <3>1, <3>2, Joining
  <2>2. CASE ~Space(s, i)
    BY <2>2 DEF VisibleOf
  <2> QED
    BY <2>1, <2>2
<1> QED
  BY <1>2, <1>5, <1>6

(* And so is what is seen of all of it. *)
LEMMA VisibleText ==
    ASSUME NEW s \in Text
    PROVE  Visible(s) \in Text
<1>1. PICK f : Visible(s) = f[1] /\ VisibleOf(f, s)
  BY VisibleIs
<1>2. 1 \in 1..(Len(s) + 1)
  BY LenProperties DEF Text
<1> QED
  BY <1>1, <1>2, VisibleTyped

(* Of the end of two texts the same is seen as of the second alone. *)
LEMMA VisibleEnd ==
    ASSUME NEW a \in Text, NEW b \in Text, NEW f, NEW h,
           VisibleOf(f, a \o b), VisibleOf(h, b)
    PROVE  f[Len(a) + 1] = Visible(b) /\ h[1] = Visible(b)
<1> SUFFICES ASSUME NEW g, VisibleOf(g, b) PROVE f[Len(a) + 1] = g[1]
  <2>1. PICK g : Visible(b) = g[1] /\ VisibleOf(g, b)
    BY VisibleIs
  <2> QED
    BY <2>1
<1> DEFINE u == a \o b
           T == {j \in 1..(Len(b) + 1) : f[Len(a) + j] = g[j]}
<1>1. /\ u \in Text /\ Len(u) = Len(a) + Len(b) /\ Len(a) \in Nat /\ Len(b) \in Nat
      /\ \A i \in 1..Len(b) : u[Len(a) + i] = b[i]
  BY Joined
<1>2. VisibleOf(f, u)
  OBVIOUS
<1> HIDE DEF u
<1>3. ASSUME NEW j \in 1..Len(b)
      PROVE  /\ Len(a) + j \in 1..Len(u) /\ u[Len(a) + j] = b[j]
             /\ Space(u, Len(a) + j) <=> Space(b, j)
  <2>1. Len(a) + j \in 1..Len(u) /\ u[Len(a) + j] = b[j]
    BY <1>1
  <2>2. CASE b[j] = "z"
    <3>1. Bytes(b[j]) = 3 /\ RuneStart(b[j])
      BY <2>2, BytesAre DEF RuneStart
    <3>2. Whole(b, j) <=> j + 2 <= Len(b) /\ b[j + 1] = "c" /\ b[j + 2] = "c"
      BY <3>1, <1>1 DEF Whole
    <3>3. Whole(u, Len(a) + j) <=> /\ Len(a) + j + 2 <= Len(u)
                                   /\ u[Len(a) + j + 1] = "c" /\ u[Len(a) + j + 2] = "c"
      <4> DEFINE l == Len(a) + j
      <4>1. l \in Nat /\ Bytes(u[l]) = 3 /\ RuneStart(u[l]) /\ Len(u) \in Nat
        BY <1>1, <2>1, <3>1
      <4> HIDE DEF l
      <4>2. Whole(u, l) <=> l + 2 <= Len(u) /\ u[l + 1] = "c" /\ u[l + 2] = "c"
        BY <4>1 DEF Whole
      <4> QED
        BY <4>2 DEF l
    <3>4. j + 2 <= Len(b) <=> Len(a) + j + 2 <= Len(u)
      BY <1>1
    <3>5. j + 2 <= Len(b) => /\ u[Len(a) + j + 1] = b[j + 1]
                             /\ u[Len(a) + j + 2] = b[j + 2]
      <4>1. j + 2 <= Len(b) => j + 1 \in 1..Len(b) /\ j + 2 \in 1..Len(b)
        BY <1>1
      <4>2. Len(a) + j + 1 = Len(a) + (j + 1) /\ Len(a) + j + 2 = Len(a) + (j + 2)
        BY <1>1
      <4> QED
        BY <1>1, <4>1, <4>2
    <3> QED
      BY <2>1, <3>2, <3>3, <3>4, <3>5 DEF Space
  <2>3. CASE b[j] # "z"
    BY <2>1, <2>3 DEF Space
  <2> QED
    BY <2>1, <2>2, <2>3
<1>4. ASSUME NEW j \in 1..(Len(b) + 1), \A k \in (j + 1)..(Len(b) + 1) : k \in T
      PROVE  j \in T
  <2>1. CASE j = Len(b) + 1
    BY <1>1, <1>2, <2>1 DEF VisibleOf
  <2>2. CASE j \in 1..Len(b) /\ Space(b, j)
    <3>1. g[j] = << >> \o g[j + 3]
      BY <2>2 DEF VisibleOf
    <3>2. f[Len(a) + j] = << >> \o f[Len(a) + j + 3]
      BY <1>2, <1>3, <2>2 DEF VisibleOf
    <3>3. Len(a) + j + 3 = Len(a) + (j + 3)
      BY <1>1
    <3>4. j + 3 \in (j + 1)..(Len(b) + 1)
      <4>1. j + 3 <= Len(b) + 1
        BY <2>2, VisibleTyped
      <4> QED
        BY <1>1, <2>2, <4>1
    <3> QED
      BY <1>4, <3>1, <3>2, <3>3, <3>4
  <2>3. CASE j \in 1..Len(b) /\ ~Space(b, j)
    <3>1. g[j] = <<b[j]>> \o g[j + 1]
      BY <2>3 DEF VisibleOf
    <3>2. f[Len(a) + j] = <<b[j]>> \o f[Len(a) + j + 1]
      BY <1>2, <1>3, <2>3 DEF VisibleOf
    <3>3. Len(a) + j + 1 = Len(a) + (j + 1)
      BY <1>1
    <3>4. j + 1 \in (j + 1)..(Len(b) + 1)
      BY <1>1, <2>3
    <3> QED
      BY <1>4, <3>1, <3>2, <3>3, <3>4
  <2> QED
    BY <1>1, <2>1, <2>2, <2>3
<1>5. \A j \in 1..(Len(b) + 1) : j \in T
  <2> HIDE DEF T
  <2> QED
    BY <1>1, <1>4, Downward
<1> QED
  BY <1>1, <1>5

(* A reader of two texts sees both, if the first ends with a character. *)
LEMMA VisibleJoined ==
    ASSUME NEW a \in Text, NEW b \in Text, Valid(a)
    PROVE  Visible(a \o b) = Visible(a) \o Visible(b)
<1> DEFINE u == a \o b
<1>1. /\ u \in Text /\ Len(u) = Len(a) + Len(b) /\ Len(a) \in Nat /\ Len(b) \in Nat
      /\ \A i \in 1..Len(a) : u[i] = a[i]
  BY Joined
<1>2. PICK f : Visible(u) = f[1] /\ VisibleOf(f, u)
  BY <1>1, VisibleIs
<1>3. PICK g : Visible(a) = g[1] /\ VisibleOf(g, a)
  BY VisibleIs
<1>4. PICK h : Visible(b) = h[1] /\ VisibleOf(h, b)
  BY VisibleIs
<1>5. f[Len(a) + 1] = Visible(b)
  BY <1>2, <1>4, VisibleEnd
<1> HIDE DEF u
<1> DEFINE v == Visible(b)
           T == {i \in 1..(Len(a) + 1) : f[i] = g[i] \o v}
<1>6. v \in Text
  BY VisibleText
<1>7. \A i \in 1..(Len(a) + 1) : g[i] \in Text
  BY <1>3, VisibleTyped
<1> HIDE DEF v
<1>8. ASSUME NEW i \in 1..Len(a)
      PROVE  /\ i \in 1..Len(u) /\ u[i] = a[i] /\ a[i] \in Byte
             /\ Space(u, i) <=> Space(a, i)
  <2>1. i \in 1..Len(u) /\ u[i] = a[i] /\ a[i] \in Byte
    BY <1>1, ElementOfSeq DEF Text
  <2>2. CASE a[i] = "z"
    <3>1. RuneStart(a[i])
      BY <2>2 DEF RuneStart
    <3>2. Whole(a, i)
      BY <3>1, ValidBegins
    <3>3. i + Bytes(a[i]) - 1 <= Len(a) /\ Bytes(a[i]) \in 1..3
      BY <2>1, <3>2, BytesAre DEF Whole
    <3>4. ASSUME NEW k \in 0..(Bytes(a[i]) - 1) PROVE u[i + k] = a[i + k]
      <4>1. i + k \in 1..Len(a)
        BY <1>1, <3>3
      <4> QED
        BY <1>1, <4>1
    <3>5. Whole(u, i)
      <4>1. i \in Nat /\ i + Bytes(a[i]) - 1 <= Len(u)
        BY <1>1, <3>3
      <4> QED
        BY <2>1, <3>2, <3>4, <4>1, WholeMoves
    <3> QED
      BY <2>1, <2>2, <3>2, <3>5 DEF Space
  <2>3. CASE a[i] # "z"
    BY <2>1, <2>3 DEF Space
  <2> QED
    BY <2>1, <2>2, <2>3
<1>9. ASSUME NEW i \in 1..(Len(a) + 1), \A k \in (i + 1)..(Len(a) + 1) : k \in T
      PROVE  i \in T
  <2>1. CASE i = Len(a) + 1
    <3>1. g[i] = << >>
      BY <1>3, <2>1 DEF VisibleOf
    <3> QED
      BY <1>5, <1>6, <2>1, <3>1, Joining DEF v
  <2>2. CASE i \in 1..Len(a) /\ Space(a, i)
    <3>1. g[i] = g[i + 3] /\ i + 3 <= Len(a) + 1
      BY <1>3, <2>2, VisibleTyped
    <3>2. i + 3 \in (i + 1)..(Len(a) + 1)
      BY <1>1, <2>2, <3>1
    <3>3. f[i] = f[i + 3]
      BY <1>1, <1>2, <1>8, <2>2, VisibleTyped
    <3> QED
      BY <1>9, <3>1, <3>2, <3>3
  <2>3. CASE i \in 1..Len(a) /\ ~Space(a, i)
    <3>1. i + 1 \in (i + 1)..(Len(a) + 1)
      BY <1>1, <2>3
    <3>2. g[i] = <<a[i]>> \o g[i + 1]
      BY <1>3, <2>3 DEF VisibleOf
    <3>3. f[i] = <<a[i]>> \o f[i + 1]
      BY <1>2, <1>8, <2>3 DEF VisibleOf
    <3>4. <<a[i]>> \in Text /\ g[i + 1] \in Text
      BY <1>1, <1>7, <1>8, <2>3, <3>1, ShortTexts
    <3>5. f[i + 1] = g[i + 1] \o v
      BY <1>9, <3>1
    <3>6. (<<a[i]>> \o g[i + 1]) \o v = <<a[i]>> \o (g[i + 1] \o v)
      BY <1>6, <3>4, Joining
    <3>7. f[i] = g[i] \o v
      BY <3>3, <3>5, <3>2, <3>6
    <3> QED
      BY <3>7
  <2> QED
    BY <1>1, <2>1, <2>2, <2>3
<1>10. \A i \in 1..(Len(a) + 1) : i \in T
  <2> HIDE DEF T
  <2> QED
    BY <1>1, <1>9, Downward
<1> QED
  BY <1>1, <1>2, <1>3, <1>10 DEF u, v

(* Nothing is seen of nothing and of the space that the escape puts in. *)
LEMMA VisibleShort ==
    /\ Visible(<< >>) = << >>
    /\ Visible(Fence) = Visible(<<"q", "q", "q">>)
    /\ Valid(<<"q", "q", "q">>)
<1>1. Visible(<< >>) = << >>
  <2>1. PICK f : Visible(<< >>) = f[1] /\ VisibleOf(f, << >>)
    BY ShortTexts, VisibleIs
  <2> QED
    BY <2>1, ShortTexts DEF VisibleOf
<1> DEFINE q == <<"q">>
           z == <<"z", "c", "c">>
           qq == <<"q", "q">>
<1>2. q \in Text /\ z \in Text /\ qq \in Text
  BY DEF Text, Byte
<1>3. Fence = q \o (z \o qq) /\ <<"q", "q", "q">> = q \o qq
  BY DEF Fence
<1>4. Valid(q)
  <2>1. Len(q) = 1 /\ q[1] = "q"
    OBVIOUS
  <2> HIDE DEF q
  <2>2. Whole(q, 1)
    BY <2>1, BytesAre DEF Whole, RuneStart
  <2> QED
    BY <2>1, <2>2, BytesAre DEF Valid
<1>5. Valid(z) /\ Visible(z) = << >>
  <2>1. Len(z) = 3 /\ z[1] = "z" /\ z[2] = "c" /\ z[3] = "c"
    OBVIOUS
  <2> HIDE DEF z
  <2>2. \A k \in 1..2 : z[1 + k] = "c"
    BY <2>1
  <2>3. Whole(z, 1) /\ Bytes(z[1]) = 3
    BY <2>1, <2>2, BytesAre DEF Whole, RuneStart
  <2>4. Space(z, 1)
    BY <2>1, <2>3 DEF Space
  <2>5. PICK f : Visible(z) = f[1] /\ VisibleOf(f, z)
    BY <1>2, VisibleIs
  <2>6. f[4] = << >>
    BY <2>1, <2>5 DEF VisibleOf
  <2>7. f[1] = f[4]
    <3>1. 1 \in 1..Len(z) /\ 1 + 3 = 4
      BY <2>1
    <3>2. f[1] = f[1 + 3]
      BY <1>2, <2>4, <2>5, <3>1, VisibleTyped
    <3> QED
      BY <3>1, <3>2
  <2> QED
    BY <2>1, <2>3, <2>5, <2>6, <2>7 DEF Valid
<1> HIDE DEF q, z, qq
<1>6. Visible(Fence) = Visible(q) \o (Visible(z) \o Visible(qq))
  <2>1. z \o qq \in Text
    BY <1>2, Joined
  <2>2. Visible(q \o (z \o qq)) = Visible(q) \o Visible(z \o qq)
    BY <1>2, <1>4, <2>1, VisibleJoined
  <2>3. Visible(z \o qq) = Visible(z) \o Visible(qq)
    BY <1>2, <1>5, VisibleJoined
  <2> QED
    BY <1>3, <2>2, <2>3
<1>7. Visible(q \o qq) = Visible(q) \o Visible(qq)
  BY <1>2, <1>4, VisibleJoined
<1>8. Valid(q \o qq)
  <2>1. qq = q \o q
    BY DEF q, qq
  <2> QED
    BY <1>2, <1>4, <2>1, Joined, ValidJoined
<1>9. Visible(Fence) = Visible(<<"q", "q", "q">>)
  <2>1. << >> \o Visible(qq) = Visible(qq)
    BY <1>2, VisibleText, Joining
  <2> QED
    BY <1>3, <1>5, <1>6, <1>7, <2>1
<1> QED
  BY <1>1, <1>3, <1>8, <1>9

-----------------------------------------------------------------------------
(***************************************************************************)
(* The escape.                                                             *)
(***************************************************************************)

(* A fence is three backticks within the text. *)
LEMMA FenceIs ==
    ASSUME NEW s \in Text, NEW i \in 1..Len(s)
    PROVE  FenceAt(s, i) <=> i + 2 <= Len(s) /\ s[i] = "q" /\ s[i + 1] = "q" /\ s[i + 2] = "q"
<1>1. Len(s) \in Nat
  BY LenProperties DEF Text
<1>2. 0..2 = {0, 1, 2} /\ i + 0 = i
  OBVIOUS
<1>3. (\A k \in 0..2 : s[i + k] = "q") <=> s[i] = "q" /\ s[i + 1] = "q" /\ s[i + 2] = "q"
  BY <1>2
<1> QED
  BY <1>3 DEF FenceAt

(* The escape is a text. *)
LEMMA EscapeTyped ==
    ASSUME NEW s \in Text, NEW f, EscapeOf(f, s)
    PROVE  \A i \in 1..(Len(s) + 1) : f[i] \in Text
<1> DEFINE T == {i \in 1..(Len(s) + 1) : f[i] \in Text}
<1>1. Len(s) \in Nat /\ \A i \in 1..Len(s) : <<s[i]>> \in Text
  BY LenProperties, ElementOfSeq, ShortTexts DEF Text
<1>2. ASSUME NEW i \in 1..(Len(s) + 1), \A k \in (i + 1)..(Len(s) + 1) : k \in T
      PROVE  i \in T
  <2>1. CASE i = Len(s) + 1
    BY <2>1, ShortTexts DEF EscapeOf
  <2>2. CASE i \in 1..Len(s) /\ FenceAt(s, i)
    <3>1. i + 3 \in (i + 1)..(Len(s) + 1)
      BY <1>1, <2>2 DEF FenceAt
    <3>2. f[i] = Fence \o f[i + 3]
      BY <2>2 DEF EscapeOf
    <3>3. f[i + 3] \in Text
      BY <1>2, <3>1
    <3>4. Fence \o f[i + 3] \in Text
      BY <3>3, ShortTexts, Joined
    <3> QED
      BY <3>2, <3>4
  <2>3. CASE i \in 1..Len(s) /\ ~FenceAt(s, i)
    <3>1. i + 1 \in (i + 1)..(Len(s) + 1)
      BY <1>1, <2>3
    <3>2. f[i] = <<s[i]>> \o f[i + 1]
      BY <2>3 DEF EscapeOf
    <3>3. f[i + 1] \in Text /\ <<s[i]>> \in Text
      BY <1>1, <1>2, <2>3, <3>1
    <3> QED
      BY <3>2, <3>3, Joined
  <2> QED
    BY <1>1, <2>1, <2>2, <2>3
<1>3. \A i \in 1..(Len(s) + 1) : i \in T
  <2> HIDE DEF T
  <2> QED
    BY <1>1, <1>2, Downward
<1> QED
  BY <1>3

(* Where no fence begins it leaves the text as it is. *)
LEMMA EscapePlain ==
    ASSUME NEW s \in Text, NEW f, EscapeOf(f, s), NEW k \in 0..Len(s),
           NEW m \in 1..(k + 1), \A i \in m..k : ~FenceAt(s, i)
    PROVE  f[m] = SubSeq(s, m, k) \o f[k + 1]
<1> DEFINE T == {i \in 1..(k + 1) : i \in m..(k + 1) => f[i] = SubSeq(s, i, k) \o f[k + 1]}
<1>1. Len(s) \in Nat /\ k \in Nat /\ \A i \in 1..Len(s) : <<s[i]>> \in Text
  BY LenProperties, ElementOfSeq, ShortTexts DEF Text
<1>2. f[k + 1] \in Text
  <2>1. k + 1 \in 1..(Len(s) + 1)
    BY <1>1
  <2> QED
    BY <2>1, EscapeTyped
<1>3. ASSUME NEW i \in 1..(k + 1), \A j \in (i + 1)..(k + 1) : j \in T
      PROVE  i \in T
  <2>1. CASE i = k + 1
    <3>1. SubSeq(s, i, k) = << >>
      BY <1>1, <2>1, SubSeqEmpty
    <3>2. f[i] = SubSeq(s, i, k) \o f[k + 1]
      BY <1>2, <2>1, <3>1, Joining
    <3> QED
      BY <3>2
  <2>2. CASE i \in m..k
    <3>1. /\ i \in 1..Len(s) /\ k \in i..Len(s) /\ i + 1 \in (i + 1)..(k + 1)
          /\ i + 1 \in m..(k + 1) /\ i + 1 \in 1..(Len(s) + 1) /\ k \in ((i + 1) - 1)..Len(s)
      BY <1>1, <2>2
    <3>2. f[i] = <<s[i]>> \o f[i + 1]
      BY <2>2, <3>1 DEF EscapeOf
    <3>3. f[i + 1] = SubSeq(s, i + 1, k) \o f[k + 1]
      BY <1>3, <3>1
    <3>4. SubSeq(s, i, k) = <<s[i]>> \o SubSeq(s, i + 1, k)
      BY <3>1, SubSeqRecursiveFirst DEF Text
    <3>5. SubSeq(s, i + 1, k) \in Text
      BY <3>1, StretchIs
    <3>6. <<s[i]>> \o (SubSeq(s, i + 1, k) \o f[k + 1])
              = (<<s[i]>> \o SubSeq(s, i + 1, k)) \o f[k + 1]
      BY <1>1, <1>2, <3>1, <3>5, Joining
    <3>7. f[i] = SubSeq(s, i, k) \o f[k + 1]
      BY <3>2, <3>3, <3>4, <3>6
    <3> QED
      BY <3>7
  <2> QED
    BY <1>1, <2>1, <2>2
<1>4. \A i \in 1..(k + 1) : i \in T
  <2> HIDE DEF T
  <2> QED
    BY <1>1, <1>3, Downward
<1>5. m \in T /\ m \in m..(k + 1)
  BY <1>1, <1>4
<1> QED
  BY <1>5

(* Where a character begins, the escape goes on with characters, and with  *)
(* what is seen of the text.                                               *)
LEMMA EscapeReads ==
    ASSUME NEW s \in Text, Valid(s), NEW f, EscapeOf(f, s)
    PROVE  \A i \in 1..(Len(s) + 1) :
              i = Len(s) + 1 \/ RuneStart(s[i]) =>
                 Valid(f[i]) /\ Visible(f[i]) = Visible(From(s, i))
<1> DEFINE Start(i) == i = Len(s) + 1 \/ RuneStart(s[i])
           T == {i \in 1..(Len(s) + 1) :
                    Start(i) => Valid(f[i]) /\ Visible(f[i]) = Visible(From(s, i))}
<1>1. Len(s) \in Nat /\ \A i \in 1..Len(s) : s[i] \in Byte
  BY LenProperties, ElementOfSeq DEF Text
<1>2. \A i \in 1..(Len(s) + 1) : f[i] \in Text /\ From(s, i) \in Text
  BY EscapeTyped, FromIs
<1>3. ASSUME NEW i \in 1..(Len(s) + 1), \A k \in (i + 1)..(Len(s) + 1) : k \in T, Start(i)
      PROVE  Valid(f[i]) /\ Visible(f[i]) = Visible(From(s, i))
  <2>1. CASE i = Len(s) + 1
    <3>1. f[i] = << >> /\ From(s, i) = << >>
      BY <2>1, FromEnds DEF EscapeOf
    <3> QED
      BY <3>1, ValidPieces
  <2>2. CASE i \in 1..Len(s) /\ FenceAt(s, i)
    <3> DEFINE q == <<"q", "q", "q">>
    <3>1. i + 2 <= Len(s) /\ s[i] = "q" /\ s[i + 1] = "q" /\ s[i + 2] = "q"
      BY <2>2, FenceIs
    <3>2. /\ i + 1 \in 1..Len(s) /\ i + 2 \in 1..Len(s) /\ i + 3 \in 1..(Len(s) + 1)
          /\ i + 3 \in (i + 1)..(Len(s) + 1) /\ (i + 1) + 1 = i + 2 /\ (i + 2) + 1 = i + 3
      BY <1>1, <2>2, <3>1
    <3>3. Start(i + 3)
      <4>1. Whole(s, i + 2) /\ Bytes(s[i + 2]) = 1
        BY <3>1, <3>2, BytesAre, ValidBegins DEF RuneStart
      <4>2. i + 3 <= Len(s) => RuneStart(s[i + 3])
        BY <3>2, <4>1, ValidNext
      <4> QED
        BY <1>1, <3>2, <4>2
    <3>4. Valid(f[i + 3]) /\ Visible(f[i + 3]) = Visible(From(s, i + 3))
      BY <1>3, <3>2, <3>3
    <3>5. From(s, i) = q \o From(s, i + 3)
      <4>1. From(s, i) = <<"q">> \o (<<"q">> \o (<<"q">> \o From(s, i + 3)))
        BY <2>2, <3>1, <3>2, FromStep
      <4>2. <<"q">> \in Text /\ <<"q">> \o <<"q">> \in Text
        BY DEF Text, Byte
      <4>3. q = (<<"q">> \o <<"q">>) \o <<"q">>
        OBVIOUS
      <4>4. (<<"q">> \o <<"q">>) \o (<<"q">> \o From(s, i + 3))
                = <<"q">> \o (<<"q">> \o (<<"q">> \o From(s, i + 3)))
        <5>1. <<"q">> \o From(s, i + 3) \in Text
          BY <1>2, <3>2, <4>2, Joined
        <5> QED
          BY <4>2, <5>1, Joining
      <4>5. ((<<"q">> \o <<"q">>) \o <<"q">>) \o From(s, i + 3)
                = (<<"q">> \o <<"q">>) \o (<<"q">> \o From(s, i + 3))
        BY <1>2, <3>2, <4>2, Joining
      <4> QED
        BY <4>1, <4>3, <4>4, <4>5
    <3>6. f[i] = Fence \o f[i + 3]
      BY <2>2 DEF EscapeOf
    <3>7. q \in Text /\ Fence \in Text /\ f[i + 3] \in Text /\ From(s, i + 3) \in Text
      BY <1>2, <3>2, ShortTexts DEF Byte
    <3> HIDE DEF q
    <3>8. Valid(q) /\ Visible(Fence) = Visible(q) /\ Valid(Fence)
      BY VisibleShort, ValidPieces DEF q
    <3>9. Visible(f[i]) = Visible(Fence) \o Visible(f[i + 3])
      BY <3>6, <3>7, <3>8, VisibleJoined
    <3>10. Visible(From(s, i)) = Visible(q) \o Visible(From(s, i + 3))
      BY <3>5, <3>7, <3>8, VisibleJoined
    <3>11. Valid(f[i])
      BY <3>4, <3>6, <3>7, <3>8, ValidJoined
    <3> QED
      BY <3>4, <3>8, <3>9, <3>10, <3>11
  <2>3. CASE i \in 1..Len(s) /\ ~FenceAt(s, i)
    <3> DEFINE n == Bytes(s[i])
               a == SubSeq(s, i, i + n - 1)
               k == i + n
    <3>1. Whole(s, i)
      BY <1>1, <1>3, <2>3, ValidBegins
    <3>2. /\ n \in 1..3 /\ k \in (i + 1)..(Len(s) + 1)
          /\ a \in Text /\ Valid(a)
      BY <2>3, <3>1, ValidPieces
    <3>3. k \in 1..(Len(s) + 1) /\ (i + n - 1) + 1 = k /\ i + n - 1 \in 0..Len(s)
          /\ i \in 1..((i + n - 1) + 1) /\ k - 1 = i + n - 1 /\ k \in i..(Len(s) + 1)
      <4> HIDE DEF n
      <4> QED
        BY <1>1, <2>3, <3>2
    <3>4. Start(k)
      <4>1. k <= Len(s) => RuneStart(s[k])
        BY <2>3, <3>1, ValidNext
      <4> HIDE DEF k
      <4> QED
        BY <1>1, <3>3, <4>1
    <3>5. Valid(f[k]) /\ Visible(f[k]) = Visible(From(s, k))
      BY <1>3, <3>2, <3>4
    <3>6. ASSUME NEW j \in i..(i + n - 1) PROVE ~FenceAt(s, j)
      <4>1. CASE j = i
        BY <2>3, <4>1
      <4>2. CASE j # i
        <5>1. j - i \in 1..(n - 1) /\ i + (j - i) = j /\ j \in 1..Len(s)
          <6> HIDE DEF n
          <6> QED
            BY <1>1, <2>3, <3>2, <3>3, <4>2
        <5>2. s[j] = "c"
          BY <3>1, <5>1 DEF Whole
        <5> QED
          BY <5>1, <5>2, FenceIs
      <4> QED
        BY <4>1, <4>2
    <3>7. f[i] = a \o f[k]
      BY <3>3, <3>6, EscapePlain
    <3>8. From(s, i) = a \o From(s, k)
      BY <3>3, FromSplit
    <3>9. f[k] \in Text /\ From(s, k) \in Text
      BY <1>2, <3>3
    <3> HIDE DEF a, k, n
    <3>10. Visible(f[i]) = Visible(a) \o Visible(f[k])
      BY <3>2, <3>7, <3>9, VisibleJoined
    <3>11. Visible(From(s, i)) = Visible(a) \o Visible(From(s, k))
      BY <3>2, <3>8, <3>9, VisibleJoined
    <3>12. Valid(f[i])
      BY <3>2, <3>5, <3>7, <3>9, ValidJoined
    <3> QED
      BY <3>5, <3>10, <3>11, <3>12
  <2> QED
    BY <1>1, <2>1, <2>2, <2>3
<1>4. \A i \in 1..(Len(s) + 1) : i \in T
  <2>1. ASSUME NEW i \in 1..(Len(s) + 1), \A k \in (i + 1)..(Len(s) + 1) : k \in T
        PROVE  i \in T
    BY <1>3, <2>1
  <2> HIDE DEF T
  <2> QED
    BY <1>1, <2>1, Downward
<1> QED
  BY <1>4

(* The escape is a valid text, and what is seen of it is what is seen of   *)
(* the text.                                                               *)
LEMMA EscapeValid ==
    ASSUME NEW s \in Text, Valid(s)
    PROVE  /\ EscapeCodeFence(s) \in Text /\ Valid(EscapeCodeFence(s))
           /\ Visible(EscapeCodeFence(s)) = Visible(s)
<1>1. PICK f : EscapeCodeFence(s) = f[1] /\ EscapeOf(f, s)
  BY EscapeIs
<1>2. Len(s) \in Nat /\ 1 \in 1..(Len(s) + 1) /\ From(s, 1) = s
  BY LenProperties, FromEnds DEF Text
<1>3. 1 = Len(s) + 1 \/ RuneStart(s[1])
  BY <1>2, ValidFirst DEF Whole
<1> QED
  BY <1>1, <1>2, <1>3, EscapeTyped, EscapeReads

-----------------------------------------------------------------------------
(***************************************************************************)
(* Backticks in a row.                                                     *)
(***************************************************************************)

(* A row is in two texts if it is in one of them. *)
LEMMA RowJoined ==
    ASSUME NEW s \in Text, NEW t \in Text, NEW k \in Nat, Backticks(s, k) \/ Backticks(t, k)
    PROVE  Backticks(s \o t, k)
<1> DEFINE u == s \o t
<1>1. /\ Len(u) = Len(s) + Len(t) /\ Len(s) \in Nat /\ Len(t) \in Nat
      /\ \A i \in 1..Len(s) : u[i] = s[i]
      /\ \A i \in 1..Len(t) : u[Len(s) + i] = t[i]
  BY Joined
<1> HIDE DEF u
<1>2. CASE Backticks(s, k)
  <2>1. PICK i \in 1..(Len(s) - k + 1) : \A j \in 0..(k - 1) : s[i + j] = "q"
    BY <1>2 DEF Backticks
  <2>2. \A j \in 0..(k - 1) : i + j \in 1..Len(s)
    BY <1>1
  <2>3. \A j \in 0..(k - 1) : u[i + j] = "q"
    BY <1>1, <2>1, <2>2
  <2>4. i \in 1..(Len(u) - k + 1)
    BY <1>1
  <2> QED
    BY <2>3, <2>4 DEF Backticks, u
<1>3. CASE Backticks(t, k)
  <2>1. PICK i \in 1..(Len(t) - k + 1) : \A j \in 0..(k - 1) : t[i + j] = "q"
    BY <1>3 DEF Backticks
  <2>2. \A j \in 0..(k - 1) : i + j \in 1..Len(t) /\ (Len(s) + i) + j = Len(s) + (i + j)
    BY <1>1
  <2>3. \A j \in 0..(k - 1) : u[(Len(s) + i) + j] = "q"
    BY <1>1, <2>1, <2>2
  <2>4. Len(s) + i \in 1..(Len(u) - k + 1)
    BY <1>1
  <2> QED
    BY <2>3, <2>4 DEF Backticks, u
<1> QED
  BY <1>2, <1>3

(* It is on one side of bytes that are no backticks. *)
LEMMA RowAside ==
    ASSUME NEW x \in Text, NEW m \in Text, NEW w \in Text, NEW k \in Nat,
           Len(m) > 0, \A p \in 1..Len(m) : m[p] # "q",
           Backticks(x \o (m \o w), k)
    PROVE  Backticks(x, k) \/ Backticks(w, k)
<1> DEFINE v == m \o w
           u == x \o v
<1>1. /\ v \in Text /\ Len(v) = Len(m) + Len(w) /\ Len(m) \in Nat /\ Len(w) \in Nat
      /\ \A i \in 1..Len(m) : v[i] = m[i]
      /\ \A i \in 1..Len(w) : v[Len(m) + i] = w[i]
  BY Joined
<1>2. PICK i \in 1..(Len(u) - k + 1) : \A j \in 0..(k - 1) : u[i + j] = "q"
  BY DEF Backticks
<1> HIDE DEF v
<1>3. /\ Len(u) = Len(x) + Len(v) /\ Len(x) \in Nat
      /\ \A p \in 1..Len(x) : u[p] = x[p]
      /\ \A p \in 1..Len(v) : u[Len(x) + p] = v[p]
  BY <1>1, Joined
<1> HIDE DEF u
<1>4. ASSUME NEW p \in 1..Len(m) PROVE ~(Len(x) + p - i \in 0..(k - 1))
  <2>1. p \in 1..Len(v) /\ i + (Len(x) + p - i) = Len(x) + p
    BY <1>1, <1>3
  <2>2. u[Len(x) + p] # "q"
    BY <1>1, <1>3, <2>1
  <2> QED
    BY <1>2, <2>1, <2>2
<1>5. CASE i + k - 1 <= Len(x)
  <2>1. \A j \in 0..(k - 1) : i + j \in 1..Len(x)
    BY <1>3, <1>5
  <2>2. \A j \in 0..(k - 1) : x[i + j] = "q"
    BY <1>2, <1>3, <2>1
  <2>3. i \in 1..(Len(x) - k + 1)
    BY <1>3, <1>5
  <2> QED
    BY <2>2, <2>3 DEF Backticks
<1>6. CASE i > Len(x) + Len(m)
  <2> DEFINE l == i - (Len(x) + Len(m))
  <2>1. l \in 1..(Len(w) - k + 1)
    BY <1>1, <1>3, <1>6
  <2>2. ASSUME NEW j \in 0..(k - 1) PROVE w[l + j] = "q"
    <3>1. /\ l + j \in 1..Len(w) /\ Len(m) + (l + j) \in 1..Len(v)
          /\ Len(x) + (Len(m) + (l + j)) = i + j
      BY <1>1, <1>3, <2>1
    <3> HIDE DEF l
    <3>2. u[Len(x) + (Len(m) + (l + j))] = v[Len(m) + (l + j)]
      BY <1>3, <3>1
    <3>3. v[Len(m) + (l + j)] = w[l + j]
      BY <1>1, <3>1
    <3> QED
      BY <1>2, <3>1, <3>2, <3>3
  <2> HIDE DEF l
  <2> QED
    BY <2>1, <2>2 DEF Backticks
<1>7. CASE ~(i + k - 1 <= Len(x)) /\ ~(i > Len(x) + Len(m))
  <2>1. CASE i > Len(x)
    <3>1. i - Len(x) \in 1..Len(m) /\ Len(x) + (i - Len(x)) - i = 0
      BY <1>1, <1>3, <1>7, <2>1
    <3>2. ~(0 \in 0..(k - 1))
      BY <1>4, <3>1
    <3>3. k = 0
      BY <3>2
    <3> QED
      BY <1>1, <3>3 DEF Backticks
  <2>2. CASE i <= Len(x)
    <3>1. 1 \in 1..Len(m) /\ Len(x) + 1 - i \in 0..(k - 1)
      BY <1>1, <1>3, <1>7, <2>2
    <3> QED
      BY <1>4, <3>1
  <2> QED
    BY <1>3, <2>1, <2>2
<1> QED
  BY <1>5, <1>6, <1>7

(* Grouping does not matter to it. *)
LEMMA RowRegrouped ==
    ASSUME NEW a \in Text, NEW c \in Text, NEW d \in Text, NEW b \in Text, NEW k
    PROVE  Backticks(a \o ((c \o d) \o b), k) <=> Backticks((a \o c) \o (d \o b), k)
<1>1. d \o b \in Text
  BY Joined
<1>2. (c \o d) \o b = c \o (d \o b)
  BY Joining
<1>3. (a \o c) \o (d \o b) = a \o (c \o (d \o b))
  BY <1>1, Joining
<1> QED
  BY <1>2, <1>3

(* JSON makes no row longer: U+FFFD has no backtick. *)
LEMMA JSONRow ==
    ASSUME NEW s \in Text, NEW k \in Nat, NEW x \in Text, NEW y \in Text,
           Backticks(x \o (ToJSON(s) \o y), k)
    PROVE  Backticks(x \o (s \o y), k)
<1>1. PICK f : ToJSON(s) = f[1] /\ JSONOf(f, s)
  BY JSONIs
<1> DEFINE T == {i \in 1..(Len(s) + 1) : \A a, b \in Text :
                    Backticks(a \o (f[i] \o b), k) => Backticks(a \o (From(s, i) \o b), k)}
<1>2. Len(s) \in Nat
  BY LenProperties DEF Text
<1>3. \A i \in 1..(Len(s) + 1) : f[i] \in Text /\ From(s, i) \in Text
  BY <1>1, JSONValid, FromIs
<1>4. ASSUME NEW i \in 1..(Len(s) + 1), \A j \in (i + 1)..(Len(s) + 1) : j \in T,
             NEW a \in Text, NEW b \in Text, Backticks(a \o (f[i] \o b), k)
      PROVE  Backticks(a \o (From(s, i) \o b), k)
  <2>1. CASE i = Len(s) + 1
    <3>1. f[i] = << >> /\ From(s, i) = << >>
      BY <1>1, <2>1, FromEnds DEF JSONOf
    <3> QED
      BY <1>4, <3>1
  <2>2. CASE i \in 1..Len(s) /\ Whole(s, i)
    <3> DEFINE n == i + Bytes(s[i])
    <3>1. PICK c \in Text :
             c = SubSeq(s, i, i + Bytes(s[i]) - 1) /\ n \in (i + 1)..(Len(s) + 1)
      BY <2>2, ValidPieces
    <3>2. n - 1 = i + Bytes(s[i]) - 1 /\ n \in i..(Len(s) + 1) /\ n \in 1..(Len(s) + 1)
      <4>1. Bytes(s[i]) \in 1..3
        BY <2>2, ValidPieces
      <4> QED
        BY <1>2, <2>2, <3>1, <4>1
    <3>3. f[i] = c \o f[n]
      BY <1>1, <2>2, <3>1 DEF JSONOf
    <3>4. From(s, i) = c \o From(s, n)
      BY <3>1, <3>2, FromSplit
    <3>5. f[n] \in Text /\ From(s, n) \in Text
      BY <1>3, <3>2
    <3> HIDE DEF n
    <3>6. a \in Text /\ b \in Text /\ c \in Text /\ a \o c \in Text
      BY <1>4, <3>1, Joined
    <3>7. Backticks((a \o c) \o (f[n] \o b), k)
      <4>1. Backticks(a \o ((c \o f[n]) \o b), k)
        BY <1>4, <3>3
      <4> QED
        BY <3>5, <3>6, <4>1, RowRegrouped, Zenon
    <3>8. Backticks((a \o c) \o (From(s, n) \o b), k)
      BY <1>4, <3>1, <3>6, <3>7
    <3>9. Backticks(a \o ((c \o From(s, n)) \o b), k)
      BY <3>5, <3>6, <3>8, RowRegrouped, Zenon
    <3> QED
      BY <3>4, <3>9
  <2>3. CASE i \in 1..Len(s) /\ ~Whole(s, i)
    <3> DEFINE r == <<"r", "c", "c">>
               d == <<s[i]>>
    <3>1. r \in Text /\ Len(r) > 0 /\ \A p \in 1..Len(r) : r[p] # "q"
      <4>1. Len(r) = 3 /\ r[1] = "r" /\ r[2] = "c" /\ r[3] = "c" /\ r \in Text
        BY ShortTexts DEF Byte
      <4> HIDE DEF r
      <4> QED
        BY <4>1
    <3>2. i + 1 \in (i + 1)..(Len(s) + 1) /\ i + 1 \in 1..(Len(s) + 1)
      BY <1>2, <2>3
    <3>3. f[i] = r \o f[i + 1]
      BY <1>1, <2>3 DEF JSONOf
    <3>4. From(s, i) = d \o From(s, i + 1) /\ d \in Text
      BY <2>3, FromStep, ShortTexts
    <3> HIDE DEF r, d
    <3> DEFINE w == f[i + 1] \o b
               e == From(s, i + 1) \o b
    <3>5. f[i + 1] \in Text /\ From(s, i + 1) \in Text
      BY <1>3, <3>2
    <3>6. w \in Text /\ e \in Text
      BY <3>5, Joined
    <3>7. f[i] \o b = r \o w /\ From(s, i) \o b = d \o e
      <4>1. (r \o f[i + 1]) \o b = r \o (f[i + 1] \o b)
        <5>1. r \in Text /\ f[i + 1] \in Text /\ b \in Text
          BY <1>4, <3>1, <3>5
        <5> QED
          BY <5>1, Joining, Zenon
      <4>2. d \in Text /\ From(s, i + 1) \in Text /\ b \in Text
        BY <1>4, <3>4, <3>5
      <4>3. (d \o From(s, i + 1)) \o b = d \o (From(s, i + 1) \o b)
        BY <4>2, Joining, Zenon
      <4> QED
        BY <3>3, <3>4, <4>1, <4>3
    <3>8. Backticks(w, k) => Backticks(e, k)
      <4>1. << >> \in Text /\ << >> \o w = w /\ << >> \o e = e
        BY <3>6, ShortTexts, Joining
      <4>2. Backticks(<< >> \o w, k) => Backticks(<< >> \o e, k)
        BY <1>4, <3>2, <4>1
      <4> QED
        BY <4>1, <4>2
    <3> HIDE DEF w, e
    <3>9. Backticks(a, k) \/ Backticks(w, k)
      BY <1>4, <3>1, <3>6, <3>7, RowAside
    <3>10. Backticks(a, k) \/ Backticks(d \o e, k)
      BY <3>4, <3>6, <3>8, <3>9, RowJoined
    <3>11. d \o e \in Text
      BY <3>4, <3>6, Joined
    <3> QED
      BY <3>7, <3>10, <3>11, RowJoined
  <2> QED
    BY <1>2, <2>1, <2>2, <2>3
<1>5. \A i \in 1..(Len(s) + 1) : i \in T
  <2>1. ASSUME NEW i \in 1..(Len(s) + 1), \A j \in (i + 1)..(Len(s) + 1) : j \in T
        PROVE  i \in T
    BY <1>4, <2>1
  <2> HIDE DEF T
  <2> QED
    BY <1>2, <2>1, Downward
<1>6. 1 \in T /\ From(s, 1) = s
  <2>1. 1 \in 1..(Len(s) + 1)
    BY <1>2
  <2> QED
    BY <1>5, <2>1, FromEnds
<1> QED
  BY <1>1, <1>6

(* A row of three *)
LEMMA ThreeIs ==
    ASSUME NEW s \in Text
    PROVE  Backticks(s, 3) <=>
              \E p \in 1..(Len(s) - 2) : s[p] = "q" /\ s[p + 1] = "q" /\ s[p + 2] = "q"
<1>1. Len(s) \in Nat /\ Len(s) - 3 + 1 = Len(s) - 2
  BY LenProperties DEF Text
<1>2. 0..(3 - 1) = {0, 1, 2} /\ \A p \in 1..(Len(s) - 2) : p + 0 = p
  OBVIOUS
<1>3. \A p \in 1..(Len(s) - 2) :
          (\A j \in 0..(3 - 1) : s[p + j] = "q")
             <=> s[p] = "q" /\ s[p + 1] = "q" /\ s[p + 2] = "q"
  BY <1>2
<1> QED
  BY <1>1, <1>3 DEF Backticks

(* The escape begins with the byte the text begins with. *)
LEMMA EscapeBegins ==
    ASSUME NEW s \in Text, NEW f, EscapeOf(f, s), NEW i \in 1..(Len(s) + 1),
           Len(f[i]) > 0
    PROVE  i \in 1..Len(s) /\ f[i][1] = s[i]
<1>1. Len(s) \in Nat /\ \A j \in 1..Len(s) : s[j] \in Byte
  BY LenProperties, ElementOfSeq DEF Text
<1>2. i \in 1..Len(s)
  <2>1. i # Len(s) + 1
    BY ShortTexts DEF EscapeOf
  <2> QED
    BY <1>1, <2>1
<1>3. CASE FenceAt(s, i)
  <2>1. i + 3 \in 1..(Len(s) + 1) /\ s[i] = "q"
    BY <1>1, <1>2, <1>3, FenceIs
  <2>2. f[i + 3] \in Text /\ f[i] = Fence \o f[i + 3]
    BY <1>2, <1>3, <2>1, EscapeTyped DEF EscapeOf
  <2>3. 1 \in 1..Len(Fence) /\ Fence[1] = "q"
    BY DEF Fence
  <2> QED
    BY <1>2, <2>1, <2>2, <2>3, ShortTexts, Joined
<1>4. CASE ~FenceAt(s, i)
  <2> DEFINE b == <<s[i]>>
  <2>1. b \in Text /\ Len(b) = 1 /\ b[1] = s[i]
    BY <1>1, <1>2, ShortTexts
  <2>2. i + 1 \in 1..(Len(s) + 1)
    BY <1>1, <1>2
  <2>3. f[i + 1] \in Text /\ f[i] = b \o f[i + 1]
    BY <1>2, <1>4, <2>2, EscapeTyped DEF EscapeOf
  <2> HIDE DEF b
  <2>4. 1 \in 1..Len(b)
    BY <2>1
  <2>5. (b \o f[i + 1])[1] = b[1]
    BY <2>1, <2>3, <2>4, Joined
  <2> QED
    BY <1>2, <2>1, <2>3, <2>5
<1> QED
  BY <1>3, <1>4

(* Where the text has no four backticks in a row, the escape has no three. *)
LEMMA EscapeRow ==
    ASSUME NEW s \in Text, ~Backticks(s, 4)
    PROVE  ~Backticks(EscapeCodeFence(s), 3)
<1>1. PICK f : EscapeCodeFence(s) = f[1] /\ EscapeOf(f, s)
  BY EscapeIs
<1> DEFINE T == {i \in 1..(Len(s) + 1) : ~Backticks(f[i], 3)}
<1>2. Len(s) \in Nat /\ \A i \in 1..Len(s) : s[i] \in Byte
  BY LenProperties, ElementOfSeq DEF Text
<1>3. \A i \in 1..(Len(s) + 1) : f[i] \in Text /\ Len(f[i]) \in Nat
  <2>1. \A i \in 1..(Len(s) + 1) : f[i] \in Text
    BY <1>1, EscapeTyped
  <2> QED
    BY <2>1, LenProperties DEF Text
<1>4. ASSUME NEW i \in 1..(Len(s) + 1), \A k \in (i + 1)..(Len(s) + 1) : k \in T,
             Backticks(f[i], 3)
      PROVE  FALSE
  <2>1. PICK p \in 1..(Len(f[i]) - 2) :
                f[i][p] = "q" /\ f[i][p + 1] = "q" /\ f[i][p + 2] = "q"
    BY <1>3, <1>4, ThreeIs
  <2>2. Len(f[i]) \in Nat /\ Len(f[i]) > 0
    BY <1>3
  <2>3. i \in 1..Len(s) /\ f[i][1] = s[i]
    BY <1>1, <2>2, EscapeBegins
  <2>4. CASE FenceAt(s, i)
    <3> DEFINE w == f[i + 3]
    <3>1. i + 2 <= Len(s) /\ s[i] = "q" /\ s[i + 1] = "q" /\ s[i + 2] = "q"
      BY <2>3, <2>4, FenceIs
    <3>2. i + 3 \in 1..(Len(s) + 1) /\ i + 3 \in (i + 1)..(Len(s) + 1)
      BY <1>2, <3>1
    <3>3. f[i] = Fence \o w /\ w \in Text /\ ~Backticks(w, 3)
      BY <1>1, <1>3, <1>4, <2>3, <2>4, <3>2 DEF EscapeOf
    <3>4. /\ Len(Fence) = 6 /\ Fence[2] = "z" /\ Fence[3] = "c" /\ Fence[4] = "c"
          /\ \A j \in 1..6 : f[i][j] = Fence[j]
          /\ Len(f[i]) = 6 + Len(w) /\ Len(w) \in Nat
          /\ \A j \in 1..Len(w) : f[i][6 + j] = w[j]
      <4>1. Len(Fence) = 6 /\ Fence[2] = "z" /\ Fence[3] = "c" /\ Fence[4] = "c"
        BY DEF Fence
      <4>2. /\ Len(Fence \o w) = Len(Fence) + Len(w) /\ Len(w) \in Nat
            /\ \A j \in 1..Len(Fence) : (Fence \o w)[j] = Fence[j]
            /\ \A j \in 1..Len(w) : (Fence \o w)[Len(Fence) + j] = w[j]
        <5>1. Fence \in Text /\ w \in Text
          BY <3>3, ShortTexts
        <5> HIDE DEF w
        <5> QED
          BY <5>1, Joined
      <4> HIDE DEF w
      <4> QED
        BY <3>3, <4>1, <4>2
    <3>5. Len(w) > 0 => w[1] = s[i + 3] /\ i + 3 \in 1..Len(s)
      BY <1>1, <3>2, EscapeBegins
    <3> HIDE DEF w
    <3>6. f[i][2] # "q" /\ f[i][3] # "q" /\ f[i][4] # "q"
      <4>1. f[i][2] = Fence[2] /\ f[i][3] = Fence[3] /\ f[i][4] = Fence[4]
        BY <3>4
      <4> QED
        BY <3>4, <4>1
    <3>7. p \notin {1, 2, 3, 4}
      BY <2>1, <3>6
    <3>8. CASE p \in {5, 6}
      <4>1. 1 \in 1..Len(w) /\ 6 + 1 = 7 /\ (p + 1 = 7 \/ p + 2 = 7)
        BY <2>1, <3>4, <3>8
      <4>2. w[1] = "q"
        BY <2>1, <3>4, <4>1
      <4>3. s[i + 3] = "q" /\ i + 3 \in 1..Len(s)
        <5>1. Len(w) > 0
          BY <3>4, <4>1
        <5> QED
          BY <3>5, <4>2, <5>1
      <4>4. i \in 1..(Len(s) - 4 + 1) /\ 0..(4 - 1) = {0, 1, 2, 3} /\ i + 0 = i
        BY <1>2, <2>3, <4>3
      <4>5. \A j \in 0..(4 - 1) : s[i + j] = "q"
        BY <3>1, <4>3, <4>4
      <4> QED
        BY <4>4, <4>5 DEF Backticks
    <3>9. CASE p > 6
      <4> DEFINE l == p - 6
      <4>1. /\ l \in 1..(Len(w) - 2) /\ l \in 1..Len(w)
            /\ l + 1 \in 1..Len(w) /\ l + 2 \in 1..Len(w)
            /\ 6 + l = p /\ 6 + (l + 1) = p + 1 /\ 6 + (l + 2) = p + 2
        <5>1. p \in 1..((6 + Len(w)) - 2) /\ Len(w) \in Nat
          BY <3>4
        <5> QED
          BY <3>9, <5>1
      <4> HIDE DEF l
      <4>2. w[l] = "q" /\ w[l + 1] = "q" /\ w[l + 2] = "q"
        BY <2>1, <3>4, <4>1
      <4> QED
        BY <3>3, <4>1, <4>2, ThreeIs
    <3> QED
      BY <3>7, <3>8, <3>9
  <2>5. CASE ~FenceAt(s, i)
    <3> DEFINE b == <<s[i]>>
               w == f[i + 1]
    <3>1. b \in Text /\ Len(b) = 1 /\ b[1] = s[i]
      BY <1>2, <2>3, ShortTexts
    <3>2. i + 1 \in 1..(Len(s) + 1) /\ i + 1 \in (i + 1)..(Len(s) + 1)
      BY <1>2, <2>3
    <3>3. f[i] = b \o w /\ w \in Text /\ ~Backticks(w, 3)
      BY <1>1, <1>3, <1>4, <2>3, <2>5, <3>2 DEF EscapeOf
    <3>4. Len(w) > 0 => w[1] = s[i + 1] /\ i + 1 \in 1..Len(s)
      BY <1>1, <3>2, EscapeBegins
    <3>5. Len(f[i]) = 1 + Len(w) /\ Len(w) \in Nat /\ \A j \in 1..Len(w) : f[i][1 + j] = w[j]
      <4> HIDE DEF b, w
      <4>1. /\ Len(b \o w) = Len(b) + Len(w) /\ Len(w) \in Nat
            /\ \A j \in 1..Len(w) : (b \o w)[Len(b) + j] = w[j]
        BY <3>1, <3>3, Joined
      <4> QED
        BY <3>1, <3>3, <4>1
    <3>6. CASE p > 1
      <4> DEFINE l == p - 1
      <4>1. /\ l \in 1..(Len(w) - 2) /\ l \in 1..Len(w)
            /\ l + 1 \in 1..Len(w) /\ l + 2 \in 1..Len(w)
            /\ 1 + l = p /\ 1 + (l + 1) = p + 1 /\ 1 + (l + 2) = p + 2
        <5> HIDE DEF w
        <5> QED
          BY <2>1, <3>5, <3>6
      <4> HIDE DEF l, w
      <4>2. w[l] = "q" /\ w[l + 1] = "q" /\ w[l + 2] = "q"
        BY <2>1, <3>5, <4>1
      <4> QED
        BY <3>3, <4>1, <4>2, ThreeIs
    <3>7. CASE p = 1
      <4>1. Len(w) >= 2 /\ 1 \in 1..Len(w) /\ 2 \in 1..Len(w) /\ 1 + 1 = 2 /\ 1 + 2 = 3
        <5> HIDE DEF w
        <5> QED
          BY <2>1, <3>5, <3>7
      <4>2. w[1] = "q" /\ w[2] = "q" /\ s[i] = "q"
        <5> HIDE DEF w
        <5> QED
          BY <2>1, <2>3, <3>5, <3>7, <4>1
      <4>3. s[i + 1] = "q" /\ i + 1 \in 1..Len(s)
        <5>1. Len(w) > 0
          BY <3>5, <4>1
        <5> QED
          BY <3>4, <4>2, <5>1
      <4>4. ~FenceAt(s, i + 1)
        <5>1. ASSUME FenceAt(s, i + 1) PROVE FALSE
          <6>1. (i + 1) + 3 \in 1..(Len(s) + 1)
            BY <1>2, <4>3, <5>1 DEF FenceAt
          <6>2. w = Fence \o f[(i + 1) + 3] /\ f[(i + 1) + 3] \in Text
            BY <1>1, <1>3, <4>3, <5>1, <6>1 DEF EscapeOf
          <6>3. 2 \in 1..Len(Fence) /\ Fence[2] = "z"
            BY DEF Fence
          <6> HIDE DEF w
          <6>4. w[2] = Fence[2]
            BY <6>2, <6>3, ShortTexts, Joined
          <6> QED
            BY <4>2, <6>3, <6>4
        <5> QED
          BY <5>1
      <4> DEFINE d == <<s[i + 1]>>
                 v == f[(i + 1) + 1]
      <4>5. (i + 1) + 1 \in 1..(Len(s) + 1) /\ (i + 1) + 1 = i + 2
        BY <1>2, <4>3
      <4>6. w = d \o v /\ v \in Text /\ d \in Text /\ Len(d) = 1
        BY <1>1, <1>2, <1>3, <4>3, <4>4, <4>5, ShortTexts DEF EscapeOf
      <4>7. Len(v) > 0 => v[1] = s[(i + 1) + 1] /\ (i + 1) + 1 \in 1..Len(s)
        BY <1>1, <4>5, EscapeBegins
      <4> HIDE DEF d, v, w
      <4>8. Len(w) = 1 + Len(v) /\ Len(v) \in Nat /\ \A j \in 1..Len(v) : w[1 + j] = v[j]
        <5>1. /\ Len(d \o v) = Len(d) + Len(v) /\ Len(v) \in Nat
              /\ \A j \in 1..Len(v) : (d \o v)[Len(d) + j] = v[j]
          BY <4>6, Joined
        <5> QED
          BY <4>6, <5>1
      <4>9. Len(v) > 0 /\ 1 \in 1..Len(v)
        BY <4>1, <4>8
      <4>10. v[1] = "q"
        BY <4>1, <4>2, <4>8, <4>9
      <4>11. s[i + 2] = "q" /\ i + 2 <= Len(s)
        BY <1>2, <4>5, <4>7, <4>9, <4>10
      <4> QED
        BY <2>3, <2>5, <4>2, <4>3, <4>11, FenceIs
    <3> QED
      BY <3>6, <3>7
  <2> QED
    BY <2>4, <2>5
<1>5. \A i \in 1..(Len(s) + 1) : i \in T
  <2>1. ASSUME NEW i \in 1..(Len(s) + 1), \A k \in (i + 1)..(Len(s) + 1) : k \in T
        PROVE  i \in T
    BY <1>4, <2>1
  <2> HIDE DEF T
  <2> QED
    BY <1>2, <2>1, Downward
<1>6. 1 \in 1..(Len(s) + 1)
  BY <1>2
<1> QED
  BY <1>1, <1>5, <1>6

-----------------------------------------------------------------------------
(***************************************************************************)
(* Where SplitUTF8 cuts.                                                   *)
(***************************************************************************)
(* Behind a character of at most the limit, or behind the first one        *)
LEMMA CutIs ==
    ASSUME rest \in Text, Valid(rest), maxBytes \in Nat \ {0}, Len(rest) > maxBytes,
           NEW cut, cut = AtNewline(rest, AtCharacter(rest))
    PROVE  /\ cut \in 1..Len(rest)
           /\ cut <= maxBytes \/ cut = RuneSize(rest, 1)
           /\ cut = Len(rest) \/ RuneStart(rest[cut + 1])
<1> DEFINE starts == {k \in 1..maxBytes : RuneStart(rest[k + 1])}
           char == AtCharacter(rest)
           newlines == {k \in (char \div 2 + 1)..char : rest[k] = "n"}
<1>1. Len(rest) \in Nat /\ 1 \in 1..Len(rest) /\ Whole(rest, 1) /\ rest[1] \in Byte
  <2>1. Len(rest) \in Nat
    BY LenProperties DEF Text
  <2>2. 1 \in 1..Len(rest) /\ Len(rest) > 0
    BY <2>1
  <2> QED
    BY <2>1, <2>2, ValidFirst, ElementOfSeq DEF Text
<1>2. RuneSize(rest, 1) = Bytes(rest[1]) /\ Bytes(rest[1]) \in 1..3 /\ Bytes(rest[1]) <= Len(rest)
  BY <1>1, BytesAre DEF RuneSize, Whole
<1>3. /\ char \in 1..Len(rest)
      /\ char <= maxBytes \/ char = RuneSize(rest, 1)
      /\ char = Len(rest) \/ RuneStart(rest[char + 1])
  <2>1. CASE starts = {}
    <3>1. char = Bytes(rest[1])
      BY <1>2, <2>1 DEF AtCharacter
    <3>2. 1 + Bytes(rest[1]) <= Len(rest) => RuneStart(rest[1 + Bytes(rest[1])])
      BY <1>1, ValidNext
    <3> HIDE DEF char
    <3> QED
      BY <1>1, <1>2, <3>1, <3>2
  <2>2. CASE starts # {}
    <3>1. char = Largest(starts)
      BY <2>2 DEF AtCharacter
    <3>2. char \in starts
      <4>1. maxBytes \in Nat /\ starts \in SUBSET (1..maxBytes)
        OBVIOUS
      <4> HIDE DEF starts, char
      <4> QED
        BY <2>2, <3>1, <4>1, LargestIs
    <3> HIDE DEF char
    <3> QED
      BY <1>1, <3>2
  <2> QED
    BY <2>1, <2>2
<1>4. CASE newlines = {}
  <2>1. cut = char
    BY <1>4 DEF AtNewline
  <2> QED
    BY <1>3, <2>1
<1>5. CASE newlines # {}
  <2>1. cut = Largest(newlines)
    BY <1>5 DEF AtNewline
  <2> HIDE DEF char
  <2>2. newlines \in SUBSET (1..char) /\ char \in Nat
    BY <1>3
  <2>3. cut \in newlines
    <3> HIDE DEF newlines
    <3> QED
      BY <1>5, <2>1, <2>2, LargestIs
  <2>4. cut \in 1..char /\ rest[cut] = "n" /\ cut \in 1..Len(rest)
    BY <1>1, <1>3, <2>2, <2>3
  <2>5. Whole(rest, cut) /\ Bytes(rest[cut]) = 1
    BY <2>4, BytesAre, ValidBegins DEF RuneStart
  <2>6. cut + 1 <= Len(rest) => RuneStart(rest[cut + 1])
    BY <2>4, <2>5, ValidNext
  <2>7. ASSUME char = RuneSize(rest, 1) PROVE cut <= maxBytes
    <3>1. CASE cut > 1
      <4>1. cut - 1 \in 1..(Bytes(rest[1]) - 1) /\ 1 + (cut - 1) = cut
        BY <1>2, <2>4, <2>7, <3>1
      <4>2. rest[cut] = "c"
        BY <1>1, <4>1 DEF Whole
      <4> QED
        BY <2>4, <4>2
    <3> QED
      BY <2>4, <3>1
  <2> QED
    BY <1>1, <1>3, <2>4, <2>6, <2>7
<1> QED
  BY <1>4, <1>5

(* A text that begins with the bytes of a character has that size there.   *)
LEMMA FirstKept ==
    ASSUME NEW s, NEW t, Whole(s, 1), s[1] \in Byte, Len(t) \in Nat, Bytes(s[1]) <= Len(t),
           \A k \in 1..Bytes(s[1]) : t[k] = s[k]
    PROVE  RuneSize(t, 1) = Bytes(s[1])
<1>1. Bytes(s[1]) \in 1..3
  BY BytesAre
<1>2. t[1] = s[1]
  BY <1>1
<1>3. ASSUME NEW k \in 1..(Bytes(s[1]) - 1) PROVE t[1 + k] = "c"
  <2>1. 1 + k \in 1..Bytes(s[1])
    BY <1>1
  <2>2. s[1 + k] = "c"
    BY DEF Whole
  <2> QED
    BY <2>1, <2>2
<1>4. Whole(t, 1)
  BY <1>1, <1>2, <1>3 DEF Whole
<1> QED
  BY <1>2, <1>4 DEF RuneSize

(* The part in front of the cut and what is left *)
LEMMA PartIs ==
    ASSUME rest \in Text, Valid(rest), maxBytes \in Nat \ {0}, Len(rest) > maxBytes,
           NEW cut, cut = AtNewline(rest, AtCharacter(rest)),
           NEW part, part = SubSeq(rest, 1, cut), NEW left, left = From(rest, cut + 1)
    PROVE  /\ part \in Text /\ Valid(part) /\ part # << >>
           /\ Len(part) <= maxBytes \/ Len(part) = RuneSize(part, 1)
           /\ left \in Text /\ Valid(left) /\ part \o left = rest
<1>1. /\ cut \in 1..Len(rest)
      /\ cut <= maxBytes \/ cut = RuneSize(rest, 1)
      /\ cut = Len(rest) \/ RuneStart(rest[cut + 1])
  BY CutIs
<1>2. /\ Len(rest) \in Nat /\ 1 \in 1..(Len(rest) + 1)
      /\ cut \in (1 - 1)..Len(rest) /\ cut - 1 + 1 = cut
      /\ cut \in 0..Len(rest) /\ cut + 1 \in 1..(Len(rest) + 1) /\ (cut + 1) - 1 = cut
  <2>1. Len(rest) \in Nat
    BY LenProperties DEF Text
  <2> QED
    BY <1>1, <2>1
<1>3. part \in Text /\ Len(part) = cut /\ \A k \in 1..cut : part[k] = rest[k]
  <2>1. /\ part \in Text /\ Len(part) = cut - 1 + 1
        /\ \A k \in 1..(cut - 1 + 1) : part[k] = rest[1 + k - 1]
    BY <1>2, StretchIs
  <2>2. \A k \in 1..cut : 1 + k - 1 = k
    OBVIOUS
  <2> QED
    BY <1>2, <2>1, <2>2
<1>4. Valid(part) /\ Valid(left) /\ left \in Text
  BY <1>1, <1>2, ValidCut, FromIs
<1>5. part \o left = rest
  <2>1. From(rest, 1) = SubSeq(rest, 1, (cut + 1) - 1) \o From(rest, cut + 1)
    BY <1>2, FromSplit
  <2> QED
    BY <1>2, <2>1, FromEnds
<1>6. part # << >>
  <2>1. Len(part) # 0
    BY <1>1, <1>3
  <2> QED
    BY <2>1, ShortTexts
<1>7. ASSUME cut = RuneSize(rest, 1) PROVE Len(part) = RuneSize(part, 1)
  <2>1. Whole(rest, 1) /\ 1 \in 1..Len(rest)
    <3>1. Len(rest) > 0 /\ 1 \in 1..Len(rest)
      BY <1>2
    <3> QED
      BY <3>1, ValidFirst
  <2>2. cut = Bytes(rest[1]) /\ Bytes(rest[1]) \in 1..3 /\ rest[1] \in Byte
    BY <1>7, <2>1, BytesAre, ElementOfSeq DEF RuneSize, Text
  <2>3. Bytes(rest[1]) <= Len(part) /\ Len(part) \in Nat
        /\ \A k \in 1..Bytes(rest[1]) : part[k] = rest[k]
    BY <1>2, <1>3, <2>2
  <2>4. RuneSize(part, 1) = Bytes(rest[1])
    BY <2>1, <2>2, <2>3, FirstKept
  <2> QED
    BY <1>3, <2>2, <2>4
<1> QED
  BY <1>1, <1>2, <1>3, <1>4, <1>5, <1>6, <1>7

-----------------------------------------------------------------------------
(***************************************************************************)
(* The inductive invariant.                                                *)
(***************************************************************************)
Types ==
    /\ maxBytes \in Limits /\ stripANSI \in BOOLEAN /\ lost \in BOOLEAN
    /\ parts \in Seq(Text)
    /\ unread \in Text /\ pending \in Text /\ buffer \in Text /\ rest \in Text
    /\ written \in Text /\ received \in Text /\ escaped \in Text /\ posted \in Text

(* Everything the daemon holds is valid: what it gathers, what it escaped  *)
(* and what SplitUTF8 has left.                                            *)
Characters == Valid(received) /\ Valid(buffer) /\ Valid(escaped) /\ Valid(rest)

(* The buffer is the end of what was received: a row of backticks in it is *)
(* one of the output.                                                      *)
Gathered == \E sent \in Text : received = sent \o buffer

(* Without four backticks in a row in the buffer there are, behind the     *)
(* escape, not three.                                                      *)
Rows ==
    ~Backticks(received, 4) =>
        /\ ~Backticks(rest, 3)
        /\ \A i \in DOMAIN parts : ~Backticks(parts[i], 3)

(* When nothing is taken out of it, the text keeps its rows all the way.   *)
Untouched ==
    (~stripANSI /\ ~lost /\ ~Backticks(written, 4)) =>
        ~Backticks(received \o (pending \o unread), 4)

Inv == /\ Types /\ Characters /\ PartsMakeText /\ PartsFit /\ PartsWhole
       /\ ShownIsReceived /\ Gathered /\ Rows /\ Untouched

(* At the start nothing is received, and the output is still to be read. *)
LEMMA InitInv == Init => Inv
<1> SUFFICES ASSUME Init PROVE Inv
  OBVIOUS
<1>1. /\ unread \in Text /\ written = unread /\ maxBytes \in Limits
      /\ pending = << >> /\ buffer = << >> /\ rest = << >> /\ parts = << >>
      /\ received = << >> /\ escaped = << >> /\ posted = << >>
  BY TextAssumption DEF Init, Text
<1>2. stripANSI \in BOOLEAN /\ lost \in BOOLEAN
  BY DEF Init
<1>3. << >> \in Text /\ << >> \in Seq(Text) /\ Valid(<< >>) /\ DOMAIN << >> = {}
  BY ShortTexts, ValidPieces
<1>4. << >> \o << >> = << >> /\ << >> \o (<< >> \o unread) = unread
  BY <1>1, <1>3, Joining
<1>5. ~Backticks(<< >>, 3)
  BY ShortTexts DEF Backticks
<1>6. Types /\ Characters
  BY <1>1, <1>3, <1>2 DEF Types, Characters
<1>7. PartsMakeText /\ PartsFit /\ PartsWhole
  BY <1>1, <1>3, <1>4 DEF PartsMakeText, PartsFit, PartsWhole
<1>8. ShownIsReceived
  BY <1>1, <1>4, VisibleShort DEF ShownIsReceived
<1>9. Gathered
  BY <1>1, <1>3, <1>4 DEF Gathered
<1>10. Rows /\ Untouched
  BY <1>1, <1>3, <1>4, <1>5 DEF Rows, Untouched
<1> QED
  BY <1>6, <1>7, <1>8, <1>9, <1>10 DEF Inv

(* A prefix and the rest of a text *)
LEMMA Halves ==
    ASSUME NEW s \in Text, NEW n \in 0..Len(s)
    PROVE  /\ SubSeq(s, 1, n) \in Text /\ SubSeq(s, n + 1, Len(s)) \in Text
           /\ s = SubSeq(s, 1, n) \o SubSeq(s, n + 1, Len(s))
<1>1. /\ 1 \in 1..(Len(s) + 1) /\ n + 1 \in 1..(Len(s) + 1) /\ n + 1 \in 1..(Len(s) + 1)
      /\ (n + 1) - 1 = n /\ n \in (1 - 1)..Len(s)
  BY LenProperties DEF Text
<1>2. From(s, 1) = SubSeq(s, 1, (n + 1) - 1) \o From(s, n + 1)
  BY <1>1, FromSplit
<1> QED
  BY <1>1, <1>2, FromEnds, FromIs, StretchIs DEF From

(* Reading moves bytes from the pipe to p. *)
LEMMA ReadInv == Inv /\ Read => Inv'
<1> SUFFICES ASSUME Inv, Read PROVE Inv'
  OBVIOUS
<1> USE DEF Inv
<1>1. PICK n \in 1..Len(unread) : /\ pending' = SubSeq(unread, 1, n)
                                  /\ unread' = SubSeq(unread, n + 1, Len(unread))
  BY DEF Read
<1>2. /\ pending = << >>
      /\ UNCHANGED <<config, buffer, rest, parts, written, lost, received, escaped, posted>>
  BY DEF Read
<1>3. pending' \in Text /\ unread' \in Text /\ unread = pending' \o unread'
  <2>1. unread \in Text /\ n \in 0..Len(unread)
    BY DEF Types
  <2> QED
    BY <1>1, <2>1, Halves
<1>4. pending' \o unread' = pending \o unread
  BY <1>2, <1>3, Joining DEF Types
<1>5. Types'
  BY <1>2, <1>3 DEF Types, config
<1>6. Rows' /\ Untouched'
  BY <1>2, <1>4 DEF Rows, Untouched, config
<1>7. Characters' /\ PartsMakeText' /\ PartsFit' /\ PartsWhole' /\ ShownIsReceived' /\ Gathered'
  BY <1>2 DEF Characters, PartsMakeText, PartsFit, PartsWhole, ShownIsReceived, Gathered, config
<1> QED
  BY <1>5, <1>6, <1>7

(* A turn of the loop in Write cuts a chunk off the front of p. *)
LEMMA ChunkIs ==
    ASSUME pending \in Text, Cut
    PROVE  Chunk \in Text /\ pending' \in Text /\ pending = Chunk \o pending'
<1>1. Len(pending) \in Nat
  BY LenProperties DEF Text
<1>2. NextChunk \in 0..Len(pending)
  BY <1>1, SizeAssumption DEF NextChunk
<1> QED
  BY <1>2, Halves DEF Cut, Chunk

(* A record is valid, and its rows of backticks are those of its chunk if  *)
(* it is not stripped: what JSON replaces shortens them only.              *)
LEMMA RecordIs ==
    ASSUME Chunk \in Text
    PROVE  /\ Record \in Text /\ Valid(Record)
           /\ ~stripANSI => Record = ToJSON(Chunk)
BY ToJSONValid, StripValid DEF Record

(* An event adds to the buffer and to what was received the same valid     *)
(* text.                                                                   *)
LEMMA WriteInv == Inv /\ Write => Inv'
<1> SUFFICES ASSUME Inv, Write PROVE Inv'
  OBVIOUS
<1> USE DEF Inv
<1> DEFINE a == Chunk
           j == Record
<1>1. /\ Cut
      /\ received' = received \o j /\ buffer' = buffer \o j
      /\ UNCHANGED <<config, unread, rest, parts, written, lost, escaped, posted>>
  BY DEF Write
<1>2. /\ unread \in Text /\ pending \in Text /\ buffer \in Text /\ received \in Text
  BY DEF Types
<1>3. a \in Text /\ pending' \in Text /\ pending = a \o pending'
  BY <1>1, <1>2, ChunkIs
<1>4. j \in Text /\ Valid(j)
  BY <1>3, RecordIs
<1> HIDE DEF a
<1>5. received' \in Text /\ buffer' \in Text
  <2> HIDE DEF j
  <2> QED
    BY <1>1, <1>2, <1>4, Joined
<1>6. Types'
  BY <1>1, <1>3, <1>5 DEF Types, config
<1>7. Characters'
  <2> HIDE DEF j
  <2>1. Valid(received \o j) /\ Valid(buffer \o j)
    BY <1>2, <1>4, ValidJoined DEF Characters
  <2> QED
    BY <1>1, <2>1 DEF Characters
<1>8. ShownIsReceived'
  <2> HIDE DEF j
  <2>1. /\ Visible(received \o j) = Visible(received) \o Visible(j)
        /\ Visible(buffer \o j) = Visible(buffer) \o Visible(j)
    BY <1>2, <1>4, VisibleJoined DEF Characters
  <2>2. /\ Visible(escaped) \in Text /\ Visible(buffer) \in Text /\ Visible(j) \in Text
    BY <1>2, <1>4, VisibleText DEF Types
  <2>3. Visible(escaped) \o (Visible(buffer) \o Visible(j))
            = (Visible(escaped) \o Visible(buffer)) \o Visible(j)
    BY <2>2, Joining
  <2> QED
    BY <1>1, <2>1, <2>3 DEF ShownIsReceived
<1>9. Gathered'
  <2> HIDE DEF j
  <2>1. PICK sent \in Text : received = sent \o buffer
    BY DEF Gathered
  <2>2. (sent \o buffer) \o j = sent \o (buffer \o j)
    <3>1. sent \in Text /\ buffer \in Text /\ j \in Text
      BY <1>2, <1>4
    <3> QED
      BY <3>1, Joining, Zenon
  <2>3. received' = sent \o buffer'
    BY <1>1, <2>1, <2>2
  <2> QED
    BY <2>3 DEF Gathered
<1>10. Rows'
  <2> HIDE DEF j
  <2>1. ~Backticks(received', 4) => ~Backticks(received, 4)
    BY <1>1, <1>2, <1>4, RowJoined
  <2> QED
    BY <1>1, <2>1 DEF Rows
<1>11. Untouched'
  <2> SUFFICES ASSUME ~stripANSI, ~lost, ~Backticks(written, 4)
               PROVE  ~Backticks(received' \o (pending' \o unread), 4)
    BY <1>1 DEF Untouched, config
  <2> DEFINE y == pending' \o unread
  <2>1. y \in Text
    BY <1>2, <1>3, Joined
  <2>2. pending \o unread = a \o y
    <3>1. (a \o pending') \o unread = a \o (pending' \o unread)
      BY <1>2, <1>3, Joining
    <3> QED
      BY <1>3, <3>1
  <2> HIDE DEF y
  <2>3. ~Backticks(received \o (a \o y), 4)
    BY <2>2 DEF Untouched
  <2>4. j = ToJSON(a)
    BY <1>3, RecordIs DEF a
  <2> HIDE DEF j
  <2>5. ~Backticks(received \o (j \o y), 4)
    BY <1>2, <1>3, <2>1, <2>3, <2>4, JSONRow
  <2>6. (received \o j) \o y = received \o (j \o y)
    BY <1>2, <1>4, <2>1, Joining
  <2> QED
    BY <1>1, <2>5, <2>6 DEF y
<1>12. PartsMakeText' /\ PartsFit' /\ PartsWhole'
  BY <1>1 DEF PartsMakeText, PartsFit, PartsWhole, config
<1> QED
  BY <1>6, <1>7, <1>8, <1>9, <1>10, <1>11, <1>12

(* A lost event changes nothing but what is left of the output. *)
LEMMA DropInv == Inv /\ Drop => Inv'
<1> SUFFICES ASSUME Inv, Drop PROVE Inv'
  OBVIOUS
<1> USE DEF Inv
<1>1. /\ Cut /\ lost' = TRUE
      /\ UNCHANGED <<config, unread, buffer, rest, parts, written, received, escaped, posted>>
  BY DEF Drop
<1>2. pending' \in Text
  BY <1>1, ChunkIs DEF Types
<1>3. Types'
  BY <1>1, <1>2 DEF Types, config
<1>4. Rows' /\ Untouched'
  BY <1>1 DEF Rows, Untouched
<1>5. Characters' /\ PartsMakeText' /\ PartsFit' /\ PartsWhole' /\ ShownIsReceived' /\ Gathered'
  BY <1>1 DEF Characters, PartsMakeText, PartsFit, PartsWhole, ShownIsReceived, Gathered, config
<1> QED
  BY <1>3, <1>4, <1>5

(* The buffer is escaped as a whole, so that no row is cut before it is    *)
(* escaped.                                                                *)
LEMMA SendOutputInv == Inv /\ SendOutput => Inv'
<1> SUFFICES ASSUME Inv, SendOutput PROVE Inv'
  OBVIOUS
<1> USE DEF Inv
<1> DEFINE e == EscapeCodeFence(buffer)
<1>1. /\ rest = << >> /\ rest' = e /\ buffer' = << >> /\ escaped' = escaped \o e
      /\ UNCHANGED <<config, unread, pending, parts, written, lost, received, posted>>
  BY DEF SendOutput
<1>2. /\ buffer \in Text /\ received \in Text /\ escaped \in Text /\ posted \in Text
      /\ unread \in Text /\ pending \in Text
  BY DEF Types
<1>3. Valid(buffer) /\ Valid(escaped) /\ Valid(received)
  BY DEF Characters
<1>4. e \in Text /\ Valid(e) /\ Visible(e) = Visible(buffer)
  BY <1>2, <1>3, EscapeValid
<1>5. Rows' /\ Untouched'
  <2>1. ASSUME ~Backticks(received, 4) PROVE ~Backticks(e, 3)
    <3>1. PICK sent \in Text : received = sent \o buffer
      BY DEF Gathered
    <3>2. ~Backticks(buffer, 4)
      BY <1>2, <2>1, <3>1, RowJoined
    <3> QED
      BY <1>2, <3>2, EscapeRow
  <2> QED
    BY <1>1, <2>1 DEF Rows, Untouched, config
<1> HIDE DEF e
<1>6. << >> \in Text /\ Valid(<< >>) /\ Visible(<< >>) = << >>
  BY ShortTexts, ValidPieces, VisibleShort
<1>7. Types' /\ Characters'
  <2>1. escaped \o e \in Text /\ Valid(escaped \o e)
    BY <1>2, <1>3, <1>4, Joined, ValidJoined
  <2> QED
    BY <1>1, <1>2, <1>3, <1>4, <1>6, <2>1 DEF Types, Characters, config
<1>8. PartsMakeText'
  <2>1. posted = escaped
    BY <1>1, <1>2, Joining DEF PartsMakeText
  <2> QED
    BY <1>1, <2>1 DEF PartsMakeText
<1>9. ShownIsReceived'
  <2>1. Visible(escaped \o e) = Visible(escaped) \o Visible(e)
    BY <1>2, <1>3, <1>4, VisibleJoined
  <2>2. Visible(escaped \o e) \in Text
    BY <1>2, <1>4, Joined, VisibleText
  <2>3. Visible(escaped \o e) \o << >> = Visible(escaped \o e)
    BY <2>2, Joining
  <2> QED
    BY <1>1, <1>4, <1>6, <2>1, <2>3 DEF ShownIsReceived
<1>10. Gathered'
  <2>1. received = received \o << >>
    BY <1>2, Joining
  <2> QED
    BY <1>1, <1>2, <2>1 DEF Gathered
<1>11. PartsFit' /\ PartsWhole'
  BY <1>1 DEF PartsFit, PartsWhole, config
<1> QED
  BY <1>5, <1>7, <1>8, <1>9, <1>10, <1>11

(* A step that posts a part from the front of what is left *)
LEMMA PostInv ==
    ASSUME Inv, NEW part \in Text, NEW left \in Text, rest = part \o left,
           Valid(part), part # << >>, Valid(left),
           Len(part) <= maxBytes \/ Len(part) = RuneSize(part, 1),
           parts' = Append(parts, part), posted' = posted \o part, rest' = left,
           UNCHANGED <<config, unread, pending, buffer, written, lost, received, escaped>>
    PROVE  Inv'
<1> USE DEF Inv
<1>1. /\ parts' \in Seq(Text) /\ Len(parts') = Len(parts) + 1 /\ Len(parts) \in Nat
      /\ \A i \in 1..Len(parts) : parts'[i] = parts[i]
      /\ parts'[Len(parts) + 1] = part
      /\ DOMAIN parts = 1..Len(parts) /\ DOMAIN parts' = 1..(Len(parts) + 1)
  <2>1. parts \in Seq(Text)
    BY DEF Types
  <2>2. parts' \in Seq(Text) /\ Len(parts') = Len(parts) + 1
    BY <2>1, AppendProperties
  <2>3. /\ \A i \in 1..Len(parts) : parts'[i] = parts[i]
        /\ parts'[Len(parts) + 1] = part
    BY <2>1, AppendProperties
  <2>4. DOMAIN parts = 1..Len(parts) /\ DOMAIN parts' = 1..Len(parts') /\ Len(parts) \in Nat
    BY <2>1, <2>2, LenProperties
  <2> QED
    BY <2>2, <2>3, <2>4
<1>2. \A i \in DOMAIN parts' : parts'[i] = part \/ (i \in DOMAIN parts /\ parts'[i] = parts[i])
  BY <1>1
<1>3. posted \in Text /\ rest \in Text
  BY DEF Types
<1>4. Types' /\ Characters'
  <2>1. posted \o part \in Text
    BY <1>3, Joined
  <2> QED
    BY <1>1, <2>1 DEF Types, Characters, config
<1>5. PartsMakeText'
  <2>1. (posted \o part) \o left = posted \o (part \o left)
    BY <1>3, Joining
  <2> QED
    BY <2>1 DEF PartsMakeText
<1>6. PartsFit'
  BY <1>2 DEF PartsFit, config
<1>7. PartsWhole'
  BY <1>2 DEF PartsWhole
<1>8. ShownIsReceived' /\ Gathered'
  BY DEF ShownIsReceived, Gathered
<1>9. Rows' /\ Untouched'
  <2>1. ASSUME ~Backticks(received, 4)
        PROVE  ~Backticks(left, 3) /\ \A i \in DOMAIN parts' : ~Backticks(parts'[i], 3)
    <3>1. ~Backticks(rest, 3) /\ \A i \in DOMAIN parts : ~Backticks(parts[i], 3)
      BY <2>1 DEF Rows
    <3>2. ~Backticks(part, 3) /\ ~Backticks(left, 3)
      BY <3>1, RowJoined
    <3> QED
      BY <1>2, <3>1, <3>2
  <2> QED
    BY <2>1 DEF Rows, Untouched, config
<1> QED
  BY <1>4, <1>5, <1>6, <1>7, <1>8, <1>9

(* SplitUTF8 cuts a part off. *)
LEMMA PostPartInv == Inv /\ PostPart => Inv'
<1> SUFFICES ASSUME Inv, PostPart PROVE Inv'
  OBVIOUS
<1> DEFINE cut == AtNewline(rest, AtCharacter(rest))
           part == SubSeq(rest, 1, cut)
           left == From(rest, cut + 1)
<1>1. /\ Len(rest) > maxBytes /\ parts' = Append(parts, part)
      /\ posted' = posted \o part /\ rest' = left
      /\ UNCHANGED <<config, unread, pending, buffer, written, lost, received, escaped>>
  BY DEF PostPart, From
<1>2. rest \in Text /\ Valid(rest) /\ maxBytes \in Nat \ {0}
  BY SizeAssumption DEF Inv, Types, Characters
<1>3. /\ part \in Text /\ Valid(part) /\ part # << >>
      /\ Len(part) <= maxBytes \/ Len(part) = RuneSize(part, 1)
      /\ left \in Text /\ Valid(left) /\ part \o left = rest
  BY <1>1, <1>2, PartIs
<1> HIDE DEF part, left
<1> QED
  BY <1>1, <1>3, PostInv

(* The last part is all that is left. *)
LEMMA PostLastInv == Inv /\ PostLast => Inv'
<1> SUFFICES ASSUME Inv, PostLast PROVE Inv'
  OBVIOUS
<1>1. /\ rest # << >> /\ Len(rest) <= maxBytes /\ parts' = Append(parts, rest)
      /\ posted' = posted \o rest /\ rest' = << >>
      /\ UNCHANGED <<config, unread, pending, buffer, written, lost, received, escaped>>
  BY DEF PostLast
<1>2. rest \in Text /\ Valid(rest)
  BY DEF Inv, Types, Characters
<1>3. << >> \in Text /\ Valid(<< >>) /\ rest = rest \o << >>
  BY <1>2, ShortTexts, ValidPieces, Joining
<1> QED
  BY <1>1, <1>2, <1>3, PostInv

(* Every step keeps the invariant, *)
LEMMA NextInv == Inv /\ [Next]_vars => Inv'
<1> SUFFICES ASSUME Inv, [Next]_vars PROVE Inv'
  OBVIOUS
<1>1. CASE Read
  BY <1>1, ReadInv
<1>2. CASE Write
  BY <1>2, WriteInv
<1>3. CASE SendOutput
  BY <1>3, SendOutputInv
<1>4. CASE PostPart
  BY <1>4, PostPartInv
<1>5. CASE PostLast
  BY <1>5, PostLastInv
<1>6. CASE Drop
  BY <1>6, DropInv
<1>7. CASE UNCHANGED vars
  BY <1>7 DEF vars, config, Inv, Types, Characters, PartsMakeText, PartsFit, PartsWhole,
              ShownIsReceived, Gathered, Rows, Untouched
<1> QED
  BY <1>1, <1>2, <1>3, <1>4, <1>5, <1>6, <1>7 DEF Next

(* and so it holds in every reachable state. *)
LEMMA SpecInv == Spec => []Inv
<1>1. Init => Inv
  BY InitInv
<1>2. Inv /\ [Next]_vars => Inv'
  BY NextInv
<1> QED
  BY <1>1, <1>2, PTL DEF Spec

-----------------------------------------------------------------------------
(***************************************************************************)
(* What holds of the text in the channel.                                  *)
(***************************************************************************)

(* SplitUTF8, at any limit: the parts are the text it was given, none is   *)
(* empty, none exceeds the limit unless it is a single character, and none *)
(* is cut inside a character, with StripANSI as without.                   *)
THEOREM SplitIsSafe == Spec => []Safety
<1>1. Inv => Safety
  BY DEF Inv, Types, Characters, Safety, TypeOK, Text
<1> QED
  BY <1>1, SpecInv, PTL

(* However the output is cut into events, flushes and parts, a reader sees *)
(* what went into the buffer: EscapeCodeFence adds only what is not seen,  *)
(* and SplitUTF8 loses nothing.                                            *)
THEOREM WhatIsShownWasReceived == Spec => []ShownIsReceived
<1>1. Inv => ShownIsReceived
  BY DEF Inv
<1> QED
  BY <1>1, SpecInv, PTL

(* Wherever events, flushes and parts cut it, text without four backticks  *)
(* in a row in the buffer cannot close its code block: no part has three.  *)
(* And four are not in the buffer by accident of cutting: the command has  *)
(* written four, or something between them was stripped or lost.           *)
(* (EscapeCodeFence on the whole buffer, but behind StripANSI.)            *)
THEOREM TheFenceHolds == Spec => []FenceKept
<1>1. Inv => FenceKept
  <2> SUFFICES ASSUME Inv PROVE FenceKept
    OBVIOUS
  <2>1. ~Backticks(received, 4) => NoFence
    BY DEF Inv, Rows, NoFence
  <2>2. ASSUME ~stripANSI, ~lost, ~Backticks(written, 4) PROVE ~Backticks(received, 4)
    <3>1. received \in Text /\ pending \o unread \in Text
      BY Joined DEF Inv, Types
    <3>2. ~Backticks(received \o (pending \o unread), 4)
      BY <2>2 DEF Inv, Untouched
    <3> QED
      BY <3>1, <3>2, RowJoined
  <2> QED
    BY <2>1, <2>2 DEF FenceKept
<1> QED
  BY <1>1, SpecInv, PTL

=============================================================================
