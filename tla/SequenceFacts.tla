---------------------------- MODULE SequenceFacts ----------------------------
(***************************************************************************)
(* Lemmas about finite sequences, in the form the proofs about the queues  *)
(* and lists of the model cite them: one fact per operator that names the  *)
(* type, the length and the elements of its result.  The first one is that *)
(* a set of numbers has a least one, which gives a list its first element  *)
(* with some property.                                                     *)
(***************************************************************************)
EXTENDS Integers, Sequences, Functions, FiniteSetsExt, SequenceTheorems,
        WellFoundedInduction, TLAPS

(* Counting down from any of its members comes to an end. *)
LEMMA LeastNumber ==
  ASSUME NEW T \in SUBSET Nat, T # {}
  PROVE  Min(T) \in T /\ \A n \in T : Min(T) <= n
<1> DEFINE R == OpToRel(<, Nat)
<1>1. IsWellFoundedOn(R, Nat)
  BY NatLessThanWellFounded
<1>2. PICK x \in T : \A y \in T : <<y, x>> \notin R
  BY <1>1, WFMin
<1>3. ASSUME NEW y \in T PROVE x <= y
  <2>1. x \in Nat /\ y \in Nat /\ <<y, x>> \in Nat \X Nat
    OBVIOUS
  <2>2. ~(y < x)
    BY <1>2, <2>1 DEF OpToRel
  <2> QED
    BY <2>1, <2>2
<1> QED
  BY <1>3 DEF Min

LEMMA AppendFacts ==
  ASSUME NEW S, NEW s \in Seq(S), NEW e \in S
  PROVE  /\ Append(s, e) \in Seq(S)
         /\ Len(Append(s, e)) = Len(s) + 1
         /\ \A i \in 1 .. Len(s) : Append(s, e)[i] = s[i]
         /\ Append(s, e)[Len(s) + 1] = e
  BY AppendProperties

LEMMA TailFacts ==
  ASSUME NEW S, NEW s \in Seq(S), s # << >>
  PROVE  /\ Len(s) \in Nat \ {0}
         /\ Head(s) \in S
         /\ Head(s) = s[1]
         /\ Tail(s) \in Seq(S)
         /\ Len(Tail(s)) = Len(s) - 1
         /\ \A i \in 1 .. Len(s) - 1 : Tail(s)[i] = s[i + 1]
<1>1. Len(s) \in Nat \ {0}
  BY EmptySeq
<1>2. Head(s) = s[1] /\ Head(s) \in S /\ Tail(s) \in Seq(S) /\ Len(Tail(s)) = Len(s) - 1
  BY HeadTailProperties
<1>3. \A i \in 1 .. Len(s) - 1 : Tail(s)[i] = s[i + 1]
  BY <1>1, <1>2, HeadTailProperties
<1> QED
  BY <1>1, <1>2, <1>3

(* Moving an element over the border of a concatenation. *)
LEMMA ConcatAppend ==
  ASSUME NEW S, NEW s \in Seq(S), NEW t \in Seq(S), NEW e \in S
  PROVE  s \o Append(t, e) = Append(s \o t, e)
<1>1. << e >> \in Seq(S) /\ s \o t \in Seq(S)
  BY ConcatProperties
<1>2. Append(t, e) = t \o << e >> /\ Append(s \o t, e) = (s \o t) \o << e >>
  BY <1>1, AppendIsConcat
<1> QED
  BY <1>1, <1>2, ConcatAssociative

LEMMA HeadConcatTail ==
  ASSUME NEW S, NEW t \in Seq(S), t # << >>
  PROVE  t = << Head(t) >> \o Tail(t)
<1> DEFINE one == << Head(t) >>
           rest == Tail(t)
<1>1. /\ one \in Seq(S) /\ Len(one) = 1 /\ one[1] = t[1]
      /\ rest \in Seq(S)
  BY TailFacts
<1>2. \E n \in Nat : /\ Len(t) = n + 1 /\ Len(rest) = n
                     /\ \A i \in 1 .. n : rest[i] = t[i + 1]
  <2>1. Len(t) - 1 \in Nat /\ Len(t) = (Len(t) - 1) + 1
    BY TailFacts
  <2> QED
    BY <2>1, TailFacts
<1> HIDE DEF one, rest
<1>3. PICK n \in Nat : /\ Len(t) = n + 1 /\ Len(rest) = n
                      /\ \A i \in 1 .. n : rest[i] = t[i + 1]
  BY <1>2
<1>4. /\ one \o rest \in Seq(S) /\ Len(one \o rest) = n + 1
      /\ \A i \in 1 .. n + 1 : (one \o rest)[i] = IF i <= 1 THEN one[i] ELSE rest[i - 1]
  <2>1. /\ one \o rest \in Seq(S) /\ Len(one \o rest) = Len(one) + Len(rest)
        /\ \A i \in 1 .. Len(one) + Len(rest) :
             (one \o rest)[i] = IF i <= Len(one) THEN one[i] ELSE rest[i - Len(one)]
    BY <1>1, ConcatProperties
  <2>2. Len(one) + Len(rest) = n + 1
    BY <1>1, <1>3
  <2> QED
    BY <1>1, <2>1, <2>2
<1>5. ASSUME NEW i \in 1 .. n + 1 PROVE (one \o rest)[i] = t[i]
  <2>1. CASE i = 1
    BY <2>1, <1>1, <1>4
  <2>2. CASE i > 1
    <3>1. i - 1 \in 1 .. n /\ (i - 1) + 1 = i /\ ~(i <= 1)
      BY <2>2
    <3>2. (one \o rest)[i] = rest[i - 1]
      BY <3>1, <1>4
    <3>3. rest[i - 1] = t[(i - 1) + 1]
      BY <3>1, <1>3
    <3> QED
      BY <3>1, <3>2, <3>3
  <2>3. i = 1 \/ i > 1
    OBVIOUS
  <2> QED
    BY <2>1, <2>2, <2>3
<1>6. one \o rest = t
  BY <1>3, <1>4, <1>5, SeqEqual
<1> QED
  BY <1>6 DEF one, rest

LEMMA AppendHead ==
  ASSUME NEW S, NEW s \in Seq(S), NEW t \in Seq(S), t # << >>
  PROVE  Append(s, Head(t)) \o Tail(t) = s \o t
<1>1. Head(t) \in S /\ << Head(t) >> \in Seq(S) /\ Tail(t) \in Seq(S)
  BY TailFacts
<1>2. Append(s, Head(t)) = s \o << Head(t) >>
  BY <1>1, AppendIsConcat
<1>3. (s \o << Head(t) >>) \o Tail(t) = s \o (<< Head(t) >> \o Tail(t))
  BY <1>1, ConcatAssociative
<1> QED
  BY <1>2, <1>3, HeadConcatTail

(* An element of s \o t is one of s or one of t. *)
LEMMA ConcatFacts ==
  ASSUME NEW S, NEW s \in Seq(S), NEW t \in Seq(S), NEW i \in DOMAIN (s \o t)
  PROVE  /\ i \in Nat
         /\ \/ i \in 1 .. Len(s) /\ (s \o t)[i] = s[i]
            \/ \E j \in 1 .. Len(t) : i = Len(s) + j /\ (s \o t)[i] = t[j]
<1> DEFINE m == Len(s)
           n == Len(t)
           join == s \o t
<1>1. m \in Nat /\ n \in Nat
  BY LenProperties
<1>2. /\ i \in 1 .. m + n
      /\ \A k \in 1 .. m + n : join[k] = IF k <= m THEN s[k] ELSE t[k - m]
  <2>1. join \in Seq(S) /\ Len(join) = m + n
    BY ConcatProperties
  <2>2. DOMAIN join = 1 .. m + n
    BY <2>1, LenProperties
  <2> QED
    BY <2>2, ConcatProperties
<1> HIDE DEF m, n, join
<1>3. CASE i <= m
  BY <1>1, <1>2, <1>3 DEF m, join
<1>4. CASE i > m
  <2>1. i - m \in 1 .. n /\ i = m + (i - m) /\ join[i] = t[i - m] /\ i \in Nat
    BY <1>1, <1>2, <1>4
  <2> QED
    BY <2>1 DEF m, n, join
<1> QED
  BY <1>1, <1>2, <1>3, <1>4

(* The elements of a sequence. *)
LEMMA RangeFacts ==
  ASSUME NEW S, NEW s \in Seq(S)
  PROVE  /\ Range(<< >>) = {}
         /\ Range(s) \subseteq S
         /\ \A e \in S : Range(Append(s, e)) = Range(s) \cup {e}
         /\ s # << >> => Head(s) \in Range(s) /\ Range(Tail(s)) \subseteq Range(s)
<1>1. Range(<< >>) = {}
  BY DEF Range
<1>2. Range(s) \subseteq S
  BY LenProperties DEF Range
<1>3. ASSUME NEW e \in S PROVE Range(Append(s, e)) = Range(s) \cup {e}
  <2> DEFINE more == Append(s, e)
             n == Len(s)
  <2>1. n \in Nat /\ DOMAIN s = 1 .. n
    BY LenProperties
  <2>2. more \in Seq(S) /\ Len(more) = n + 1
    BY AppendFacts
  <2>3. DOMAIN more = 1 .. n + 1
    BY <2>2, LenProperties
  <2>4. (\A i \in 1 .. n : more[i] = s[i]) /\ more[n + 1] = e
    BY AppendFacts
  <2> HIDE DEF more, n
  <2> QED
    BY <2>1, <2>3, <2>4 DEF Range, more
<1>4. ASSUME s # << >>
      PROVE  Head(s) \in Range(s) /\ Range(Tail(s)) \subseteq Range(s)
  <2> DEFINE rest == Tail(s)
             n == Len(s)
  <2>1. n \in Nat \ {0} /\ DOMAIN s = 1 .. n
    BY <1>4, TailFacts, LenProperties
  <2>2. rest \in Seq(S) /\ Len(rest) = n - 1 /\ Head(s) = s[1]
    BY <1>4, TailFacts
  <2>3. DOMAIN rest = 1 .. n - 1
    BY <2>2, LenProperties
  <2>4. \A i \in 1 .. n - 1 : rest[i] = s[i + 1]
    BY <1>4, TailFacts
  <2> HIDE DEF rest, n
  <2>5. Head(s) \in Range(s)
    BY <2>1, <2>2 DEF Range
  <2>6. Range(rest) \subseteq Range(s)
    BY <2>1, <2>3, <2>4 DEF Range
  <2> QED
    BY <2>5, <2>6 DEF rest
<1> QED
  BY <1>1, <1>2, <1>3, <1>4
==============================================================================
