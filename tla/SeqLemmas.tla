------------------------------- MODULE SeqLemmas -------------------------------
(***************************************************************************)
(* What Append, Head, Tail and \o do to the set of elements of a sequence  *)
(* and to its freedom from repetitions: the only facts about Go's slices   *)
(* that the proofs about the message queue need.                           *)
(***************************************************************************)
EXTENDS Integers, Sequences, Functions, TLAPS

(* The empty sequence has no elements and no repetitions.                  *)
LEMMA EmptySeqFacts == Range(<<>>) = {} /\ IsInjective(<<>>)
  BY DEF Range, IsInjective

(* The first element of a non-empty sequence and the rest make it up; of a *)
(* sequence without repetitions, the rest does not hold the first.         *)
LEMMA HeadTailFacts ==
  ASSUME NEW S, NEW s \in Seq(S), s # <<>>
  PROVE  /\ Head(s) \in S
         /\ Tail(s) \in Seq(S)
         /\ Len(Tail(s)) = Len(s) - 1
         /\ Range(s) = {Head(s)} \cup Range(Tail(s))
         /\ IsInjective(s) =>
              IsInjective(Tail(s)) /\ Head(s) \notin Range(Tail(s))
<1>1. /\ Len(s) \in Nat \ {0}
      /\ DOMAIN s = 1 .. Len(s)
      /\ Head(s) = s[1]
  OBVIOUS
<1>2. /\ Tail(s) \in Seq(S)
      /\ Len(Tail(s)) = Len(s) - 1
      /\ DOMAIN Tail(s) = 1 .. (Len(s) - 1)
      /\ \A i \in 1 .. (Len(s) - 1) : Tail(s)[i] = s[i + 1]
  OBVIOUS
<1>3. Range(s) \subseteq {Head(s)} \cup Range(Tail(s))
  <2> SUFFICES ASSUME NEW i \in 1 .. Len(s), s[i] # s[1]
               PROVE  s[i] \in Range(Tail(s))
    BY <1>1 DEF Range
  <2>1. i - 1 \in 1 .. (Len(s) - 1) /\ Tail(s)[i - 1] = s[i]
    BY <1>1, <1>2
  <2> QED BY <2>1, <1>2 DEF Range
<1>4. {Head(s)} \cup Range(Tail(s)) \subseteq Range(s)
  <2>1. s[1] \in Range(s)
    BY <1>1 DEF Range
  <2>2. ASSUME NEW i \in 1 .. (Len(s) - 1)
        PROVE  Tail(s)[i] \in Range(s)
    <3>1. i + 1 \in 1 .. Len(s) /\ Tail(s)[i] = s[i + 1]
      BY <1>1, <1>2
    <3> QED BY <3>1, <1>1 DEF Range
  <2> QED BY <2>1, <2>2, <1>1, <1>2 DEF Range
<1>5. ASSUME IsInjective(s)
      PROVE  IsInjective(Tail(s)) /\ Head(s) \notin Range(Tail(s))
  <2>1. ASSUME NEW i \in 1 .. (Len(s) - 1), NEW j \in 1 .. (Len(s) - 1),
               Tail(s)[i] = Tail(s)[j]
        PROVE  i = j
    <3>1. i + 1 \in DOMAIN s /\ j + 1 \in DOMAIN s /\ s[i + 1] = s[j + 1]
      BY <1>1, <1>2, <2>1
    <3>2. i + 1 = j + 1
      BY <3>1, <1>5 DEF IsInjective
    <3> QED BY <3>2
  <2>2. ASSUME NEW i \in 1 .. (Len(s) - 1), Tail(s)[i] = Head(s)
        PROVE  FALSE
    <3>1. i + 1 \in DOMAIN s /\ 1 \in DOMAIN s /\ s[i + 1] = s[1]
      BY <1>1, <1>2, <2>2
    <3>2. i + 1 = 1
      BY <3>1, <1>5 DEF IsInjective
    <3> QED BY <3>2
  <2> QED BY <2>1, <2>2, <1>2 DEF IsInjective, Range
<1> QED BY <1>1, <1>2, <1>3, <1>4, <1>5

(* Append adds one element, at the end.                                    *)
LEMMA AppendFacts ==
  ASSUME NEW S, NEW s \in Seq(S), NEW e \in S
  PROVE  /\ Append(s, e) \in Seq(S)
         /\ Len(Append(s, e)) = Len(s) + 1
         /\ Range(Append(s, e)) = Range(s) \cup {e}
         /\ IsInjective(s) /\ e \notin Range(s) => IsInjective(Append(s, e))
<1>1. Len(s) \in Nat /\ DOMAIN s = 1 .. Len(s)
  OBVIOUS
<1>2. /\ Append(s, e) \in Seq(S)
      /\ Len(Append(s, e)) = Len(s) + 1
      /\ DOMAIN Append(s, e) = 1 .. (Len(s) + 1)
      /\ \A i \in 1 .. Len(s) : Append(s, e)[i] = s[i]
      /\ Append(s, e)[Len(s) + 1] = e
  OBVIOUS
<1>3. Range(Append(s, e)) \subseteq Range(s) \cup {e}
  <2> SUFFICES ASSUME NEW i \in 1 .. (Len(s) + 1), i # Len(s) + 1
               PROVE  Append(s, e)[i] \in Range(s)
    BY <1>2 DEF Range
  <2>1. i \in 1 .. Len(s)
    BY <1>1
  <2> QED BY <2>1, <1>1, <1>2 DEF Range
<1>4. Range(s) \cup {e} \subseteq Range(Append(s, e))
  <2>1. e \in Range(Append(s, e))
    <3>1. Len(s) + 1 \in 1 .. (Len(s) + 1)
      BY <1>1
    <3> QED BY <3>1, <1>2 DEF Range
  <2>2. ASSUME NEW i \in 1 .. Len(s)
        PROVE  s[i] \in Range(Append(s, e))
    <3>1. i \in 1 .. (Len(s) + 1)
      BY <1>1
    <3> QED BY <3>1, <1>2 DEF Range
  <2> QED BY <2>1, <2>2, <1>1 DEF Range
<1>5. ASSUME IsInjective(s), e \notin Range(s)
      PROVE  IsInjective(Append(s, e))
  <2> SUFFICES ASSUME NEW i \in 1 .. (Len(s) + 1), NEW j \in 1 .. (Len(s) + 1),
                      Append(s, e)[i] = Append(s, e)[j]
               PROVE  i = j
    BY <1>2 DEF IsInjective
  <2>1. CASE i \in 1 .. Len(s) /\ j \in 1 .. Len(s)
    BY <2>1, <1>1, <1>2, <1>5 DEF IsInjective
  <2>2. CASE i = Len(s) + 1 /\ j \in 1 .. Len(s)
    BY <2>2, <1>1, <1>2, <1>5 DEF Range
  <2>3. CASE j = Len(s) + 1 /\ i \in 1 .. Len(s)
    BY <2>3, <1>1, <1>2, <1>5 DEF Range
  <2>4. CASE i = Len(s) + 1 /\ j = Len(s) + 1
    BY <2>4
  <2> QED BY <2>1, <2>2, <2>3, <2>4, <1>1
<1> QED BY <1>2, <1>3, <1>4, <1>5

(* Concatenation unites the elements; two sequences without repetitions or *)
(* common elements make one without repetitions.                           *)
LEMMA ConcatFacts ==
  ASSUME NEW S, NEW s \in Seq(S), NEW t \in Seq(S)
  PROVE  /\ s \o t \in Seq(S)
         /\ Range(s \o t) = Range(s) \cup Range(t)
         /\ IsInjective(s) /\ IsInjective(t) /\ Range(s) \cap Range(t) = {}
              => IsInjective(s \o t)
<1>1. /\ Len(s) \in Nat /\ DOMAIN s = 1 .. Len(s)
      /\ Len(t) \in Nat /\ DOMAIN t = 1 .. Len(t)
  OBVIOUS
<1>2. /\ s \o t \in Seq(S)
      /\ DOMAIN (s \o t) = 1 .. (Len(s) + Len(t))
      /\ \A i \in 1 .. Len(s) : (s \o t)[i] = s[i]
      /\ \A i \in (Len(s) + 1) .. (Len(s) + Len(t)) :
            (s \o t)[i] = t[i - Len(s)]
  OBVIOUS
<1>3. ASSUME NEW i \in 1 .. (Len(s) + Len(t))
      PROVE  \/ i \in 1 .. Len(s)
             \/ i - Len(s) \in 1 .. Len(t) /\ i \in (Len(s) + 1) .. (Len(s) + Len(t))
  BY <1>1
<1>4. Range(s \o t) \subseteq Range(s) \cup Range(t)
  <2> SUFFICES ASSUME NEW i \in 1 .. (Len(s) + Len(t))
               PROVE  (s \o t)[i] \in Range(s) \cup Range(t)
    BY <1>2 DEF Range
  <2> QED BY <1>1, <1>2, <1>3 DEF Range
<1>5. Range(s) \cup Range(t) \subseteq Range(s \o t)
  <2>1. ASSUME NEW i \in 1 .. Len(s)
        PROVE  s[i] \in Range(s \o t)
    <3>1. i \in 1 .. (Len(s) + Len(t))
      BY <1>1
    <3> QED BY <3>1, <1>2 DEF Range
  <2>2. ASSUME NEW i \in 1 .. Len(t)
        PROVE  t[i] \in Range(s \o t)
    <3>1. /\ i + Len(s) \in (Len(s) + 1) .. (Len(s) + Len(t))
          /\ i + Len(s) \in 1 .. (Len(s) + Len(t))
          /\ (i + Len(s)) - Len(s) = i
      BY <1>1
    <3>2. (s \o t)[i + Len(s)] = t[i]
      BY <3>1, <1>2
    <3> QED BY <3>1, <3>2, <1>2 DEF Range
  <2> QED BY <2>1, <2>2, <1>1 DEF Range
<1>6. ASSUME IsInjective(s), IsInjective(t), Range(s) \cap Range(t) = {}
      PROVE  IsInjective(s \o t)
  <2> SUFFICES ASSUME NEW i \in 1 .. (Len(s) + Len(t)),
                      NEW j \in 1 .. (Len(s) + Len(t)),
                      (s \o t)[i] = (s \o t)[j]
               PROVE  i = j
    BY <1>2 DEF IsInjective
  <2>1. CASE i \in 1 .. Len(s) /\ j \in 1 .. Len(s)
    BY <2>1, <1>1, <1>2, <1>6 DEF IsInjective
  <2>2. CASE i \in 1 .. Len(s) /\ j \notin 1 .. Len(s)
    <3>1. s[i] \in Range(s) /\ t[j - Len(s)] \in Range(t)
      BY <2>2, <1>1, <1>3 DEF Range
    <3> QED BY <3>1, <2>2, <1>2, <1>3, <1>6
  <2>3. CASE j \in 1 .. Len(s) /\ i \notin 1 .. Len(s)
    <3>1. s[j] \in Range(s) /\ t[i - Len(s)] \in Range(t)
      BY <2>3, <1>1, <1>3 DEF Range
    <3> QED BY <3>1, <2>3, <1>2, <1>3, <1>6
  <2>4. CASE i \notin 1 .. Len(s) /\ j \notin 1 .. Len(s)
    <3>1. i - Len(s) \in DOMAIN t /\ j - Len(s) \in DOMAIN t
      BY <2>4, <1>1, <1>3
    <3>2. t[i - Len(s)] = t[j - Len(s)]
      BY <2>4, <1>2, <1>3
    <3>3. i - Len(s) = j - Len(s)
      BY <3>1, <3>2, <1>6 DEF IsInjective
    <3> QED BY <3>3, <1>1
  <2> QED BY <2>1, <2>2, <2>3, <2>4
<1> QED BY <1>2, <1>4, <1>5, <1>6
===============================================================================
