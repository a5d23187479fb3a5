--------------------------- MODULE SequenceLemmas ---------------------------
(***************************************************************************)
(* What adding an element at the end of a sequence, or taking one away,    *)
(* does to its length, to its elements and to its having no repetitions:   *)
(* used for the queues, the stacks and the plan lists.                     *)
(***************************************************************************)
EXTENDS SequencesExt, SequenceTheorems, TLAPS

\* A new element at the end.
LEMMA Appended ==
    ASSUME NEW S, NEW seq \in Seq(S), NEW e \in S
    PROVE  /\ Append(seq, e) \in Seq(S)
           /\ Len(Append(seq, e)) = Len(seq) + 1
           /\ Range(Append(seq, e)) = Range(seq) \cup {e}
           /\ IsInjective(seq) /\ e \notin Range(seq) => IsInjective(Append(seq, e))
<1> DEFINE new == Append(seq, e)
<1>1. /\ new \in Seq(S) /\ Len(new) = Len(seq) + 1
      /\ \A i \in 1..Len(seq) : new[i] = seq[i]
      /\ new[Len(seq) + 1] = e
  BY AppendProperties
<1>2. Len(seq) \in Nat /\ DOMAIN seq = 1..Len(seq) /\ DOMAIN new = 1..(Len(seq) + 1)
  BY <1>1, LenProperties
<1>3. Range(new) = Range(seq) \cup {e}
  BY <1>1, <1>2 DEF Range
<1>4. IsInjective(seq) /\ e \notin Range(seq) => IsInjective(new)
  BY <1>1, <1>2 DEF IsInjective, Range
<1> QED BY <1>1, <1>3, <1>4

\* The first element is taken away.
LEMMA Tailed ==
    ASSUME NEW S, NEW seq \in Seq(S), seq # <<>>
    PROVE  /\ Head(seq) \in S /\ Tail(seq) \in Seq(S)
           /\ Len(Tail(seq)) = Len(seq) - 1
           /\ Range(seq) = {Head(seq)} \cup Range(Tail(seq))
           /\ IsInjective(seq) => /\ IsInjective(Tail(seq))
                                  /\ Head(seq) \notin Range(Tail(seq))
<1> DEFINE rest == Tail(seq)
<1>1. /\ Head(seq) \in S /\ rest \in Seq(S) /\ Len(rest) = Len(seq) - 1
      /\ \A i \in 1..Len(rest) : rest[i] = seq[i + 1]
  BY HeadTailProperties
<1>2. Head(seq) = seq[1]
  OBVIOUS
<1>3. /\ Len(seq) \in Nat /\ Len(seq) >= 1
      /\ DOMAIN seq = 1..Len(seq) /\ DOMAIN rest = 1..(Len(seq) - 1)
  BY <1>1, LenProperties, EmptySeq
<1>4. Range(seq) = {Head(seq)} \cup Range(rest)
  <2>1. ASSUME NEW i \in 1..Len(seq) PROVE seq[i] \in {seq[1]} \cup Range(rest)
    <3>1. CASE i = 1
      BY <3>1
    <3>2. CASE i > 1
      <4>1. i - 1 \in DOMAIN rest /\ rest[i - 1] = seq[i]
        BY <1>1, <1>3, <3>2
      <4> QED BY <4>1 DEF Range
    <3> QED BY <1>3, <3>1, <3>2
  <2>2. Range(rest) \subseteq Range(seq) /\ seq[1] \in Range(seq)
    BY <1>1, <1>3 DEF Range
  <2> QED BY <1>2, <1>3, <2>1, <2>2 DEF Range
<1>5. IsInjective(seq) => IsInjective(rest) /\ Head(seq) \notin Range(rest)
  BY <1>1, <1>2, <1>3 DEF IsInjective, Range
<1> QED BY <1>1, <1>4, <1>5

\* The last element is taken away.
LEMMA Fronted ==
    ASSUME NEW S, NEW seq \in Seq(S), seq # <<>>
    PROVE  /\ Last(seq) \in S /\ Front(seq) \in Seq(S)
           /\ Len(Front(seq)) = Len(seq) - 1
           /\ Range(seq) = {Last(seq)} \cup Range(Front(seq))
           /\ IsInjective(seq) => /\ IsInjective(Front(seq))
                                  /\ Last(seq) \notin Range(Front(seq))
<1> DEFINE rest == Front(seq)
<1>1. Len(seq) \in Nat /\ Len(seq) >= 1 /\ DOMAIN seq = 1..Len(seq)
  BY LenProperties, EmptySeq
<1>2. /\ rest \in Seq(S) /\ Len(rest) = Len(seq) - 1
      /\ \A i \in 1..(Len(seq) - 1) : rest[i] = seq[i]
  <2> DEFINE n == Len(seq) - 1
  <2>1. n \in Nat /\ \A i \in 1..n : seq[i] \in S
    BY <1>1, ElementOfSeq
  <2> HIDE DEF n
  <2>2. /\ SubSeq(seq, 1, n) \in Seq(S)
        /\ Len(SubSeq(seq, 1, n)) = IF 1 <= n THEN n - 1 + 1 ELSE 0
        /\ \A i \in 1..(n - 1 + 1) : SubSeq(seq, 1, n)[i] = seq[1 + i - 1]
    BY <2>1, SubSeqProperties
  <2>3. Len(SubSeq(seq, 1, n)) = n
    BY <2>1, <2>2
  <2>4. \A i \in 1..n : SubSeq(seq, 1, n)[i] = seq[i]
    BY <2>1, <2>2
  <2> QED BY <2>2, <2>3, <2>4 DEF n, Front
<1>3. Last(seq) = seq[Len(seq)] /\ Last(seq) \in S
  BY <1>1, ElementOfSeq DEF Last
<1>4. DOMAIN rest = 1..(Len(seq) - 1)
  BY <1>2, LenProperties
<1>5. Range(seq) = {Last(seq)} \cup Range(rest)
  BY <1>1, <1>2, <1>3, <1>4 DEF Range
<1>6. IsInjective(seq) => IsInjective(rest) /\ Last(seq) \notin Range(rest)
  BY <1>1, <1>2, <1>3, <1>4 DEF IsInjective, Range
<1> QED BY <1>2, <1>3, <1>5, <1>6

\* An element is taken out.
LEMMA Removed ==
    ASSUME NEW S, NEW seq \in Seq(S), NEW k \in 1..Len(seq)
    PROVE  /\ RemoveAt(seq, k) \in Seq(S)
           /\ Len(RemoveAt(seq, k)) = Len(seq) - 1
           /\ \A i \in 1..(Len(seq) - 1) :
                 RemoveAt(seq, k)[i] = IF i < k THEN seq[i] ELSE seq[i + 1]
<1> DEFINE n == Len(seq)
           before == SubSeq(seq, 1, k - 1)
           after == SubSeq(seq, k + 1, n)
           rest == before \o after
<1>1. n \in Nat /\ k \in Nat /\ 1 <= k /\ k <= n /\ \A i \in 1..n : seq[i] \in S
  BY LenProperties, ElementOfSeq
<1> HIDE DEF n
<1>2. /\ before \in Seq(S) /\ Len(before) = k - 1
      /\ \A i \in 1..(k - 1) : before[i] = seq[i]
  <2>1. k - 1 \in Int /\ \A i \in 1..(k - 1) : seq[i] \in S
    BY <1>1
  <2>2. /\ before \in Seq(S) /\ Len(before) = IF 1 <= k - 1 THEN (k - 1) - 1 + 1 ELSE 0
        /\ \A i \in 1..((k - 1) - 1 + 1) : before[i] = seq[1 + i - 1]
    BY <2>1, SubSeqProperties
  <2>3. Len(before) = k - 1
    BY <1>1, <2>2
  <2>4. \A i \in 1..(k - 1) : before[i] = seq[i]
    BY <1>1, <2>2
  <2> QED BY <2>2, <2>3, <2>4
<1>3. /\ after \in Seq(S) /\ Len(after) = n - k
      /\ \A i \in 1..(n - k) : after[i] = seq[k + i]
  <2>1. k + 1 \in Int /\ n \in Int /\ \A i \in (k + 1)..n : seq[i] \in S
    BY <1>1
  <2>2. /\ after \in Seq(S) /\ Len(after) = IF k + 1 <= n THEN n - (k + 1) + 1 ELSE 0
        /\ \A i \in 1..(n - (k + 1) + 1) : after[i] = seq[(k + 1) + i - 1]
    BY <2>1, SubSeqProperties
  <2>3. Len(after) = n - k
    BY <1>1, <2>2
  <2>4. \A i \in 1..(n - k) : after[i] = seq[k + i]
    BY <1>1, <2>2
  <2> QED BY <2>2, <2>3, <2>4
<1> HIDE DEF before, after
<1>4. /\ rest \in Seq(S)
      /\ Len(rest) = n - 1
      /\ \A i \in 1..(n - 1) : rest[i] =
            IF i <= k - 1 THEN before[i] ELSE after[i - (k - 1)]
  <2>1. /\ rest \in Seq(S)
        /\ Len(rest) = Len(before) + Len(after)
        /\ \A i \in 1..(Len(before) + Len(after)) : rest[i] =
              IF i <= Len(before) THEN before[i] ELSE after[i - Len(before)]
    BY <1>2, <1>3, ConcatProperties
  <2>2. Len(before) + Len(after) = n - 1
    BY <1>1, <1>2, <1>3
  <2> QED BY <1>2, <2>1, <2>2
<1> HIDE DEF rest
<1>5. \A i \in 1..(n - 1) : rest[i] = IF i < k THEN seq[i] ELSE seq[i + 1]
  <2> SUFFICES ASSUME NEW i \in 1..(n - 1)
               PROVE  rest[i] = IF i < k THEN seq[i] ELSE seq[i + 1]
    OBVIOUS
  <2>1. CASE i < k
    BY <1>1, <1>2, <1>4, <2>1
  <2>2. CASE i >= k
    <3>1. i - (k - 1) \in 1..(n - k) /\ k + (i - (k - 1)) = i + 1
      BY <1>1, <2>2
    <3>2. rest[i] = after[i - (k - 1)]
      BY <1>1, <1>4, <2>2
    <3>3. after[i - (k - 1)] = seq[i + 1]
      BY <1>3, <3>1
    <3>4. ~(i < k)
      BY <1>1, <2>2
    <3> QED BY <3>2, <3>3, <3>4
  <2> QED BY <1>1, <2>1, <2>2
<1> QED BY <1>4, <1>5 DEF RemoveAt, rest, before, after, n
=============================================================================
