-------------------------- MODULE SequenceMembers --------------------------
(***************************************************************************)
(* What a sequence holds, and whether it holds it once: lemmas about       *)
(* Append, Head and Tail, and concatenation that the proofs about queues   *)
(* and lists of items need.                                                *)
(***************************************************************************)
EXTENDS Integers, Sequences, TLAPS

\* The members of a sequence.
Held(s) == {s[i] : i \in 1..Len(s)}

\* No member comes twice.
Once(s) == \A i, j \in 1..Len(s) : s[i] = s[j] => i = j

\* The empty sequence holds nothing.
LEMMA HeldEmpty ==
  ASSUME NEW S
  PROVE  <<>> \in Seq(S) /\ Held(<<>>) = {} /\ Once(<<>>)
  BY DEF Held, Once

\* A function on 1..n is a sequence.
LEMMA FunctionSeq ==
  ASSUME NEW S, NEW n \in Nat, NEW f \in [1..n -> S]
  PROVE  f \in Seq(S) /\ Len(f) = n
  OBVIOUS

\* What an appended sequence holds, and when it stays without repetition.
LEMMA HeldAppend ==
  ASSUME NEW S, NEW s \in Seq(S), NEW x \in S
  PROVE  /\ Append(s, x) \in Seq(S)
         /\ Held(Append(s, x)) = Held(s) \union {x}
         /\ Once(s) /\ x \notin Held(s) => Once(Append(s, x))
  <1> DEFINE t == Append(s, x)
  <1>1. t \in Seq(S) /\ Len(t) = Len(s) + 1 /\ t[Len(s) + 1] = x /\ Len(s) \in Nat
    OBVIOUS
  <1>2. \A i \in 1..Len(s) : t[i] = s[i]
    OBVIOUS
  <1> HIDE DEF t
  <1>3. \A i \in 1..Len(t) : i \in 1..Len(s) \/ i = Len(s) + 1
    BY <1>1
  <1>4. Held(t) = Held(s) \union {x}
    <2>1. 1..Len(s) \subseteq 1..Len(t) /\ Len(s) + 1 \in 1..Len(t)
      BY <1>1
    <2>2. QED
      BY <1>1, <1>2, <1>3, <2>1 DEF Held
  <1>5. ASSUME Once(s), x \notin Held(s)
        PROVE  Once(t)
    BY <1>1, <1>2, <1>3, <1>5 DEF Once, Held
  <1>6. QED
    BY <1>1, <1>4, <1>5 DEF t

\* Taking the head: it is gone from a sequence without repetition.
LEMMA HeldTail ==
  ASSUME NEW S, NEW s \in Seq(S), s # <<>>
  PROVE  /\ Tail(s) \in Seq(S) /\ Head(s) \in S
         /\ Head(s) \in Held(s) /\ Held(Tail(s)) \subseteq Held(s)
         /\ Held(s) = {Head(s)} \union Held(Tail(s))
         /\ Once(s) => Once(Tail(s)) /\ Head(s) \notin Held(Tail(s))
  <1> DEFINE t == Tail(s)
             n == Len(s)
  <1>1. n \in Nat /\ n > 0 /\ t \in Seq(S) /\ Len(t) = n - 1
    OBVIOUS
  <1>2. \A i \in 1..Len(t) : t[i] = s[i + 1]
    OBVIOUS
  <1>3. Head(s) = s[1] /\ s[1] \in S
    OBVIOUS
  <1> HIDE DEF t
  <1>4. \A i \in 1..Len(t) : i + 1 \in 1..n /\ i + 1 # 1
    BY <1>1
  <1>5. 1 \in 1..n
    BY <1>1
  <1>6. Held(s) = {Head(s)} \union Held(t)
    <2>1. Head(s) \in Held(s) /\ Held(t) \subseteq Held(s)
      BY <1>2, <1>3, <1>4, <1>5 DEF Held
    <2>2. ASSUME NEW i \in 1..n
          PROVE  i = 1 \/ (i - 1 \in 1..Len(t) /\ i = (i - 1) + 1)
      BY <1>1
    <2>3. ASSUME NEW i \in 1..n
          PROVE  s[i] \in {Head(s)} \union Held(t)
      BY <1>2, <1>3, <2>2 DEF Held
    <2>4. QED
      BY <2>1, <2>3 DEF Held
  <1>7. ASSUME Once(s)
        PROVE  Once(t) /\ Head(s) \notin Held(t)
    <2>1. ASSUME NEW i \in 1..Len(t), NEW j \in 1..Len(t), t[i] = t[j]
          PROVE  i = j
      <3>1. i + 1 = j + 1
        BY <1>2, <1>4, <1>7, <2>1 DEF Once
      <3>2. QED
        BY <1>1, <3>1
    <2>2. ASSUME NEW i \in 1..Len(t), t[i] = Head(s)
          PROVE  FALSE
      BY <1>2, <1>3, <1>4, <1>5, <1>7, <2>2 DEF Once
    <2>3. QED
      BY <2>1, <2>2 DEF Once, Held
  <1>8. QED
    BY <1>1, <1>3, <1>6, <1>7 DEF t

\* What a concatenation holds, and when it is without repetition.
LEMMA HeldConcat ==
  ASSUME NEW S, NEW s \in Seq(S), NEW t \in Seq(S)
  PROVE  /\ s \o t \in Seq(S)
         /\ Held(s \o t) = Held(s) \union Held(t)
         /\ Once(s) /\ Once(t) /\ Held(s) \cap Held(t) = {} => Once(s \o t)
  <1> DEFINE u == s \o t
             n == Len(s)
             m == Len(t)
  <1>1. u \in Seq(S) /\ Len(u) = n + m /\ n \in Nat /\ m \in Nat
    OBVIOUS
  <1>2. \A i \in 1..n : u[i] = s[i]
    OBVIOUS
  <1>3. \A i \in 1..m : u[n + i] = t[i]
    OBVIOUS
  <1> HIDE DEF u, n, m
  <1>4. \A i \in 1..n : i \in 1..Len(u)
    BY <1>1
  <1>5. \A i \in 1..m : n + i \in 1..Len(u)
    BY <1>1
  <1>6. ASSUME NEW i \in 1..Len(u)
        PROVE  i \in 1..n \/ \E k \in 1..m : i = n + k
    <2>1. i \in 1..n \/ (i - n \in 1..m /\ i = n + (i - n))
      BY <1>1
    <2>2. QED
      BY <2>1
  <1>7. Held(u) = Held(s) \union Held(t)
    <2>1. ASSUME NEW x \in Held(u)
          PROVE  x \in Held(s) \union Held(t)
      <3>1. PICK i \in 1..Len(u) : x = u[i]
        BY <2>1 DEF Held
      <3>2. CASE i \in 1..n
        BY <1>2, <3>1, <3>2 DEF Held, n
      <3>3. ASSUME NEW k \in 1..m, i = n + k
            PROVE  x \in Held(t)
        BY <1>3, <3>1, <3>3 DEF Held, m
      <3>4. QED
        BY <1>6, <3>2, <3>3
    <2>2. Held(s) \subseteq Held(u)
      BY <1>2, <1>4 DEF Held, n
    <2>3. Held(t) \subseteq Held(u)
      BY <1>3, <1>5 DEF Held, m
    <2>4. QED
      BY <2>1, <2>2, <2>3
  <1>8. ASSUME Once(s), Once(t), Held(s) \cap Held(t) = {}
        PROVE  Once(u)
    <2>1. \A i \in 1..n, k \in 1..m : s[i] # t[k]
      BY <1>8 DEF Held, n, m
    <2>2. ASSUME NEW i \in 1..Len(u), NEW j \in 1..Len(u), u[i] = u[j]
          PROVE  i = j
      <3>1. CASE i \in 1..n /\ j \in 1..n
        BY <1>2, <1>8, <2>2, <3>1 DEF Once, n
      <3>2. ASSUME i \in 1..n \/ j \in 1..n, NEW k \in 1..m, i = n + k \/ j = n + k,
                   ~(i \in 1..n /\ j \in 1..n)
            PROVE  FALSE
        BY <1>2, <1>3, <2>1, <2>2, <3>2
      <3>3. ASSUME NEW k \in 1..m, NEW l \in 1..m, i = n + k, j = n + l
            PROVE  i = j
        BY <1>3, <1>8, <2>2, <3>3 DEF Once, m
      <3>4. QED
        BY <1>6, <3>1, <3>2, <3>3
    <2>3. QED
      BY <2>2 DEF Once
  <1>9. QED
    BY <1>1, <1>7, <1>8 DEF u

\* Only the empty sequence holds nothing.
LEMMA HeldNone ==
  ASSUME NEW S, NEW s \in Seq(S), s # <<>>
  PROVE  Held(s) # {}
  BY HeldTail

\* A longer sequence has a tail, another holds its head only.
LEMMA TailLeft ==
  ASSUME NEW S, NEW s \in Seq(S), s # <<>>
  PROVE  /\ Len(s) > 1 => Tail(s) # <<>>
         /\ ~(Len(s) > 1) => Held(s) = {Head(s)}
  <1>1. Len(s) \in Nat /\ Len(s) > 0 /\ Len(Tail(s)) = Len(s) - 1 /\ Head(s) = s[1]
    OBVIOUS
  <1>2. ASSUME Len(s) > 1
        PROVE  Tail(s) # <<>>
    <2>1. Len(Tail(s)) # 0
      BY <1>1, <1>2
    <2>2. Len(<<>>) = 0
      OBVIOUS
    <2>3. QED
      BY <2>1, <2>2
  <1>3. ASSUME ~(Len(s) > 1)
        PROVE  Held(s) = {Head(s)}
    <2>1. Len(s) = 1
      BY <1>1, <1>3
    <2>2. 1..Len(s) = {1}
      BY <2>1
    <2>3. QED
      BY <1>1, <2>2 DEF Held
  <1>4. QED
    BY <1>2, <1>3

\* What short tuples hold.
LEMMA HeldOne ==
  ASSUME NEW S, NEW a \in S
  PROVE  <<a>> \in Seq(S) /\ <<a>> # <<>> /\ Held(<<a>>) = {a}
  <1>1. Len(<<a>>) = 1
    OBVIOUS
  <1>2. QED
    BY <1>1 DEF Held

LEMMA HeldTwo ==
  ASSUME NEW S, NEW a \in S, NEW b \in S
  PROVE  <<a, b>> \in Seq(S) /\ Held(<<a, b>>) = {a, b}
  <1>1. Len(<<a, b>>) = 2
    OBVIOUS
  <1>2. Held(<<a, b>>) = {a, b}
    BY <1>1 DEF Held
  <1>3. QED
    BY <1>2

LEMMA HeldThree ==
  ASSUME NEW S, NEW a \in S, NEW b \in S, NEW c \in S
  PROVE  <<a, b, c>> \in Seq(S) /\ <<a, b, c>> # <<>> /\ Held(<<a, b, c>>) = {a, b, c}
  <1>1. Len(<<a, b, c>>) = 3
    OBVIOUS
  <1>2. Held(<<a, b, c>>) = {a, b, c}
    BY <1>1 DEF Held
  <1>3. QED
    BY <1>2

LEMMA HeldFive ==
  ASSUME NEW S, NEW a \in S, NEW b \in S, NEW c \in S, NEW d \in S, NEW e \in S
  PROVE  <<a, b, c, d, e>> \in Seq(S) /\ Held(<<a, b, c, d, e>>) = {a, b, c, d, e}
  <1>1. Len(<<a, b, c, d, e>>) = 5
    OBVIOUS
  <1>2. Held(<<a, b, c, d, e>>) = {a, b, c, d, e}
    BY <1>1 DEF Held
  <1>3. QED
    BY <1>2
=============================================================================
