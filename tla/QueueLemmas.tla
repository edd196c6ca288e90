------------------------------ MODULE QueueLemmas ------------------------------
(***************************************************************************)
(* Facts about sequences and sets that several proofs need: what           *)
(* DataQueue's push (Append) and pop (Head, Tail) do to the set of what is *)
(* queued and to its order, how the size of a set of threads changes when  *)
(* one enters or leaves, that a set of numbers has a smallest one, and     *)
(* what FlattenSeq makes of a sequence that grew at its end.               *)
(***************************************************************************)
EXTENDS Integers, Sequences, FiniteSets, SequencesExt, FiniteSetTheorems, SequenceTheorems,
        WellFoundedInduction, TLAPS

Entries(q)    == {q[k] : k \in DOMAIN q}
NoRepeat(q)   == \A j, k \in DOMAIN q : q[j] = q[k] => j = k
Increasing(q) == \A j, k \in DOMAIN q : j < k => q[j] < q[k]

\* A push adds one entry, at the end.
LEMMA PushEntries ==
  ASSUME NEW S, NEW q \in Seq(S), NEW x \in S
  PROVE  /\ Append(q, x) \in Seq(S)
         /\ Entries(Append(q, x)) = Entries(q) \cup {x}
         /\ NoRepeat(q) /\ x \notin Entries(q) => NoRepeat(Append(q, x))
<1> DEFINE p == Append(q, x)
<1>1. /\ p \in Seq(S) /\ Len(p) = Len(q) + 1 /\ Len(q) \in Nat
      /\ \A k \in 1..Len(q) : p[k] = q[k]
      /\ p[Len(q) + 1] = x
  BY AppendProperties
<1>2. DOMAIN q = 1..Len(q) /\ DOMAIN p = 1..Len(q) + 1
  BY <1>1
<1>3. \A k \in DOMAIN p : k \in DOMAIN q \/ k = Len(q) + 1
  BY <1>1, <1>2
<1> HIDE DEF p
<1>4. Entries(p) = Entries(q) \cup {x}
  BY <1>1, <1>2, <1>3 DEF Entries
<1>5. ASSUME NoRepeat(q), x \notin Entries(q), NEW j \in DOMAIN p, NEW k \in DOMAIN p,
             p[j] = p[k]
      PROVE  j = k
  BY <1>1, <1>2, <1>3, <1>5 DEF NoRepeat, Entries
<1> QED
  BY <1>1, <1>4, <1>5 DEF NoRepeat, p

\* A pop takes one entry out, the first.
LEMMA PopEntries ==
  ASSUME NEW S, NEW q \in Seq(S), q # <<>>
  PROVE  /\ Head(q) \in S /\ Tail(q) \in Seq(S)
         /\ Head(q) \in Entries(q)
         /\ Entries(q) = Entries(Tail(q)) \cup {Head(q)}
         /\ NoRepeat(q) => /\ NoRepeat(Tail(q))
                           /\ Head(q) \notin Entries(Tail(q))
<1> DEFINE p == Tail(q)
<1>1. /\ Head(q) \in S /\ p \in Seq(S) /\ Len(p) = Len(q) - 1 /\ Len(q) \in Nat
      /\ \A k \in 1..Len(p) : p[k] = q[k + 1]
  BY HeadTailProperties
<1>2. DOMAIN q = 1..Len(q) /\ DOMAIN p = 1..Len(q) - 1 /\ Len(q) > 0 /\ Head(q) = q[1]
  BY <1>1
<1> HIDE DEF p
<1>3. \A k \in DOMAIN p : k + 1 \in DOMAIN q /\ p[k] = q[k + 1] /\ k + 1 # 1
  BY <1>1, <1>2
<1>4. \A k \in DOMAIN q : k = 1 \/ (k - 1 \in DOMAIN p /\ q[k] = p[k - 1])
  BY <1>1, <1>2
<1>5. 1 \in DOMAIN q
  BY <1>1, <1>2
<1>6. Entries(q) = Entries(p) \cup {Head(q)}
  BY <1>2, <1>3, <1>4, <1>5 DEF Entries
<1>7. ASSUME NoRepeat(q)
      PROVE  NoRepeat(p) /\ Head(q) \notin Entries(p)
  <2>1. ASSUME NEW j \in DOMAIN p, NEW k \in DOMAIN p, p[j] = p[k]
        PROVE  j = k
    <3>1. j \in Int /\ k \in Int
      BY <1>1, <1>2
    <3> QED
      BY <1>3, <1>7, <2>1, <3>1 DEF NoRepeat
  <2>2. \A k \in DOMAIN p : p[k] # Head(q)
    BY <1>2, <1>3, <1>5, <1>7 DEF NoRepeat
  <2> QED
    BY <2>1, <2>2 DEF NoRepeat, Entries
<1> QED
  BY <1>1, <1>2, <1>5, <1>6, <1>7 DEF p, Entries

\* Pushing what exceeds every entry, and popping, keep a queue increasing.
LEMMA StaysIncreasing ==
  ASSUME NEW q \in Seq(Int), Increasing(q)
  PROVE  /\ NoRepeat(q)
         /\ \A x \in Int : (\A e \in Entries(q) : e < x) => Increasing(Append(q, x))
         /\ q # <<>> => Increasing(Tail(q)) /\ \A e \in Entries(Tail(q)) : Head(q) < e
<1>1. DOMAIN q = 1..Len(q) /\ Len(q) \in Nat /\ \A k \in DOMAIN q : q[k] \in Int
  OBVIOUS
<1>2. NoRepeat(q)
  BY <1>1 DEF NoRepeat, Increasing
<1>3. ASSUME NEW x \in Int, \A e \in Entries(q) : e < x
      PROVE  Increasing(Append(q, x))
  <2> DEFINE p == Append(q, x)
  <2>1. /\ Len(p) = Len(q) + 1 /\ p \in Seq(Int)
        /\ \A k \in 1..Len(q) : p[k] = q[k]
        /\ p[Len(q) + 1] = x
    BY AppendProperties
  <2>2. DOMAIN p = 1..Len(q) + 1
    BY <1>1, <2>1
  <2> HIDE DEF p
  <2>3. \A k \in DOMAIN q : q[k] < x
    BY <1>3 DEF Entries
  <2> QED
    BY <1>1, <2>1, <2>2, <2>3 DEF Increasing, p
<1>4. ASSUME q # <<>>
      PROVE  Increasing(Tail(q)) /\ \A e \in Entries(Tail(q)) : Head(q) < e
  <2> DEFINE p == Tail(q)
  <2>1. /\ Len(p) = Len(q) - 1 /\ p \in Seq(Int) /\ Head(q) = q[1] /\ Len(q) > 0
        /\ \A k \in 1..Len(p) : p[k] = q[k + 1]
    BY <1>1, <1>4, HeadTailProperties
  <2>2. DOMAIN p = 1..Len(q) - 1
    BY <1>1, <2>1
  <2> HIDE DEF p
  <2>3. \A k \in DOMAIN p : /\ k \in Int /\ k + 1 \in DOMAIN q /\ 1 < k + 1
                           /\ p[k] = q[k + 1]
    BY <1>1, <2>1, <2>2
  <2>4. Increasing(p)
    BY <2>3 DEF Increasing
  <2>5. 1 \in DOMAIN q
    BY <1>1, <2>1
  <2>6. \A k \in DOMAIN p : q[1] < p[k]
    BY <2>3, <2>5 DEF Increasing
  <2> QED
    BY <2>1, <2>4, <2>6 DEF Entries, p
<1> QED
  BY <1>2, <1>3, <1>4

\* A thread that enters or leaves a set of threads changes its size by one.
LEMMA CardinalityStep ==
  ASSUME NEW S, NEW w, IsFiniteSet(S)
  PROVE  /\ Cardinality(S) \in Nat
         /\ w \notin S => Cardinality(S \cup {w}) = Cardinality(S) + 1
         /\ w \in S => Cardinality(S \ {w}) = Cardinality(S) - 1
                     /\ Cardinality(S) > 0
<1>1. Cardinality(S) \in Nat
  BY FS_CardinalityType
<1>2. w \notin S => Cardinality(S \cup {w}) = Cardinality(S) + 1
  BY FS_AddElement
<1>3. ASSUME w \in S
      PROVE  Cardinality(S \ {w}) = Cardinality(S) - 1 /\ Cardinality(S) > 0
  <2>1. IsFiniteSet(S \ {w}) /\ Cardinality(S \ {w}) = Cardinality(S) - 1
    BY <1>3, FS_RemoveElement
  <2>2. Cardinality(S \ {w}) \in Nat
    BY <2>1, FS_CardinalityType
  <2> QED
    BY <1>1, <2>1, <2>2
<1> QED
  BY <1>1, <1>2, <1>3

\* The provers need to be told this of primed sizes.
LEMMA SumIsNatural == \A x, y \in Nat : 0 <= x + y
  OBVIOUS

\* A set of numbers has a smallest one.
LEMMA SmallestOf ==
  ASSUME NEW S, S \subseteq Nat, S # {}
  PROVE  \E x \in S : \A y \in S : x <= y
<1>1. \A x, y \in Nat : y < x => <<y, x>> \in OpToRel(<, Nat)
  BY Zenon DEF OpToRel
<1>2. \E x \in S : \A y \in S : ~ (<<y, x>> \in OpToRel(<, Nat))
  BY WFMin, NatLessThanWellFounded
<1>3. \E x \in S : \A y \in S : ~ (y < x)
  BY <1>1, <1>2
<1> QED
  BY <1>3

-----------------------------------------------------------------------------
(* FlattenSeq is a recursive function: that there is one, and no other, is *)
(* shown by looking at the first place where it would fail.                *)

\* f[i] is the first i sequences of s one after the other.
Sums(s, f) == f = [i \in 1..Len(s) |-> IF i = 1 THEN s[i] ELSE f[i-1] \o s[i]]

\* What FlattenSeq is, without its LET.
LEMMA FlattenIs ==
  ASSUME NEW s, Len(s) # 0
  PROVE  FlattenSeq(s) = (CHOOSE f : Sums(s, f))[Len(s)]
  BY Zenon DEF FlattenSeq, Sums

\* There is one such function at most.
LEMMA SumsUnique ==
  ASSUME NEW s, NEW f, NEW g, Len(s) \in Nat, Sums(s, f), Sums(s, g)
  PROVE  f = g
<1> DEFINE D == {i \in 1..Len(s) : f[i] # g[i]}
<1>1. ASSUME D # {}
      PROVE  FALSE
  <2>0. D \subseteq Nat
    OBVIOUS
  <2>1. PICK x \in D : \A y \in D : x <= y
    BY <1>1, <2>0, SmallestOf
  <2>2. CASE x = 1
    BY <2>1, <2>2 DEF Sums
  <2>3. CASE x # 1
    <3>1. x - 1 \in 1..Len(s) /\ x \in 1..Len(s) /\ x - 1 \notin D
      BY <2>1, <2>3
    <3>2. f[x-1] = g[x-1]
      BY <3>1
    <3>3. f[x] = f[x-1] \o s[x] /\ g[x] = g[x-1] \o s[x]
      BY <3>1, <2>3 DEF Sums
    <3> QED
      BY <3>2, <3>3, <2>1
  <2> QED
    BY <2>2, <2>3
<1>2. \A i \in 1..Len(s) : f[i] = g[i]
  BY <1>1
<1> QED
  BY <1>2 DEF Sums

\* There is one such function.
LEMMA SumsExist ==
  ASSUME NEW s, Len(s) \in Nat
  PROVE  \E f : Sums(s, f)
<1> DEFINE P(n, f) == f = [i \in 1..n |-> IF i = 1 THEN s[i] ELSE f[i-1] \o s[i]]
           D == {n \in 0..Len(s) : ~ \E f : P(n, f)}
<1>1. ASSUME D # {}
      PROVE  FALSE
  <2>0. D \subseteq Nat
    <3> HIDE DEF P
    <3>1. D \subseteq 0..Len(s)
      OBVIOUS
    <3> QED
      BY <3>1
  <2>1. PICK n \in D : \A y \in D : n <= y
    <3> HIDE DEF D
    <3> QED
      BY <1>1, <2>0, SmallestOf
  <2>2. CASE n = 0
    <3>1. P(0, <<>>)
      OBVIOUS
    <3> QED
      BY <2>1, <2>2, <3>1
  <2>3. CASE n # 0
    <3>0. n \in 0..Len(s)
      BY <2>1
    <3>1. n - 1 \in 0..Len(s) /\ n - 1 \notin D
      <4>1. n - 1 \in 0..Len(s) /\ ~ (n <= n - 1)
        BY <3>0, <2>3
      <4> HIDE DEF D
      <4> QED
        BY <4>1, <2>1
    <3>2. PICK g : P(n - 1, g)
      BY <3>1
    <3> DEFINE f == [i \in 1..n |-> IF i = 1 THEN s[i] ELSE g[i-1] \o s[i]]
    <3>3. ASSUME NEW i \in 1..n-1
          PROVE  f[i] = g[i]
      <4>1. i \in 1..n
        BY <3>0
      <4> QED
        BY <3>2, <4>1
    <3>4. ASSUME NEW i \in 1..n, i # 1
          PROVE  f[i-1] = g[i-1]
      <4>1. i - 1 \in 1..n-1
        BY <3>4, <2>1, <2>3
      <4> QED
        BY <4>1, <3>3
    <3>5. P(n, f)
      BY <3>4
    <3> QED
      BY <3>5, <2>1
  <2> QED
    BY <2>2, <2>3
<1>2. Len(s) \notin D
  BY <1>1
<1>3. \E f : P(Len(s), f)
  <2>1. Len(s) \in 0..Len(s)
    OBVIOUS
  <2> HIDE DEF P
  <2> QED
    BY <1>2, <2>1
<1> QED
  BY <1>3 DEF Sums

\* Its last value is what FlattenSeq returns.
LEMMA FlattenSums ==
  ASSUME NEW s, NEW f, Len(s) \in Nat \ {0}, Sums(s, f)
  PROVE  FlattenSeq(s) = f[Len(s)]
<1>1. Sums(s, CHOOSE g : Sums(s, g))
  BY Zenon
<1>2. (CHOOSE g : Sums(s, g)) = f
  BY <1>1, SumsUnique
<1> QED
  BY <1>2, FlattenIs

\* One more sequence at the end comes last in the result.
LEMMA FlattenAppend ==
  ASSUME NEW S, NEW s \in Seq(Seq(S)), NEW e \in Seq(S)
  PROVE  /\ FlattenSeq(s) \in Seq(S)
         /\ FlattenSeq(Append(s, e)) = FlattenSeq(s) \o e
         /\ FlattenSeq(<<>>) = <<>>
<1> DEFINE p == Append(s, e)
<1>1. /\ Len(s) \in Nat /\ Len(p) = Len(s) + 1 /\ p[Len(s) + 1] = e
      /\ \A i \in 1..Len(s) : p[i] = s[i]
      /\ \A i \in 1..Len(s) : s[i] \in Seq(S)
  BY AppendProperties
<1> HIDE DEF p
<1>2. PICK g : Sums(s, g)
  BY <1>1, SumsExist
<1>3. PICK f : Sums(p, f)
  BY <1>1, SumsExist
<1> DEFINE h == [i \in 1..Len(s) |-> f[i]]
<1>4. Sums(s, h)
  <2>1. ASSUME NEW i \in 1..Len(s)
        PROVE  h[i] = IF i = 1 THEN s[i] ELSE h[i-1] \o s[i]
    <3>1. i \in 1..Len(p) /\ p[i] = s[i]
      BY <1>1
    <3>2. f[i] = IF i = 1 THEN p[i] ELSE f[i-1] \o p[i]
      BY <1>3, <3>1 DEF Sums
    <3>3. i # 1 => i - 1 \in 1..Len(s)
      BY <1>1
    <3> QED
      BY <3>1, <3>2, <3>3
  <2> QED
    BY <2>1 DEF Sums
<1>5. g = h
  BY <1>1, <1>2, <1>4, SumsUnique
<1>6. FlattenSeq(<<>>) = <<>>
  BY DEF FlattenSeq
<1>7. FlattenSeq(s) \in Seq(S)
  <2>1. CASE Len(s) = 0
    <3>1. s = <<>>
      BY <2>1
    <3>2. <<>> \in Seq(S)
      OBVIOUS
    <3> QED
      BY <3>1, <3>2, <1>6
  <2>2. CASE Len(s) # 0
    <3> DEFINE D == {i \in 1..Len(s) : g[i] \notin Seq(S)}
    <3>1. ASSUME D # {}
          PROVE  FALSE
      <4>0. D \subseteq Nat
        BY <1>1
      <4>1. PICK x \in D : \A y \in D : x <= y
        <5> HIDE DEF D
        <5> QED
          BY <3>1, <4>0, SmallestOf
      <4>2. CASE x = 1
        BY <1>1, <1>2, <4>1, <4>2 DEF Sums
      <4>3. CASE x # 1
        <5>1. x - 1 \in 1..Len(s) /\ x \in 1..Len(s) /\ x - 1 \notin D
          BY <4>1, <4>3
        <5>2. g[x-1] \in Seq(S) /\ s[x] \in Seq(S)
          BY <1>1, <5>1
        <5>3. g[x] = g[x-1] \o s[x]
          BY <1>2, <4>3, <5>1 DEF Sums
        <5>4. g[x] \in Seq(S)
          BY <5>2, <5>3, ConcatProperties
        <5> QED
          BY <4>1, <5>4
      <4> QED
        BY <4>2, <4>3
    <3>2. Len(s) \in 1..Len(s)
      BY <1>1, <2>2
    <3>3. FlattenSeq(s) = g[Len(s)]
      BY <1>1, <1>2, <2>2, FlattenSums
    <3> QED
      BY <3>1, <3>2, <3>3
  <2> QED
    BY <2>1, <2>2
<1>8. FlattenSeq(p) = FlattenSeq(s) \o e
  <2>1. FlattenSeq(p) = f[Len(s) + 1]
    BY <1>1, <1>3, FlattenSums
  <2>2. CASE Len(s) = 0
    <3>1. s = <<>>
      BY <2>2
    <3>2. f[1] = e
      BY <1>1, <1>3, <2>2 DEF Sums
    <3>3. <<>> \o e = e
      BY ConcatEmptySeq
    <3> QED
      BY <1>6, <2>1, <2>2, <3>1, <3>2, <3>3
  <2>3. CASE Len(s) # 0
    <3>1. Len(s) + 1 \in 1..Len(p) /\ Len(s) + 1 # 1 /\ Len(s) \in 1..Len(s)
      BY <1>1, <2>3
    <3>2. f[Len(s) + 1] = f[Len(s)] \o e
      <4>1. (Len(s) + 1) - 1 = Len(s)
        BY <1>1
      <4> QED
        BY <1>1, <1>3, <3>1, <4>1 DEF Sums
    <3>3. FlattenSeq(s) = h[Len(s)]
      BY <1>1, <1>4, <2>3, FlattenSums
    <3> QED
      BY <2>1, <3>1, <3>2, <3>3
  <2> QED
    BY <2>2, <2>3
<1> QED
  BY <1>6, <1>7, <1>8 DEF p
=============================================================================
