--------------------------- MODULE RtspWireProofs ---------------------------
(***************************************************************************)
(* What is proved about the bytes of one RTSP connection, in both          *)
(* directions.                                                             *)
(***************************************************************************)
EXTENDS RtspWire, FiniteSetTheorems, SequenceTheorems, FunctionTheorems, WellFoundedInduction, TLAPS

-----------------------------------------------------------------------------
(* Numbers and sets of them. *)

\* A set of numbers that is not empty has a least one.
LEMMA Least ==
  ASSUME NEW T \in SUBSET Nat, T # {}
  PROVE  \E x \in T : \A y \in T : x <= y
<1> DEFINE R == StrictSubsetOrdering(Nat)
           UpTo == {1..n : n \in T}
<1>1. IsWellFoundedOn(R, FiniteSubsetsOf(Nat))
  BY FS_StrictSubsetOrderingWellFounded
<1>2. UpTo \subseteq FiniteSubsetsOf(Nat) /\ UpTo # {}
  <2>1. ASSUME NEW n \in T
        PROVE  1..n \in FiniteSubsetsOf(Nat)
    <3>1. IsFiniteSet(1..n)
      BY FS_Interval
    <3>2. 1..n \in SUBSET Nat
      OBVIOUS
    <3> QED
      BY <3>1, <3>2 DEF FiniteSubsetsOf
  <2> QED
    BY <2>1
<1> HIDE DEF R, UpTo
<1>3. PICK s \in UpTo : \A t \in UpTo : <<t, s>> \notin R
  BY <1>1, <1>2, WFMin
<1>4. PICK x \in T : s = 1..x
  BY DEF UpTo
<1>5. ASSUME NEW y \in T, y < x
      PROVE  FALSE
  <2>1. 1..y \in UpTo
    BY DEF UpTo
  <2>2. 1..y \subseteq 1..x /\ x \in 1..x /\ x \notin 1..y /\ 1..x \subseteq Nat /\ 1..y \subseteq Nat
    BY <1>5
  <2>3. <<1..y, s>> \in R
    BY <1>4, <2>2 DEF R, StrictSubsetOrdering
  <2> QED
    BY <1>3, <2>1, <2>3
<1> QED
  BY <1>4, <1>5

\* Induction over the numbers, for sets: the theorems of the library take an operator.
LEMMA Every ==
  ASSUME NEW T \in SUBSET Nat, 0 \in T, \A n \in T : n + 1 \in T
  PROVE  T = Nat
<1> SUFFICES ASSUME Nat \ T # {}
             PROVE  FALSE
  OBVIOUS
<1>1. PICK x \in Nat \ T : \A y \in Nat \ T : x <= y
  <2>1. Nat \ T \in SUBSET Nat
    OBVIOUS
  <2> QED
    BY <2>1, Least
<1>2. x # 0 /\ x - 1 \in Nat /\ ~(x <= x - 1)
  OBVIOUS
<1>3. x - 1 \in T
  BY <1>1, <1>2
<1> QED
  BY <1>2, <1>3

\* Min is the least element.
LEMMA MinIs ==
  ASSUME NEW T \in SUBSET Nat, T # {}
  PROVE  Min(T) \in T /\ \A y \in T : Min(T) <= y
<1>1. \E x \in T : \A y \in T : x <= y
  BY Least
<1> QED
  BY <1>1 DEF Min

-----------------------------------------------------------------------------
(* Recursive definitions and FlattenSeq. *)

\* A definition by recursion on 1 .. n: `next` leads from an index to one of smaller rank, or to 0,
\* where `stop` gives the value; op[<<i, v>>] is the value at i when v is the one at next[i].
Descends(n, S, stop, op, next, rank) ==
  /\ n \in Nat /\ stop \in [1..n -> S] /\ op \in [(1..n) \X S -> S]
  /\ next \in [1..n -> 0..n] /\ rank \in [1..n -> 0..n]
  /\ \A i \in 1..n : next[i] # 0 => rank[next[i]] < rank[i]

\* f obeys the definition everywhere.
Solves(f, n, stop, op, next) ==
  \A i \in 1..n : f[i] = IF next[i] = 0 THEN stop[i] ELSE op[<<i, f[next[i]]>>]

\* So does g, as far as its values are typed.
Obeys(g, n, S, stop, op, next) ==
  \A i \in 1..n : /\ next[i] = 0 => g[i] = stop[i]
                  /\ next[i] # 0 /\ g[next[i]] \in S => g[i] = op[<<i, g[next[i]]>>]

\* A definition by recursion along a rank has a solution: `next` leads to smaller ranks and
\* in the end to 0, where `stop` answers, and `op` works its way back.
LEMMA Recursion ==
  ASSUME NEW n, NEW S, NEW stop, NEW op, NEW next, NEW rank,
         Descends(n, S, stop, op, next, rank)
  PROVE  \E f : f \in [1..n -> S] /\ Solves(f, n, stop, op, next)
<1> USE DEF Descends
<1> DEFINE Low(k) == {i \in 1..n : rank[i] < k}
           Partly(f, k) == \A i \in Low(k) :
                             f[i] = IF next[i] = 0 THEN stop[i] ELSE op[<<i, f[next[i]]>>]
           T == {k \in Nat : \E f \in [Low(k) -> S] : Partly(f, k)}
<1>0. 0 \in T
  <2>1. Low(0) = {}
    OBVIOUS
  <2>2. [i \in Low(0) |-> stop[i]] \in [Low(0) -> S]
    BY <2>1
  <2>3. Partly([i \in Low(0) |-> stop[i]], 0)
    BY <2>1
  <2> QED
    BY <2>2, <2>3
<1>1. ASSUME NEW k \in T
      PROVE  k + 1 \in T
  <2>1. PICK f \in [Low(k) -> S] : Partly(f, k)
    OBVIOUS
  <2> DEFINE g == [i \in Low(k + 1) |-> IF next[i] = 0 THEN stop[i] ELSE op[<<i, f[next[i]]>>]]
  <2>2. ASSUME NEW i \in Low(k + 1), next[i] # 0
        PROVE  next[i] \in Low(k)
    <3>1. next[i] \in 1..n /\ rank[next[i]] < rank[i] /\ rank[i] < k + 1
      BY <2>2
    <3> QED
      BY <3>1
  <2>3. g \in [Low(k + 1) -> S]
    <3>1. ASSUME NEW i \in Low(k + 1)
          PROVE  (IF next[i] = 0 THEN stop[i] ELSE op[<<i, f[next[i]]>>]) \in S
      <4>1. CASE next[i] = 0
        BY <4>1
      <4>2. CASE next[i] # 0
        <5>1. f[next[i]] \in S
          BY <2>2, <4>2
        <5> HIDE DEF Partly
        <5> QED
          BY <4>2, <5>1
      <4> QED
        BY <4>1, <4>2
    <3> QED
      BY <3>1
  <2>4. ASSUME NEW i \in Low(k)
        PROVE  i \in Low(k + 1) /\ g[i] = f[i]
    <3>1. rank[i] \in Int /\ rank[i] < k
      BY <2>4
    <3>2. i \in 1..n /\ rank[i] < k + 1
      BY <2>4, <3>1
    <3>3. f[i] = IF next[i] = 0 THEN stop[i] ELSE op[<<i, f[next[i]]>>]
      BY <2>1, <2>4
    <3> QED
      BY <3>2, <3>3
  <2>5. Partly(g, k + 1)
    <3> SUFFICES ASSUME NEW i \in Low(k + 1)
                 PROVE  g[i] = IF next[i] = 0 THEN stop[i] ELSE op[<<i, g[next[i]]>>]
      OBVIOUS
    <3>1. CASE next[i] = 0
      BY <3>1
    <3>2. CASE next[i] # 0
      <4>1. g[next[i]] = f[next[i]]
        BY <2>2, <2>4, <3>2
      <4>2. g[i] = op[<<i, f[next[i]]>>]
        BY <3>2
      <4> HIDE DEF g
      <4> QED
        BY <3>2, <4>1, <4>2
    <3> QED
      BY <3>1, <3>2
  <2> HIDE DEF g, Partly, Low
  <2> QED
    BY <2>3, <2>5
<1>2. T = Nat
  <2>1. T \in SUBSET Nat
    OBVIOUS
  <2> HIDE DEF T
  <2> QED
    BY <1>0, <1>1, <2>1, Every
<1>3. PICK f \in [Low(n + 1) -> S] : Partly(f, n + 1)
  <2>1. n + 1 \in T
    <3> HIDE DEF T
    <3> QED
      BY <1>2
  <2> HIDE DEF Low, Partly
  <2> QED
    BY <2>1
<1>4. Low(n + 1) = 1..n
  OBVIOUS
<1> QED
  BY <1>3, <1>4 DEF Solves

\* Any function that obeys such a definition takes its values in S.
LEMMA Solution ==
  ASSUME NEW n, NEW S, NEW stop, NEW op, NEW next, NEW rank, NEW g,
         Descends(n, S, stop, op, next, rank), Obeys(g, n, S, stop, op, next)
  PROVE  \A i \in 1..n : g[i] \in S
<1> USE DEF Descends, Obeys
<1> DEFINE T == {k \in Nat : \A i \in 1..n : rank[i] < k => g[i] \in S}
<1>1. 0 \in T
  OBVIOUS
<1>2. ASSUME NEW k \in T
      PROVE  k + 1 \in T
  <2> SUFFICES ASSUME NEW i \in 1..n, rank[i] < k + 1
               PROVE  g[i] \in S
    OBVIOUS
  <2>1. CASE next[i] = 0
    BY <2>1
  <2>2. CASE next[i] # 0
    <3>1. next[i] \in 1..n /\ rank[next[i]] \in 0..n /\ rank[i] \in 0..n
      BY <2>2
    <3>2. rank[next[i]] < k
      BY <2>2, <3>1
    <3>3. g[next[i]] \in S
      BY <3>1, <3>2
    <3>4. g[i] = op[<<i, g[next[i]]>>]
      BY <2>2, <3>3
    <3>5. <<i, g[next[i]]>> \in (1..n) \X S
      BY <3>3
    <3> QED
      BY <3>4, <3>5
  <2> QED
    BY <2>1, <2>2
<1>3. T = Nat
  <2>1. T \in SUBSET Nat
    OBVIOUS
  <2> HIDE DEF T
  <2> QED
    BY <1>1, <1>2, <2>1, Every
<1>4. n + 1 \in T
  <2> HIDE DEF T
  <2> QED
    BY <1>3
<1> QED
  BY <1>4

\* FlattenSeq joins the sequences one after the other.
LEMMA Flattened ==
  ASSUME NEW S, NEW seqs \in Seq(Seq(S))
  PROVE  \E f \in [0..Len(seqs) -> Seq(S)] :
           /\ f[0] = <<>>
           /\ \A i \in 1..Len(seqs) : f[i] = f[i - 1] \o seqs[i]
           /\ FlattenSeq(seqs) = f[Len(seqs)]
<1> DEFINE n == Len(seqs)
<1>1. n \in Nat /\ \A i \in 1..n : seqs[i] \in Seq(S)
  BY LenProperties, ElementOfSeq
<1>e. <<>> \in Seq(S)
  BY EmptySeq
<1>2. CASE n = 0
  <2>1. seqs = <<>>
    BY <1>2, EmptySeq
  <2> DEFINE f == [i \in 0..0 |-> <<>>]
  <2>2. f \in [0..n -> Seq(S)] /\ f[0] = <<>>
    BY <1>e, <1>2
  <2>3. FlattenSeq(seqs) = f[n]
    BY <1>2, <2>1 DEF FlattenSeq
  <2>4. 1..n = {}
    BY <1>2
  <2> HIDE DEF f, n
  <2> QED
    BY <2>2, <2>3, <2>4 DEF n
<1>3. CASE n # 0
  <2> DEFINE flatten[i \in 1..n] == IF i = 1 THEN seqs[i] ELSE flatten[i - 1] \o seqs[i]
             stop == [i \in 1..n |-> seqs[i]]
             next == [i \in 1..n |-> i - 1]
             rank == [i \in 1..n |-> i]
             op == [p \in (1..n) \X Seq(S) |-> p[2] \o seqs[p[1]]]
  <2>1. /\ stop \in [1..n -> Seq(S)] /\ next \in [1..n -> 0..n] /\ rank \in [1..n -> 0..n]
        /\ \A i \in 1..n : next[i] # 0 => rank[next[i]] < rank[i]
    BY <1>1
  <2>2. op \in [(1..n) \X Seq(S) -> Seq(S)]
    BY <1>1, ConcatProperties
  <2>3. \A i \in 1..n, s \in Seq(S) : op[<<i, s>>] = s \o seqs[i]
    OBVIOUS
  <2>4. \A i \in 1..n : stop[i] = seqs[i] /\ (next[i] = 0 <=> i = 1) /\ next[i] = i - 1
    BY <1>1
  <2>d. Descends(n, Seq(S), stop, op, next, rank)
    <3> HIDE DEF stop, op, rank, next, n
    <3> QED
      BY <1>1, <2>1, <2>2 DEF Descends
  <2>5. PICK f : f \in [1..n -> Seq(S)] /\ Solves(f, n, stop, op, next)
    BY <2>d, Recursion
  <2> HIDE DEF stop, op, rank, next
  <2>6. f = [i \in 1..n |-> IF i = 1 THEN seqs[i] ELSE f[i - 1] \o seqs[i]]
    <3>1. ASSUME NEW i \in 1..n
          PROVE  f[i] = IF i = 1 THEN seqs[i] ELSE f[i - 1] \o seqs[i]
      <4>1. CASE i = 1
        BY <2>4, <2>5, <4>1 DEF Solves
      <4>2. CASE i # 1
        <5>1. i - 1 \in 1..n
          BY <1>1, <4>2
        <5>2. f[i] = op[<<i, f[i - 1]>>]
          BY <2>4, <2>5, <4>2 DEF Solves
        <5> QED
          BY <2>3, <2>5, <4>2, <5>1, <5>2, Zenon
      <4> QED
        BY <4>1, <4>2
    <3>2. f \in [1..n -> Seq(S)]
      BY <2>5
    <3> HIDE DEF n
    <3> QED
      BY <3>1, <3>2
  <2>7. flatten = [i \in 1..n |-> IF i = 1 THEN seqs[i] ELSE flatten[i - 1] \o seqs[i]]
    <3> DEFINE P(g) == g = [i \in 1..n |-> IF i = 1 THEN seqs[i] ELSE g[i - 1] \o seqs[i]]
    <3>1. \E g : P(g)
      BY <2>6
    <3> HIDE DEF P
    <3>2. P(CHOOSE g : P(g))
      BY <3>1
    <3> QED
      BY <3>2 DEF P
  <2> HIDE DEF flatten
  <2>8. /\ DOMAIN flatten = 1..n
        /\ \A i \in 1..n : flatten[i] = IF i = 1 THEN seqs[i] ELSE flatten[i - 1] \o seqs[i]
    BY <2>7
  <2>9. \A i \in 1..n : flatten[i] \in Seq(S)
    <3>1. ASSUME NEW i \in 1..n
          PROVE  /\ next[i] = 0 => flatten[i] = stop[i]
                 /\ next[i] # 0 /\ flatten[next[i]] \in Seq(S) =>
                      flatten[i] = op[<<i, flatten[next[i]]>>]
      <4>1. CASE i = 1
        BY <2>4, <2>8, <4>1
      <4>2. CASE i # 1
        <5>1. flatten[i] = flatten[i - 1] \o seqs[i] /\ next[i] = i - 1 /\ next[i] # 0
          BY <2>4, <2>8, <4>2
        <5> HIDE DEF n
        <5> QED
          BY <2>3, <5>1
      <4> QED
        BY <4>1, <4>2
    <3>2. Obeys(flatten, n, Seq(S), stop, op, next)
      BY <3>1 DEF Obeys
    <3> QED
      BY <2>d, <3>2, Solution
  <2> DEFINE all == [i \in 0..n |-> IF i = 0 THEN <<>> ELSE flatten[i]]
  <2>10. all \in [0..n -> Seq(S)] /\ all[0] = <<>>
    BY <1>1, <1>e, <2>9
  <2>11. ASSUME NEW i \in 1..n
         PROVE  all[i] = all[i - 1] \o seqs[i]
    <3>1. CASE i = 1
      <4>1. <<>> \o seqs[i] = seqs[i]
        BY <1>1, ConcatEmptySeq
      <4>2. flatten[i] = seqs[i]
        BY <2>8, <3>1
      <4>3. all[i] = flatten[i]
        BY <1>1, <3>1
      <4>4. i - 1 = 0
        BY <3>1
      <4> HIDE DEF all
      <4> QED
        BY <2>10, <4>1, <4>2, <4>3, <4>4
    <3>2. CASE i # 1
      <4>1. i - 1 \in 1..n /\ i - 1 # 0
        BY <1>1, <3>2
      <4>2. all[i] = flatten[i]
        BY <1>1, <4>1
      <4>3. all[i - 1] = flatten[i - 1]
        BY <1>1, <4>1
      <4>4. flatten[i] = flatten[i - 1] \o seqs[i]
        BY <2>8, <3>2
      <4> HIDE DEF all
      <4> QED
        BY <4>2, <4>3, <4>4
    <3> QED
      BY <3>1, <3>2
  <2>12. FlattenSeq(seqs) = all[n]
    <3>1. FlattenSeq(seqs) = flatten[n]
      BY <1>3 DEF FlattenSeq, flatten
    <3> QED
      BY <1>1, <1>3, <3>1
  <2> HIDE DEF all
  <2> QED
    BY <2>10, <2>11, <2>12
<1> QED
  BY <1>2, <1>3

-----------------------------------------------------------------------------
(* Splitting an encoder's buffer. *)

\* What FlattenSeq returns is made of the elements of the sequences.
LEMMA FlattenType ==
  ASSUME NEW S, NEW seqs \in Seq(Seq(S))
  PROVE  FlattenSeq(seqs) \in Seq(S)
<1>1. PICK f \in [0..Len(seqs) -> Seq(S)] : FlattenSeq(seqs) = f[Len(seqs)]
  BY Flattened
<1>2. Len(seqs) \in 0..Len(seqs)
  BY LenProperties
<1> QED
  BY <1>1, <1>2

\* A function on 1 .. n is a sequence of length n.
LEMMA Listed ==
  ASSUME NEW S, NEW n \in Nat, NEW seq, DOMAIN seq = 1..n, seq = [i \in 1..n |-> seq[i]],
         \A i \in 1..n : seq[i] \in S
  PROVE  seq \in Seq(S) /\ Len(seq) = n
<1>1. seq \in [1..n -> S]
  OBVIOUS
<1>2. seq \in Seq(S)
  BY <1>1, SeqDef
<1> QED
  BY <1>1, <1>2, LenProperties

\* NonEmpty returns some of the parts it is given.
LEMMA NonEmptyType ==
  ASSUME NEW S, NEW parts \in Seq(S)
  PROVE  NonEmpty(parts) \in Seq(S)
<1> DEFINE kept == [k \in DOMAIN parts |-> IF parts[k] = <<>> THEN <<>> ELSE <<parts[k]>>]
<1>1. DOMAIN parts = 1..Len(parts) /\ Len(parts) \in Nat /\ \A k \in 1..Len(parts) : parts[k] \in S
  BY LenProperties, ElementOfSeq
<1>2. ASSUME NEW k \in 1..Len(parts) PROVE kept[k] \in Seq(S)
  <2>1. <<>> \in Seq(S)
    BY EmptySeq
  <2>2. parts[k] \in S
    BY <1>1
  <2> HIDE DEF kept
  <2>3. <<parts[k]>> \in Seq(S)
    BY <2>2
  <2> QED
    BY <1>1, <2>1, <2>3 DEF kept
<1>3. kept \in Seq(Seq(S))
  <2>1. DOMAIN kept = 1..Len(parts) /\ kept = [k \in 1..Len(parts) |-> kept[k]]
    BY <1>1
  <2> HIDE DEF kept
  <2> QED
    BY <1>1, <1>2, <2>1, Listed
<1> HIDE DEF kept
<1> QED
  BY <1>3, FlattenType DEF NonEmpty, kept

\* A part of a sequence between two positions of it.
LEMMA PartType ==
  ASSUME NEW S, NEW seq \in Seq(S), NEW m \in Nat \ {0}, NEW n \in Int, n <= Len(seq)
  PROVE  /\ SubSeq(seq, m, n) \in Seq(S)
         /\ Len(SubSeq(seq, m, n)) = IF m <= n THEN n - m + 1 ELSE 0
         /\ \A i \in 1..n - m + 1 : SubSeq(seq, m, n)[i] = seq[m + i - 1]
<1>1. Len(seq) \in Nat
  BY LenProperties
<1>2. \A i \in m..n : i \in 1..Len(seq)
  BY <1>1
<1>3. \A i \in m..n : seq[i] \in S
  BY <1>2, ElementOfSeq
<1> QED
  BY <1>3, SubSeqProperties

\* The pieces between start codes are made of the bytes of the buffer.
LEMMA BetweenType ==
  ASSUME NEW S, NEW bytes \in Seq(S), NEW marks \in SUBSET DOMAIN bytes
  PROVE  Between(bytes, marks) \in Seq(Seq(S))
<1> DEFINE After(i) == {j \in marks : j > i} \cup {Len(bytes) + 1}
           End(i) == Min(After(i)) - 1
           Piece(i) == SubSeq(bytes, i + PrefixAt(bytes, i), End(i))
           pieces == [i \in DOMAIN bytes |-> IF i \in marks THEN Piece(i) ELSE <<>>]
<1>1. DOMAIN bytes = 1..Len(bytes) /\ Len(bytes) \in Nat
  BY LenProperties
<1>2. ASSUME NEW i \in DOMAIN bytes
      PROVE  Piece(i) \in Seq(S)
  <2>1. After(i) \in SUBSET Nat /\ Len(bytes) + 1 \in After(i)
    BY <1>1
  <2>2. Min(After(i)) \in Nat /\ Min(After(i)) <= Len(bytes) + 1
    <3> HIDE DEF After
    <3> QED
      BY <2>1, MinIs
  <2>3. End(i) \in Int /\ End(i) <= Len(bytes)
    <3> HIDE DEF After
    <3> QED
      BY <1>1, <2>2
  <2>4. i + PrefixAt(bytes, i) \in Nat \ {0}
    <3>1. PrefixAt(bytes, i) \in {0, 3, 4}
      BY DEF PrefixAt
    <3> QED
      BY <1>1, <3>1
  <2> HIDE DEF End
  <2> QED
    BY <2>3, <2>4, PartType
<1> HIDE DEF Piece
<1>3. pieces \in Seq(Seq(S))
  <2>1. DOMAIN pieces = 1..Len(bytes) /\ pieces = [k \in 1..Len(bytes) |-> pieces[k]]
    BY <1>1
  <2>2. ASSUME NEW i \in 1..Len(bytes) PROVE pieces[i] \in Seq(S)
    <3>1. Piece(i) \in Seq(S) /\ <<>> \in Seq(S)
      BY <1>1, <1>2, EmptySeq
    <3> QED
      BY <1>1, <3>1
  <2> HIDE DEF pieces
  <2> QED
    BY <1>1, <2>1, <2>2, Listed
<1> HIDE DEF pieces
<1>4. NonEmpty(pieces) \in Seq(Seq(S))
  BY <1>3, NonEmptyType
<1>5. Between(bytes, marks) = NonEmpty(pieces)
  BY DEF Between, pieces, Piece
<1> QED
  BY <1>4, <1>5

\* So is a unit without its trailing zeros.
LEMMA TrimType ==
  ASSUME NEW S, NEW nal \in Seq(S)
  PROVE  TrimZeros(nal) \in Seq(S)
<1> DEFINE ends == {n \in 0 .. Len(nal) : \A i \in n + 1 .. Len(nal) : nal[i] = 0}
<1>1. Len(nal) \in Nat
  BY LenProperties
<1>2. ends \in SUBSET Nat /\ Len(nal) \in ends
  BY <1>1
<1> HIDE DEF ends
<1>3. Min(ends) \in Nat /\ Min(ends) <= Len(nal)
  BY <1>2, MinIs
<1>4. TrimZeros(nal) = SubSeq(nal, 1, Min(ends))
  BY DEF TrimZeros, ends
<1>5. SubSeq(nal, 1, Min(ends)) \in Seq(S)
  BY <1>1, <1>3, PartType
<1> QED
  BY <1>4, <1>5

USE BaseAssumption

\* Products of numbers are numbers, a fact the provers want stated once.
LEMMA Times == \A m, n \in Nat : m * n \in Nat
OBVIOUS

\* The length in front of a unit is a number.
LEMMA Length32Type ==
  ASSUME NEW bytes \in Seq(Byte), NEW i \in 1..Len(bytes), i + 3 <= Len(bytes)
  PROVE  Length32(bytes, i) \in Nat
<1>1. Len(bytes) \in Nat
  BY LenProperties
<1>2. \A k \in 1..Len(bytes) : bytes[k] \in Nat
  BY ElementOfSeq DEF Byte
<1>3. bytes[i] \in Nat /\ bytes[i + 1] \in Nat /\ bytes[i + 2] \in Nat /\ bytes[i + 3] \in Nat
  <2>1. i + 1 \in 1..Len(bytes) /\ i + 2 \in 1..Len(bytes) /\ i + 3 \in 1..Len(bytes)
    BY <1>1
  <2> QED
    BY <1>2, <2>1
<1> DEFINE two == bytes[i] * Base + bytes[i + 1]
           three == two * Base + bytes[i + 2]
<1>4. two \in Nat
  BY <1>3, Times
<1>5. three \in Nat
  <2> HIDE DEF two
  <2> QED
    BY <1>3, <1>4, Times
<1>6. three * Base + bytes[i + 3] \in Nat
  <2> HIDE DEF three
  <2> QED
    BY <1>3, <1>5, Times
<1> QED
  BY <1>6 DEF Length32

\* What the walk over length-prefixed units returns.
Walked == [units : Seq(Seq(Byte)), end : {"exact", "short", "truncated"}]

\* Where the walk over length-prefixed units ends, and what it has collected step by step.
LEMMA AvccWalk ==
  ASSUME NEW bytes \in Seq(Byte)
  PROVE  \E walk :
           /\ Avcc(bytes) = walk[1]
           /\ \A o \in 1..Len(bytes) + 1 : walk[o] \in Walked
           /\ walk[Len(bytes) + 1] = [units |-> <<>>, end |-> "exact"]
           /\ \A o, p \in 1..Len(bytes) + 1 :
                o + 3 <= Len(bytes) /\ p = o + 4 + Length32(bytes, o) =>
                  walk[o] = [units |-> <<SubSeq(bytes, o + 4, p - 1)>> \o walk[p].units,
                             end |-> walk[p].end]
<1> DEFINE n == Len(bytes) + 1
           Follows(o) == o + 4 + Length32(bytes, o)
           Unit(o) == SubSeq(bytes, o + 4, Follows(o) - 1)
           Goes(o) == o + 3 <= Len(bytes) /\ Follows(o) <= n
           Walk[o \in 1 .. Len(bytes) + 1] ==
             IF o > Len(bytes) THEN [units |-> <<>>, end |-> "exact"]
             ELSE IF o + 3 > Len(bytes) THEN [units |-> <<>>, end |-> "short"]
             ELSE LET next == o + 4 + Length32(bytes, o)
                  IN  IF next > Len(bytes) + 1 THEN [units |-> <<>>, end |-> "truncated"]
                      ELSE [units |-> <<SubSeq(bytes, o + 4, next - 1)>> \o Walk[next].units,
                            end |-> Walk[next].end]
           Stop(o) == [units |-> <<>>, end |-> IF o > Len(bytes) THEN "exact"
                                               ELSE IF o + 3 > Len(bytes) THEN "short"
                                               ELSE "truncated"]
           Step(o, w) == [units |-> <<Unit(o)>> \o w.units, end |-> w.end]
           stop == [o \in 1..n |-> Stop(o)]
           jump == [o \in 1..n |-> IF Goes(o) THEN Follows(o) ELSE 0]
           rank == [o \in 1..n |-> n - o]
           op == [p \in (1..n) \X Walked |-> IF Goes(p[1]) THEN Step(p[1], p[2]) ELSE p[2]]
<1>1. Len(bytes) \in Nat /\ n \in Nat /\ 1 \in 1..n
  BY LenProperties
<1>2. ASSUME NEW o \in 1..n, Goes(o)
      PROVE  Follows(o) \in 1..n /\ o < Follows(o) /\ Unit(o) \in Seq(Byte)
  <2>1. o \in 1..Len(bytes)
    BY <1>1, <1>2
  <2>2. Length32(bytes, o) \in Nat
    BY <1>2, <2>1, Length32Type
  <2>3. Follows(o) \in 1..n /\ o < Follows(o)
    BY <1>1, <1>2, <2>2
  <2>4. o + 4 \in Nat \ {0} /\ Follows(o) - 1 \in Int /\ Follows(o) - 1 <= Len(bytes)
    BY <1>1, <2>3
  <2> HIDE DEF Follows
  <2> QED
    BY <2>3, <2>4, PartType
<1> HIDE DEF Follows, Unit, Goes
<1>3. \A o \in 1..n : Stop(o) \in Walked
  BY EmptySeq DEF Walked
<1>4. ASSUME NEW o \in 1..n, Goes(o), NEW w \in Walked
      PROVE  Step(o, w) \in Walked
  <2>1. <<Unit(o)>> \in Seq(Seq(Byte))
    BY <1>2, <1>4
  <2>2. w.units \in Seq(Seq(Byte))
    BY DEF Walked
  <2>3. <<Unit(o)>> \o w.units \in Seq(Seq(Byte))
    BY <2>1, <2>2, ConcatProperties
  <2> QED
    BY <2>3 DEF Walked
<1> HIDE DEF Step, Stop
<1>5. Descends(n, Walked, stop, op, jump, rank)
  <2>1. stop \in [1..n -> Walked]
    BY <1>3
  <2>2. op \in [(1..n) \X Walked -> Walked]
    BY <1>4
  <2>3. jump \in [1..n -> 0..n] /\ rank \in [1..n -> 0..n]
    BY <1>1, <1>2
  <2>4. \A i \in 1..n : jump[i] # 0 => rank[jump[i]] < rank[i]
    BY <1>1, <1>2
  <2> HIDE DEF stop, op, jump, rank, n
  <2> QED
    BY <1>1, <2>1, <2>2, <2>3, <2>4 DEF Descends
<1>6. PICK f : f \in [1..n -> Walked] /\ Solves(f, n, stop, op, jump)
  BY <1>5, Recursion
<1> DEFINE Body(g, o) ==
             IF o > Len(bytes) THEN [units |-> <<>>, end |-> "exact"]
             ELSE IF o + 3 > Len(bytes) THEN [units |-> <<>>, end |-> "short"]
             ELSE LET next == o + 4 + Length32(bytes, o)
                  IN  IF next > Len(bytes) + 1 THEN [units |-> <<>>, end |-> "truncated"]
                      ELSE [units |-> <<SubSeq(bytes, o + 4, next - 1)>> \o g[next].units,
                            end |-> g[next].end]
<1>7. ASSUME NEW g, NEW o \in 1..n
      PROVE  Body(g, o) = IF Goes(o) THEN Step(o, g[Follows(o)]) ELSE Stop(o)
  <2>1. CASE o + 3 > Len(bytes)
    BY <1>1, <2>1 DEF Goes, Stop
  <2>2. CASE ~(o + 3 > Len(bytes)) /\ ~Goes(o)
    <3>1. o + 4 + Length32(bytes, o) > Len(bytes) + 1
      <4>1. o \in 1..Len(bytes) /\ o + 3 <= Len(bytes)
        BY <1>1, <2>2
      <4>2. Length32(bytes, o) \in Nat
        BY <4>1, Length32Type
      <4> QED
        BY <1>1, <2>2, <4>1, <4>2 DEF Goes, Follows
    <3> QED
      BY <1>1, <2>2, <3>1 DEF Stop
  <2>3. CASE Goes(o)
    <3>1. ~(o > Len(bytes)) /\ ~(o + 3 > Len(bytes))
      BY <1>1, <2>3 DEF Goes
    <3>2. ~(o + 4 + Length32(bytes, o) > Len(bytes) + 1)
      <4>1. Follows(o) \in 1..n /\ Follows(o) <= n
        BY <1>2, <2>3
      <4> QED
        BY <1>1, <4>1 DEF Follows
    <3> HIDE DEF stop, op, jump, rank, n, Walk
    <3> DEFINE From(p) == [units |-> <<SubSeq(bytes, o + 4, p - 1)>> \o g[p].units,
                           end |-> g[p].end]
    <3>3. From(Follows(o)) = Step(o, g[Follows(o)])
      BY Zenon DEF Unit, Step
    <3>4. Body(g, o) = From(o + 4 + Length32(bytes, o))
      <4> HIDE DEF From
      <4> QED
        BY <3>1, <3>2, Zenon DEF From
    <3> HIDE DEF From, Body
    <3>5. Body(g, o) = From(Follows(o))
      BY <3>4 DEF Follows
    <3> QED
      BY <2>3, <3>3, <3>5
  <2> QED
    BY <2>1, <2>2, <2>3
<1>8. f = [o \in 1..n |-> Body(f, o)]
  <2>1. ASSUME NEW o \in 1..n
        PROVE  f[o] = Body(f, o)
    <3>1. CASE Goes(o)
      <4>1. jump[o] = Follows(o) /\ jump[o] # 0 /\ Follows(o) \in 1..n
        BY <1>2, <3>1
      <4>2. f[o] = op[<<o, f[Follows(o)]>>]
        BY <1>6, <4>1 DEF Solves
      <4>3. f[o] = Step(o, f[Follows(o)])
        BY <1>6, <3>1, <4>1, <4>2
      <4> HIDE DEF Body
      <4> QED
        BY <1>7, <3>1, <4>3
    <3>2. CASE ~Goes(o)
      <4>1. jump[o] = 0
        BY <3>2
      <4>2. f[o] = Stop(o)
        BY <1>6, <4>1 DEF Solves
      <4> HIDE DEF Body
      <4> QED
        BY <1>7, <3>2, <4>2
    <3> QED
      BY <3>1, <3>2
  <2> HIDE DEF Body, n
  <2> QED
    BY <1>6, <2>1
<1>9. Walk = [o \in 1 .. Len(bytes) + 1 |->
             IF o > Len(bytes) THEN [units |-> <<>>, end |-> "exact"]
             ELSE IF o + 3 > Len(bytes) THEN [units |-> <<>>, end |-> "short"]
             ELSE LET next == o + 4 + Length32(bytes, o)
                  IN  IF next > Len(bytes) + 1 THEN [units |-> <<>>, end |-> "truncated"]
                      ELSE [units |-> <<SubSeq(bytes, o + 4, next - 1)>> \o Walk[next].units,
                            end |-> Walk[next].end]
]
  <2> DEFINE P(g) == g = [o \in 1 .. Len(bytes) + 1 |->
             IF o > Len(bytes) THEN [units |-> <<>>, end |-> "exact"]
             ELSE IF o + 3 > Len(bytes) THEN [units |-> <<>>, end |-> "short"]
             ELSE LET next == o + 4 + Length32(bytes, o)
                  IN  IF next > Len(bytes) + 1 THEN [units |-> <<>>, end |-> "truncated"]
                      ELSE [units |-> <<SubSeq(bytes, o + 4, next - 1)>> \o g[next].units,
                            end |-> g[next].end]
]
  <2>1. \E g : P(g)
    BY <1>8
  <2> HIDE DEF P
  <2>2. P(CHOOSE g : P(g))
    BY <2>1
  <2> QED
    BY <2>2 DEF P
<1>10. Avcc(bytes) = Walk[1]
  BY DEF Avcc
<1> HIDE DEF Walk
<1>11. Obeys(Walk, n, Walked, stop, op, jump)
  <2>1. ASSUME NEW o \in 1..n
        PROVE  Walk[o] = IF Goes(o) THEN Step(o, Walk[Follows(o)]) ELSE Stop(o)
    <3>1. Walk[o] = Body(Walk, o)
      BY <1>9
    <3> HIDE DEF Body
    <3> QED
      BY <1>7, <3>1
  <2>2. ASSUME NEW o \in 1..n
        PROVE  /\ jump[o] = 0 => Walk[o] = stop[o]
               /\ jump[o] # 0 /\ Walk[jump[o]] \in Walked => Walk[o] = op[<<o, Walk[jump[o]]>>]
    <3>1. CASE Goes(o)
      <4>1. jump[o] = Follows(o) /\ jump[o] # 0
        BY <1>2, <3>1
      <4> QED
        BY <2>1, <3>1, <4>1
    <3>2. CASE ~Goes(o)
      <4>1. jump[o] = 0
        BY <3>2
      <4> QED
        BY <2>1, <3>2, <4>1
    <3> QED
      BY <3>1, <3>2
  <2> QED
    BY <2>2 DEF Obeys
<1>12. \A o \in 1..Len(bytes) + 1 : Walk[o] \in Walked
  <2>1. \A o \in 1..n : Walk[o] \in Walked
    <3> HIDE DEF n
    <3> QED
      BY <1>5, <1>11, Solution
  <2> QED
    BY <2>1
<1>13. Walk[Len(bytes) + 1] = [units |-> <<>>, end |-> "exact"]
  <2>1. Len(bytes) + 1 \in 1..n /\ Len(bytes) + 1 > Len(bytes)
    BY <1>1
  <2>2. Walk[Len(bytes) + 1] = Body(Walk, Len(bytes) + 1)
    BY <1>9, <2>1
  <2> QED
    BY <2>1, <2>2
<1>14. ASSUME NEW o \in 1..Len(bytes) + 1, NEW p \in 1..Len(bytes) + 1,
              o + 3 <= Len(bytes), p = o + 4 + Length32(bytes, o)
       PROVE  Walk[o] = [units |-> <<SubSeq(bytes, o + 4, p - 1)>> \o Walk[p].units,
                         end |-> Walk[p].end]
  <2>1. o \in 1..n /\ Goes(o) /\ Follows(o) = p
    BY <1>1, <1>14 DEF Goes, Follows
  <2>2. Walk[o] = Body(Walk, o)
    BY <1>9, <2>1
  <2>3. Walk[o] = Step(o, Walk[p])
    <3> HIDE DEF Body
    <3> QED
      BY <1>7, <2>1, <2>2
  <2> QED
    BY <2>1, <2>3, Zenon DEF Step, Unit
<1> DEFINE Claim(w) ==
             /\ Avcc(bytes) = w[1]
             /\ \A o \in 1..Len(bytes) + 1 : w[o] \in Walked
             /\ w[Len(bytes) + 1] = [units |-> <<>>, end |-> "exact"]
             /\ \A o, p \in 1..Len(bytes) + 1 :
                  o + 3 <= Len(bytes) /\ p = o + 4 + Length32(bytes, o) =>
                    w[o] = [units |-> <<SubSeq(bytes, o + 4, p - 1)>> \o w[p].units,
                            end |-> w[p].end]
<1>15. Claim(Walk)
  BY <1>10, <1>12, <1>13, <1>14
<1>16. \E walk : Claim(walk)
  <2> HIDE DEF Claim
  <2> QED
    BY <1>15
<1> QED
  BY <1>16

\* The walk over length-prefixed units ends, and yields units made of bytes of the buffer.
LEMMA AvccType ==
  ASSUME NEW bytes \in Seq(Byte)
  PROVE  Avcc(bytes) \in Walked
<1>1. 1 \in 1..Len(bytes) + 1
  BY LenProperties
<1> QED
  BY <1>1, AvccWalk

\* Whatever the platform makes of a buffer of bytes, it is a sequence of NAL units.
LEMMA SplitType ==
  ASSUME NEW bytes \in Seq(Byte), NEW p \in {"mac", "windows", "android"}
  PROVE  Split(p, bytes) \in Seq(Seq(Byte))
<1>1. Avcc(bytes).units \in Seq(Seq(Byte))
  BY AvccType DEF Walked
<1>2. <<>> \in Seq(Seq(Byte))
  BY EmptySeq
<1>3. StartCodes(bytes) \in SUBSET DOMAIN bytes
  BY DEF StartCodes
<1>4. CASE p = "mac"
  BY <1>1, <1>4 DEF Split, SplitMac
<1>5. CASE p = "windows"
  <2>1. Between(bytes, StartCodes(bytes)) \in Seq(Seq(Byte))
    BY <1>3, BetweenType
  <2>2. SplitWindows(bytes) \in Seq(Seq(Byte))
    BY <1>1, <1>2, <2>1 DEF SplitWindows
  <2> QED
    BY <1>5, <2>2 DEF Split
<1>6. CASE p = "android"
  <2> DEFINE found == StartCodes(bytes)
             marks == {i \in found : i = 1 \/ PrefixAt(bytes, i - 1) # 4}
             units == Between(bytes, marks)
             trimmed == [k \in DOMAIN units |-> TrimZeros(units[k])]
  <2>1. units \in Seq(Seq(Byte))
    <3>1. marks \in SUBSET DOMAIN bytes
      BY <1>3
    <3> HIDE DEF marks
    <3> QED
      BY <3>1, BetweenType
  <2>2. trimmed \in Seq(Seq(Byte))
    <3> HIDE DEF units
    <3>1. DOMAIN units = 1..Len(units) /\ Len(units) \in Nat
      BY <2>1, LenProperties
    <3>2. ASSUME NEW k \in 1..Len(units)
          PROVE  trimmed[k] \in Seq(Byte)
      <4>1. units[k] \in Seq(Byte)
        BY <2>1, ElementOfSeq
      <4> QED
        BY <3>1, <4>1, TrimType
    <3>3. DOMAIN trimmed = 1..Len(units) /\ trimmed = [k \in 1..Len(units) |-> trimmed[k]]
      BY <3>1
    <3> HIDE DEF trimmed
    <3> QED
      BY <3>1, <3>2, <3>3, Listed
  <2>3. NonEmpty(trimmed) \in Seq(Seq(Byte))
    <3> HIDE DEF trimmed
    <3> QED
      BY <2>2, NonEmptyType
  <2>4. <<bytes>> \in Seq(Seq(Byte))
    OBVIOUS
  <2>5. \/ SplitAndroid(bytes) = NonEmpty(trimmed)
        \/ SplitAndroid(bytes) = <<bytes>>
        \/ SplitAndroid(bytes) = Avcc(bytes).units
        \/ SplitAndroid(bytes) = <<>>
    BY Zenon DEF SplitAndroid
  <2>6. SplitAndroid(bytes) \in Seq(Seq(Byte))
    <3> HIDE DEF trimmed
    <3> QED
      BY <1>1, <1>2, <2>3, <2>4, <2>5
  <2> QED
    BY <1>6, <2>6 DEF Split
<1> QED
  BY <1>4, <1>5, <1>6

\* Quotient and remainder.
LEMMA Division ==
  ASSUME NEW n \in Nat, NEW d \in Nat \ {0}
  PROVE  n \div d \in Nat /\ n % d \in 0..d - 1
OBVIOUS

\* The digits of a length are bytes.
LEMMA BigEndianType ==
  ASSUME NEW n \in Nat
  PROVE  BigEndian(n) \in Seq(Byte)
<1> DEFINE Digit(unit) == (n \div unit) % Base
<1>0. Base \in Nat \ {0}
  OBVIOUS
<1>1. ASSUME NEW unit \in Nat \ {0}
      PROVE  Digit(unit) \in Byte
  <2>1. n \div unit \in Nat
    BY Division
  <2> QED
    BY <1>0, <2>1, Division DEF Byte
<1>2. ASSUME NEW unit \in Nat \ {0}
      PROVE  unit * Base \in Nat \ {0}
  OBVIOUS
<1>3. Base * Base \in Nat \ {0} /\ Base * Base * Base \in Nat \ {0} /\ 1 \in Nat \ {0}
  BY <1>0, <1>2
<1>4. Digit(Base * Base * Base) \in Byte /\ Digit(Base * Base) \in Byte /\ Digit(Base) \in Byte
        /\ Digit(1) \in Byte
  BY <1>0, <1>1, <1>3
<1>5. BigEndian(n) = <<Digit(Base * Base * Base), Digit(Base * Base), Digit(Base), Digit(1)>>
  BY Zenon DEF BigEndian
<1> HIDE DEF Digit
<1> QED
  BY <1>4, <1>5

\* An encoder's buffer, in any of the formats, is made of bytes.
LEMMA BufferType ==
  ASSUME NEW unit \in Seq(Seq(Byte)),
         NEW format \in {"avcc", "short", "long", "mixed", "padded", "bare"}
  PROVE  Buffer(format, unit) \in Seq(Byte)
<1> DEFINE prefixed == [k \in DOMAIN unit |-> Prefixed(format, unit, k)]
<1>1. DOMAIN unit = 1..Len(unit) /\ Len(unit) \in Nat
  BY LenProperties
<1>2. ShortCode \in Seq(Byte) /\ LongCode \in Seq(Byte) /\ <<0, 0>> \in Seq(Byte) /\ <<>> \in Seq(Byte)
  <2>1. 0 \in Byte /\ 1 \in Byte
    BY DEF Byte
  <2> QED
    BY <2>1 DEF ShortCode, LongCode
<1>3. ASSUME NEW k \in 1..Len(unit)
      PROVE  Prefixed(format, unit, k) \in Seq(Byte)
  <2>1. unit[k] \in Seq(Byte)
    BY ElementOfSeq
  <2>2. Len(unit[k]) \in Nat
    BY <2>1, LenProperties
  <2>3. BigEndian(Len(unit[k])) \in Seq(Byte)
    BY <2>2, BigEndianType
  <2>4. /\ BigEndian(Len(unit[k])) \o unit[k] \in Seq(Byte)
        /\ ShortCode \o unit[k] \in Seq(Byte)
        /\ LongCode \o unit[k] \in Seq(Byte)
    BY <1>2, <2>1, <2>3, ConcatProperties
  <2> QED
    BY <2>1, <2>4, ZenonT(60) DEF Prefixed
<1>4. prefixed \in Seq(Seq(Byte))
  <2>1. DOMAIN prefixed = 1..Len(unit) /\ prefixed = [k \in 1..Len(unit) |-> prefixed[k]]
          /\ \A k \in 1..Len(unit) : prefixed[k] \in Seq(Byte)
    BY <1>1, <1>3
  <2> HIDE DEF prefixed
  <2> QED
    BY <1>1, <2>1, Listed
<1> HIDE DEF prefixed
<1>5. FlattenSeq(prefixed) \in Seq(Byte)
  BY <1>4, FlattenType
<1>6. \/ Buffer(format, unit) = FlattenSeq(prefixed) \o <<0, 0>>
      \/ Buffer(format, unit) = FlattenSeq(prefixed) \o <<>>
  BY Zenon DEF Buffer, prefixed
<1> QED
  BY <1>2, <1>5, <1>6, ConcatProperties

-----------------------------------------------------------------------------
(* packetize_h264. *)

\* Multiplication is monotone.
LEMMA Monotone ==
  ASSUME NEW i \in Nat, NEW j \in Nat, NEW d \in Nat, i <= j
  PROVE  i * d <= j * d
<1>1. (j - i) * d \in Nat
  <2>1. j - i \in Nat
    OBVIOUS
  <2> QED
    BY <2>1, Times
<1>2. j * d = i * d + (j - i) * d
  OBVIOUS
<1>3. i * d \in Nat /\ j * d \in Nat
  BY Times
<1> QED
  BY <1>1, <1>2, <1>3

\* n bytes need q pieces of d bytes, the last of which has at least one.
LEMMA Pieces ==
  ASSUME NEW n \in Nat \ {0}, NEW d \in Nat \ {0}, NEW q, q = (n + d - 1) \div d
  PROVE  q \in Nat \ {0} /\ (q - 1) * d < n /\ n <= q * d
<1>1. q \in Nat
  <2>1. n + d - 1 \in Nat
    OBVIOUS
  <2> QED
    BY <2>1, Division
<1>2. q * d <= n + d - 1 /\ n + d - 1 < q * d + d
  OBVIOUS
<1>3. q * d \in Nat
  BY <1>1, Times
<1>4. n <= q * d
  BY <1>2, <1>3
<1>5. q # 0
  BY <1>4
<1>6. (q - 1) * d = q * d - d
  BY <1>1
<1> QED
  BY <1>1, <1>2, <1>3, <1>4, <1>5, <1>6

USE MtuAssumption

\* A payload of at most the MTU.
Fits == {p \in [fragment : BOOLEAN, header : Byte, first : BOOLEAN, last : BOOLEAN, data : Seq(Byte)] :
           Size(p) <= Mtu}

\* The last byte of the i-th fragment's data.
End(nal, count, i) == IF i = count THEN Len(nal) ELSE 1 + i * FragmentSize

\* The first byte of it.
Begin(i) == 2 + (i - 1) * FragmentSize

\* The fragments of a unit.
CutInto(nal, count) ==
  /\ count \in Nat \ {0}
  /\ (count - 1) * FragmentSize < Len(nal) - 1
  /\ Len(nal) - 1 <= count * FragmentSize
  /\ DOMAIN Packetize(nal) = 1..count
  /\ Packetize(nal) = [i \in 1..count |-> Packetize(nal)[i]]
  /\ \A i \in 1..count : Packetize(nal)[i] =
       Payload(TRUE, nal, i = 1, i = count, SubSeq(nal, Begin(i), End(nal, count, i)))

\* A fragment has room for a byte of data.
LEMMA FragmentSizeType == FragmentSize \in Nat \ {0} /\ FragmentSize = Mtu - 2
BY DEF FragmentSize

\* packetize_h264 cuts every unit above the MTU into fragments, and the end bit is on the last.
LEMMA CutIntoFragments ==
  ASSUME NEW nal \in Seq(Byte), Len(nal) > Mtu
  PROVE  \E count : CutInto(nal, count)
<1> DEFINE n == Len(nal) - 1
           count == (Len(nal) + FragmentSize - 2) \div FragmentSize
           Data(i) == SubSeq(nal, 2 + (i - 1) * FragmentSize,
                             IF i = count THEN Len(nal) ELSE 1 + i * FragmentSize)
           cut == [i \in 1..count |-> Payload(TRUE, nal, i = 1, EndsAt(nal, i), Data(i))]
<1>1. Len(nal) \in Nat /\ n \in Nat \ {0} /\ nal # <<>> /\ ~(Len(nal) <= Mtu)
  <2>1. Len(nal) \in Nat /\ (nal = <<>> => Len(nal) = 0)
    BY LenProperties, EmptySeq
  <2>2. \A l \in Nat : l > Mtu => l - 1 \in Nat \ {0} /\ l # 0 /\ ~(l <= Mtu)
    OBVIOUS
  <2> QED
    BY <2>1, <2>2, Zenon
<1>2. count \in Nat \ {0} /\ (count - 1) * FragmentSize < n /\ n <= count * FragmentSize
  <2>1. count = (n + FragmentSize - 1) \div FragmentSize
    BY <1>1, FragmentSizeType
  <2> HIDE DEF n, count
  <2> QED
    BY <1>1, <2>1, Pieces, FragmentSizeType
<1>3. Packetize(nal) = cut
  BY <1>1, Zenon DEF Packetize
<1> HIDE DEF count
<1>4. ASSUME NEW i \in 1..count
      PROVE  EndsAt(nal, i) <=> i = count
  <2>1. CASE i = count
    BY <1>1, <1>2, <2>1 DEF EndsAt
  <2>2. CASE i # count
    <3>1. i <= count - 1 /\ i \in Nat /\ count - 1 \in Nat
      BY <1>2, <2>2
    <3>2. i * FragmentSize <= (count - 1) * FragmentSize
      BY <3>1, Monotone, FragmentSizeType
    <3>3. i * FragmentSize \in Nat /\ (count - 1) * FragmentSize \in Nat
      BY <3>1, Times, FragmentSizeType
    <3>4. ~(i * FragmentSize >= Len(nal) - 1)
      BY <1>1, <1>2, <3>2, <3>3
    <3> QED
      BY <2>2, <3>4 DEF EndsAt
  <2> QED
    BY <2>1, <2>2
<1>5. ASSUME NEW i \in 1..count
      PROVE  cut[i] = Payload(TRUE, nal, i = 1, i = count, SubSeq(nal, Begin(i), End(nal, count, i)))
  <2>1. Data(i) = SubSeq(nal, Begin(i), End(nal, count, i))
    BY Zenon DEF Begin, End
  <2>2. cut[i] = Payload(TRUE, nal, i = 1, EndsAt(nal, i), Data(i))
    BY Zenon
  <2>3. (i = 1) \in BOOLEAN /\ (i = count) \in BOOLEAN /\ EndsAt(nal, i) = (i = count)
    BY <1>4 DEF EndsAt
  <2> HIDE DEF Data, cut
  <2> QED
    BY <2>1, <2>2, <2>3, Zenon
<1>6. DOMAIN cut = 1..count /\ cut = [i \in 1..count |-> cut[i]]
  OBVIOUS
<1> HIDE DEF cut
<1>7. CutInto(nal, count)
  BY <1>2, <1>3, <1>5, <1>6 DEF CutInto
<1> QED
  BY <1>7

\* Each fragment begins where the one before it ends, and none is longer than a fragment may be.
LEMMA Boundaries ==
  ASSUME NEW nal \in Seq(Byte), NEW count, CutInto(nal, count)
  PROVE  /\ End(nal, count, 0) = 1
         /\ \A i \in 1..count :
              /\ End(nal, count, i - 1) \in 1..Len(nal) /\ End(nal, count, i) \in 1..Len(nal)
              /\ Begin(i) = End(nal, count, i - 1) + 1
              /\ End(nal, count, i - 1) < End(nal, count, i)
              /\ End(nal, count, i) - Begin(i) < FragmentSize
<1> DEFINE F == FragmentSize
           len == Len(nal)
           c == count
<1>1. F \in Nat \ {0} /\ len \in Nat /\ c \in Nat \ {0}
  BY FragmentSizeType, LenProperties DEF CutInto
<1>2. (c - 1) * F < len - 1 /\ len - 1 <= c * F
  BY DEF CutInto
<1>3. (c - 1) * F \in Nat
  <2>1. c - 1 \in Nat
    BY <1>1
  <2> QED
    BY <1>1, <2>1, Times
<1> HIDE DEF F, len, c
<1>4. End(nal, count, 0) = 1
  BY <1>1 DEF End, F, c
<1>5. ASSUME NEW i \in 0..c - 1
      PROVE  /\ End(nal, count, i) = 1 + i * F /\ i * F \in Nat
             /\ i * F <= (c - 1) * F
  <2>1. i \in Nat /\ c - 1 \in Nat /\ i # c
    BY <1>1
  <2>2. i * F <= (c - 1) * F /\ i * F \in Nat
    BY <1>1, <2>1, Monotone, Times
  <2> QED
    BY <2>1, <2>2 DEF End, F, c
<1>6. ASSUME NEW i \in 1..c
      PROVE  /\ End(nal, count, i - 1) \in 1..len /\ End(nal, count, i) \in 1..len
             /\ Begin(i) = End(nal, count, i - 1) + 1
             /\ End(nal, count, i - 1) < End(nal, count, i)
             /\ End(nal, count, i) - Begin(i) < F
  <2>1. i - 1 \in 0..c - 1
    BY <1>1
  <2>2. End(nal, count, i - 1) = 1 + (i - 1) * F /\ (i - 1) * F \in Nat /\ (i - 1) * F <= (c - 1) * F
    BY <1>5, <2>1
  <2>3. Begin(i) = 2 + (i - 1) * F
    BY DEF Begin, F
  <2>4. CASE i = c
    <3>1. End(nal, count, i) = len
      BY <2>4 DEF End, len, c
    <3>2. c * F = (c - 1) * F + F
      BY <1>1
    <3> QED
      BY <1>1, <1>2, <1>3, <2>2, <2>3, <2>4, <3>1, <3>2
  <2>5. CASE i # c
    <3>1. i \in 0..c - 1
      BY <1>1, <2>5
    <3>2. End(nal, count, i) = 1 + i * F /\ i * F \in Nat /\ i * F <= (c - 1) * F
      BY <1>5, <3>1
    <3>3. i * F = (i - 1) * F + F
      BY <1>1, <3>1
    <3> QED
      BY <1>1, <1>2, <1>3, <2>2, <2>3, <3>2, <3>3
  <2> QED
    BY <2>4, <2>5
<1> QED
  BY <1>4, <1>6 DEF F, len, c

\* A fragment fits into the MTU.
LEMMA FragmentFits ==
  ASSUME NEW nal \in Seq(Byte), NEW count, CutInto(nal, count), nal # <<>>, NEW i \in 1..count
  PROVE  /\ Packetize(nal)[i] \in Fits
         /\ Packetize(nal)[i].data = SubSeq(nal, Begin(i), End(nal, count, i))
         /\ Packetize(nal)[i].data \in Seq(Byte)
<1> DEFINE s == Begin(i)
           e == End(nal, count, i)
           data == SubSeq(nal, s, e)
<1>1. s \in Nat \ {0} /\ e \in Int /\ e <= Len(nal) /\ s <= e /\ e - s + 1 <= Mtu - 2
  <2>1. Len(nal) \in Nat /\ FragmentSize \in Nat /\ FragmentSize = Mtu - 2
    BY LenProperties, FragmentSizeType
  <2>2. /\ End(nal, count, i - 1) \in 1..Len(nal) /\ e \in 1..Len(nal)
        /\ s = End(nal, count, i - 1) + 1
        /\ End(nal, count, i - 1) < e /\ e - s < FragmentSize
    BY Boundaries
  <2> HIDE DEF s, e
  <2> QED
    BY <2>1, <2>2
<1> HIDE DEF s, e
<1>2. data \in Seq(Byte) /\ Len(data) = e - s + 1
  BY <1>1, PartType
<1>3. Packetize(nal)[i] = Payload(TRUE, nal, i = 1, i = count, data)
  BY DEF CutInto, s, e
<1>4. nal[1] \in Byte
  BY LenProperties, EmptySeq, HeadTailProperties
<1> HIDE DEF data
<1>5. Payload(TRUE, nal, i = 1, i = count, data) \in Fits
  <2>1. Size(Payload(TRUE, nal, i = 1, i = count, data)) = Len(data) + 2
    BY DEF Size, Payload
  <2>2. Len(data) + 2 <= Mtu
    BY <1>1, <1>2
  <2> QED
    BY <1>2, <1>4, <2>1, <2>2 DEF Payload, Fits
<1>6. Payload(TRUE, nal, i = 1, i = count, data).data = data
  BY DEF Payload
<1> QED
  BY <1>2, <1>3, <1>5, <1>6 DEF data, s, e

\* What the payloads carry.
Datas(payloads) == [k \in DOMAIN payloads |-> payloads[k].data]

\* The fragments of a unit, and their data, are sequences.
LEMMA CutType ==
  ASSUME NEW nal \in Seq(Byte), NEW count, CutInto(nal, count), nal # <<>>
  PROVE  /\ Packetize(nal) \in Seq(Fits) /\ Len(Packetize(nal)) = count
         /\ Datas(Packetize(nal)) \in Seq(Seq(Byte)) /\ Len(Datas(Packetize(nal))) = count
<1>1. /\ count \in Nat /\ DOMAIN Packetize(nal) = 1..count
      /\ Packetize(nal) = [i \in 1..count |-> Packetize(nal)[i]]
  BY DEF CutInto
<1>2. /\ DOMAIN Datas(Packetize(nal)) = 1..count
      /\ Datas(Packetize(nal)) = [i \in 1..count |-> Datas(Packetize(nal))[i]]
      /\ \A i \in 1..count : Datas(Packetize(nal))[i] = Packetize(nal)[i].data
  BY <1>1 DEF Datas
<1>3. \A i \in 1..count : Packetize(nal)[i] \in Fits /\ Packetize(nal)[i].data \in Seq(Byte)
  BY FragmentFits
<1>4. \A i \in 1..count : Datas(Packetize(nal))[i] \in Seq(Byte)
  BY <1>2, <1>3
<1>5. Packetize(nal) \in Seq(Fits) /\ Len(Packetize(nal)) = count
  BY <1>1, <1>3, Listed
<1>6. Datas(Packetize(nal)) \in Seq(Seq(Byte)) /\ Len(Datas(Packetize(nal))) = count
  BY <1>1, <1>2, <1>4, Listed
<1> QED
  BY <1>5, <1>6

\* A unit up to the MTU travels whole, and fits.
LEMMA SinglePayload ==
  ASSUME NEW nal \in Seq(Byte), nal # <<>>, Len(nal) <= Mtu
  PROVE  /\ Payload(FALSE, nal, TRUE, TRUE, Tail(nal)) \in Fits
         /\ Packetize(nal) = <<Payload(FALSE, nal, TRUE, TRUE, Tail(nal))>>
<1>1. Tail(nal) \in Seq(Byte) /\ Len(Tail(nal)) = Len(nal) - 1
  BY HeadTailProperties
<1>2. nal[1] \in Byte
  BY LenProperties, EmptySeq, HeadTailProperties
<1>3. Size(Payload(FALSE, nal, TRUE, TRUE, Tail(nal))) <= Mtu
  <2>1. Size(Payload(FALSE, nal, TRUE, TRUE, Tail(nal))) = Len(Tail(nal)) + 1
    BY DEF Size, Payload
  <2>2. Len(nal) \in Nat
    BY LenProperties
  <2>3. (Len(nal) - 1) + 1 = Len(nal)
    BY <2>2
  <2> QED
    BY <1>1, <2>1, <2>3
<1>4. Payload(FALSE, nal, TRUE, TRUE, Tail(nal)) \in Fits
  BY <1>1, <1>2, <1>3 DEF Payload, Fits
<1>5. Packetize(nal) = <<Payload(FALSE, nal, TRUE, TRUE, Tail(nal))>>
  BY Zenon DEF Packetize
<1> QED
  BY <1>4, <1>5

\* There is no third case.
LEMMA LongOrShort ==
  ASSUME NEW nal \in Seq(Byte)
  PROVE  Len(nal) <= Mtu \/ Len(nal) > Mtu
BY LenProperties

\* Every payload of every unit fits into the MTU.
LEMMA PacketizeType ==
  ASSUME NEW nal \in Seq(Byte)
  PROVE  Packetize(nal) \in Seq(Fits)
<1>1. CASE nal = <<>>
  <2>1. Packetize(nal) = <<>>
    BY <1>1, Zenon DEF Packetize
  <2> QED
    BY <2>1, EmptySeq
<1>2. CASE nal # <<>> /\ Len(nal) <= Mtu
  <2> DEFINE single == Payload(FALSE, nal, TRUE, TRUE, Tail(nal))
  <2>1. single \in Fits /\ Packetize(nal) = <<single>>
    BY <1>2, SinglePayload
  <2> HIDE DEF single
  <2> QED
    BY <2>1
<1>3. CASE nal # <<>> /\ Len(nal) > Mtu
  <2>1. PICK count : CutInto(nal, count)
    BY <1>3, CutIntoFragments
  <2> QED
    BY <1>3, <2>1, CutType
<1> QED
  BY <1>1, <1>2, <1>3, LongOrShort

\* The data of the fragments joins to the unit without its header.
LEMMA CutsJoin ==
  ASSUME NEW nal \in Seq(Byte), NEW count, CutInto(nal, count), nal # <<>>
  PROVE  FlattenSeq(Datas(Packetize(nal))) = Tail(nal)
<1> DEFINE datas == Datas(Packetize(nal))
           E(i) == End(nal, count, i)
<1>1. datas \in Seq(Seq(Byte)) /\ Len(datas) = count /\ count \in Nat \ {0}
  <2>1. datas \in Seq(Seq(Byte)) /\ Len(datas) = count
    BY CutType
  <2>2. count \in Nat \ {0}
    BY Zenon DEF CutInto
  <2> QED
    BY <2>1, <2>2
<1>2. ASSUME NEW i \in 1..count
      PROVE  datas[i] = SubSeq(nal, E(i - 1) + 1, E(i))
  <2>1. datas[i] = Packetize(nal)[i].data
    BY DEF Datas, CutInto
  <2>2. Packetize(nal)[i].data = SubSeq(nal, Begin(i), E(i))
    BY FragmentFits
  <2>3. Begin(i) = E(i - 1) + 1
    BY Boundaries
  <2> QED
    BY <2>1, <2>2, <2>3
<1>3. E(0) = 1 /\ \A i \in 1..count : E(i - 1) \in 1..Len(nal) /\ E(i) \in 1..Len(nal) /\ E(i - 1) < E(i)
  BY Boundaries
<1>4. E(count) = Len(nal)
  BY DEF End
<1> HIDE DEF datas, E
<1>5. PICK f \in [0..count -> Seq(Byte)] :
        /\ f[0] = <<>>
        /\ \A i \in 1..count : f[i] = f[i - 1] \o datas[i]
        /\ FlattenSeq(datas) = f[count]
  BY <1>1, Flattened
<1> DEFINE T == {i \in Nat : i <= count => f[i] = SubSeq(nal, 2, E(i))}
<1>6. 0 \in T
  <2>1. SubSeq(nal, 2, E(0)) = <<>>
    BY <1>3, SubSeqEmpty
  <2> QED
    BY <1>5, <2>1
<1>7. ASSUME NEW i \in T
      PROVE  i + 1 \in T
  <2> SUFFICES ASSUME i + 1 <= count
               PROVE  f[i + 1] = SubSeq(nal, 2, E(i + 1))
    OBVIOUS
  <2>1. i + 1 \in 1..count /\ (i + 1) - 1 = i /\ i <= count
    BY <1>1
  <2>2. f[i + 1] = f[i] \o datas[i + 1] /\ datas[i + 1] = SubSeq(nal, E(i) + 1, E(i + 1))
    BY <1>2, <1>5, <2>1
  <2>3. f[i] = SubSeq(nal, 2, E(i))
    BY <2>1
  <2>4. E(i) \in 1..Len(nal) /\ E(i + 1) \in 1..Len(nal) /\ E(i) < E(i + 1)
    BY <1>3, <2>1
  <2>5. SubSeq(nal, 2, E(i)) \o SubSeq(nal, E(i) + 1, E(i + 1)) = SubSeq(nal, 2, E(i + 1))
    <3>1. Len(nal) \in Nat
      BY LenProperties
    <3>2. 2 \in 1..Len(nal) + 1 /\ E(i) \in 2 - 1..Len(nal) /\ E(i + 1) \in E(i)..Len(nal)
      BY <2>4, <3>1
    <3> QED
      BY <3>2, ConcatAdjacentSubSeq
  <2> QED
    BY <2>2, <2>3, <2>5
<1>8. T = Nat
  <2>1. T \in SUBSET Nat
    OBVIOUS
  <2> HIDE DEF T
  <2> QED
    BY <1>6, <1>7, <2>1, Every
<1>9. f[count] = SubSeq(nal, 2, Len(nal))
  BY <1>1, <1>4, <1>8
<1>10. Tail(nal) = SubSeq(nal, 2, Len(nal))
  BY TailIsSubSeq
<1> QED
  BY <1>5, <1>9, <1>10 DEF datas

\* What packetize_h264 promises a receiver: of every unit, whatever its size and the MTU, every
\* payload fits and names the unit's header, the start bit is on the first payload only and the
\* end bit on the last only, and together they carry the unit's bytes, in order and once.
THEOREM PayloadsCarryTheUnit ==
  ASSUME NEW nal \in Seq(Byte), nal # <<>>
  PROVE  LET payloads == Packetize(nal)
         IN  /\ payloads \in Seq(Fits)
             /\ \A k \in DOMAIN payloads :
                  /\ payloads[k].header = nal[1]
                  /\ payloads[k].first = (k = 1)
                  /\ payloads[k].last = (k = Len(payloads))
             /\ FlattenSeq([k \in DOMAIN payloads |-> payloads[k].data]) = Tail(nal)
<1> DEFINE payloads == Packetize(nal)
<1>0. payloads \in Seq(Fits)
  BY PacketizeType
<1>1. CASE Len(nal) <= Mtu
  <2> DEFINE single == Payload(FALSE, nal, TRUE, TRUE, Tail(nal))
  <2>1. payloads = <<single>>
    BY <1>1, SinglePayload
  <2>2. single.header = nal[1] /\ single.first = TRUE /\ single.last = TRUE /\ single.data = Tail(nal)
    BY DEF Payload
  <2>3. Tail(nal) \in Seq(Byte)
    BY HeadTailProperties
  <2> HIDE DEF single, payloads
  <2>4. Len(payloads) = 1 /\ DOMAIN payloads = 1..1 /\ payloads[1] = single
    BY <2>1
  <2>5. ASSUME NEW k \in DOMAIN payloads
        PROVE  /\ payloads[k].header = nal[1]
               /\ payloads[k].first = (k = 1)
               /\ payloads[k].last = (k = Len(payloads))
    <3>1. k = 1
      BY <2>4
    <3>2. (k = 1) = TRUE /\ (k = Len(payloads)) = TRUE
      BY <2>4, <3>1
    <3> QED
      BY <2>2, <2>4, <3>1, <3>2, Zenon
  <2> DEFINE datas == [k \in DOMAIN payloads |-> payloads[k].data]
  <2>6. DOMAIN datas = 1..1 /\ datas = [k \in 1..1 |-> datas[k]] /\ datas[1] = Tail(nal)
    BY <2>2, <2>4
  <2>7. FlattenSeq(datas) = Tail(nal)
    <3>1. datas \in Seq(Seq(Byte)) /\ Len(datas) = 1 /\ datas[1] = Tail(nal)
      <4> HIDE DEF datas
      <4>1. \A k \in 1..1 : datas[k] \in Seq(Byte)
        BY <2>3, <2>6
      <4> QED
        BY <2>6, <4>1, Listed
    <3> HIDE DEF datas
    <3>2. PICK f \in [0..Len(datas) -> Seq(Byte)] :
            /\ f[0] = <<>>
            /\ \A i \in 1..Len(datas) : f[i] = f[i - 1] \o datas[i]
            /\ FlattenSeq(datas) = f[Len(datas)]
      BY <3>1, Flattened
    <3>3. f[1] = <<>> \o Tail(nal)
      <4>1. 1 - 1 = 0 /\ 1 \in 1..Len(datas)
        BY <3>1
      <4>2. f[1] = f[1 - 1] \o datas[1]
        BY <3>2, <4>1
      <4> QED
        BY <3>1, <3>2, <4>1, <4>2
    <3> QED
      BY <2>3, <3>1, <3>2, <3>3, ConcatEmptySeq
  <2> QED
    BY <1>0, <2>5, <2>7 DEF payloads
<1>2. CASE Len(nal) > Mtu
  <2>1. PICK count : CutInto(nal, count)
    BY <1>2, CutIntoFragments
  <2>2. Len(payloads) = count /\ DOMAIN payloads = 1..count
    BY <2>1, CutType DEF CutInto
  <2>3. ASSUME NEW k \in DOMAIN payloads
        PROVE  /\ payloads[k].header = nal[1]
               /\ payloads[k].first = (k = 1)
               /\ payloads[k].last = (k = Len(payloads))
    <3>1. payloads[k] = Payload(TRUE, nal, k = 1, k = count, SubSeq(nal, Begin(k), End(nal, count, k)))
      BY <2>1, <2>2 DEF CutInto
    <3>2. /\ payloads[k].header = nal[1]
          /\ payloads[k].first = (k = 1)
          /\ payloads[k].last = (k = count)
      <4> HIDE DEF payloads
      <4> QED
        BY <3>1 DEF Payload
    <3> HIDE DEF payloads
    <3> QED
      BY <2>2, <3>2, Zenon
  <2>4. FlattenSeq([k \in DOMAIN payloads |-> payloads[k].data]) = Tail(nal)
    BY <2>1, CutsJoin DEF Datas
  <2> QED
    BY <1>0, <2>3, <2>4
<1> QED
  BY <1>1, <1>2, LongOrShort

-----------------------------------------------------------------------------
(* take_request. *)

\* The sizes are numbers.
LEMMA SizesType == MaxRequest \in Nat /\ MaxRequest >= 4 /\ Chunk \in Nat \ {0} /\ Radix \in Nat \ {0}
BY SizesAssumption

\* The value of a token is a number.
LEMMA TokenType == \A t \in Token : t[2] \in Nat
BY DEF Token, Line

\* A frame has at least the four bytes of its head.
LEMMA FrameLengthType ==
  ASSUME NEW bytes \in Seq(Token), NEW i \in 1..Len(bytes), i + 3 <= Len(bytes)
  PROVE  FrameLength(bytes, i) \in Nat /\ FrameLength(bytes, i) >= 4
<1>1. i + 2 \in 1..Len(bytes) /\ i + 3 \in 1..Len(bytes)
  BY LenProperties
<1>2. bytes[i + 2] \in Token /\ bytes[i + 3] \in Token
  BY <1>1, ElementOfSeq
<1>3. bytes[i + 2][2] \in Nat /\ bytes[i + 3][2] \in Nat
  BY <1>2, TokenType
<1>4. bytes[i + 2][2] * Radix \in Nat
  BY <1>3, SizesType, Times
<1>5. \A a, b \in Nat : 4 + a + b \in Nat /\ 4 + a + b >= 4
  OBVIOUS
<1> QED
  BY <1>3, <1>4, <1>5 DEF FrameLength

\* Where the loop over the frames may stop.
Drained(bytes) == {i \in 1..Len(bytes) + 1 : ~FrameAt(bytes, i)}

\* The walk over the frames in front of the input ends, and obeys its definition.
LEMMA AfterFramesIs ==
  ASSUME NEW bytes \in Seq(Token)
  PROVE  \E after \in [1..Len(bytes) + 1 -> Drained(bytes)] :
           /\ AfterFrames(bytes) = after[1]
           /\ \A i \in 1..Len(bytes) + 1 :
                after[i] = IF FrameAt(bytes, i) THEN after[i + FrameLength(bytes, i)] ELSE i
<1> DEFINE n == Len(bytes) + 1
           S == Drained(bytes)
           Follows(i) == i + FrameLength(bytes, i)
           Goes(i) == FrameAt(bytes, i)
           After[i \in 1 .. Len(bytes) + 1] ==
             IF FrameAt(bytes, i) THEN After[i + FrameLength(bytes, i)] ELSE i
           stop == [i \in 1..n |-> IF Goes(i) THEN n ELSE i]
           next == [i \in 1..n |-> IF Goes(i) THEN Follows(i) ELSE 0]
           rank == [i \in 1..n |-> n - i]
           op == [p \in (1..n) \X S |-> p[2]]
<1>1. Len(bytes) \in Nat /\ n \in Nat /\ 1 \in 1..n
  BY LenProperties
<1>2. ASSUME NEW i \in 1..n, Goes(i)
      PROVE  Follows(i) \in 1..n /\ i < Follows(i)
  <2>1. i + 3 <= Len(bytes) /\ i - 1 + FrameLength(bytes, i) <= Len(bytes)
    BY <1>2 DEF FrameAt, Holds
  <2>2. i \in 1..Len(bytes)
    BY <1>1, <2>1
  <2>3. FrameLength(bytes, i) \in Nat /\ FrameLength(bytes, i) >= 4
    BY <2>1, <2>2, FrameLengthType
  <2> QED
    BY <1>1, <2>1, <2>3
<1>3. n \in S
  <2>1. ~(n + 3 <= Len(bytes))
    BY <1>1
  <2> QED
    BY <1>1, <2>1 DEF Drained, FrameAt
<1>4. \A i \in 1..n : ~Goes(i) => i \in S
  BY DEF Drained
<1>5. ASSUME NEW i \in 1..n
      PROVE  /\ Goes(i) => next[i] = Follows(i) /\ next[i] \in 1..n
             /\ ~Goes(i) => next[i] = 0 /\ stop[i] = i
             /\ next[i] \in 0..n /\ stop[i] \in S
  BY <1>1, <1>2, <1>3, <1>4
<1> HIDE DEF Goes, Follows
<1>6. Descends(n, S, stop, op, next, rank)
  <2>1. stop \in [1..n -> S]
    BY <1>5
  <2>2. op \in [(1..n) \X S -> S]
    OBVIOUS
  <2>3. next \in [1..n -> 0..n] /\ rank \in [1..n -> 0..n]
    BY <1>1, <1>5
  <2>4. \A i \in 1..n : next[i] # 0 => rank[next[i]] < rank[i]
    BY <1>1, <1>2
  <2> HIDE DEF stop, op, next, rank, n, S
  <2> QED
    BY <1>1, <2>1, <2>2, <2>3, <2>4 DEF Descends
<1>7. PICK f : f \in [1..n -> S] /\ Solves(f, n, stop, op, next)
  BY <1>6, Recursion
<1>8. f = [i \in 1..n |-> IF FrameAt(bytes, i) THEN f[i + FrameLength(bytes, i)] ELSE i]
  <2>1. ASSUME NEW i \in 1..n
        PROVE  f[i] = IF FrameAt(bytes, i) THEN f[i + FrameLength(bytes, i)] ELSE i
    <3>1. CASE Goes(i)
      <4>1. next[i] = Follows(i) /\ next[i] # 0 /\ Follows(i) \in 1..n
        BY <1>2, <3>1
      <4>2. f[i] = op[<<i, f[Follows(i)]>>]
        BY <1>7, <4>1 DEF Solves
      <4>3. f[Follows(i)] \in S
        BY <1>7, <4>1
      <4>4. f[i] = f[Follows(i)]
        BY <4>2, <4>3
      <4> QED
        BY <3>1, <4>4 DEF Goes, Follows
    <3>2. CASE ~Goes(i)
      <4>1. f[i] = stop[i] /\ stop[i] = i
        BY <1>5, <1>7, <3>2 DEF Solves
      <4> QED
        BY <3>2, <4>1 DEF Goes
    <3> QED
      BY <3>1, <3>2
  <2> HIDE DEF n
  <2> QED
    BY <1>7, <2>1
<1>9. After = [i \in 1 .. Len(bytes) + 1 |->
                 IF FrameAt(bytes, i) THEN After[i + FrameLength(bytes, i)] ELSE i]
  <2> DEFINE P(g) == g = [i \in 1 .. Len(bytes) + 1 |->
                            IF FrameAt(bytes, i) THEN g[i + FrameLength(bytes, i)] ELSE i]
  <2>1. \E g : P(g)
    BY <1>8
  <2> HIDE DEF P
  <2>2. P(CHOOSE g : P(g))
    BY <2>1
  <2> QED
    BY <2>2 DEF P
<1>10. AfterFrames(bytes) = After[1]
  BY DEF AfterFrames
<1> HIDE DEF After
<1>11. Obeys(After, n, S, stop, op, next)
  <2>1. ASSUME NEW i \in 1..n
        PROVE  After[i] = IF Goes(i) THEN After[Follows(i)] ELSE i
    BY <1>9 DEF Goes, Follows
  <2>2. ASSUME NEW i \in 1..n
        PROVE  /\ next[i] = 0 => After[i] = stop[i]
               /\ next[i] # 0 /\ After[next[i]] \in S => After[i] = op[<<i, After[next[i]]>>]
    <3>1. CASE Goes(i)
      <4>1. next[i] = Follows(i) /\ next[i] # 0
        BY <1>5, <3>1
      <4> QED
        BY <2>1, <3>1, <4>1
    <3>2. CASE ~Goes(i)
      <4>1. next[i] = 0 /\ stop[i] = i
        BY <1>5, <3>2
      <4> QED
        BY <2>1, <3>2, <4>1
    <3> QED
      BY <3>1, <3>2
  <2> QED
    BY <2>2 DEF Obeys
<1>12. \A i \in 1..n : After[i] \in S
  BY <1>6, <1>11, Solution
<1>13. After \in [1..n -> S]
  <2> HIDE DEF S, n
  <2>1. After = [i \in 1..n |-> After[i]]
    BY <1>9 DEF n
  <2> QED
    BY <1>12, <2>1
<1>14. \A i \in 1..n : After[i] = IF FrameAt(bytes, i) THEN After[i + FrameLength(bytes, i)] ELSE i
  BY <1>9
<1> QED
  BY <1>10, <1>13, <1>14

\* The loop that drains frames ends, and no frame that it could drain is left then.
LEMMA AfterFramesType ==
  ASSUME NEW bytes \in Seq(Token)
  PROVE  AfterFrames(bytes) \in Drained(bytes)
<1>1. Len(bytes) \in Nat /\ 1 \in 1..Len(bytes) + 1
  BY LenProperties
<1>2. PICK after \in [1..Len(bytes) + 1 -> Drained(bytes)] : AfterFrames(bytes) = after[1]
  BY AfterFramesIs
<1> QED
  BY <1>1, <1>2

\* Min, or 0 when there is nothing to choose from.
LEMMA MinOfNone ==
  ASSUME NEW T \in SUBSET Nat
  PROVE  (IF T = {} THEN 0 ELSE Min(T)) \in T \cup {0}
<1>1. CASE T = {}
  BY <1>1
<1>2. CASE T # {}
  BY <1>2, MinIs
<1> QED
  BY <1>1, <1>2

\* The headers end within the bytes.
LEMMA HeaderEndType ==
  ASSUME NEW bytes \in Seq(Token)
  PROVE  HeaderEnd(bytes) \in 0..Len(bytes)
<1> DEFINE ends == {i \in 2 .. Len(bytes) : bytes[i - 1] = Crlf /\ bytes[i] = Crlf}
<1>1. Len(bytes) \in Nat
  BY LenProperties
<1>2. ends \in SUBSET Nat /\ ends \subseteq 0..Len(bytes)
  BY <1>1
<1>3. HeaderEnd(bytes) = IF ends = {} THEN 0 ELSE Min(ends)
  BY DEF HeaderEnd
<1> HIDE DEF ends
<1>4. HeaderEnd(bytes) \in ends \cup {0}
  BY <1>2, <1>3, MinOfNone
<1>5. 0 \in 0..Len(bytes)
  BY <1>1
<1> QED
  BY <1>2, <1>4, <1>5, Zenon

\* The lines of the headers are tokens.
LEMMA LinesType ==
  ASSUME NEW bytes \in Seq(Token)
  PROVE  Lines(bytes) \in Seq(Token)
<1> DEFINE end == HeaderEnd(bytes)
           kept == [i \in 1..end |-> IF bytes[i] = Crlf THEN <<>> ELSE <<bytes[i]>>]
<1>1. end \in Nat /\ end <= Len(bytes) /\ Len(bytes) \in Nat
  BY HeaderEndType, LenProperties
<1> HIDE DEF end
<1>2. ASSUME NEW i \in 1..end
      PROVE  kept[i] \in Seq(Token)
  <2>1. bytes[i] \in Token
    <3>1. i \in 1..Len(bytes)
      BY <1>1
    <3> QED
      BY <3>1, ElementOfSeq
  <2>2. <<bytes[i]>> \in Seq(Token)
    BY <2>1
  <2>3. <<>> \in Seq(Token)
    BY EmptySeq
  <2> QED
    BY <2>2, <2>3, Zenon
<1>3. DOMAIN kept = 1..end /\ kept = [i \in 1..end |-> kept[i]]
  OBVIOUS
<1>4. Lines(bytes) = FlattenSeq(kept)
  BY DEF Lines, end
<1> HIDE DEF kept
<1>5. kept \in Seq(Seq(Token))
  BY <1>1, <1>2, <1>3, Listed
<1> QED
  BY <1>4, <1>5, FlattenType

\* A Content-Length is a number.
LEMMA BodyLengthType ==
  ASSUME NEW lines \in Seq(Token)
  PROVE  BodyLength(lines) \in Nat
<1> DEFINE lengths == {i \in DOMAIN lines : lines[i][1] = "clen"}
<1>1. lengths \in SUBSET Nat /\ lengths \subseteq 1..Len(lines)
  BY LenProperties
<1>2. BodyLength(lines) = IF lengths = {} THEN 0 ELSE lines[Min(lengths)][2]
  BY Zenon DEF BodyLength, ContentLength
<1> HIDE DEF lengths
<1>3. CASE lengths = {}
  BY <1>2, <1>3
<1>4. CASE lengths # {}
  <2>1. Min(lengths) \in 1..Len(lines)
    BY <1>1, <1>4, MinIs
  <2>2. lines[Min(lengths)] \in Token
    BY <2>1, ElementOfSeq
  <2> QED
    BY <1>2, <1>4, <2>2, TokenType
<1> QED
  BY <1>3, <1>4

\* An answer, and no more bytes left than there were.
Remains(result, bytes) ==
  /\ result.what \in {"none", "error", "request"}
  /\ result.rest \in Seq(Token) /\ Len(result.rest) <= Len(bytes)

\* An answer leaves a part of the bytes, and asks for more only when fewer than MaxRequest are there
\* or a frame could still be drained.
LEMMA AnswerType ==
  ASSUME NEW bytes \in Seq(Token)
  PROVE  /\ Remains(Answer[bytes], bytes)
         /\ Answer[bytes].what = "none" /\ ~FrameAt(bytes, 1) => Len(bytes) < MaxRequest
         /\ Answer[bytes].what = "none" => Answer[bytes].rest = bytes
<1> DEFINE More == Result("none", 0, bytes)
           Refused == Result("error", 0, bytes)
           end == HeaderEnd(bytes)
           total == end + BodyLength(Lines(bytes))
           Taken == Result("request", bytes[1][2], SubSeq(bytes, total + 1, Len(bytes)))
<1>1. Len(bytes) \in Nat /\ total \in Nat
  BY HeaderEndType, LinesType, BodyLengthType, LenProperties
<1>2. Answer[bytes] =
        IF bytes # <<>> /\ bytes[1] = Dollar
          THEN IF Len(bytes) >= 4 /\ FrameLength(bytes, 1) > MaxRequest THEN Refused ELSE More
        ELSE IF end = 0 THEN IF Len(bytes) >= MaxRequest THEN Refused ELSE More
        ELSE IF ~Readable(Lines(bytes)) \/ total > MaxRequest THEN Refused
        ELSE IF ~Holds(bytes, total) THEN More
        ELSE IF bytes[1] # Crlf /\ Parses(Lines(bytes)) THEN Taken
        ELSE Refused
  BY DEF Answer
<1> HIDE DEF end, total
<1>3. /\ More.what = "none" /\ More.rest = bytes
      /\ Refused.what = "error" /\ Refused.rest = bytes
      /\ Taken.what = "request" /\ Taken.rest = SubSeq(bytes, total + 1, Len(bytes))
  BY DEF Result
<1>4. Remains(More, bytes) /\ Remains(Refused, bytes)
  BY <1>1, <1>3 DEF Remains
<1>5. Remains(Taken, bytes)
  <2>1. total + 1 \in Nat \ {0} /\ Len(bytes) \in Int /\ Len(bytes) <= Len(bytes)
    BY <1>1
  <2>2. /\ SubSeq(bytes, total + 1, Len(bytes)) \in Seq(Token)
        /\ Len(SubSeq(bytes, total + 1, Len(bytes)))
             = IF total + 1 <= Len(bytes) THEN Len(bytes) - (total + 1) + 1 ELSE 0
    BY <2>1, PartType
  <2>3. Len(SubSeq(bytes, total + 1, Len(bytes))) <= Len(bytes)
    BY <1>1, <2>2
  <2> HIDE DEF Taken
  <2> QED
    BY <1>3, <2>2, <2>3 DEF Remains
<1>6. More.what # Refused.what /\ More.what # Taken.what
  BY <1>3
<1> HIDE DEF More, Refused, Taken
<1>7. Answer[bytes] \in {More, Refused, Taken}
  BY <1>2, Zenon
<1>8. ASSUME Answer[bytes].what = "none", ~FrameAt(bytes, 1)
      PROVE  Len(bytes) < MaxRequest
  <2>0. Answer[bytes] # Refused /\ Answer[bytes] # Taken
    BY <1>3, <1>8
  <2>1. CASE bytes # <<>> /\ bytes[1] = Dollar
    <3>1. ~(Len(bytes) >= 4 /\ FrameLength(bytes, 1) > MaxRequest)
      BY <1>2, <2>0, <2>1
    <3>2. CASE Len(bytes) >= 4
      <4>1. 1 + 3 <= Len(bytes) /\ 1 \in 1..Len(bytes)
        BY <1>1, <3>2
      <4>2. FrameLength(bytes, 1) \in Nat
        BY <4>1, FrameLengthType
      <4>3. FrameLength(bytes, 1) <= MaxRequest
        BY <3>1, <3>2, <4>2, SizesType
      <4>4. ~(Len(bytes) >= 1 - 1 + FrameLength(bytes, 1))
        BY <1>8, <2>1, <4>1, <4>3 DEF FrameAt, Holds
      <4> QED
        BY <1>1, <4>2, <4>3, <4>4, SizesType
    <3>3. CASE ~(Len(bytes) >= 4)
      BY <1>1, <3>3, SizesType
    <3> QED
      BY <3>2, <3>3
  <2>2. CASE ~(bytes # <<>> /\ bytes[1] = Dollar) /\ end = 0
    <3>1. ~(Len(bytes) >= MaxRequest)
      BY <1>2, <2>0, <2>2
    <3> QED
      BY <1>1, <3>1, SizesType
  <2>3. CASE ~(bytes # <<>> /\ bytes[1] = Dollar) /\ end # 0
    <3>1. ~(total > MaxRequest) /\ ~Holds(bytes, total)
      BY <1>2, <2>0, <2>3
    <3> QED
      BY <1>1, <3>1, SizesType DEF Holds
  <2> QED
    BY <2>1, <2>2, <2>3
<1> QED
  BY <1>3, <1>4, <1>5, <1>7, <1>8

\* Dropping the drained frames leaves no frame to drain.
LEMMA NoFrameLeft ==
  ASSUME NEW bytes \in Seq(Token), NEW a \in Drained(bytes)
  PROVE  LET rest == SubSeq(bytes, a, Len(bytes))
         IN  rest \in Seq(Token) /\ Len(rest) <= Len(bytes) /\ ~FrameAt(rest, 1)
<1> DEFINE rest == SubSeq(bytes, a, Len(bytes))
<1>1. Len(bytes) \in Nat /\ a \in Nat \ {0} /\ a <= Len(bytes) + 1 /\ ~FrameAt(bytes, a)
  BY LenProperties DEF Drained
<1>2. /\ rest \in Seq(Token)
      /\ Len(rest) = IF a <= Len(bytes) THEN Len(bytes) - a + 1 ELSE 0
      /\ \A i \in 1..Len(bytes) - a + 1 : rest[i] = bytes[a + i - 1]
  BY <1>1, PartType
<1>3. Len(rest) = Len(bytes) - a + 1
  BY <1>1, <1>2
<1> HIDE DEF rest
<1>4. ASSUME FrameAt(rest, 1)
      PROVE  FALSE
  <2>1. 1 + 3 <= Len(rest) /\ 1 \in 1..Len(rest)
    BY <1>1, <1>3, <1>4 DEF FrameAt
  <2>2. a + 3 <= Len(bytes)
    BY <1>1, <1>3, <2>1
  <2>3. 1 \in 1..Len(bytes) - a + 1 /\ 1 + 2 \in 1..Len(bytes) - a + 1 /\ 1 + 3 \in 1..Len(bytes) - a + 1
    BY <1>1, <2>2
  <2>4. rest[1] = bytes[a + 1 - 1] /\ rest[1 + 2] = bytes[a + (1 + 2) - 1] /\ rest[1 + 3] = bytes[a + (1 + 3) - 1]
    BY <1>2, <2>3
  <2>5. a + 1 - 1 = a /\ a + (1 + 2) - 1 = a + 2 /\ a + (1 + 3) - 1 = a + 3
    BY <1>1
  <2>6. rest[1] = bytes[a] /\ FrameLength(rest, 1) = FrameLength(bytes, a)
    BY <2>4, <2>5 DEF FrameLength
  <2>7. FrameLength(rest, 1) \in Nat
    BY <1>2, <2>1, FrameLengthType
  <2>8. bytes[a] = Dollar /\ FrameLength(bytes, a) <= MaxRequest
    BY <1>4, <2>6 DEF FrameAt
  <2>9. Len(rest) >= 1 - 1 + FrameLength(rest, 1)
    BY <1>4 DEF FrameAt, Holds
  <2>10. Len(bytes) >= a - 1 + FrameLength(bytes, a)
    BY <1>1, <1>3, <2>6, <2>7, <2>9
  <2> QED
    BY <1>1, <2>2, <2>8, <2>10 DEF FrameAt, Holds
<1>5. Len(rest) <= Len(bytes)
  BY <1>1, <1>3
<1> QED
  BY <1>2, <1>4, <1>5 DEF rest

\* A call of take_request leaves no more bytes than it got, and fewer than MaxRequest when it asks
\* for more.
LEMMA TakeRequestType ==
  ASSUME NEW bytes \in Seq(Token)
  PROVE  /\ Remains(TakeRequest[bytes], bytes)
         /\ TakeRequest[bytes].what = "none" => Len(TakeRequest[bytes].rest) < MaxRequest
<1> DEFINE rest == SubSeq(bytes, AfterFrames(bytes), Len(bytes))
<1>1. rest \in Seq(Token) /\ Len(rest) <= Len(bytes) /\ ~FrameAt(rest, 1)
  BY AfterFramesType, NoFrameLeft
<1>2. TakeRequest[bytes] = Answer[rest]
  BY DEF TakeRequest
<1> HIDE DEF rest
<1>3. /\ Remains(Answer[rest], rest)
      /\ Answer[rest].what = "none" => Len(rest) < MaxRequest /\ Answer[rest].rest = rest
  BY <1>1, AnswerType
<1>4. Remains(Answer[rest], bytes)
  <2>1. \A m, n, l \in Nat : m <= n /\ n <= l => m <= l
    OBVIOUS
  <2>2. Answer[rest].rest \in Seq(Token)
    BY <1>3 DEF Remains
  <2>3. Len(Answer[rest].rest) \in Nat /\ Len(rest) \in Nat /\ Len(bytes) \in Nat
    BY <1>1, <2>2, LenProperties
  <2> QED
    BY <1>1, <1>3, <2>1, <2>3 DEF Remains
<1> QED
  BY <1>2, <1>3, <1>4

\* A message is a sequence of tokens.
LEMMA BytesType ==
  ASSUME NEW m \in ClientMessage
  PROVE  Bytes(m) \in Seq(Token)
<1>0. Crlf \in Token /\ Dollar \in Token /\ \A n \in Nat : <<"byte", n>> \in Token
  BY DEF Token, Crlf, Dollar
<1>1. m.body \in Seq(Token) /\ Len(m.body) \in Nat
  BY LenProperties DEF ClientMessage, Frames, Requests
<1>2. CASE m.kind = "frame"
  <2>1. Len(m.body) \div Radix \in Nat /\ Len(m.body) % Radix \in Nat
    <3>1. Len(m.body) \div Radix \in Nat /\ Len(m.body) % Radix \in 0..Radix - 1
      BY <1>1, SizesType, Division
    <3>2. 0..Radix - 1 \subseteq Nat
      BY SizesType
    <3> QED
      BY <3>1, <3>2, Zenon
  <2> DEFINE head == <<Dollar, <<"byte", 1>>, <<"byte", Len(m.body) \div Radix>>,
                       <<"byte", Len(m.body) % Radix>>>>
  <2>2. head \in Seq(Token)
    <3>1. <<"byte", 1>> \in Token /\ <<"byte", Len(m.body) \div Radix>> \in Token
            /\ <<"byte", Len(m.body) % Radix>> \in Token
      BY <1>0, <2>1
    <3> QED
      BY <1>0, <3>1
  <2>3. Bytes(m) = head \o m.body
    BY <1>2, Zenon DEF Bytes
  <2> HIDE DEF head
  <2> QED
    BY <1>1, <2>2, <2>3, ConcatProperties
<1>3. CASE m.kind = "request"
  <2> DEFINE pairs == [i \in DOMAIN m.lines |-> <<m.lines[i], Crlf>>]
  <2>1. m.lines \in Seq(Token)
    <3>1. m.lines \in Seq(Line)
      BY <1>3 DEF ClientMessage, Frames, Requests
    <3>2. Line \subseteq Token
      BY DEF Token
    <3> QED
      BY <3>1, <3>2, SeqMonotonic
  <2>2. DOMAIN m.lines = 1..Len(m.lines) /\ Len(m.lines) \in Nat
    BY <2>1, LenProperties
  <2>3. ASSUME NEW i \in 1..Len(m.lines)
        PROVE  pairs[i] \in Seq(Token)
    <3>1. m.lines[i] \in Token
      BY <2>1, ElementOfSeq
    <3>2. <<m.lines[i], Crlf>> \in Seq(Token)
      BY <1>0, <3>1
    <3> QED
      BY <2>2, <3>2
  <2>4. DOMAIN pairs = 1..Len(m.lines) /\ pairs = [i \in 1..Len(m.lines) |-> pairs[i]]
    BY <2>2
  <2>5. HeadBytes(m.lines) = FlattenSeq(pairs) \o <<Crlf>>
    BY Zenon DEF HeadBytes
  <2> HIDE DEF pairs
  <2>6. pairs \in Seq(Seq(Token))
    BY <2>2, <2>3, <2>4, Listed
  <2>7. FlattenSeq(pairs) \in Seq(Token) /\ <<Crlf>> \in Seq(Token)
    BY <1>0, <2>6, FlattenType
  <2>8. HeadBytes(m.lines) \in Seq(Token)
    BY <2>5, <2>7, ConcatProperties
  <2>9. Bytes(m) = HeadBytes(m.lines) \o m.body
    BY <1>3, Zenon DEF Bytes
  <2> QED
    BY <1>1, <2>8, <2>9, ConcatProperties
<1> QED
  BY <1>2, <1>3 DEF ClientMessage, Frames, Requests

\* And so is all that a client sends.
LEMMA ClientBytesType ==
  ASSUME script \in Scripts
  PROVE  ClientBytes \in Seq(Token)
<1> DEFINE all == [i \in DOMAIN script |-> Bytes(script[i])]
<1>1. script \in Seq(ClientMessage)
  BY ScriptsAssumption
<1>2. DOMAIN script = 1..Len(script) /\ Len(script) \in Nat
  BY <1>1, LenProperties
<1>3. ASSUME NEW i \in 1..Len(script)
      PROVE  all[i] \in Seq(Token)
  <2>1. script[i] \in ClientMessage
    BY <1>1, ElementOfSeq
  <2> QED
    BY <1>2, <2>1, BytesType
<1>4. DOMAIN all = 1..Len(script) /\ all = [i \in 1..Len(script) |-> all[i]]
  BY <1>2
<1>5. ClientBytes = FlattenSeq(all)
  BY DEF ClientBytes
<1> HIDE DEF all
<1>6. all \in Seq(Seq(Token))
  BY <1>2, <1>3, <1>4, Listed
<1> QED
  BY <1>5, <1>6, FlattenType

-----------------------------------------------------------------------------
(* The requests of a connection. *)

\* The first half of the inductive invariant: the requests.
FramingInv == FramingTypeOK /\ InputIsBounded

\* The framing invariant holds of a fresh connection.
LEMMA FramingStarts == FramingInit => FramingInv
<1> SUFFICES ASSUME FramingInit
             PROVE  FramingInv
  OBVIOUS
<1>1. script \in Scripts /\ at = 0 /\ input = <<>> /\ state = "open"
  BY DEF FramingInit
<1>2. Len(ClientBytes) \in Nat
  BY <1>1, ClientBytesType, LenProperties
<1>3. input \in Seq(Token) /\ Len(input) = 0
  BY <1>1, EmptySeq
<1> QED
  BY <1>1, <1>2, <1>3, SizesType DEF FramingInv, FramingTypeOK, InputIsBounded

\* A call of take_request keeps the input within its bound.
LEMMA TakeKeeps ==
  ASSUME NEW bytes \in Seq(Token), Len(bytes) < MaxRequest + Chunk, state = "open", Take(bytes)
  PROVE  input' \in Seq(Token) /\ Len(input') < MaxRequest + Chunk
           /\ state' \in {"open", "refused", "gone"}
<1>1. TakeRequest[bytes].rest \in Seq(Token) /\ Len(TakeRequest[bytes].rest) <= Len(bytes)
  BY TakeRequestType DEF Remains
<1>2. input' = TakeRequest[bytes].rest
  BY DEF Take
<1>3. state' \in {"open", "refused", "gone"}
  BY Zenon DEF Take
<1>4. Len(input') \in Nat /\ Len(bytes) \in Nat
  BY <1>1, <1>2, LenProperties
<1>5. Len(input') <= Len(bytes)
  BY <1>1, <1>2
<1> QED
  BY <1>1, <1>2, <1>3, <1>4, <1>5, SizesType

\* Every step of read_control keeps the framing invariant.
LEMMA FramingSteps == FramingInv /\ [FramingNext]_framingVars => FramingInv'
<1> SUFFICES ASSUME FramingInv, [FramingNext]_framingVars
             PROVE  FramingInv'
  OBVIOUS
<1>1. /\ script \in Scripts /\ at \in 0..Len(ClientBytes) /\ input \in Seq(Token)
      /\ state \in {"open", "refused", "gone"} /\ Len(input) < MaxRequest + Chunk
  BY DEF FramingInv, FramingTypeOK, InputIsBounded
<1>2. ClientBytes \in Seq(Token) /\ Len(ClientBytes) \in Nat
  BY <1>1, ClientBytesType, LenProperties
<1>3. script' = script => ClientBytes' = ClientBytes
  BY DEF ClientBytes
<1>4. CASE TakeBuffered
  <2>1. Take(input) /\ script' = script /\ at' = at /\ state = "open"
    BY <1>4 DEF TakeBuffered
  <2> QED
    BY <1>1, <1>3, <2>1, TakeKeeps DEF FramingInv, FramingTypeOK, InputIsBounded
<1>5. ASSUME NEW n \in 0..Chunk, Read(n)
      PROVE  FramingInv'
  <2> DEFINE rest == TakeRequest[input].rest
             cut == SubSeq(ClientBytes, at + 1, at + n)
  <2>1. /\ Take(rest \o cut) /\ script' = script /\ at' = at + n /\ state = "open"
        /\ at + n <= Len(ClientBytes) /\ TakeRequest[input].what = "none"
    BY <1>5 DEF Read, Pending
  <2>2. n \in Nat /\ n <= Chunk
    BY SizesType
  <2>3. rest \in Seq(Token) /\ Len(rest) < MaxRequest
    BY <1>1, <2>1, TakeRequestType DEF Remains
  <2>4. cut \in Seq(Token) /\ Len(cut) = n
    <3>1. at + 1 \in Nat \ {0} /\ at + n \in Int /\ at \in Nat
      BY <1>1, <1>2, <2>2
    <3>2. /\ cut \in Seq(Token)
          /\ Len(cut) = IF at + 1 <= at + n THEN at + n - (at + 1) + 1 ELSE 0
      BY <1>2, <2>1, <3>1, PartType
    <3> HIDE DEF cut
    <3> QED
      BY <2>2, <3>1, <3>2
  <2> HIDE DEF rest, cut
  <2>5. rest \o cut \in Seq(Token) /\ Len(rest \o cut) = Len(rest) + n
    BY <2>3, <2>4, ConcatProperties
  <2>6. Len(rest \o cut) < MaxRequest + Chunk
    <3>1. Len(rest) \in Nat
      BY <2>3, LenProperties
    <3> QED
      BY <2>2, <2>3, <2>5, <3>1, SizesType
  <2>7. input' \in Seq(Token) /\ Len(input') < MaxRequest + Chunk
          /\ state' \in {"open", "refused", "gone"}
    BY <2>1, <2>5, <2>6, TakeKeeps
  <2>8. at' \in 0..Len(ClientBytes)
    BY <1>1, <1>2, <2>1, <2>2
  <2> QED
    BY <1>1, <1>3, <2>1, <2>7, <2>8 DEF FramingInv, FramingTypeOK, InputIsBounded
<1>6. CASE Disconnected
  <2>1. /\ state' = "gone" /\ input' = TakeRequest[input].rest /\ script' = script /\ at' = at
    BY <1>6 DEF Disconnected
  <2>2. input' \in Seq(Token) /\ Len(input') <= Len(input)
    BY <1>1, <2>1, TakeRequestType DEF Remains
  <2>3. Len(input') \in Nat /\ Len(input) \in Nat
    BY <1>1, <2>2, LenProperties
  <2>4. Len(input') < MaxRequest + Chunk
    BY <1>1, <2>2, <2>3, SizesType
  <2> QED
    BY <1>1, <1>3, <2>1, <2>2, <2>4 DEF FramingInv, FramingTypeOK, InputIsBounded
<1>7. CASE UNCHANGED framingVars
  BY <1>1, <1>3, <1>7 DEF framingVars, FramingInv, FramingTypeOK, InputIsBounded
<1> QED
  BY <1>4, <1>5, <1>6, <1>7 DEF FramingNext

-----------------------------------------------------------------------------
(* The media of a connection. *)

\* What waits to be sent, and what is on its way.
Waiting == [kind : {"rtp"}, pts : 1 .. MaxUnits, marker : BOOLEAN, payload : Fits]

Packet == [kind : {"rtp"}, seq : 0 .. SeqRange - 1, pts : 1 .. MaxUnits, marker : BOOLEAN,
           payload : Fits]

\* Messages of which only the kind matters.
Plain(kinds) == [kind : kinds]

Outgoing == IF carrier = "udp" THEN Waiting ELSE Waiting \cup Plain({"response", "report"})

OnStream == Packet \cup Plain({"prefix", "response", "report", "torn"})

Viewer == [expected : 0 .. SeqRange - 1 \cup {NoNumber}, pts : 1 .. MaxUnits \cup {NoNumber},
           whole : BOOLEAN, nal : Seq(Byte), unit : Seq(Seq(Byte))]

\* The types of the sending side.
SendTypes ==
  /\ platform \in {"mac", "windows", "android"} /\ carrier \in {"tcp", "udp"}
  /\ made \in Seq(Units) /\ Len(made) <= MaxUnits
  /\ due \in Seq(Outgoing)
  /\ half \in BOOLEAN /\ open \in BOOLEAN
  /\ sequence \in 0 .. SeqRange - 1

\* The types of what is on its way.
LinkTypes ==
  /\ carrier = "tcp" => link \in Seq(OnStream)
  /\ carrier = "udp" => link \in SUBSET Packet

\* The types of the client.
ViewerTypes ==
  /\ client \in Viewer
  /\ shown \in Seq([pts : 1 .. MaxUnits, nals : Seq(Seq(Byte))])

\* What a client expects after a message.
Then(kind) ==
  IF kind = "prefix" THEN "body" ELSE IF kind = "torn" THEN "torn" ELSE "message"

\* What a client that now expects `parser` will expect of the i-th message.
Before(messages, expected, i) == IF i = 1 THEN expected ELSE Then(messages[i - 1].kind)

\* What a client that is in step may find.
Admits(expected, kind) ==
  \/ expected = "message" /\ kind \in {"prefix", "response", "torn"}
  \/ expected = "body" /\ kind \in {"rtp", "report", "torn"}

\* Every message finds the client in step.
Framed(messages, expected) ==
  \A i \in 1 .. Len(messages) : Admits(Before(messages, expected, i), messages[i].kind)

\* What the client will expect after them.
AtLast(messages, expected) == Before(messages, expected, Len(messages) + 1)

\* The client is in step with everything on its way, and with what the server sends next.
LinkIsFramed ==
  /\ carrier = "udp" => parser = "message" /\ ~half
  /\ carrier = "tcp" =>
       /\ parser \in {"message", "body", "torn"}
       /\ Framed(link, parser)
       /\ open => AtLast(link, parser) = IF half THEN "body" ELSE "message"
       /\ half => due # <<>> /\ Head(due).kind # "response"
  /\ ~open => due = <<>> /\ ~half

\* The second half: the media.
MediaInv == SendTypes /\ LinkTypes /\ ViewerTypes /\ LinkIsFramed
\* The packets of a unit, with payloads that fit.
LEMMA PacketsType ==
  ASSUME NEW nals \in Seq(Seq(Byte)), NEW pts \in 1 .. MaxUnits
  PROVE  Packets(nals, pts) \in Seq(Waiting)
<1> DEFINE Unit(n) == [k \in DOMAIN Packetize(nals[n]) |->
                         [kind |-> "rtp", pts |-> pts, payload |-> Packetize(nals[n])[k],
                          marker |-> n = Len(nals) /\ k = Len(Packetize(nals[n]))]]
           all == [n \in DOMAIN nals |-> Unit(n)]
<1>1. DOMAIN nals = 1..Len(nals) /\ Len(nals) \in Nat
  BY LenProperties
<1>2. ASSUME NEW n \in 1..Len(nals)
      PROVE  Unit(n) \in Seq(Waiting)
  <2> DEFINE payloads == Packetize(nals[n])
             unit == [k \in DOMAIN payloads |->
                         [kind |-> "rtp", pts |-> pts, payload |-> payloads[k],
                          marker |-> n = Len(nals) /\ k = Len(payloads)]]
  <2>1. payloads \in Seq(Fits)
    BY ElementOfSeq, PacketizeType
  <2> HIDE DEF payloads
  <2>2. DOMAIN payloads = 1..Len(payloads) /\ Len(payloads) \in Nat
    BY <2>1, LenProperties
  <2>3. ASSUME NEW k \in 1..Len(payloads)
        PROVE  unit[k] \in Waiting
    <3>1. payloads[k] \in Fits
      BY <2>1, ElementOfSeq
    <3>2. (n = Len(nals) /\ k = Len(payloads)) \in BOOLEAN
      OBVIOUS
    <3>3. unit[k] = [kind |-> "rtp", pts |-> pts, payload |-> payloads[k],
                     marker |-> n = Len(nals) /\ k = Len(payloads)]
      BY <2>2
    <3> HIDE DEF unit
    <3> QED
      BY <3>1, <3>2, <3>3 DEF Waiting
  <2>4. DOMAIN unit = 1..Len(payloads) /\ unit = [k \in 1..Len(payloads) |-> unit[k]]
    BY <2>2
  <2>5. Unit(n) = unit
    BY Zenon DEF payloads
  <2> HIDE DEF unit, Unit
  <2>6. unit \in Seq(Waiting)
    BY <2>2, <2>3, <2>4, Listed
  <2> QED
    BY <2>5, <2>6
<1>3. Packets(nals, pts) = FlattenSeq(all)
  BY Zenon DEF Packets
<1>4. DOMAIN all = 1..Len(nals) /\ all = [n \in 1..Len(nals) |-> all[n]]
        /\ \A n \in 1..Len(nals) : all[n] = Unit(n)
  BY <1>1
<1> HIDE DEF all, Unit
<1>5. all \in Seq(Seq(Waiting))
  BY <1>1, <1>2, <1>4, Listed
<1> QED
  BY <1>3, <1>5, FlattenType

\* Sequence numbers are numbers.
LEMMA SequenceType == SeqRange \in Nat /\ SeqRange > 1 /\ Starts \subseteq 0 .. SeqRange - 1
BY SeqRangeAssumption

\* Numbering a packet keeps its kind and its payload.
LEMMA NumberedType ==
  ASSUME NEW m \in Waiting \cup Plain({"report", "response"}), sequence \in 0 .. SeqRange - 1
  PROVE  /\ Numbered(m) \in Packet \cup Plain({"report", "response"})
         /\ Numbered(m).kind = m.kind
         /\ m.kind = "rtp" => Numbered(m) \in Packet
<1>1. CASE m.kind = "rtp"
  <2>1. m \in Waiting
    BY <1>1 DEF Plain
  <2>2. Numbered(m) = [kind |-> "rtp", seq |-> sequence, pts |-> m.pts,
                       marker |-> m.marker, payload |-> m.payload]
    BY <1>1 DEF Numbered
  <2>3. Numbered(m) \in Packet /\ Numbered(m).kind = "rtp"
    BY <2>1, <2>2 DEF Waiting, Packet
  <2> QED
    BY <1>1, <2>3
<1>2. CASE m.kind # "rtp"
  <2>1. m \in Plain({"report", "response"}) /\ Numbered(m) = m
    BY <1>2 DEF Numbered, Waiting
  <2> QED
    BY <1>2, <2>1
<1> QED
  BY <1>1, <1>2

\* A viewer that takes a packet in keeps its types.
LEMMA ReceiveType ==
  ASSUME NEW p \in Packet, ViewerTypes, Receive(p)
  PROVE  ViewerTypes'
<1> DEFINE pay == p.payload
           fresh == p.pts # client.pts
           partial == IF fresh \/ Gap(p) THEN <<>> ELSE client.nal
           broken == IF pay.first THEN partial # <<>> ELSE partial = <<>>
           whole == ~Gap(p) /\ ~broken /\ (fresh \/ client.whole)
           nal == (IF pay.first THEN <<pay.header>> ELSE partial) \o pay.data
           before == IF fresh THEN <<>> ELSE client.unit
           unit == IF pay.last THEN Append(before, nal) ELSE before
<1>1. client \in Viewer /\ shown \in Seq([pts : 1 .. MaxUnits, nals : Seq(Seq(Byte))])
  BY DEF ViewerTypes
<1>2. /\ client.nal \in Seq(Byte) /\ client.unit \in Seq(Seq(Byte)) /\ client.whole \in BOOLEAN
  BY <1>1 DEF Viewer
<1>3. p.seq \in 0 .. SeqRange - 1 /\ p.pts \in 1 .. MaxUnits /\ p.marker \in BOOLEAN /\ pay \in Fits
  BY DEF Packet
<1>4. pay.header \in Byte /\ pay.data \in Seq(Byte)
  BY <1>3 DEF Fits
<1>5. <<>> \in Seq(Byte) /\ <<>> \in Seq(Seq(Byte))
  BY EmptySeq
<1> HIDE DEF pay, fresh, broken
<1>6. partial \in Seq(Byte)
  BY <1>2, <1>5
<1> HIDE DEF partial
<1>7. nal \in Seq(Byte)
  <2>1. <<pay.header>> \in Seq(Byte)
    BY <1>4
  <2>2. (IF pay.first THEN <<pay.header>> ELSE partial) \in Seq(Byte)
    BY <1>6, <2>1, Zenon
  <2> QED
    BY <1>4, <2>2, ConcatProperties
<1> HIDE DEF nal
<1>8. before \in Seq(Seq(Byte))
  BY <1>2, <1>5
<1> HIDE DEF before
<1>9. unit \in Seq(Seq(Byte))
  BY <1>7, <1>8, AppendProperties
<1> HIDE DEF unit
<1>10. whole \in BOOLEAN
  BY Zenon
<1> HIDE DEF whole
<1>11. /\ client' = [expected |-> (p.seq + 1) % SeqRange,
                     pts |-> IF p.marker THEN NoNumber ELSE p.pts,
                     whole |-> whole \/ p.marker,
                     nal |-> IF pay.last \/ ~whole THEN <<>> ELSE nal,
                     unit |-> IF p.marker \/ ~whole THEN <<>> ELSE unit]
       /\ shown' = IF p.marker /\ whole THEN Append(shown, [pts |-> p.pts, nals |-> unit])
                   ELSE shown
  BY Zenon DEF Receive, pay, fresh, partial, broken, whole, nal, before, unit
<1>12. client' \in Viewer
  <2>1. (p.seq + 1) % SeqRange \in 0 .. SeqRange - 1
    <3>1. p.seq + 1 \in Nat /\ SeqRange \in Nat \ {0}
      BY <1>3, SequenceType
    <3> QED
      BY <3>1, Division
  <2>2. (IF p.marker THEN NoNumber ELSE p.pts) \in 1 .. MaxUnits \cup {NoNumber}
    BY <1>3
  <2>3. (whole \/ p.marker) \in BOOLEAN
    OBVIOUS
  <2>4. (IF pay.last \/ ~whole THEN <<>> ELSE nal) \in Seq(Byte)
    BY <1>5, <1>7, Zenon
  <2>5. (IF p.marker \/ ~whole THEN <<>> ELSE unit) \in Seq(Seq(Byte))
    BY <1>5, <1>9, Zenon
  <2> QED
    BY <1>11, <2>1, <2>2, <2>3, <2>4, <2>5 DEF Viewer
<1>13. shown' \in Seq([pts : 1 .. MaxUnits, nals : Seq(Seq(Byte))])
  <2>1. [pts |-> p.pts, nals |-> unit] \in [pts : 1 .. MaxUnits, nals : Seq(Seq(Byte))]
    BY <1>3, <1>9
  <2>2. Append(shown, [pts |-> p.pts, nals |-> unit])
          \in Seq([pts : 1 .. MaxUnits, nals : Seq(Seq(Byte))])
    BY <1>1, <2>1, AppendProperties
  <2> QED
    BY <1>1, <1>11, <2>2, Zenon
<1> QED
  BY <1>12, <1>13 DEF ViewerTypes

\* A message that the client will be ready for may be appended.
LEMMA AppendFramed ==
  ASSUME NEW s \in Seq(OnStream), NEW e, NEW m \in OnStream, Framed(s, e), Admits(AtLast(s, e), m.kind)
  PROVE  Framed(Append(s, m), e) /\ AtLast(Append(s, m), e) = Then(m.kind)
<1> DEFINE t == Append(s, m)
<1>1. /\ t \in Seq(OnStream) /\ Len(t) = Len(s) + 1 /\ Len(s) \in Nat
      /\ \A i \in 1..Len(s) : t[i] = s[i]
      /\ t[Len(s) + 1] = m
  BY AppendProperties, LenProperties
<1> HIDE DEF t
<1>2. ASSUME NEW i \in 1..Len(s) + 1
      PROVE  Before(t, e, i) = Before(s, e, i)
  <2>1. CASE i = 1
    BY <2>1 DEF Before
  <2>2. CASE i # 1
    <3>1. i - 1 \in 1..Len(s)
      BY <1>1, <2>2
    <3> QED
      BY <1>1, <3>1 DEF Before
  <2> QED
    BY <2>1, <2>2
<1>3. ASSUME NEW i \in 1..Len(t)
      PROVE  Admits(Before(t, e, i), t[i].kind)
  <2>1. CASE i \in 1..Len(s)
    <3>1. Before(t, e, i) = Before(s, e, i) /\ t[i] = s[i]
      BY <1>1, <1>2, <2>1
    <3> QED
      BY <2>1, <3>1 DEF Framed
  <2>2. CASE i = Len(s) + 1
    <3>1. Before(t, e, i) = AtLast(s, e) /\ t[i] = m
      BY <1>1, <1>2, <2>2 DEF AtLast
    <3> QED
      BY <3>1
  <2> QED
    BY <1>1, <2>1, <2>2
<1>4. Before(t, e, Len(t) + 1) = Then(m.kind)
  <2>1. Len(t) + 1 # 1 /\ (Len(t) + 1) - 1 = Len(s) + 1
    BY <1>1
  <2> QED
    BY <1>1, <2>1 DEF Before
<1> QED
  BY <1>3, <1>4 DEF Framed, AtLast, t

\* A client that reads a message is ready for the next one.
LEMMA TailFramed ==
  ASSUME NEW s \in Seq(OnStream), NEW e, s # <<>>, Framed(s, e)
  PROVE  /\ Admits(e, Head(s).kind)
         /\ Framed(Tail(s), Then(Head(s).kind))
         /\ AtLast(Tail(s), Then(Head(s).kind)) = AtLast(s, e)
<1> DEFINE t == Tail(s)
           n == Then(Head(s).kind)
<1>1. /\ t \in Seq(OnStream) /\ Len(t) = Len(s) - 1 /\ Len(s) \in Nat /\ Len(t) \in Nat
      /\ \A i \in 1..Len(t) : t[i] = s[i + 1]
  BY HeadTailProperties, LenProperties
<1>2. Head(s) = s[1] /\ 1 \in 1..Len(s)
  <2>1. Len(s) # 0
    BY <1>1
  <2> QED
    BY <1>1, <2>1
<1> HIDE DEF t
<1>3. ASSUME NEW i \in 1..Len(t) + 1
      PROVE  Before(t, n, i) = Before(s, e, i + 1)
  <2>1. i + 1 # 1 /\ (i + 1) - 1 = i
    OBVIOUS
  <2>2. Before(s, e, i + 1) = Then(s[i].kind)
    BY <2>1 DEF Before
  <2>3. CASE i = 1
    BY <1>2, <2>2, <2>3 DEF Before
  <2>4. CASE i # 1
    <3>1. i - 1 \in 1..Len(t) /\ (i - 1) + 1 = i
      BY <1>1, <2>4
    <3>2. t[i - 1] = s[i]
      BY <1>1, <3>1
    <3> QED
      BY <2>2, <2>4, <3>2 DEF Before
  <2> QED
    BY <2>3, <2>4
<1>4. ASSUME NEW i \in 1..Len(t)
      PROVE  Admits(Before(t, n, i), t[i].kind)
  <2>1. i + 1 \in 1..Len(s) /\ i \in 1..Len(t) + 1
    BY <1>1
  <2>2. Admits(Before(s, e, i + 1), s[i + 1].kind)
    BY <2>1 DEF Framed
  <2> QED
    BY <1>1, <1>3, <2>1, <2>2
<1>5. AtLast(t, n) = AtLast(s, e)
  <2>1. Len(t) + 1 \in 1..Len(t) + 1 /\ Len(t) + 1 = Len(s)
    BY <1>1
  <2>2. Before(t, n, Len(t) + 1) = Before(s, e, (Len(t) + 1) + 1)
    BY <1>3, <2>1
  <2> QED
    BY <2>1, <2>2 DEF AtLast
<1>6. Admits(e, s[1].kind)
  <2>1. Admits(Before(s, e, 1), s[1].kind)
    BY <1>2 DEF Framed
  <2> QED
    BY <2>1 DEF Before
<1> QED
  BY <1>2, <1>4, <1>5, <1>6 DEF Framed, t

\* The media invariant holds of a fresh connection.
LEMMA MediaStarts == MediaInit => MediaInv
<1> SUFFICES ASSUME MediaInit
             PROVE  MediaInv
  OBVIOUS
<1> USE DEF MediaInit
<1>1. SendTypes
  <2>1. Len(<<>>) = 0 /\ <<>> \in Seq(Units) /\ <<>> \in Seq(Outgoing)
    BY EmptySeq
  <2>2. 0 <= MaxUnits
    BY LimitsAssumption
  <2> QED
    BY <2>1, <2>2, SequenceType DEF SendTypes
<1>2. LinkTypes
  BY EmptySeq DEF LinkTypes
<1>3. ViewerTypes
  <2>1. client \in Viewer
    BY EmptySeq DEF Viewer
  <2> QED
    BY <2>1, EmptySeq DEF ViewerTypes
<1>4. LinkIsFramed
  <2>1. carrier = "tcp" => Len(link) = 0
    BY EmptySeq
  <2>2. carrier = "tcp" => Framed(link, parser)
    BY <2>1 DEF Framed
  <2>3. carrier = "tcp" => AtLast(link, parser) = parser
    BY <2>1 DEF AtLast, Before
  <2> QED
    BY <2>2, <2>3 DEF LinkIsFramed
<1> QED
  BY <1>1, <1>2, <1>3, <1>4 DEF MediaInv

\* An access unit is a sequence of NAL units.
LEMMA MadeUnits == \A u \in Units : u \in Seq(Seq(Byte))
BY UnitsAssumption

\* Taking the next access unit keeps the media invariant.
LEMMA TakeUnitKeeps ==
  ASSUME MediaInv, NEW u \in Units, NEW f \in Formats(u), TakeUnit(u, f)
  PROVE  MediaInv'
<1>1. /\ platform \in {"mac", "windows", "android"} /\ carrier \in {"tcp", "udp"}
      /\ made \in Seq(Units) /\ Len(made) < MaxUnits /\ MaxUnits \in Nat /\ due = <<>> /\ open
  BY LimitsAssumption DEF MediaInv, SendTypes, TakeUnit, Idle
<1>2. /\ made' = Append(made, u)
      /\ due' = Packets(Split(platform, Buffer(f, u)), Len(made) + 1)
      /\ UNCHANGED <<platform, carrier, half, sequence, open, link, parser, client, shown>>
  BY DEF TakeUnit, fixed, clientVars
<1>3. due' \in Seq(Waiting)
  <2>1. Len(made) + 1 \in 1 .. MaxUnits
    BY <1>1, LenProperties
  <2>2. f \in {"avcc", "short", "long", "mixed", "padded", "bare"}
    <3>1. f \in Formats(u)
      OBVIOUS
    <3> QED
      BY <1>1, <3>1 DEF Formats, FormatsOf
  <2>3. Buffer(f, u) \in Seq(Byte)
    BY <2>2, MadeUnits, BufferType
  <2>4. Split(platform, Buffer(f, u)) \in Seq(Seq(Byte))
    BY <1>1, <2>3, SplitType
  <2> QED
    BY <1>2, <2>1, <2>4, PacketsType
<1>4. due' \in Seq(Outgoing')
  <2>1. Waiting \subseteq Outgoing'
    BY DEF Outgoing
  <2> QED
    BY <1>3, <2>1, SeqMonotonic
<1>5. made' \in Seq(Units) /\ Len(made') <= MaxUnits
  <2>1. made' \in Seq(Units) /\ Len(made') = Len(made) + 1 /\ Len(made) \in Nat
    BY <1>1, <1>2, AppendProperties, LenProperties
  <2> QED
    BY <1>1, <2>1
<1>6. SendTypes'
  BY <1>2, <1>4, <1>5 DEF MediaInv, SendTypes
<1>7. LinkTypes' /\ ViewerTypes'
  BY <1>2 DEF MediaInv, LinkTypes, ViewerTypes
<1>8. LinkIsFramed'
  <2>1. ~half
    BY <1>1 DEF MediaInv, LinkIsFramed
  <2> QED
    BY <1>1, <1>2, <2>1 DEF MediaInv, LinkIsFramed
<1> QED
  BY <1>6, <1>7, <1>8 DEF MediaInv

\* So does a response or a report.
LEMMA SendOtherKeeps ==
  ASSUME MediaInv, NEW kind \in {"response", "report"}, SendOther(kind)
  PROVE  MediaInv'
<1>1. carrier = "tcp" /\ due = <<>> /\ open
  BY DEF SendOther, Idle
<1>2. /\ due' = <<Message(kind)>>
      /\ UNCHANGED <<platform, carrier, made, half, sequence, open, link, parser, client, shown>>
  BY DEF SendOther, fixed, clientVars
<1>3. due' \in Seq(Outgoing')
  <2>1. Message(kind) \in Outgoing'
    BY <1>1, <1>2 DEF Outgoing, Message, Plain
  <2> QED
    BY <1>2, <2>1
<1>4. SendTypes'
  BY <1>2, <1>3 DEF MediaInv, SendTypes
<1>5. LinkTypes' /\ ViewerTypes'
  BY <1>2 DEF MediaInv, LinkTypes, ViewerTypes
<1>6. LinkIsFramed'
  <2>1. ~half
    BY <1>1 DEF MediaInv, LinkIsFramed
  <2> QED
    BY <1>1, <1>2, <2>1 DEF MediaInv, LinkIsFramed
<1> QED
  BY <1>4, <1>5, <1>6 DEF MediaInv

\* What the media invariant says of a TCP connection with something to send.
LEMMA TcpFacts ==
  ASSUME MediaInv, carrier = "tcp", due # <<>>
  PROVE  /\ open /\ link \in Seq(OnStream) /\ Framed(link, parser)
         /\ AtLast(link, parser) = IF half THEN "body" ELSE "message"
         /\ parser \in {"message", "body", "torn"}
         /\ half => Head(due).kind # "response"
         /\ due \in Seq(Waiting \cup Plain({"report", "response"}))
         /\ Head(due) \in Waiting \cup Plain({"report", "response"})
         /\ Tail(due) \in Seq(Outgoing)
<1>1. open /\ due \in Seq(Outgoing)
  BY DEF MediaInv, LinkIsFramed, SendTypes
<1>2. Outgoing = Waiting \cup Plain({"report", "response"})
  BY DEF Outgoing, Plain
<1>3. Head(due) \in Outgoing /\ Tail(due) \in Seq(Outgoing)
  BY <1>1, HeadTailProperties
<1> QED
  BY <1>1, <1>2, <1>3 DEF MediaInv, LinkIsFramed, LinkTypes

\* The first of two writes keeps the media invariant: nothing may come between it and the second.
LEMMA WritePrefixKeeps ==
  ASSUME MediaInv, WritePrefix
  PROVE  MediaInv'
<1>1. /\ carrier = "tcp" /\ due # <<>> /\ Head(due).kind # "response" /\ ~half
      /\ link' = Append(link, Message("prefix")) /\ half' = TRUE
      /\ UNCHANGED <<platform, carrier, made, due, sequence, open, parser, client, shown>>
  BY DEF WritePrefix, fixed, clientVars
<1>2. /\ open /\ link \in Seq(OnStream) /\ Framed(link, parser) /\ AtLast(link, parser) = "message"
  BY <1>1, TcpFacts
<1>3. Message("prefix") \in OnStream /\ Message("prefix").kind = "prefix"
  BY DEF OnStream, Plain, Message
<1>4. Admits(AtLast(link, parser), Message("prefix").kind)
  BY <1>2, <1>3 DEF Admits
<1>5. Framed(link', parser) /\ AtLast(link', parser) = "body"
  BY <1>1, <1>2, <1>3, <1>4, AppendFramed DEF Then
<1>6. link' \in Seq(OnStream)
  BY <1>1, <1>2, <1>3, AppendProperties
<1>7. SendTypes'
  BY <1>1 DEF MediaInv, SendTypes, Outgoing
<1>8. LinkTypes' /\ ViewerTypes'
  BY <1>1, <1>6 DEF MediaInv, LinkTypes, ViewerTypes
<1>9. LinkIsFramed'
  BY <1>1, <1>2, <1>5 DEF MediaInv, LinkIsFramed
<1> QED
  BY <1>7, <1>8, <1>9 DEF MediaInv

\* What is left to send once a message is out.
LEMMA SentType ==
  ASSUME SendTypes, due # <<>>, Sent, UNCHANGED <<platform, carrier, made, open>>
  PROVE  SendTypes'
<1>1. due' = Tail(due) /\ half' = FALSE /\ sequence' \in {sequence, (sequence + 1) % SeqRange}
  BY Zenon DEF Sent
<1>2. Tail(due) \in Seq(Outgoing) /\ Outgoing' = Outgoing
  BY HeadTailProperties DEF SendTypes, Outgoing
<1>3. sequence' \in 0 .. SeqRange - 1
  <2>1. sequence \in 0 .. SeqRange - 1
    BY DEF SendTypes
  <2>2. sequence + 1 \in Nat /\ SeqRange \in Nat \ {0}
    BY <2>1, SequenceType
  <2>3. (sequence + 1) % SeqRange \in 0 .. SeqRange - 1
    BY <2>2, Division
  <2> QED
    BY <1>1, <2>1, <2>3
<1> QED
  BY <1>1, <1>2, <1>3 DEF SendTypes

\* The second write, or the only one, keeps it: it follows its own prefix.
LEMMA WriteBodyKeeps ==
  ASSUME MediaInv, WriteBody
  PROVE  MediaInv'
<1> DEFINE m == Numbered(Head(due))
<1>1. /\ carrier = "tcp" /\ due # <<>> /\ (half \/ Head(due).kind = "response") /\ half \in BOOLEAN
      /\ link' = Append(link, Numbered(Head(due))) /\ half' = FALSE /\ Sent
      /\ UNCHANGED <<platform, carrier, made, open, parser, client, shown>>
  BY DEF WriteBody, Sent, fixed, clientVars, MediaInv, SendTypes
<1>2. /\ open /\ link \in Seq(OnStream) /\ Framed(link, parser)
      /\ AtLast(link, parser) = IF half THEN "body" ELSE "message"
      /\ half => Head(due).kind # "response"
      /\ Head(due) \in Waiting \cup Plain({"report", "response"})
  BY <1>1, TcpFacts
<1>3. m \in OnStream /\ m.kind = Head(due).kind
  <2>1. sequence \in 0 .. SeqRange - 1
    BY DEF MediaInv, SendTypes
  <2>2. m \in Packet \cup Plain({"report", "response"}) /\ m.kind = Head(due).kind
    BY <1>2, <2>1, NumberedType
  <2>3. Packet \cup Plain({"report", "response"}) \subseteq OnStream
    BY DEF OnStream, Plain
  <2> QED
    BY <2>2, <2>3
<1>4. m.kind \in {"rtp", "report", "response"}
  BY <1>2, <1>3 DEF Waiting, Plain
<1> HIDE DEF m
<1>5. Admits(AtLast(link, parser), m.kind)
  BY <1>1, <1>2, <1>3, <1>4 DEF Admits
<1>6. Framed(link', parser) /\ AtLast(link', parser) = "message"
  <2>1. link' = Append(link, m)
    BY <1>1 DEF m
  <2>2. Framed(link', parser) /\ AtLast(link', parser) = Then(m.kind)
    BY <1>2, <1>3, <1>5, <2>1, AppendFramed
  <2>3. Then(m.kind) = "message"
    BY <1>4 DEF Then
  <2> QED
    BY <2>2, <2>3
<1>7. link' \in Seq(OnStream)
  <2>1. link' = Append(link, m)
    BY <1>1 DEF m
  <2> QED
    BY <1>2, <1>3, <2>1, AppendProperties
<1>8. SendTypes'
  BY <1>1, SentType DEF MediaInv
<1>9. LinkTypes' /\ ViewerTypes'
  BY <1>1, <1>7 DEF MediaInv, LinkTypes, ViewerTypes
<1>10. LinkIsFramed'
  <2>1. parser \in {"message", "body", "torn"}
    BY <1>1, TcpFacts
  <2> QED
    BY <1>1, <1>2, <1>6, <2>1 DEF LinkIsFramed
<1> QED
  BY <1>8, <1>9, <1>10 DEF MediaInv

\* A write that fails keeps it: the connection is over.
LEMMA WriteFailsKeeps ==
  ASSUME MediaInv, WriteFails
  PROVE  MediaInv'
<1>1. /\ carrier = "tcp" /\ due # <<>> /\ open' = FALSE /\ due' = <<>> /\ half' = FALSE
      /\ link' \in {link, Append(link, Message("torn"))}
      /\ UNCHANGED <<platform, carrier, made, sequence, parser, client, shown>>
  BY DEF WriteFails, fixed, clientVars
<1>2. /\ open /\ link \in Seq(OnStream) /\ Framed(link, parser)
      /\ AtLast(link, parser) \in {"body", "message"} /\ parser \in {"message", "body", "torn"}
  BY <1>1, TcpFacts
<1>3. Message("torn") \in OnStream /\ Message("torn").kind = "torn"
  BY DEF OnStream, Plain, Message
<1>4. Admits(AtLast(link, parser), Message("torn").kind)
  BY <1>2, <1>3 DEF Admits
<1>5. Framed(Append(link, Message("torn")), parser)
  BY <1>2, <1>3, <1>4, AppendFramed
<1>6. Append(link, Message("torn")) \in Seq(OnStream)
  BY <1>2, <1>3, AppendProperties
<1>7. link' \in Seq(OnStream) /\ Framed(link', parser)
  BY <1>1, <1>2, <1>5, <1>6
<1>8. SendTypes'
  BY <1>1, EmptySeq DEF MediaInv, SendTypes
<1>9. LinkTypes' /\ ViewerTypes'
  BY <1>1, <1>7 DEF MediaInv, LinkTypes, ViewerTypes
<1>10. LinkIsFramed'
  BY <1>1, <1>2, <1>7 DEF LinkIsFramed
<1> QED
  BY <1>8, <1>9, <1>10 DEF MediaInv

\* A datagram keeps it, sent or not.
LEMMA SendDatagramKeeps ==
  ASSUME MediaInv, SendDatagram
  PROVE  MediaInv'
<1>1. /\ carrier = "udp" /\ due # <<>>
      /\ UNCHANGED <<platform, carrier, made, parser, client, shown>>
  BY DEF SendDatagram, fixed, clientVars
<1>2. Outgoing = Waiting /\ due \in Seq(Waiting) /\ link \in SUBSET Packet /\ open /\ half \in BOOLEAN
        /\ sequence \in 0 .. SeqRange - 1
  BY <1>1 DEF MediaInv, SendTypes, LinkTypes, LinkIsFramed, Outgoing
<1>3. CASE link' = link \cup {Numbered(Head(due))} /\ Sent /\ open' = open
  <2>1. Head(due) \in Waiting
    BY <1>1, <1>2, HeadTailProperties
  <2>2. Head(due).kind = "rtp"
    BY <2>1 DEF Waiting
  <2>3. Numbered(Head(due)) \in Packet
    BY <1>2, <2>1, <2>2, NumberedType
  <2>4. SendTypes'
    BY <1>1, <1>3, SentType DEF MediaInv
  <2>5. LinkTypes' /\ ViewerTypes'
    BY <1>1, <1>2, <1>3, <2>3 DEF MediaInv, LinkTypes, ViewerTypes
  <2>6. LinkIsFramed'
    BY <1>1, <1>2, <1>3 DEF MediaInv, LinkIsFramed, Sent
  <2> QED
    BY <2>4, <2>5, <2>6 DEF MediaInv
<1>4. CASE open' = FALSE /\ due' = <<>> /\ UNCHANGED <<link, half, sequence>>
  <2>1. SendTypes'
    BY <1>1, <1>4, EmptySeq DEF MediaInv, SendTypes
  <2>2. LinkTypes' /\ ViewerTypes'
    BY <1>1, <1>4 DEF MediaInv, LinkTypes, ViewerTypes
  <2>3. LinkIsFramed'
    BY <1>1, <1>4 DEF MediaInv, LinkIsFramed
  <2> QED
    BY <2>1, <2>2, <2>3 DEF MediaInv
<1> QED
  BY <1>3, <1>4 DEF SendDatagram

\* Nothing changes on the sending side.
LEMMA SendUnchanged ==
  ASSUME SendTypes, UNCHANGED <<platform, carrier, made, due, half, sequence, open>>
  PROVE  SendTypes'
BY DEF SendTypes, Outgoing

\* Reading the stream keeps the media invariant.
LEMMA ReadStreamKeeps ==
  ASSUME MediaInv, ReadStream
  PROVE  MediaInv'
<1>1. /\ carrier = "tcp" /\ link # <<>> /\ link' = Tail(link) /\ parser' = Parse(Head(link))
      /\ UNCHANGED <<platform, carrier, made, due, half, sequence, open>>
  BY DEF ReadStream, fixed
<1>2. /\ link \in Seq(OnStream) /\ Framed(link, parser)
      /\ open => AtLast(link, parser) = IF half THEN "body" ELSE "message"
      /\ half => due # <<>> /\ Head(due).kind # "response"
      /\ ~open => due = <<>> /\ ~half
  BY <1>1 DEF MediaInv, LinkTypes, LinkIsFramed
<1>3. Head(link) \in OnStream /\ Tail(link) \in Seq(OnStream)
  BY <1>1, <1>2, HeadTailProperties
<1>4. /\ Admits(parser, Head(link).kind)
      /\ Framed(Tail(link), Then(Head(link).kind))
      /\ AtLast(Tail(link), Then(Head(link).kind)) = AtLast(link, parser)
  BY <1>1, <1>2, TailFramed
<1>5. Parse(Head(link)) = Then(Head(link).kind)
  BY <1>4 DEF Parse, Then, Admits
<1>6. Then(Head(link).kind) \in {"message", "body", "torn"}
  BY DEF Then
<1>7. SendTypes'
  BY <1>1, SendUnchanged DEF MediaInv
<1>8. LinkTypes'
  BY <1>1, <1>3 DEF LinkTypes
<1>9. ViewerTypes'
  <2>1. ViewerTypes
    BY DEF MediaInv
  <2>2. CASE Head(link).kind = "rtp" /\ parser = "body"
    <3>1. Receive(Head(link))
      BY <2>2 DEF ReadStream
    <3>2. Head(link) \in Packet
      BY <1>3, <2>2 DEF OnStream, Plain
    <3> QED
      BY <2>1, <3>1, <3>2, ReceiveType
  <2>3. CASE ~(Head(link).kind = "rtp" /\ parser = "body")
    <3>1. UNCHANGED <<client, shown>>
      BY <2>3 DEF ReadStream
    <3> QED
      BY <2>1, <3>1 DEF ViewerTypes
  <2> QED
    BY <2>2, <2>3
<1>10. LinkIsFramed'
  BY <1>1, <1>2, <1>4, <1>5, <1>6 DEF LinkIsFramed
<1> QED
  BY <1>7, <1>8, <1>9, <1>10 DEF MediaInv

\* Receiving a datagram keeps it.
LEMMA ReceiveDatagramKeeps ==
  ASSUME MediaInv, NEW p \in Datagrams, ReceiveDatagram(p)
  PROVE  MediaInv'
<1>1. carrier = "udp" /\ p \in link /\ link \in SUBSET Packet
  BY DEF Datagrams, MediaInv, LinkTypes, SendTypes
<1>2. /\ link' \in {link, link \ {p}}
      /\ UNCHANGED <<platform, carrier, made, due, half, sequence, open, parser>>
  BY DEF ReceiveDatagram, fixed
<1>3. SendTypes'
  BY <1>2, SendUnchanged DEF MediaInv
<1>4. LinkTypes'
  BY <1>1, <1>2 DEF LinkTypes
<1>5. ViewerTypes'
  <2>1. ViewerTypes
    BY DEF MediaInv
  <2>2. CASE Late(p)
    <3>1. UNCHANGED <<client, shown>>
      BY <2>2 DEF ReceiveDatagram
    <3> QED
      BY <2>1, <3>1 DEF ViewerTypes
  <2>3. CASE ~Late(p)
    <3>1. Receive(p) /\ p \in Packet
      BY <1>1, <2>3 DEF ReceiveDatagram
    <3> QED
      BY <2>1, <3>1, ReceiveType
  <2> QED
    BY <2>2, <2>3
<1>6. LinkIsFramed'
  BY <1>1, <1>2 DEF MediaInv, LinkIsFramed
<1> QED
  BY <1>3, <1>4, <1>5, <1>6 DEF MediaInv

\* Losing one keeps it.
LEMMA LoseKeeps ==
  ASSUME MediaInv, NEW p \in Datagrams, Lose(p)
  PROVE  MediaInv'
<1>1. carrier = "udp" /\ link \in SUBSET Packet
  BY DEF Datagrams, MediaInv, LinkTypes, SendTypes
<1>2. /\ link' = link \ {p}
      /\ UNCHANGED <<platform, carrier, made, due, half, sequence, open, parser, client, shown>>
  BY DEF Lose, fixed, clientVars
<1>3. SendTypes'
  BY <1>2, SendUnchanged DEF MediaInv
<1>4. LinkTypes' /\ ViewerTypes'
  BY <1>1, <1>2 DEF MediaInv, LinkTypes, ViewerTypes
<1>5. LinkIsFramed'
  BY <1>1, <1>2 DEF MediaInv, LinkIsFramed
<1> QED
  BY <1>3, <1>4, <1>5 DEF MediaInv

\* A step of the other direction keeps it.
LEMMA MediaUnchanged == MediaInv /\ UNCHANGED mediaVars => MediaInv'
<1> SUFFICES ASSUME MediaInv, UNCHANGED mediaVars
             PROVE  MediaInv'
  OBVIOUS
<1>1. UNCHANGED <<platform, carrier, made, due, half, sequence, open, link, parser, client, shown>>
  BY DEF mediaVars
<1>2. SendTypes'
  BY <1>1, SendUnchanged DEF MediaInv
<1>3. LinkTypes' /\ ViewerTypes' /\ LinkIsFramed'
  BY <1>1 DEF MediaInv, LinkTypes, ViewerTypes, LinkIsFramed
<1> QED
  BY <1>2, <1>3 DEF MediaInv

\* Every step of the media keeps the media invariant.
LEMMA MediaSteps == MediaInv /\ [MediaNext]_mediaVars => MediaInv'
<1> SUFFICES ASSUME MediaInv, [MediaNext]_mediaVars
             PROVE  MediaInv'
  OBVIOUS
<1>1. ASSUME NEW u \in Units, NEW f \in Formats(u), TakeUnit(u, f)
      PROVE  MediaInv'
  BY <1>1, TakeUnitKeeps
<1>2. ASSUME NEW kind \in {"response", "report"}, SendOther(kind)
      PROVE  MediaInv'
  BY <1>2, SendOtherKeeps
<1>3. CASE WritePrefix
  BY <1>3, WritePrefixKeeps
<1>4. CASE WriteBody
  BY <1>4, WriteBodyKeeps
<1>5. CASE WriteFails
  BY <1>5, WriteFailsKeeps
<1>6. CASE SendDatagram
  BY <1>6, SendDatagramKeeps
<1>7. CASE ReadStream
  BY <1>7, ReadStreamKeeps
<1>8. ASSUME NEW p \in Datagrams, ReceiveDatagram(p) \/ Lose(p)
      PROVE  MediaInv'
  BY <1>8, ReceiveDatagramKeeps, LoseKeeps
<1>9. CASE UNCHANGED mediaVars
  BY <1>9, MediaUnchanged
<1> QED
  BY <1>1, <1>2, <1>3, <1>4, <1>5, <1>6, <1>7, <1>8, <1>9 DEF MediaNext

\* The media invariant implies the types of the media and that frames stay whole.
LEMMA MediaIsTyped == MediaInv => MediaTypeOK /\ FramesStayWhole
<1> SUFFICES ASSUME MediaInv
             PROVE  MediaTypeOK /\ FramesStayWhole
  OBVIOUS
<1>1. SendTypes /\ ViewerTypes
  BY DEF MediaInv
<1>2. parser \in {"message", "body", "torn"}
  BY DEF MediaInv, SendTypes, LinkIsFramed
<1>3. ASSUME NEW k \in DOMAIN due, due[k].kind = "rtp"
      PROVE  Size(due[k].payload) <= Mtu
  <2>1. due[k] \in Waiting \cup Plain({"response", "report"})
    <3>1. due[k] \in Outgoing
      <4>1. due \in Seq(Outgoing)
        BY <1>1 DEF SendTypes
      <4>2. k \in 1..Len(due)
        BY <4>1, LenProperties
      <4> QED
        BY <4>1, <4>2, ElementOfSeq
    <3> QED
      BY <3>1 DEF Outgoing
  <2>2. due[k] \in Waiting
    BY <1>3, <2>1 DEF Plain
  <2> QED
    BY <2>2 DEF Waiting, Fits
<1> QED
  BY <1>1, <1>2, <1>3 DEF SendTypes, ViewerTypes, MediaTypeOK, FramesStayWhole

\* The inductive invariant.
WireIInv == FramingInv /\ MediaInv

\* Every step of a connection keeps the inductive invariant.
LEMMA WireSteps == WireIInv /\ [Next]_wireVars => WireIInv'
<1> SUFFICES ASSUME WireIInv, [Next]_wireVars
             PROVE  WireIInv'
  OBVIOUS
<1>1. CASE In(FramingNext)
  <2>1. FramingNext /\ UNCHANGED mediaVars
    BY <1>1 DEF In
  <2> QED
    BY <2>1, FramingSteps, MediaUnchanged DEF WireIInv
<1>2. CASE Out(MediaNext)
  <2>1. MediaNext /\ UNCHANGED framingVars
    BY <1>2 DEF Out
  <2> QED
    BY <2>1, FramingSteps, MediaSteps DEF WireIInv
<1>3. CASE UNCHANGED wireVars
  <2>1. UNCHANGED framingVars /\ UNCHANGED mediaVars
    BY <1>3 DEF wireVars
  <2> QED
    BY <2>1, FramingSteps, MediaUnchanged DEF WireIInv
<1> QED
  BY <1>1, <1>2, <1>3 DEF Next

\* The invariant of both directions holds at every moment.
LEMMA WireInvariance == Spec => []WireIInv
<1>1. Init => WireIInv
  BY FramingStarts, MediaStarts DEF Init, WireIInv
<1>2. WireIInv /\ [Next]_wireVars => WireIInv'
  BY WireSteps
<1> QED
  BY <1>1, <1>2, PTL DEF Spec

\* On every connection, for every MTU, unit, script and range of sequence numbers: the input buffer
\* stays within its bound and no payload is above the MTU.
THEOREM WireCorrect == Spec => []WireInv
<1>1. WireIInv => WireInv
  BY MediaIsTyped DEF WireIInv, FramingInv, WireInv
<1> QED
  BY <1>1, WireInvariance, PTL

\* A frame of which only a part was written is followed by no other message, wherever the write of
\* its prefix or of its packet failed: the client never reads the inside of a packet as a message.
THEOREM FramesHold == Spec => []FramesStayWhole
<1>1. WireIInv => FramesStayWhole
  BY MediaIsTyped DEF WireIInv
<1> QED
  BY <1>1, WireInvariance, PTL

-----------------------------------------------------------------------------
(* Which requests are served: sequences joined one after the other. *)

\* The first k of the sequences, one after the other.
Joined(seqs, k) == FlattenSeq(SubSeq(seqs, 1, k))

\* The first k sequences.
LEMMA FirstOnes ==
  ASSUME NEW S, NEW seqs \in Seq(S), NEW k \in 0..Len(seqs)
  PROVE  /\ SubSeq(seqs, 1, k) \in Seq(S) /\ Len(SubSeq(seqs, 1, k)) = k
         /\ \A i \in 1..k : SubSeq(seqs, 1, k)[i] = seqs[i]
<1>1. Len(seqs) \in Nat /\ k \in Nat /\ k <= Len(seqs) /\ 1 \in Nat \ {0}
  BY LenProperties
<1>2. /\ SubSeq(seqs, 1, k) \in Seq(S)
      /\ Len(SubSeq(seqs, 1, k)) = IF 1 <= k THEN k - 1 + 1 ELSE 0
      /\ \A i \in 1..k - 1 + 1 : SubSeq(seqs, 1, k)[i] = seqs[1 + i - 1]
  BY <1>1, PartType
<1>3. (IF 1 <= k THEN k - 1 + 1 ELSE 0) = k /\ k - 1 + 1 = k /\ \A i \in 1..k : 1 + i - 1 = i
  BY <1>1
<1> QED
  BY <1>2, <1>3

\* One more sequence is joined at the end.
LEMMA JoinedSteps ==
  ASSUME NEW S, NEW seqs \in Seq(Seq(S))
  PROVE  /\ Joined(seqs, 0) = <<>> /\ Joined(seqs, Len(seqs)) = FlattenSeq(seqs)
         /\ \A k \in 0..Len(seqs) : Joined(seqs, k) \in Seq(S)
         /\ \A k \in 1..Len(seqs) : Joined(seqs, k) = Joined(seqs, k - 1) \o seqs[k]
<1> DEFINE n == Len(seqs)
<1>0. n \in Nat
  BY LenProperties
<1>1. PICK f \in [0..n -> Seq(S)] :
        /\ f[0] = <<>>
        /\ \A i \in 1..n : f[i] = f[i - 1] \o seqs[i]
        /\ FlattenSeq(seqs) = f[n]
  BY Flattened
<1> HIDE DEF n
<1>2. ASSUME NEW k \in 0..n
      PROVE  Joined(seqs, k) = f[k]
  <2> DEFINE part == SubSeq(seqs, 1, k)
  <2>1. part \in Seq(Seq(S)) /\ Len(part) = k /\ \A i \in 1..k : part[i] = seqs[i]
    BY FirstOnes DEF n
  <2> HIDE DEF part
  <2>2. PICK g \in [0..k -> Seq(S)] :
          /\ g[0] = <<>>
          /\ \A i \in 1..k : g[i] = g[i - 1] \o part[i]
          /\ FlattenSeq(part) = g[k]
    BY <2>1, Flattened
  <2> DEFINE T == {i \in Nat : i <= k => g[i] = f[i]}
  <2>3. 0 \in T
    BY <1>1, <2>2
  <2>4. ASSUME NEW i \in T
        PROVE  i + 1 \in T
    <3> SUFFICES ASSUME i + 1 <= k
                 PROVE  g[i + 1] = f[i + 1]
      OBVIOUS
    <3>1. i + 1 \in 1..k /\ i + 1 \in 1..n /\ (i + 1) - 1 = i /\ i <= k
      BY <1>0
    <3>2. g[i + 1] = g[i] \o part[i + 1] /\ f[i + 1] = f[i] \o seqs[i + 1]
      BY <1>1, <2>2, <3>1
    <3> QED
      BY <2>1, <3>1, <3>2
  <2>5. T = Nat
    <3>1. T \in SUBSET Nat
      OBVIOUS
    <3> HIDE DEF T
    <3> QED
      BY <2>3, <2>4, <3>1, Every
  <2>6. k \in T
    <3> HIDE DEF T
    <3> QED
      BY <1>0, <2>5
  <2>7. g[k] = f[k]
    BY <1>0, <2>6
  <2> QED
    BY <2>2, <2>7 DEF Joined, part
<1>3. 0 \in 0..n /\ n \in 0..n /\ \A k \in 1..n : k \in 0..n /\ k - 1 \in 0..n
  BY <1>0
<1>4. Joined(seqs, 0) = <<>> /\ Joined(seqs, n) = FlattenSeq(seqs)
  BY <1>1, <1>2, <1>3
<1>5. ASSUME NEW k \in 1..n
      PROVE  Joined(seqs, k) = Joined(seqs, k - 1) \o seqs[k]
  <2>1. Joined(seqs, k) = f[k] /\ Joined(seqs, k - 1) = f[k - 1]
    BY <1>2, <1>3
  <2> QED
    BY <1>1, <2>1
<1> QED
  BY <1>1, <1>2, <1>4, <1>5 DEF n

\* Fewer sequences make a prefix.
LEMMA JoinedPrefix ==
  ASSUME NEW S, NEW seqs \in Seq(Seq(S)), NEW k \in 0..Len(seqs), NEW m \in k..Len(seqs)
  PROVE  /\ Len(Joined(seqs, k)) <= Len(Joined(seqs, m))
         /\ \A i \in 1..Len(Joined(seqs, k)) : Joined(seqs, m)[i] = Joined(seqs, k)[i]
<1> DEFINE n == Len(seqs)
           J(i) == Joined(seqs, i)
           Extends(j) == Len(J(k)) <= Len(J(j)) /\ \A i \in 1..Len(J(k)) : J(j)[i] = J(k)[i]
           T == {d \in Nat : k + d <= n => Extends(k + d)}
<1>0. n \in Nat /\ k \in Nat /\ m \in Nat /\ k <= m /\ m <= n
  BY LenProperties
<1>1. /\ \A i \in 0..n : J(i) \in Seq(S) /\ Len(J(i)) \in Nat
      /\ \A i \in 1..n : J(i) = J(i - 1) \o seqs[i] /\ seqs[i] \in Seq(S)
  BY JoinedSteps, LenProperties, ElementOfSeq
<1> HIDE DEF J, n
<1>2. 0 \in T
  <2>1. k + 0 = k /\ k \in 0..n
    BY <1>0
  <2>2. Len(J(k)) \in Nat
    BY <1>1, <2>1
  <2> QED
    BY <2>1, <2>2
<1>3. ASSUME NEW d \in T
      PROVE  d + 1 \in T
  <2> SUFFICES ASSUME k + (d + 1) <= n
               PROVE  Extends(k + (d + 1))
    OBVIOUS
  <2> DEFINE j == k + d
  <2>1. j + 1 \in 1..n /\ j \in 0..n /\ (j + 1) - 1 = j /\ k + (d + 1) = j + 1 /\ k \in 0..n
    BY <1>0
  <2>2. Extends(j)
    BY <2>1, <1>0
  <2> HIDE DEF j
  <2>3. J(j + 1) = J(j) \o seqs[j + 1] /\ seqs[j + 1] \in Seq(S) /\ J(j) \in Seq(S)
    BY <1>1, <2>1
  <2>4. /\ Len(J(j + 1)) = Len(J(j)) + Len(seqs[j + 1])
        /\ \A i \in 1..Len(J(j)) + Len(seqs[j + 1]) :
             J(j + 1)[i] = IF i <= Len(J(j)) THEN J(j)[i] ELSE seqs[j + 1][i - Len(J(j))]
    BY <2>3, ConcatProperties
  <2>5. Len(J(j)) \in Nat /\ Len(seqs[j + 1]) \in Nat /\ Len(J(k)) \in Nat
    BY <1>1, <2>1, <2>3, LenProperties
  <2>6. Len(J(k)) <= Len(J(j + 1))
    BY <2>2, <2>4, <2>5
  <2>7. ASSUME NEW i \in 1..Len(J(k))
        PROVE  J(j + 1)[i] = J(k)[i]
    <3>1. i \in 1..Len(J(j)) + Len(seqs[j + 1]) /\ i <= Len(J(j))
      BY <2>2, <2>5
    <3>2. J(j + 1)[i] = J(j)[i]
      BY <2>4, <3>1
    <3> QED
      BY <2>2, <3>2
  <2>8. Extends(j + 1)
    BY <2>6, <2>7
  <2> QED
    BY <2>1, <2>8
<1>4. T = Nat
  <2>1. T \in SUBSET Nat
    OBVIOUS
  <2> HIDE DEF T
  <2> QED
    BY <1>2, <1>3, <2>1, Every
<1>5. Extends(m)
  <2>1. m - k \in Nat /\ k + (m - k) = m
    BY <1>0
  <2>2. m - k \in T
    <3> HIDE DEF T
    <3> QED
      BY <1>4, <2>1
  <2> HIDE DEF Extends
  <2> QED
    BY <1>0, <2>1, <2>2
<1> QED
  BY <1>5 DEF J

\* Where the k-th sequence lies in what they make together.
LEMMA JoinedAt ==
  ASSUME NEW S, NEW seqs \in Seq(Seq(S)), NEW k \in 1..Len(seqs)
  PROVE  LET before == Len(Joined(seqs, k - 1))
             all == FlattenSeq(seqs)
         IN  /\ before \in Nat /\ Len(seqs[k]) \in Nat /\ Len(all) \in Nat
             /\ Len(Joined(seqs, k)) = before + Len(seqs[k])
             /\ before + Len(seqs[k]) <= Len(all)
             /\ \A j \in 1..Len(seqs[k]) : all[before + j] = seqs[k][j]
<1> DEFINE n == Len(seqs)
           before == Len(Joined(seqs, k - 1))
           all == FlattenSeq(seqs)
           part == Joined(seqs, k)
<1>1. n \in Nat /\ k - 1 \in 0..n /\ k \in 0..n /\ n \in k..n
  BY LenProperties
<1>2. /\ Joined(seqs, k - 1) \in Seq(S) /\ part \in Seq(S) /\ all \in Seq(S)
      /\ part = Joined(seqs, k - 1) \o seqs[k] /\ all = Joined(seqs, n) /\ seqs[k] \in Seq(S)
  <2>1. n \in 0..n
    BY <1>1
  <2> QED
    BY <1>1, <2>1, JoinedSteps, ElementOfSeq
<1>3. before \in Nat /\ Len(seqs[k]) \in Nat /\ Len(all) \in Nat
  BY <1>2, LenProperties
<1>4. Len(part) <= Len(all) /\ \A i \in 1..Len(part) : all[i] = part[i]
  BY <1>1, <1>2, JoinedPrefix
<1>5. /\ Len(part) = before + Len(seqs[k])
      /\ \A i \in 1..before + Len(seqs[k]) :
           part[i] = IF i <= before THEN Joined(seqs, k - 1)[i] ELSE seqs[k][i - before]
  <2> HIDE DEF before, all, part, n
  <2> DEFINE first == Joined(seqs, k - 1)
  <2>1. first \in Seq(S) /\ seqs[k] \in Seq(S) /\ part = first \o seqs[k] /\ before = Len(first)
    BY <1>2 DEF before
  <2> HIDE DEF first
  <2>2. /\ Len(part) = before + Len(seqs[k])
        /\ \A i \in 1..before + Len(seqs[k]) :
             part[i] = IF i <= before THEN first[i] ELSE seqs[k][i - before]
    BY <2>1, ConcatProperties
  <2> QED
    BY <2>2 DEF first
<1> HIDE DEF before, all, part, n
<1>6. ASSUME NEW j \in 1..Len(seqs[k])
      PROVE  all[before + j] = seqs[k][j]
  <2>1. before + j \in 1..before + Len(seqs[k]) /\ ~(before + j <= before) /\ (before + j) - before = j
    BY <1>3
  <2>2. part[before + j] = seqs[k][j]
    BY <1>5, <2>1
  <2> QED
    BY <1>4, <1>5, <2>1, <2>2
<1>7. before + Len(seqs[k]) <= Len(all) /\ Len(part) = before + Len(seqs[k])
  BY <1>4, <1>5
<1> QED
  BY <1>3, <1>6, <1>7 DEF before, all, part

-----------------------------------------------------------------------------
(* The bytes of one message. *)

\* The kinds of tokens are different.
LEMMA LineType == Line \subseteq Token /\ Crlf \in Token /\ Crlf \notin Line /\ Dollar \notin Line
                    /\ Dollar # Crlf
BY DEF Line, Token, Crlf, Dollar

\* The head of a request: every other token is a line.
LEMMA HeadBytesAre ==
  ASSUME NEW lines \in Seq(Line)
  PROVE  /\ HeadBytes(lines) \in Seq(Token)
         /\ Len(HeadBytes(lines)) = 2 * Len(lines) + 1
         /\ \A i \in 1..Len(lines) : /\ HeadBytes(lines)[2 * i - 1] = lines[i]
                                     /\ HeadBytes(lines)[2 * i] = Crlf
         /\ HeadBytes(lines)[2 * Len(lines) + 1] = Crlf
<1> DEFINE n == Len(lines)
           pairs == [i \in DOMAIN lines |-> <<lines[i], Crlf>>]
           all == FlattenSeq(pairs)
<1>1. n \in Nat /\ DOMAIN lines = 1..n /\ \A i \in 1..n : lines[i] \in Line
  BY LenProperties, ElementOfSeq
<1>2. ASSUME NEW i \in 1..n
      PROVE  /\ pairs[i] \in Seq(Token) /\ Len(pairs[i]) = 2
             /\ \A j \in 1..2 : pairs[i][j] = IF j = 1 THEN lines[i] ELSE Crlf
  <2>1. pairs[i] = <<lines[i], Crlf>>
    BY <1>1
  <2>2. lines[i] \in Token /\ Crlf \in Token
    BY <1>1, LineType
  <2> HIDE DEF pairs, n
  <2> QED
    BY <2>1, <2>2
<1>3. DOMAIN pairs = 1..n /\ pairs = [i \in 1..n |-> pairs[i]]
  BY <1>1
<1>4. HeadBytes(lines) = all \o <<Crlf>>
  BY Zenon DEF HeadBytes
<1> HIDE DEF pairs, n
<1>5. pairs \in Seq(Seq(Token)) /\ Len(pairs) = n
  BY <1>1, <1>2, <1>3, Listed
<1>6. all \in Seq(Token) /\ Joined(pairs, n) = all /\ Joined(pairs, 0) = <<>>
  BY <1>5, FlattenType, JoinedSteps
<1> DEFINE T == {k \in Nat : k <= n => Len(Joined(pairs, k)) = 2 * k}
<1>7. 0 \in T
  <2>1. Len(<<>>) = 0
    BY EmptySeq
  <2> QED
    BY <1>6, <2>1
<1>8. ASSUME NEW k \in T
      PROVE  k + 1 \in T
  <2> SUFFICES ASSUME k + 1 <= n
               PROVE  Len(Joined(pairs, k + 1)) = 2 * (k + 1)
    OBVIOUS
  <2>1. k + 1 \in 1..Len(pairs) /\ k + 1 \in 1..n /\ (k + 1) - 1 = k
    BY <1>1, <1>5
  <2>2. Len(Joined(pairs, k + 1)) = Len(Joined(pairs, (k + 1) - 1)) + Len(pairs[k + 1])
    BY <1>5, <2>1, JoinedAt
  <2>3. Len(pairs[k + 1]) = 2 /\ Len(Joined(pairs, k)) = 2 * k
    BY <1>1, <1>2, <2>1
  <2> QED
    BY <2>1, <2>2, <2>3
<1>9. T = Nat
  <2>1. T \in SUBSET Nat
    OBVIOUS
  <2> HIDE DEF T
  <2> QED
    BY <1>7, <1>8, <2>1, Every
<1>10. \A k \in 0..n : Len(Joined(pairs, k)) = 2 * k
  BY <1>1, <1>9
<1>11. Len(all) = 2 * n
  <2>1. n \in 0..n
    BY <1>1
  <2> QED
    BY <1>6, <1>10, <2>1
<1>12. ASSUME NEW i \in 1..n, NEW j \in 1..2
       PROVE  2 * (i - 1) + j \in 1..Len(all) /\ all[2 * (i - 1) + j] = IF j = 1 THEN lines[i] ELSE Crlf
  <2>1. i \in 1..Len(pairs) /\ i - 1 \in 0..n
    BY <1>1, <1>5
  <2>2. Len(Joined(pairs, i - 1)) = 2 * (i - 1) /\ j \in 1..Len(pairs[i])
    BY <1>2, <1>10, <2>1
  <2>3. all[Len(Joined(pairs, i - 1)) + j] = pairs[i][j]
    BY <1>5, <2>1, <2>2, JoinedAt
  <2> HIDE DEF all
  <2>4. pairs[i][j] = IF j = 1 THEN lines[i] ELSE Crlf
    BY <1>2
  <2>5. 2 * (i - 1) + j \in 1..Len(all)
    BY <1>1, <1>11
  <2> QED
    BY <2>2, <2>3, <2>4, <2>5
<1> HIDE DEF all
<1>13. /\ all \o <<Crlf>> \in Seq(Token)
       /\ Len(all \o <<Crlf>>) = 2 * n + 1
       /\ \A i \in 1..2 * n : (all \o <<Crlf>>)[i] = all[i]
       /\ (all \o <<Crlf>>)[2 * n + 1] = Crlf
  <2>1. <<Crlf>> = Append(<<>>, Crlf) /\ <<Crlf>> \in Seq(Token) /\ Len(<<Crlf>>) = 1 /\ <<Crlf>>[1] = Crlf
    BY LineType
  <2> DEFINE single == <<Crlf>>
  <2>2. single \in Seq(Token) /\ Len(single) = 1 /\ single[1] = Crlf
    BY <2>1
  <2> HIDE DEF single
  <2>3. /\ all \o single \in Seq(Token)
        /\ Len(all \o single) = Len(all) + 1
        /\ \A i \in 1..Len(all) + 1 :
             (all \o single)[i] = IF i <= Len(all) THEN all[i] ELSE single[i - Len(all)]
    <3>1. all \in Seq(Token) /\ single \in Seq(Token)
      BY <1>6, <2>2
    <3>2. /\ all \o single \in Seq(Token)
          /\ Len(all \o single) = Len(all) + Len(single)
          /\ \A i \in 1..Len(all) + Len(single) :
               (all \o single)[i] = IF i <= Len(all) THEN all[i] ELSE single[i - Len(all)]
      BY <3>1, ConcatProperties
    <3> QED
      BY <2>2, <3>2
  <2>4. ASSUME NEW i \in 1..2 * n
        PROVE  (all \o single)[i] = all[i]
    <3>1. i \in 1..Len(all) + 1 /\ i <= Len(all)
      BY <1>1, <1>11
    <3> QED
      BY <2>3, <3>1
  <2>5. (all \o single)[2 * n + 1] = Crlf
    <3>1. 2 * n + 1 \in 1..Len(all) + 1 /\ ~(2 * n + 1 <= Len(all)) /\ (2 * n + 1) - Len(all) = 1
      BY <1>1, <1>11
    <3> QED
      BY <2>2, <2>3, <3>1
  <2> QED
    BY <1>11, <2>3, <2>4, <2>5 DEF single
<1>14. ASSUME NEW i \in 1..n
       PROVE  /\ HeadBytes(lines)[2 * i - 1] = lines[i]
              /\ HeadBytes(lines)[2 * i] = Crlf
  <2>1. 2 * (i - 1) + 1 = 2 * i - 1 /\ 2 * (i - 1) + 2 = 2 * i /\ 1 \in 1..2 /\ 2 \in 1..2
    BY <1>1
  <2>2. all[2 * i - 1] = lines[i] /\ all[2 * i] = Crlf
    BY <1>12, <2>1
  <2>3. 2 * i - 1 \in 1..2 * n /\ 2 * i \in 1..2 * n
    BY <1>1
  <2> QED
    BY <1>4, <1>13, <2>2, <2>3
<1> QED
  BY <1>4, <1>13, <1>14 DEF n

\* From its i-th byte on, and as far as they go, the bytes are those of the message.
Matches(bytes, i, message) ==
  \A j \in 1..Len(message) : i + j - 1 <= Len(bytes) => bytes[i + j - 1] = message[j]

\* A frame begins with a dollar, and its length says how long it is.
LEMMA FrameBytesAre ==
  ASSUME NEW m \in Frames
  PROVE  /\ Bytes(m) \in Seq(Token) /\ Len(Bytes(m)) \in Nat /\ Len(Bytes(m)) >= 4
         /\ Bytes(m)[1] = Dollar
         /\ 4 + Bytes(m)[3][2] * Radix + Bytes(m)[4][2] = Len(Bytes(m))
<1> DEFINE n == Len(m.body)
           head == <<Dollar, <<"byte", 1>>, <<"byte", n \div Radix>>, <<"byte", n % Radix>>>>
<1>1. m.kind = "frame" /\ m.body \in Seq(Token) /\ n \in Nat
  BY LenProperties DEF Frames
<1>2. Bytes(m) = head \o m.body
  BY <1>1, Zenon DEF Bytes
<1> HIDE DEF n
<1>3. n \div Radix \in Nat /\ n % Radix \in Nat /\ (n \div Radix) * Radix + (n % Radix) = n
  <2>1. n \div Radix \in Nat /\ n % Radix \in 0..Radix - 1
    BY <1>1, SizesType, Division
  <2>2. 0..Radix - 1 \subseteq Nat
    BY SizesType
  <2>3. (n \div Radix) * Radix + (n % Radix) = n
    BY <1>1, SizesType
  <2> QED
    BY <2>1, <2>2, <2>3, Zenon
<1>4. /\ head \in Seq(Token) /\ Len(head) = 4
      /\ head[1] = Dollar /\ head[3][2] = n \div Radix /\ head[4][2] = n % Radix
  <2>1. <<"byte", 1>> \in Token /\ <<"byte", n \div Radix>> \in Token /\ <<"byte", n % Radix>> \in Token
          /\ Dollar \in Token
    BY <1>3 DEF Token, Dollar
  <2> DEFINE hi == n \div Radix
             lo == n % Radix
  <2> HIDE DEF hi, lo
  <2>2. head = <<Dollar, <<"byte", 1>>, <<"byte", hi>>, <<"byte", lo>>>>
    BY DEF hi, lo
  <2>3. <<"byte", 1>> \in Token /\ <<"byte", hi>> \in Token /\ <<"byte", lo>> \in Token
    BY <2>1 DEF hi, lo
  <2> HIDE DEF head
  <2>4. head[3][2] = hi /\ head[4][2] = lo
    BY <2>2
  <2> QED
    BY <2>1, <2>2, <2>3, <2>4 DEF hi, lo
<1> HIDE DEF head
<1>5. /\ head \o m.body \in Seq(Token)
      /\ Len(head \o m.body) = Len(head) + Len(m.body)
      /\ \A i \in 1..Len(head) + Len(m.body) :
           (head \o m.body)[i] = IF i <= Len(head) THEN head[i] ELSE m.body[i - Len(head)]
  BY <1>1, <1>4, ConcatProperties
<1>6. ASSUME NEW i \in 1..4
      PROVE  (head \o m.body)[i] = head[i]
  <2>1. i \in 1..Len(head) + Len(m.body) /\ i <= Len(head)
    BY <1>1, <1>4 DEF n
  <2> QED
    BY <1>5, <2>1
<1>7. Bytes(m)[1] = head[1] /\ Bytes(m)[3] = head[3] /\ Bytes(m)[4] = head[4]
  <2>1. 1 \in 1..4 /\ 3 \in 1..4 /\ 4 \in 1..4
    OBVIOUS
  <2>2. \A i \in 1..4 : Bytes(m)[i] = head[i]
    BY <1>2, <1>6
  <2> QED
    BY <2>1, <2>2
<1>8. Len(Bytes(m)) = 4 + n
  BY <1>2, <1>4, <1>5 DEF n
<1>9. Bytes(m) \in Seq(Token)
  BY <1>2, <1>5
<1>10. 4 + (n \div Radix) * Radix + (n % Radix) = 4 + n
  <2>1. \A a, b \in Nat : 4 + a + b = 4 + (a + b)
    OBVIOUS
  <2>2. (n \div Radix) * Radix \in Nat
    BY <1>3, SizesType, Times
  <2> QED
    BY <1>3, <2>1, <2>2
<1>11. Len(Bytes(m)) \in Nat /\ Len(Bytes(m)) >= 4
  BY <1>1, <1>8
<1> QED
  BY <1>4, <1>7, <1>8, <1>9, <1>10, <1>11

\* A request begins with its head, and never with a dollar.
LEMMA RequestBytesAre ==
  ASSUME NEW m \in Requests
  PROVE  LET head == 2 * Len(m.lines) + 1
         IN  /\ m.lines \in Seq(Line) /\ Len(m.lines) \in Nat /\ Len(m.body) \in Nat
             /\ Bytes(m) \in Seq(Token) /\ Len(Bytes(m)) = head + Len(m.body)
             /\ \A i \in 1..head : Bytes(m)[i] = HeadBytes(m.lines)[i]
             /\ Bytes(m)[1] # Dollar
<1> DEFINE lines == m.lines
           head == 2 * Len(lines) + 1
           all == HeadBytes(lines)
<1>1. m.kind = "request" /\ m.body \in Seq(Token) /\ Len(m.body) \in Nat
        /\ lines \in Seq(Line) /\ Len(lines) \in Nat
  BY LenProperties DEF Requests
<1>2. Bytes(m) = all \o m.body
  BY <1>1, Zenon DEF Bytes
<1>3. /\ all \in Seq(Token) /\ Len(all) = head
      /\ \A i \in 1..Len(lines) : all[2 * i - 1] = lines[i]
      /\ all[head] = Crlf
  BY <1>1, HeadBytesAre
<1>4. head \in Nat /\ head >= 1
  BY <1>1
<1> HIDE DEF all
<1>5. /\ all \o m.body \in Seq(Token)
      /\ Len(all \o m.body) = Len(all) + Len(m.body)
      /\ \A i \in 1..Len(all) + Len(m.body) :
           (all \o m.body)[i] = IF i <= Len(all) THEN all[i] ELSE m.body[i - Len(all)]
  BY <1>1, <1>3, ConcatProperties
<1>6. ASSUME NEW i \in 1..head
      PROVE  Bytes(m)[i] = all[i]
  <2> HIDE DEF head
  <2>1. i \in 1..Len(all) + Len(m.body) /\ i <= Len(all)
    BY <1>1, <1>3, <1>4
  <2> QED
    BY <1>2, <1>5, <2>1
<1>7. all[1] # Dollar
  <2>1. CASE Len(lines) = 0
    <3>1. head = 1
      BY <2>1
    <3> HIDE DEF head
    <3> QED
      BY <1>3, <3>1, LineType
  <2>2. CASE Len(lines) # 0
    <3>1. 1 \in 1..Len(lines) /\ 2 * 1 - 1 = 1
      BY <1>1, <2>2
    <3>2. all[1] = lines[1] /\ lines[1] \in Line
      BY <1>1, <1>3, <3>1, ElementOfSeq
    <3> QED
      BY <3>2, LineType
  <2> QED
    BY <2>1, <2>2
<1>8. Bytes(m)[1] # Dollar
  <2>1. 1 \in 1..head
    BY <1>4
  <2> HIDE DEF head
  <2> QED
    BY <1>6, <1>7, <2>1
<1>9. Len(Bytes(m)) = head + Len(m.body)
  <2> HIDE DEF head
  <2> QED
    BY <1>2, <1>3, <1>5
<1>10. Bytes(m) \in Seq(Token) /\ Len(m.body) \in Nat
  BY <1>1, <1>2, <1>5
<1> QED
  BY <1>1, <1>6, <1>8, <1>9, <1>10 DEF all

\* Where the bytes are those of a frame, take_request reads the length of that frame.
LEMMA FrameThere ==
  ASSUME NEW m \in Frames, NEW bytes \in Seq(Token), NEW i \in Nat \ {0}, Matches(bytes, i, Bytes(m))
  PROVE  /\ i <= Len(bytes) => bytes[i] = Dollar
         /\ i + 3 <= Len(bytes) => FrameLength(bytes, i) = Len(Bytes(m))
<1>0. Len(bytes) \in Nat
  BY LenProperties
<1>1. /\ Len(Bytes(m)) \in Nat /\ Len(Bytes(m)) >= 4 /\ Bytes(m)[1] = Dollar
      /\ 4 + Bytes(m)[3][2] * Radix + Bytes(m)[4][2] = Len(Bytes(m))
  BY FrameBytesAre
<1>2. \A j \in 1..4 : i + j - 1 <= Len(bytes) => bytes[i + j - 1] = Bytes(m)[j]
  <2>1. \A j \in 1..4 : j \in 1..Len(Bytes(m))
    BY <1>1
  <2> QED
    BY <2>1 DEF Matches
<1>3. 1 \in 1..4 /\ 3 \in 1..4 /\ 4 \in 1..4 /\ i + 1 - 1 = i /\ i + 3 - 1 = i + 2 /\ i + 4 - 1 = i + 3
  OBVIOUS
<1>4. i <= Len(bytes) => bytes[i] = Dollar
  BY <1>1, <1>2, <1>3
<1>5. ASSUME i + 3 <= Len(bytes)
      PROVE  FrameLength(bytes, i) = Len(Bytes(m))
  <2>1. i + 2 <= Len(bytes)
    BY <1>0, <1>5
  <2>2. bytes[i + 2] = Bytes(m)[3] /\ bytes[i + 3] = Bytes(m)[4]
    BY <1>2, <1>3, <1>5, <2>1
  <2> QED
    BY <1>1, <2>2 DEF FrameLength
<1> QED
  BY <1>4, <1>5

\* As far as they go, the bytes are the head of a request with these lines.
Opening(bytes, lines) ==
  \A i \in 1..2 * Len(lines) + 1 : i <= Len(bytes) => bytes[i] = HeadBytes(lines)[i]

\* Every position is that of a line or of the CRLF after it.
LEMMA OddOrEven ==
  ASSUME NEW i \in Nat \ {0}
  PROVE  \E q \in Nat \ {0} : i = 2 * q - 1 \/ i = 2 * q
<1>1. CASE i % 2 = 0
  <2>1. i = 2 * (i \div 2) /\ i \div 2 \in Nat \ {0}
    BY <1>1
  <2> QED
    BY <2>1
<1>2. CASE i % 2 = 1
  <2>1. i = 2 * (i \div 2 + 1) - 1 /\ i \div 2 + 1 \in Nat \ {0}
    BY <1>2
  <2> QED
    BY <2>1
<1>3. i % 2 \in {0, 1}
  OBVIOUS
<1> QED
  BY <1>1, <1>2, <1>3

\* The headers of a request end where its head ends, and nowhere before.
LEMMA HeaderEndIs ==
  ASSUME NEW lines \in Seq(Line), lines # <<>>, NEW bytes \in Seq(Token), Opening(bytes, lines)
  PROVE  HeaderEnd(bytes) = IF 2 * Len(lines) + 1 <= Len(bytes) THEN 2 * Len(lines) + 1 ELSE 0
<1> DEFINE n == Len(lines)
           len == Len(bytes)
           head == 2 * n + 1
           ends == {i \in 2 .. Len(bytes) : bytes[i - 1] = Crlf /\ bytes[i] = Crlf}
<1>1. n \in Nat /\ n # 0 /\ len \in Nat
  BY LenProperties, EmptySeq
<1>2. \A i \in 1..n : /\ HeadBytes(lines)[2 * i - 1] = lines[i] /\ lines[i] # Crlf
                      /\ HeadBytes(lines)[2 * i] = Crlf
  BY HeadBytesAre, ElementOfSeq, LineType
<1>3. HeadBytes(lines)[head] = Crlf
  BY HeadBytesAre
<1>4. ASSUME NEW i \in 1..head, i <= len
      PROVE  bytes[i] = HeadBytes(lines)[i]
  BY <1>4 DEF Opening
<1>5. HeaderEnd(bytes) = IF ends = {} THEN 0 ELSE Min(ends)
  BY DEF HeaderEnd
<1>6. ASSUME NEW i \in ends
      PROVE  i \in Nat /\ i <= len /\ i >= head
  <2>1. i \in Nat \ {0} /\ 2 <= i /\ i <= len /\ i - 1 \in Nat \ {0} /\ i - 1 <= len
    BY <1>1
  <2>2. bytes[i - 1] = Crlf /\ bytes[i] = Crlf
    OBVIOUS
  <2> HIDE DEF ends
  <2> SUFFICES ASSUME ~(i >= head)
               PROVE  FALSE
    BY <2>1
  <2>3. PICK q \in Nat \ {0} : i = 2 * q - 1 \/ i = 2 * q
    BY <2>1, OddOrEven
  <2>4. q \in 1..n
    BY <1>1, <2>1, <2>3
  <2>5. CASE i = 2 * q - 1
    <3>1. bytes[i] = HeadBytes(lines)[2 * q - 1]
      BY <1>1, <1>4, <2>1, <2>5
    <3> QED
      BY <1>2, <2>2, <2>4, <3>1
  <2>6. CASE i = 2 * q
    <3>1. i - 1 = 2 * q - 1 /\ i - 1 \in 1..head /\ i - 1 <= len
      BY <1>1, <2>1, <2>6
    <3>2. bytes[i - 1] = HeadBytes(lines)[2 * q - 1]
      BY <1>4, <3>1
    <3> QED
      BY <1>2, <2>2, <2>4, <3>2
  <2> QED
    BY <2>3, <2>5, <2>6
<1>7. CASE head <= len
  <2>1. head \in ends
    <3>1. head - 1 = 2 * n /\ head - 1 \in 1..head /\ head \in 1..head /\ head - 1 <= len /\ n \in 1..n
            /\ head \in 2..len
      BY <1>1, <1>7
    <3>2. bytes[head] = Crlf /\ bytes[head - 1] = Crlf
      BY <1>2, <1>3, <1>4, <1>7, <3>1
    <3> HIDE DEF head
    <3> QED
      BY <3>1, <3>2
  <2>2. ends \in SUBSET Nat /\ ends # {}
    BY <1>6, <2>1
  <2> HIDE DEF ends, head
  <2>3. Min(ends) \in ends /\ Min(ends) <= head
    BY <2>1, <2>2, MinIs
  <2>4. Min(ends) = head
    BY <1>6, <2>1, <2>3
  <2> QED
    BY <1>5, <1>7, <2>2, <2>4 DEF head
<1>8. CASE ~(head <= len)
  <2>1. ends = {}
    <3> HIDE DEF ends
    <3> QED
      BY <1>1, <1>6, <1>8
  <2> QED
    BY <1>5, <1>8, <2>1
<1> QED
  BY <1>7, <1>8

\* Its lines are the lines that were sent.
LEMMA LinesAre ==
  ASSUME NEW lines \in Seq(Line), lines # <<>>, NEW bytes \in Seq(Token), Opening(bytes, lines),
         2 * Len(lines) + 1 <= Len(bytes)
  PROVE  Lines(bytes) = lines
<1> DEFINE n == Len(lines)
           head == 2 * n + 1
           kept == [i \in 1..HeaderEnd(bytes) |-> IF bytes[i] = Crlf THEN <<>> ELSE <<bytes[i]>>]
           J(k) == Joined(kept, k)
<1>1. n \in Nat /\ Len(bytes) \in Nat /\ head \in Nat
  BY LenProperties
<1>2. HeaderEnd(bytes) = head
  BY HeaderEndIs
<1>3. /\ \A i \in 1..n : lines[i] \in Line /\ lines[i] # Crlf /\ lines[i] \in Token
      /\ \A i \in 1..n : HeadBytes(lines)[2 * i - 1] = lines[i] /\ HeadBytes(lines)[2 * i] = Crlf
      /\ HeadBytes(lines)[head] = Crlf
  BY HeadBytesAre, ElementOfSeq, LineType
<1>4. ASSUME NEW i \in 1..head
      PROVE  bytes[i] = HeadBytes(lines)[i] /\ bytes[i] \in Token
  <2>1. i \in 1..Len(bytes)
    BY <1>1
  <2>2. bytes[i] = HeadBytes(lines)[i]
    BY <2>1 DEF Opening
  <2> QED
    BY <2>1, <2>2, ElementOfSeq
<1> HIDE DEF head
<1>5. ASSUME NEW i \in 1..head
      PROVE  /\ kept[i] = IF bytes[i] = Crlf THEN <<>> ELSE <<bytes[i]>>
             /\ kept[i] \in Seq(Token)
  <2>1. kept[i] = IF bytes[i] = Crlf THEN <<>> ELSE <<bytes[i]>>
    BY <1>2
  <2>2. <<bytes[i]>> \in Seq(Token) /\ <<>> \in Seq(Token)
    BY <1>4, EmptySeq
  <2> HIDE DEF kept
  <2> QED
    BY <2>1, <2>2
<1>6. DOMAIN kept = 1..head /\ kept = [i \in 1..head |-> kept[i]]
  BY <1>2
<1>7. Lines(bytes) = FlattenSeq(kept)
  BY DEF Lines
<1> HIDE DEF kept
<1>8. kept \in Seq(Seq(Token)) /\ Len(kept) = head
  BY <1>1, <1>5, <1>6, Listed
<1>9. /\ J(0) = <<>> /\ J(head) = FlattenSeq(kept)
      /\ \A k \in 0..head : J(k) \in Seq(Token)
      /\ \A k \in 1..head : J(k) = J(k - 1) \o kept[k]
  BY <1>8, JoinedSteps
<1> HIDE DEF J
<1> DEFINE T == {k \in Nat : k <= n => J(2 * k) = SubSeq(lines, 1, k)}
<1>10. 0 \in T
  <2>1. SubSeq(lines, 1, 0) = <<>> /\ 2 * 0 = 0
    BY SubSeqEmpty
  <2> QED
    BY <1>9, <2>1
<1>11. ASSUME NEW k \in T
       PROVE  k + 1 \in T
  <2> SUFFICES ASSUME k + 1 <= n
               PROVE  J(2 * (k + 1)) = SubSeq(lines, 1, k + 1)
    OBVIOUS
  <2>1. /\ k \in Nat /\ k <= n /\ k + 1 \in 1..n
        /\ 2 * (k + 1) - 1 \in 1..head /\ 2 * (k + 1) \in 1..head
        /\ (2 * (k + 1) - 1) - 1 = 2 * k /\ 2 * k \in 0..head /\ 2 * (k + 1) - 1 \in 0..head
    BY <1>1 DEF head
  <2>2. J(2 * k) = SubSeq(lines, 1, k)
    <3>1. k <= n => J(2 * k) = SubSeq(lines, 1, k)
      BY <1>11
    <3> QED
      BY <2>1, <3>1
  <2>3. kept[2 * (k + 1) - 1] = <<lines[k + 1]>>
    <3>1. bytes[2 * (k + 1) - 1] = lines[k + 1]
      BY <1>3, <1>4, <2>1
    <3> QED
      BY <1>3, <1>5, <2>1, <3>1
  <2>4. kept[2 * (k + 1)] = <<>>
    <3>1. bytes[2 * (k + 1)] = Crlf
      BY <1>3, <1>4, <2>1
    <3> QED
      BY <1>5, <2>1, <3>1
  <2>5. J(2 * (k + 1) - 1) = J(2 * k) \o <<lines[k + 1]>>
    BY <1>9, <2>1, <2>3
  <2>6. J(2 * (k + 1)) = J(2 * (k + 1) - 1) \o <<>>
    BY <1>9, <2>1, <2>4
  <2>7. J(2 * (k + 1) - 1) \o <<>> = J(2 * (k + 1) - 1)
    BY <1>9, <2>1, ConcatEmptySeq
  <2>8. SubSeq(lines, 1, k + 1) = SubSeq(lines, 1, (k + 1) - 1) \o <<lines[k + 1]>>
    <3>1. 1 \in 1..Len(lines) /\ k + 1 \in 1..Len(lines)
      BY <2>1
    <3> QED
      BY <3>1, SubSeqRecursiveSecond
  <2>9. (k + 1) - 1 = k
    BY <2>1
  <2> QED
    BY <2>2, <2>5, <2>6, <2>7, <2>8, <2>9
<1>12. T = Nat
  <2>1. T \in SUBSET Nat
    OBVIOUS
  <2> HIDE DEF T
  <2> QED
    BY <1>10, <1>11, <2>1, Every
<1>13. J(2 * n) = SubSeq(lines, 1, n)
  BY <1>1, <1>12
<1>14. J(head) = J(2 * n) \o <<>>
  <2>1. head \in 1..head /\ head - 1 = 2 * n
    BY <1>1 DEF head
  <2>2. kept[head] = <<>>
    BY <1>3, <1>4, <1>5, <2>1
  <2> QED
    BY <1>9, <2>1, <2>2
<1>15. J(2 * n) \o <<>> = J(2 * n)
  <2>1. 2 * n \in 0..head
    BY <1>1 DEF head
  <2> QED
    BY <1>9, <2>1, ConcatEmptySeq
<1>16. SubSeq(lines, 1, n) = lines
  BY SubSeqFull
<1> QED
  BY <1>7, <1>9, <1>13, <1>14, <1>15, <1>16

-----------------------------------------------------------------------------
(* The answer to one message. *)

\* Without bytes there is nothing to say.
LEMMA AnswerOfNothing == Answer[<<>>].what = "none"
<1> DEFINE bytes == <<>>
<1>1. bytes \in Seq(Token) /\ Len(bytes) = 0
  BY EmptySeq
<1>2. HeaderEnd(bytes) = 0
  <2>1. HeaderEnd(bytes) \in 0..Len(bytes)
    BY <1>1, HeaderEndType
  <2> QED
    BY <1>1, <2>1
<1>3. ~(Len(bytes) >= MaxRequest)
  BY <1>1, SizesType
<1>4. ~(bytes # <<>>)
  OBVIOUS
<1> HIDE DEF bytes
<1>5. Answer[bytes] = Result("none", 0, bytes)
  BY <1>1, <1>2, <1>3, <1>4 DEF Answer
<1>6. Answer[bytes].what = "none"
  BY <1>5 DEF Result
<1> QED
  BY <1>6 DEF bytes

\* A frame in front that could not be drained waits for bytes, or is too large.
LEMMA AnswerToFrame ==
  ASSUME NEW m \in Frames, NEW bytes \in Seq(Token), Matches(bytes, 1, Bytes(m)), ~FrameAt(bytes, 1)
  PROVE  \/ Answer[bytes].what = "none"
         \/ Answer[bytes].what = "error" /\ ~Proper(m)
<1>1. CASE bytes = <<>>
  BY <1>1, AnswerOfNothing
<1>2. CASE bytes # <<>>
  <2>1. Len(bytes) \in Nat /\ Len(bytes) # 0
    BY <1>2, LenProperties, EmptySeq
  <2>2. bytes[1] = Dollar
    <3>1. 1 <= Len(bytes) /\ 1 \in Nat \ {0}
      BY <2>1
    <3> QED
      BY <3>1, FrameThere
  <2>3. Answer[bytes] = IF Len(bytes) >= 4 /\ FrameLength(bytes, 1) > MaxRequest
                          THEN Result("error", 0, bytes) ELSE Result("none", 0, bytes)
    BY <1>2, <2>2 DEF Answer
  <2>4. CASE Len(bytes) >= 4 /\ FrameLength(bytes, 1) > MaxRequest
    <3>1. 1 + 3 <= Len(bytes) /\ 1 \in Nat \ {0}
      BY <2>1, <2>4
    <3>2. FrameLength(bytes, 1) = Len(Bytes(m))
      BY <3>1, FrameThere
    <3>3. Len(Bytes(m)) \in Nat
      BY FrameBytesAre
    <3>4. ~(Len(Bytes(m)) <= MaxRequest)
      BY <2>4, <3>2, <3>3, SizesType
    <3>5. Answer[bytes].what = "error"
      BY <2>3, <2>4 DEF Result
    <3> QED
      BY <3>4, <3>5 DEF Proper
  <2>5. CASE ~(Len(bytes) >= 4 /\ FrameLength(bytes, 1) > MaxRequest)
    BY <2>3, <2>5 DEF Result
  <2> QED
    BY <2>4, <2>5
<1> QED
  BY <1>1, <1>2

\* A head that is not readable does not parse.
LEMMA Unreadable ==
  ASSUME NEW lines \in Seq(Line), ~Readable(lines)
  PROVE  ~Parses(lines)
<1>1. DOMAIN lines = 1..Len(lines) /\ Len(lines) \in Nat
  BY LenProperties
<1>2. PICK i \in 1..Len(lines) : lines[i][1] \in {"junk", "badlen"}
  BY <1>1 DEF Readable
<1>3. i = 1 \/ i \in 2..Len(lines)
  BY <1>1, <1>2
<1>4. lines[i][1] \notin {"start", "header", "clen"}
  BY <1>2
<1>5. lines[1][1] = "start" => i # 1
  BY <1>4
<1> QED
  BY <1>3, <1>4, <1>5 DEF Parses

\* A request in front waits for bytes, is refused because it must be, or is taken with its body.
LEMMA AnswerToRequest ==
  ASSUME NEW m \in Requests, Readable(m.lines) => Len(m.body) = BodyLength(m.lines),
         NEW bytes \in Seq(Token), Matches(bytes, 1, Bytes(m))
  PROVE  \/ Answer[bytes].what = "none"
         \/ Answer[bytes].what = "error" /\ ~Proper(m)
         \/ /\ Answer[bytes].what = "request" /\ Proper(m)
            /\ Answer[bytes].request = m.lines[1][2]
            /\ Len(Bytes(m)) <= Len(bytes)
            /\ Answer[bytes].rest = SubSeq(bytes, Len(Bytes(m)) + 1, Len(bytes))
<1> DEFINE lines == m.lines
           head == 2 * Len(lines) + 1
           size == Len(Bytes(m))
           More == Result("none", 0, bytes)
           Refused == Result("error", 0, bytes)
           end == HeaderEnd(bytes)
           total == end + BodyLength(Lines(bytes))
           Taken == Result("request", bytes[1][2], SubSeq(bytes, total + 1, Len(bytes)))
<1>1. /\ lines \in Seq(Line) /\ Len(lines) \in Nat /\ Len(m.body) \in Nat
      /\ Bytes(m) \in Seq(Token) /\ size = head + Len(m.body)
      /\ \A i \in 1..head : Bytes(m)[i] = HeadBytes(lines)[i]
      /\ Bytes(m)[1] # Dollar /\ m.kind = "request"
  BY RequestBytesAre DEF Requests
<1>2. Len(bytes) \in Nat /\ head \in Nat /\ head >= 1 /\ size \in Nat /\ size >= head
  <2>1. Len(bytes) \in Nat /\ head \in Nat /\ head >= 1
    BY <1>1, LenProperties
  <2> HIDE DEF head, size
  <2> QED
    BY <1>1, <2>1
<1>3. ASSUME NEW i \in 1..size, i <= Len(bytes)
      PROVE  bytes[i] = Bytes(m)[i]
  <2>1. 1 + i - 1 = i
    BY <1>2
  <2> QED
    BY <1>3, <2>1 DEF Matches
<1>4. Opening(bytes, lines)
  <2>1. ASSUME NEW i \in 1..head, i <= Len(bytes)
        PROVE  bytes[i] = HeadBytes(lines)[i]
    <3>1. i \in 1..size
      BY <1>2
    <3> QED
      BY <1>1, <1>3, <2>1, <3>1
  <2> QED
    BY <2>1 DEF Opening
<1>5. ~(bytes # <<>> /\ bytes[1] = Dollar)
  <2>1. CASE bytes = <<>>
    BY <2>1
  <2>2. CASE bytes # <<>>
    <3>1. Len(bytes) # 0
      BY <2>2, EmptySeq
    <3>2. 1 \in 1..size /\ 1 <= Len(bytes)
      BY <1>2, <3>1
    <3> QED
      BY <1>1, <1>3, <3>2
  <2> QED
    BY <2>1, <2>2
<1>6. /\ More.what = "none" /\ Refused.what = "error"
      /\ Taken.what = "request" /\ Taken.request = bytes[1][2]
      /\ Taken.rest = SubSeq(bytes, total + 1, Len(bytes))
  BY DEF Result
<1>7. Answer[bytes] =
        IF end = 0 THEN IF Len(bytes) >= MaxRequest THEN Refused ELSE More
        ELSE IF ~Readable(Lines(bytes)) \/ total > MaxRequest THEN Refused
        ELSE IF ~Holds(bytes, total) THEN More
        ELSE IF bytes[1] # Crlf /\ Parses(Lines(bytes)) THEN Taken
        ELSE Refused
  BY <1>5 DEF Answer
<1> HIDE DEF More, Refused, Taken, end, total
<1>8. CASE lines = <<>>
  <2>1. ~Proper(m)
    BY <1>1, <1>8 DEF Proper, Parses
  <2>2. bytes # <<>> => bytes[1] = Crlf
    <3> SUFFICES ASSUME bytes # <<>>
                 PROVE  bytes[1] = Crlf
      OBVIOUS
    <3>1. Len(bytes) # 0
      BY EmptySeq
    <3>2. Len(lines) = 0
      BY <1>8, EmptySeq
    <3>3. 1 \in 1..size /\ 1 <= Len(bytes) /\ 1 \in 1..head /\ 2 * Len(lines) + 1 = 1
      BY <1>2, <3>1, <3>2
    <3>4. bytes[1] = HeadBytes(lines)[1]
      BY <1>1, <1>3, <3>3
    <3>5. HeadBytes(lines)[1] = Crlf
      BY <1>1, <3>3, HeadBytesAre
    <3> QED
      BY <3>4, <3>5
  <2>3. bytes = <<>> => end = 0 /\ ~(Len(bytes) >= MaxRequest)
    <3> SUFFICES ASSUME bytes = <<>>
                 PROVE  end = 0 /\ ~(Len(bytes) >= MaxRequest)
      OBVIOUS
    <3>1. Len(bytes) = 0
      BY EmptySeq
    <3>2. end \in 0..Len(bytes)
      BY HeaderEndType DEF end
    <3> QED
      BY <3>1, <3>2, SizesType
  <2>4. Answer[bytes] \in {More, Refused}
    BY <1>7, <2>2, <2>3, Zenon
  <2> QED
    BY <1>6, <2>1, <2>4
<1>9. CASE lines # <<>> /\ ~(head <= Len(bytes))
  <2>1. end = 0
    BY <1>1, <1>4, <1>9, HeaderEndIs DEF end
  <2>2. CASE Len(bytes) >= MaxRequest
    <3>1. ~(size <= MaxRequest)
      BY <1>2, <1>9, <2>2, SizesType
    <3>2. ~Proper(m)
      BY <3>1 DEF Proper
    <3> QED
      BY <1>6, <1>7, <2>1, <2>2, <3>2
  <2>3. CASE ~(Len(bytes) >= MaxRequest)
    BY <1>6, <1>7, <2>1, <2>3
  <2> QED
    BY <2>2, <2>3
<1>10. CASE lines # <<>> /\ head <= Len(bytes)
  <2>1. end = head /\ end # 0 /\ Lines(bytes) = lines
    <3>1. end = head /\ Lines(bytes) = lines
      BY <1>1, <1>4, <1>10, HeaderEndIs, LinesAre DEF end
    <3> QED
      BY <1>2, <3>1
  <2>2. Readable(lines) => total = size
    BY <1>1, <2>1 DEF total
  <2>3. bytes[1] = lines[1] /\ lines[1] \in Line /\ bytes[1] # Crlf
    <3>1. Len(lines) # 0
      BY <1>1, <1>10, EmptySeq
    <3>6. 1 \in 1..Len(lines) /\ 2 * 1 - 1 = 1
      BY <1>1, <3>1
    <3>7. 1 \in 1..size /\ 1 <= Len(bytes) /\ 1 \in 1..head
      <4> HIDE DEF size, head
      <4> QED
        BY <1>2, <1>10
    <3>2. 1 \in 1..Len(lines) /\ 1 \in 1..size /\ 1 <= Len(bytes) /\ 1 \in 1..head /\ 2 * 1 - 1 = 1
      BY <3>6, <3>7
    <3>3. bytes[1] = HeadBytes(lines)[1]
      BY <1>1, <1>3, <3>2
    <3>4. HeadBytes(lines)[2 * 1 - 1] = lines[1]
      BY <1>1, <3>2, HeadBytesAre
    <3>5. lines[1] \in Line
      BY <1>1, <3>2, ElementOfSeq
    <3> QED
      BY <3>2, <3>3, <3>4, <3>5, LineType
  <2>7. CASE ~Readable(lines)
    <3>1. ~Proper(m)
      BY <1>1, <2>7, Unreadable DEF Proper
    <3> QED
      BY <1>6, <1>7, <2>1, <2>7, <3>1
  <2>4. CASE Readable(lines) /\ size > MaxRequest
    <3>1. ~(size <= MaxRequest)
      BY <1>2, <2>4, SizesType
    <3>2. ~Proper(m)
      BY <3>1 DEF Proper
    <3> QED
      BY <1>6, <1>7, <2>1, <2>2, <2>4, <3>2
  <2>5. CASE Readable(lines) /\ ~(size > MaxRequest) /\ ~Holds(bytes, size)
    BY <1>6, <1>7, <2>1, <2>2, <2>5
  <2>6. CASE Readable(lines) /\ ~(size > MaxRequest) /\ Holds(bytes, size)
    <3>1. size <= MaxRequest /\ size <= Len(bytes)
      BY <1>2, <2>6, SizesType DEF Holds
    <3>2. CASE Parses(lines)
      <4>1. Proper(m)
        BY <3>1, <3>2 DEF Proper
      <4>2. Answer[bytes] = Taken
        BY <1>7, <2>1, <2>2, <2>3, <2>6, <3>2
      <4>3. Answer[bytes].what = "request" /\ Answer[bytes].request = lines[1][2]
        BY <1>6, <2>3, <4>2
      <4>4. Answer[bytes].rest = SubSeq(bytes, size + 1, Len(bytes))
        BY <1>6, <2>2, <2>6, <4>2
      <4> QED
        BY <3>1, <4>1, <4>3, <4>4
    <3>3. CASE ~Parses(lines)
      <4>1. ~Proper(m)
        BY <1>1, <3>3 DEF Proper
      <4>2. Answer[bytes] = Refused
        BY <1>7, <2>1, <2>2, <2>6, <3>3
      <4> QED
        BY <1>6, <4>1, <4>2
    <3> QED
      BY <3>2, <3>3
  <2> QED
    BY <2>4, <2>5, <2>6, <2>7
<1> QED
  BY <1>8, <1>9, <1>10

-----------------------------------------------------------------------------
(* The bytes of all messages. *)

\* The bytes of every message.
SentBytes == [i \in DOMAIN script |-> Bytes(script[i])]

\* The bytes that come before message k + 1.
Offset(k) == Len(Joined(SentBytes, k))

\* The bytes from there to the a-th.
Stretch(k, a) == SubSeq(ClientBytes, Offset(k) + 1, a)

\* The bytes of a client are those of its messages, one after the other.
LEMMA ScriptIs ==
  ASSUME script \in Scripts
  PROVE  /\ script \in Seq(ClientMessage) /\ Len(script) \in Nat /\ DOMAIN script = 1..Len(script)
         /\ SentBytes \in Seq(Seq(Token)) /\ Len(SentBytes) = Len(script)
         /\ ClientBytes = FlattenSeq(SentBytes)
         /\ ClientBytes \in Seq(Token) /\ Len(ClientBytes) \in Nat
         /\ \A k \in 1..Len(script) : script[k] \in ClientMessage /\ SentBytes[k] = Bytes(script[k])
<1>1. script \in Seq(ClientMessage) /\ Len(script) \in Nat /\ DOMAIN script = 1..Len(script)
  BY ScriptsAssumption, LenProperties
<1>2. \A k \in 1..Len(script) : script[k] \in ClientMessage /\ SentBytes[k] = Bytes(script[k])
  BY <1>1, ElementOfSeq DEF SentBytes
<1>3. \A k \in 1..Len(script) : SentBytes[k] \in Seq(Token)
  BY <1>2, BytesType
<1>4. DOMAIN SentBytes = 1..Len(script) /\ SentBytes = [k \in 1..Len(script) |-> SentBytes[k]]
  BY <1>1 DEF SentBytes
<1>5. SentBytes \in Seq(Seq(Token)) /\ Len(SentBytes) = Len(script)
  BY <1>1, <1>3, <1>4, Listed
<1>6. ClientBytes = FlattenSeq(SentBytes)
  BY DEF ClientBytes, SentBytes
<1> QED
  BY <1>1, <1>2, <1>5, <1>6, ClientBytesType, LenProperties

\* Where each message lies in them.
LEMMA Offsets ==
  ASSUME script \in Scripts
  PROVE  /\ Offset(0) = 0 /\ Offset(Len(script)) = Len(ClientBytes)
         /\ \A k \in 0..Len(script) : Offset(k) \in 0..Len(ClientBytes)
         /\ \A k \in 1..Len(script) :
              LET m == Bytes(script[k])
              IN  /\ Len(m) \in Nat /\ Offset(k) = Offset(k - 1) + Len(m)
                  /\ \A j \in 1..Len(m) : ClientBytes[Offset(k - 1) + j] = m[j]
<1>1. /\ SentBytes \in Seq(Seq(Token)) /\ Len(SentBytes) = Len(script) /\ Len(script) \in Nat
      /\ ClientBytes = FlattenSeq(SentBytes) /\ Len(ClientBytes) \in Nat
      /\ \A k \in 1..Len(script) : SentBytes[k] = Bytes(script[k])
  BY ScriptIs
<1>2. /\ Joined(SentBytes, 0) = <<>> /\ Joined(SentBytes, Len(SentBytes)) = FlattenSeq(SentBytes)
      /\ \A k \in 0..Len(SentBytes) : Joined(SentBytes, k) \in Seq(Token)
  BY <1>1, JoinedSteps
<1>3. Offset(0) = 0
  <2>1. Len(<<>>) = 0
    OBVIOUS
  <2> QED
    BY <1>2, <2>1 DEF Offset
<1>4. Offset(Len(script)) = Len(ClientBytes)
  BY <1>1, <1>2 DEF Offset
<1>5. ASSUME NEW k \in 0..Len(script)
      PROVE  Offset(k) \in 0..Len(ClientBytes)
  <2>1. Offset(k) \in Nat
    BY <1>1, <1>2, LenProperties DEF Offset
  <2>2. Len(script) \in k..Len(script)
    BY <1>1
  <2>3. Offset(k) <= Offset(Len(script))
    BY <1>1, <2>2, JoinedPrefix DEF Offset
  <2> QED
    BY <1>1, <1>4, <2>1, <2>3
<1>6. ASSUME NEW k \in 1..Len(script)
      PROVE  LET m == Bytes(script[k])
             IN  /\ Len(m) \in Nat /\ Offset(k) = Offset(k - 1) + Len(m)
                 /\ \A j \in 1..Len(m) : ClientBytes[Offset(k - 1) + j] = m[j]
  <2>0. k \in 1..Len(SentBytes) /\ SentBytes[k] = Bytes(script[k])
    BY <1>1
  <2>1. /\ Len(SentBytes[k]) \in Nat
        /\ Len(Joined(SentBytes, k)) = Len(Joined(SentBytes, k - 1)) + Len(SentBytes[k])
    BY <1>1, <2>0, JoinedAt
  <2>2. \A j \in 1..Len(SentBytes[k]) :
          FlattenSeq(SentBytes)[Len(Joined(SentBytes, k - 1)) + j] = SentBytes[k][j]
    BY <1>1, <2>0, JoinedAt
  <2> HIDE DEF Joined
  <2> QED
    BY <1>1, <2>0, <2>1, <2>2, Zenon DEF Offset
<1> QED
  BY <1>3, <1>4, <1>5, <1>6

\* The bytes from one message up to any byte.
LEMMA StretchIs ==
  ASSUME script \in Scripts, NEW k \in 0..Len(script), NEW a \in 0..Len(ClientBytes), Offset(k) <= a
  PROVE  /\ Stretch(k, a) \in Seq(Token) /\ Len(Stretch(k, a)) = a - Offset(k)
         /\ \A i \in 1..a - Offset(k) : Stretch(k, a)[i] = ClientBytes[Offset(k) + i]
<1>1. ClientBytes \in Seq(Token) /\ Len(ClientBytes) \in Nat
  BY ScriptIs
<1>2. Offset(k) \in 0..Len(ClientBytes)
  BY Offsets
<1>3. Offset(k) + 1 \in Nat \ {0} /\ a \in Int /\ a <= Len(ClientBytes)
  BY <1>1, <1>2
<1>4. /\ Stretch(k, a) \in Seq(Token)
      /\ Len(Stretch(k, a)) = IF Offset(k) + 1 <= a THEN a - (Offset(k) + 1) + 1 ELSE 0
      /\ \A i \in 1..a - (Offset(k) + 1) + 1 : Stretch(k, a)[i] = ClientBytes[Offset(k) + 1 + i - 1]
  BY <1>1, <1>3, PartType DEF Stretch
<1>5. \A o \in Nat : a - (o + 1) + 1 = a - o /\ (o <= a /\ ~(o + 1 <= a) => a - o = 0)
        /\ \A i \in Nat : o + 1 + i - 1 = o + i
  OBVIOUS
<1>6. Offset(k) \in Nat
  BY <1>2
<1>7. Len(Stretch(k, a)) = a - Offset(k)
  <2>1. \A o, l \in Int : o <= a /\ (l = IF o + 1 <= a THEN a - (o + 1) + 1 ELSE 0) => l = a - o
    BY <1>3
  <2>2. Len(Stretch(k, a)) \in Int /\ Offset(k) \in Int
    BY <1>4, <1>6, LenProperties
  <2> QED
    BY <1>4, <2>1, <2>2
<1>8. ASSUME NEW i \in 1..a - Offset(k)
      PROVE  Stretch(k, a)[i] = ClientBytes[Offset(k) + i]
  <2>1. \A o \in Nat : i \in 1..a - o => i \in 1..a - (o + 1) + 1 /\ o + 1 + i - 1 = o + i
    BY <1>3
  <2> QED
    BY <1>4, <1>6, <2>1
<1> QED
  BY <1>4, <1>7, <1>8

\* The messages that follow are found in them at their offsets.
LEMMA StretchMatches ==
  ASSUME script \in Scripts, NEW k \in 0..Len(script), NEW a \in 0..Len(ClientBytes), Offset(k) <= a,
         NEW j \in 1..Len(script), NEW p \in Nat \ {0}, Offset(k) + p - 1 = Offset(j - 1)
  PROVE  Matches(Stretch(k, a), p, Bytes(script[j]))
<1> DEFINE m == Bytes(script[j])
           s == Stretch(k, a)
<1>1. Len(m) \in Nat /\ \A i \in 1..Len(m) : ClientBytes[Offset(j - 1) + i] = m[i]
  BY Offsets
<1>2. Offset(k) \in Nat /\ a \in Nat
  <2>1. Offset(k) \in 0..Len(ClientBytes) /\ Len(ClientBytes) \in Nat
    BY Offsets, ScriptIs
  <2> QED
    BY <2>1
<1>3. Len(s) = a - Offset(k) /\ \A i \in 1..a - Offset(k) : s[i] = ClientBytes[Offset(k) + i]
  BY StretchIs
<1> HIDE DEF m, s
<1>4. ASSUME NEW i \in 1..Len(m), p + i - 1 <= Len(s)
      PROVE  s[p + i - 1] = m[i]
  <2>1. p + i - 1 \in 1..a - Offset(k)
    <3>1. p \in Nat \ {0} /\ i \in Nat \ {0}
      BY <1>1
    <3> QED
      BY <1>2, <1>3, <1>4, <3>1
  <2>2. s[p + i - 1] = ClientBytes[Offset(k) + (p + i - 1)]
    BY <1>3, <2>1
  <2>3. Offset(k) + (p + i - 1) = Offset(j - 1) + i
    <3>1. \A o, q, r, t \in Int : o + r - 1 = q => o + (r + t - 1) = q + t
      OBVIOUS
    <3>2. Offset(j - 1) \in Int /\ i \in Int
      BY <1>1, <1>2
    <3> QED
      BY <1>2, <3>1, <3>2
  <2> QED
    BY <1>1, <2>2, <2>3
<1> QED
  BY <1>4 DEF Matches, m, s

\* Dropping whole messages leaves the bytes from a later one on.
LEMMA StretchRest ==
  ASSUME script \in Scripts, NEW k \in 0..Len(script), NEW a \in 0..Len(ClientBytes), Offset(k) <= a,
         NEW j \in 0..Len(script), NEW p \in Nat \ {0}, Offset(k) + p - 1 = Offset(j), Offset(j) <= a
  PROVE  SubSeq(Stretch(k, a), p, Len(Stretch(k, a))) = Stretch(j, a)
<1> DEFINE s == Stretch(k, a)
           t == SubSeq(s, p, Len(s))
           u == Stretch(j, a)
<1>1. Offset(k) \in Nat /\ Offset(j) \in Nat /\ a \in Nat
  <2>1. Offset(k) \in 0..Len(ClientBytes) /\ Offset(j) \in 0..Len(ClientBytes) /\ Len(ClientBytes) \in Nat
    BY Offsets, ScriptIs
  <2> QED
    BY <2>1
<1>2. /\ s \in Seq(Token) /\ Len(s) = a - Offset(k)
      /\ \A i \in 1..a - Offset(k) : s[i] = ClientBytes[Offset(k) + i]
  BY StretchIs
<1>3. /\ u \in Seq(Token) /\ Len(u) = a - Offset(j)
      /\ \A i \in 1..a - Offset(j) : u[i] = ClientBytes[Offset(j) + i]
  BY StretchIs
<1> HIDE DEF s, u
<1>4. Len(s) \in Int /\ Len(s) <= Len(s)
  BY <1>1, <1>2
<1>5. /\ t \in Seq(Token) /\ Len(t) = IF p <= Len(s) THEN Len(s) - p + 1 ELSE 0
      /\ \A i \in 1..Len(s) - p + 1 : t[i] = s[p + i - 1]
  BY <1>2, <1>4, PartType
<1> HIDE DEF t
<1>6. Len(s) - p + 1 = a - Offset(j) /\ (~(p <= Len(s)) => a - Offset(j) = 0)
  <2>1. \A o, q \in Nat : o + p - 1 = q /\ q <= a =>
          a - o - p + 1 = a - q /\ (~(p <= a - o) => a - q = 0)
    BY <1>1
  <2> QED
    BY <1>1, <1>2, <2>1
<1>7. Len(t) = Len(u)
  BY <1>3, <1>5, <1>6
<1>8. ASSUME NEW i \in 1..Len(t)
      PROVE  t[i] = u[i]
  <2>1. i \in 1..a - Offset(j) /\ i \in 1..Len(s) - p + 1
    BY <1>3, <1>6, <1>7, <1>8
  <2>2. t[i] = s[p + i - 1] /\ u[i] = ClientBytes[Offset(j) + i]
    BY <1>3, <1>5, <2>1
  <2>3. \A o, q \in Nat : o + p - 1 = q /\ i \in 1..a - q =>
          p + i - 1 \in 1..a - o /\ o + (p + i - 1) = q + i
    BY <1>1
  <2>4. p + i - 1 \in 1..a - Offset(k) /\ Offset(k) + (p + i - 1) = Offset(j) + i
    BY <1>1, <2>1, <2>3
  <2> QED
    BY <1>2, <2>2, <2>4
<1>9. t = u
  BY <1>3, <1>5, <1>7, <1>8, SeqEqual
<1> QED
  BY <1>9 DEF t, u, s

-----------------------------------------------------------------------------
(* Draining frames. *)

\* The messages from k + 1 to j are frames that are not too large.
Drainable(k, j) == \A i \in k + 1..j : script[i].kind = "frame" /\ Proper(script[i])

\* A message is a frame or a request.
LEMMA KindIs ==
  ASSUME NEW m \in ClientMessage
  PROVE  \/ m \in Frames /\ m.kind = "frame"
         \/ m \in Requests /\ m.kind = "request" /\ (Readable(m.lines) => Len(m.body) = BodyLength(m.lines))
BY DEF ClientMessage, Frames, Requests, BodyLength

\* A frame that is drained is a whole message of the client.
LEMMA DrainStep ==
  ASSUME script \in Scripts, NEW k \in 0..Len(script), NEW a \in 0..Len(ClientBytes), Offset(k) <= a,
         NEW j \in k..Len(script), NEW p \in 1..Len(Stretch(k, a)) + 1, Offset(k) + p - 1 = Offset(j),
         FrameAt(Stretch(k, a), p), Drainable(k, j)
  PROVE  /\ j + 1 \in k..Len(script) /\ Drainable(k, j + 1)
         /\ p + FrameLength(Stretch(k, a), p) \in 1..Len(Stretch(k, a)) + 1
         /\ p < p + FrameLength(Stretch(k, a), p)
         /\ Offset(k) + (p + FrameLength(Stretch(k, a), p)) - 1 = Offset(j + 1)
<1> DEFINE s == Stretch(k, a)
           size == FrameLength(s, p)
<1>1. Len(script) \in Nat /\ Len(ClientBytes) \in Nat /\ a \in Nat /\ k \in Nat /\ j \in Nat
  BY ScriptIs
<1>2. /\ s \in Seq(Token) /\ Len(s) = a - Offset(k) /\ Len(s) \in Nat
  BY StretchIs, LenProperties
<1>3. Offset(k) \in 0..Len(ClientBytes) /\ Offset(j) \in 0..Len(ClientBytes)
  BY <1>1, Offsets
<1> HIDE DEF s
<1>4. /\ p + 3 <= Len(s) /\ s[p] = Dollar /\ size <= MaxRequest /\ p - 1 + size <= Len(s)
      /\ p \in 1..Len(s)
  <2>1. p + 3 <= Len(s) /\ s[p] = Dollar /\ size <= MaxRequest /\ Len(s) >= p - 1 + size
    BY DEF FrameAt, Holds, s
  <2>2. p \in 1..Len(s)
    BY <1>2, <2>1 DEF s
  <2>3. size \in Nat
    BY <1>2, <2>1, <2>2, FrameLengthType
  <2> QED
    BY <1>2, <2>1, <2>2, <2>3
<1>5. j + 1 \in 1..Len(script)
  <2>1. j # Len(script)
    <3>1. ASSUME Offset(j) = Len(ClientBytes)
          PROVE  FALSE
      BY <1>1, <1>2, <1>3, <1>4, <3>1
    <3> QED
      BY <3>1, Offsets
  <2> QED
    BY <1>1, <2>1
<1> DEFINE m == script[j + 1]
<1>6. m \in ClientMessage
  BY <1>5, ScriptIs
<1>7. Matches(s, p, Bytes(m))
  <2>1. (j + 1) - 1 = j /\ p \in Nat \ {0}
    BY <1>1, <1>4
  <2> QED
    BY <1>5, <2>1, StretchMatches DEF s
<1>8. m \in Frames /\ m.kind = "frame"
  <2>1. ASSUME m \in Requests
        PROVE  FALSE
    <3>1. Bytes(m)[1] # Dollar /\ 1 \in 1..Len(Bytes(m))
      <4>1. Bytes(m)[1] # Dollar
        BY <2>1, RequestBytesAre
      <4>2. /\ Len(m.lines) \in Nat /\ Len(m.body) \in Nat
            /\ Len(Bytes(m)) = 2 * Len(m.lines) + 1 + Len(m.body)
        BY <2>1, RequestBytesAre
      <4>3. \A l, b \in Nat : 1 \in 1..2 * l + 1 + b
        OBVIOUS
      <4> HIDE DEF m
      <4> QED
        BY <4>1, <4>2, <4>3
    <3>2. p + 1 - 1 = p /\ p <= Len(s)
      BY <1>2, <1>4
    <3>3. s[p] = Bytes(m)[1]
      BY <1>7, <3>1, <3>2 DEF Matches
    <3> QED
      BY <1>4, <3>1, <3>3
  <2> QED
    BY <1>6, <2>1, KindIs
<1>9. size = Len(Bytes(m)) /\ size \in Nat /\ size >= 4
  <2>1. p \in Nat \ {0} /\ p + 3 <= Len(s)
    BY <1>4
  <2>2. size = Len(Bytes(m))
    BY <1>2, <1>7, <1>8, <2>1, FrameThere
  <2> QED
    BY <1>8, <2>2, FrameBytesAre
<1> HIDE DEF size
<1>10. Offset(j + 1) = Offset(j) + size
  <2>1. Offset(j + 1) = Offset((j + 1) - 1) + Len(Bytes(m))
    BY <1>5, Offsets
  <2>2. (j + 1) - 1 = j
    BY <1>1
  <2> QED
    BY <1>9, <2>1, <2>2
<1>11. Drainable(k, j + 1)
  <2>1. m.kind = "frame" /\ Proper(m)
    BY <1>4, <1>8, <1>9 DEF Proper
  <2>2. \A i \in k + 1..j + 1 : i \in k + 1..j \/ i = j + 1
    BY <1>1
  <2> QED
    BY <2>1, <2>2 DEF Drainable
<1>12. j + 1 \in k..Len(script)
  BY <1>1, <1>5
<1>13. p + size \in 1..Len(s) + 1 /\ p < p + size
  BY <1>2, <1>4, <1>9
<1>14. Offset(k) + (p + size) - 1 = Offset(j + 1)
  <2>1. \A o, q, r \in Int : o + p - 1 = q => o + (p + r) - 1 = q + r
    BY <1>4
  <2>2. Offset(k) \in Int /\ Offset(j) \in Int /\ size \in Int
    BY <1>1, <1>3, <1>9
  <2> QED
    BY <1>10, <2>1, <2>2
<1> QED
  BY <1>11, <1>12, <1>13, <1>14 DEF s, size

\* So the loop stops at the beginning of a message, with frames behind it.
LEMMA Drains ==
  ASSUME script \in Scripts, NEW k \in 0..Len(script), NEW a \in 0..Len(ClientBytes), Offset(k) <= a
  PROVE  \E j \in k..Len(script) :
           Offset(k) + AfterFrames(Stretch(k, a)) - 1 = Offset(j) /\ Drainable(k, j)
<1> DEFINE s == Stretch(k, a)
           n == Len(s) + 1
           Reaches(q) == \E j \in k..Len(script) : Offset(k) + q - 1 = Offset(j) /\ Drainable(k, j)
<1>1. s \in Seq(Token) /\ Len(s) \in Nat /\ n \in Nat /\ 1 \in 1..n
  BY StretchIs, LenProperties
<1>2. PICK after \in [1..n -> Drained(s)] :
        /\ AfterFrames(s) = after[1]
        /\ \A i \in 1..n : after[i] = IF FrameAt(s, i) THEN after[i + FrameLength(s, i)] ELSE i
  BY <1>1, AfterFramesIs
<1> DEFINE T == {d \in Nat : \A p \in 1..n : n - p < d /\ Reaches(p) => Reaches(after[p])}
<1>3. ASSUME NEW p \in 1..n, FrameAt(s, p), Reaches(p)
      PROVE  /\ p + FrameLength(s, p) \in 1..n /\ p < p + FrameLength(s, p)
             /\ Reaches(p + FrameLength(s, p))
  <2>1. PICK j \in k..Len(script) : Offset(k) + p - 1 = Offset(j) /\ Drainable(k, j)
    BY <1>3
  <2> QED
    BY <1>3, <2>1, DrainStep
<1> HIDE DEF Reaches, s
<1>4. 0 \in T
  BY <1>1
<1>5. ASSUME NEW d \in T
      PROVE  d + 1 \in T
  <2> SUFFICES ASSUME NEW p \in 1..n, n - p < d + 1, Reaches(p)
               PROVE  Reaches(after[p])
    BY DEF T
  <2>1. CASE FrameAt(s, p)
    <3>1. /\ p + FrameLength(s, p) \in 1..n /\ p < p + FrameLength(s, p)
          /\ Reaches(p + FrameLength(s, p))
      BY <1>3, <2>1
    <3>2. \A q \in 1..n : p < q => n - q < d
      BY <1>1
    <3>3. Reaches(after[p + FrameLength(s, p)])
      BY <3>1, <3>2
    <3> QED
      BY <1>2, <2>1, <3>3
  <2>2. CASE ~FrameAt(s, p)
    BY <1>2, <2>2
  <2> QED
    BY <2>1, <2>2
<1>6. T = Nat
  <2> HIDE DEF T
  <2>1. T \in SUBSET Nat
    BY DEF T
  <2> QED
    BY <1>4, <1>5, <2>1, Every
<1>7. Reaches(1)
  <2>1. k \in k..Len(script) /\ \A i \in k + 1..k : FALSE
    BY ScriptIs
  <2>2. Offset(k) + 1 - 1 = Offset(k)
    <3>1. Offset(k) \in 0..Len(ClientBytes)
      BY Offsets
    <3> QED
      BY <3>1
  <2> QED
    BY <2>1, <2>2 DEF Reaches, Drainable
<1>8. Reaches(after[1])
  <2>1. n - 1 < n
    BY <1>1
  <2> QED
    BY <1>1, <1>6, <1>7, <2>1
<1> QED
  BY <1>2, <1>8 DEF Reaches, s

-----------------------------------------------------------------------------
(* The calls. *)

\* The number of messages in front of the first that must be refused.
Sound == Len(Understood)

\* The messages in front of the first one that must be refused are those to be served.
LEMMA SoundIs ==
  ASSUME script \in Scripts
  PROVE  /\ Sound \in 0..Len(script)
         /\ DOMAIN Understood = 1..Sound
         /\ \A i \in 1..Sound : Understood[i] = script[i] /\ Proper(script[i])
         /\ Sound < Len(script) => Understood # script /\ ~Proper(script[Sound + 1])
<1> DEFINE bad == {i \in DOMAIN script : ~Proper(script[i])}
<1>1. script \in Seq(ClientMessage) /\ Len(script) \in Nat /\ DOMAIN script = 1..Len(script)
  BY ScriptIs
<1>2. Understood = IF bad = {} THEN script ELSE SubSeq(script, 1, Min(bad) - 1)
  BY DEF Understood
<1>3. CASE bad = {}
  <2>1. Understood = script /\ \A i \in 1..Len(script) : Proper(script[i])
    BY <1>1, <1>2, <1>3
  <2> QED
    BY <1>1, <2>1 DEF Sound
<1>4. CASE bad # {}
  <2> DEFINE m == Min(bad)
  <2>1. m \in bad /\ \A y \in bad : m <= y
    <3>1. bad \in SUBSET Nat
      BY <1>1
    <3> QED
      BY <1>4, <3>1, MinIs
  <2>2. m \in 1..Len(script) /\ ~Proper(script[m])
    BY <1>1, <2>1
  <2>3. ASSUME NEW i \in 1..m - 1
        PROVE  Proper(script[i])
    <3>1. i \in 1..Len(script) /\ ~(m <= i)
      BY <1>1, <2>2
    <3>2. i \notin bad
      BY <2>1, <3>1
    <3> QED
      BY <1>1, <3>1, <3>2
  <2> HIDE DEF bad, m
  <2>4. m - 1 \in 0..Len(script) /\ (m - 1) + 1 = m /\ m - 1 < Len(script)
    BY <1>1, <2>2
  <2>5. Understood = SubSeq(script, 1, m - 1)
    BY <1>2, <1>4 DEF m
  <2>6. /\ Understood \in Seq(ClientMessage) /\ Len(Understood) = m - 1
        /\ \A i \in 1..m - 1 : Understood[i] = script[i]
    BY <1>1, <2>4, <2>5, FirstOnes
  <2>7. DOMAIN Understood = 1..Sound /\ Sound = m - 1
    BY <2>6, LenProperties DEF Sound
  <2>8. Understood # script
    BY <1>1, <2>4, <2>7 DEF Sound
  <2> QED
    BY <2>2, <2>3, <2>4, <2>6, <2>7, <2>8
<1> QED
  BY <1>3, <1>4

\* What a request hands to the loop.
Calls == [i \in DOMAIN script |->
            IF script[i].kind = "request" THEN <<script[i].lines[1][2]>> ELSE <<>>]

\* What tells the requests apart.
Names == {script[i].lines[1][2] : i \in DOMAIN script}

\* What the first k messages hand to it.
Served(k) == Joined(Calls, k)

\* What the messages hand to the loop is typed.
LEMMA CallsAre ==
  ASSUME script \in Scripts
  PROVE  /\ Calls \in Seq(Seq(Names)) /\ Len(Calls) = Len(script)
         /\ \A i \in 1..Len(script) :
              Calls[i] = IF script[i].kind = "request" THEN <<script[i].lines[1][2]>> ELSE <<>>
<1>1. Len(script) \in Nat /\ DOMAIN script = 1..Len(script)
  BY ScriptIs
<1>2. \A i \in 1..Len(script) :
        Calls[i] = IF script[i].kind = "request" THEN <<script[i].lines[1][2]>> ELSE <<>>
  BY <1>1 DEF Calls
<1>3. ASSUME NEW i \in 1..Len(script)
      PROVE  Calls[i] \in Seq(Names)
  <2>1. script[i].lines[1][2] \in Names
    BY <1>1 DEF Names
  <2>2. <<script[i].lines[1][2]>> \in Seq(Names) /\ <<>> \in Seq(Names)
    BY <2>1, EmptySeq
  <2> QED
    BY <1>2, <2>2
<1>4. DOMAIN Calls = 1..Len(script) /\ Calls = [i \in 1..Len(script) |-> Calls[i]]
  BY <1>1 DEF Calls
<1> QED
  BY <1>1, <1>2, <1>3, <1>4, Listed

\* What is wanted is what those messages hand to it.
LEMMA WantedIs ==
  ASSUME script \in Scripts
  PROVE  Wanted = Served(Sound) /\ Wanted \in Seq(Names)
<1> DEFINE calls == [i \in DOMAIN Understood |->
                       IF Understood[i].kind = "request" THEN <<Understood[i].lines[1][2]>> ELSE <<>>]
           first == SubSeq(Calls, 1, Sound)
<1>1. /\ Sound \in 0..Len(script) /\ DOMAIN Understood = 1..Sound
      /\ \A i \in 1..Sound : Understood[i] = script[i]
  BY SoundIs
<1>2. /\ Calls \in Seq(Seq(Names)) /\ Len(Calls) = Len(script) /\ Len(script) \in Nat
      /\ \A i \in 1..Len(script) :
           Calls[i] = IF script[i].kind = "request" THEN <<script[i].lines[1][2]>> ELSE <<>>
  BY CallsAre, ScriptIs
<1>3. /\ first \in Seq(Seq(Names)) /\ Len(first) = Sound /\ DOMAIN first = 1..Sound
      /\ \A i \in 1..Sound : first[i] = Calls[i]
  BY <1>1, <1>2, FirstOnes, LenProperties
<1>4. DOMAIN calls = 1..Sound /\ calls = [i \in 1..Sound |-> calls[i]]
  BY <1>1
<1>5. ASSUME NEW i \in 1..Sound
      PROVE  calls[i] = Calls[i]
  <2>1. i \in 1..Len(script)
    BY <1>1, <1>2
  <2> QED
    BY <1>1, <1>2, <2>1
<1>6. Wanted = FlattenSeq(calls)
  BY DEF Wanted
<1>7. Sound \in Nat
  BY <1>1, <1>2
<1> HIDE DEF calls, first
<1>8. calls \in Seq(Seq(Names)) /\ Len(calls) = Sound
  <2>1. \A i \in 1..Sound : calls[i] \in Seq(Names)
    BY <1>3, <1>5, <1>7, ElementOfSeq
  <2> QED
    BY <1>4, <1>7, <2>1, Listed
<1>9. calls = first
  BY <1>3, <1>5, <1>8, SeqEqual
<1>10. Wanted = Served(Sound)
  BY <1>6, <1>9 DEF Served, Joined, first
<1> QED
  BY <1>1, <1>2, <1>10, JoinedSteps DEF Served

\* A request is one more call, a frame none.
LEMMA Serves ==
  ASSUME script \in Scripts
  PROVE  /\ Served(0) = <<>>
         /\ \A k \in 0..Len(script) : Served(k) \in Seq(Names)
         /\ \A k \in 1..Len(script) :
              /\ script[k].kind = "frame" => Served(k) = Served(k - 1)
              /\ script[k].kind = "request" =>
                   Served(k) = Append(Served(k - 1), script[k].lines[1][2])
<1>1. /\ Calls \in Seq(Seq(Names)) /\ Len(Calls) = Len(script) /\ Len(script) \in Nat
      /\ \A i \in 1..Len(script) :
           Calls[i] = IF script[i].kind = "request" THEN <<script[i].lines[1][2]>> ELSE <<>>
  BY CallsAre, ScriptIs
<1>2. /\ Joined(Calls, 0) = <<>>
      /\ \A k \in 0..Len(Calls) : Joined(Calls, k) \in Seq(Names)
      /\ \A k \in 1..Len(Calls) : Joined(Calls, k) = Joined(Calls, k - 1) \o Calls[k]
  BY <1>1, JoinedSteps
<1>3. ASSUME NEW k \in 1..Len(script)
      PROVE  /\ script[k].kind = "frame" => Served(k) = Served(k - 1)
             /\ script[k].kind = "request" =>
                  Served(k) = Append(Served(k - 1), script[k].lines[1][2])
  <2>1. k - 1 \in 0..Len(script)
    BY <1>1
  <2>2. Served(k) = Served(k - 1) \o Calls[k] /\ Served(k - 1) \in Seq(Names)
    BY <1>1, <1>2, <2>1 DEF Served
  <2>3. ASSUME script[k].kind = "frame"
        PROVE  Served(k) = Served(k - 1)
    <3>1. Calls[k] = <<>>
      BY <1>1, <2>3
    <3> QED
      BY <2>2, <3>1, ConcatEmptySeq
  <2>4. ASSUME script[k].kind = "request"
        PROVE  Served(k) = Append(Served(k - 1), script[k].lines[1][2])
    <3> DEFINE name == script[k].lines[1][2]
    <3>1. Calls[k] = <<name>>
      BY <1>1, <2>4
    <3>2. name \in Names
      BY ScriptIs DEF Names
    <3> HIDE DEF name
    <3>3. Served(k - 1) \o <<name>> = Append(Served(k - 1), name)
      BY <2>2, <3>2, AppendIsConcat
    <3> QED
      BY <2>2, <3>1, <3>3 DEF name
  <2> QED
    BY <2>3, <2>4
<1> QED
  BY <1>1, <1>2, <1>3 DEF Served

\* Frames in a row hand nothing to the loop.
LEMMA FramesServeNothing ==
  ASSUME script \in Scripts, NEW k \in 0..Len(script), NEW j \in k..Len(script), Drainable(k, j)
  PROVE  Served(j) = Served(k)
<1> DEFINE T == {d \in Nat : k + d <= j => Served(k + d) = Served(k)}
<1>1. k \in Nat /\ j \in Nat /\ k <= j /\ Len(script) \in Nat /\ j <= Len(script)
  BY ScriptIs
<1>2. 0 \in T
  <2>1. k + 0 = k
    BY <1>1
  <2> QED
    BY <2>1
<1>3. ASSUME NEW d \in T
      PROVE  d + 1 \in T
  <2> SUFFICES ASSUME k + (d + 1) <= j
               PROVE  Served(k + (d + 1)) = Served(k)
    BY DEF T
  <2>1. Served(k + d) = Served(k)
    BY <1>1
  <2>2. k + (d + 1) \in k + 1..j /\ k + (d + 1) \in 1..Len(script) /\ k + (d + 1) - 1 = k + d
    BY <1>1
  <2>3. script[k + (d + 1)].kind = "frame"
    BY <2>2 DEF Drainable
  <2>4. Served(k + (d + 1)) = Served(k + (d + 1) - 1)
    BY <2>2, <2>3, Serves
  <2> QED
    BY <2>1, <2>2, <2>4
<1>4. T = Nat
  <2> HIDE DEF T
  <2>1. T \in SUBSET Nat
    BY DEF T
  <2> QED
    BY <1>2, <1>3, <2>1, Every
<1>5. j - k \in Nat /\ k + (j - k) = j /\ j <= j
  BY <1>1
<1>6. j - k \in T
  BY <1>4, <1>5
<1>7. k + (j - k) <= j => Served(k + (j - k)) = Served(k)
  BY <1>6
<1> QED
  BY <1>5, <1>7

-----------------------------------------------------------------------------
(* Decoding. *)

\* What a call of take_request says of the bytes from message k + 1 to the a-th byte.
Decodes(result, k, a) ==
  \E j \in k..Sound :
    /\ Offset(j) <= a
    /\ \/ /\ result.what = "none"
          /\ Served(j) = Served(k) /\ result.rest = Stretch(j, a)
       \/ /\ result.what = "request"
          /\ Served(j) = Append(Served(k), result.request) /\ result.rest = Stretch(j, a)
       \/ /\ result.what = "error"
          /\ Served(j) = Served(k) /\ j = Sound /\ Sound < Len(script)

\* The heart of the matter: a call of take_request on the bytes from the beginning of a message on,
\* wherever they were cut, ends at the beginning of a message and says what lies between.
LEMMA Decoding ==
  ASSUME script \in Scripts, NEW k \in 0..Sound, NEW a \in 0..Len(ClientBytes), Offset(k) <= a
  PROVE  Decodes(TakeRequest[Stretch(k, a)], k, a)
<1> DEFINE s == Stretch(k, a)
           p == AfterFrames(s)
           rest == SubSeq(s, p, Len(s))
           r == Answer[rest]
<1>1. /\ Sound \in 0..Len(script) /\ Len(script) \in Nat /\ Len(ClientBytes) \in Nat
      /\ Sound \in Nat /\ k \in Nat /\ a \in Nat /\ k \in 0..Len(script)
  BY SoundIs, ScriptIs
<1>2. s \in Seq(Token) /\ Len(s) \in Nat /\ Len(s) = a - Offset(k)
  BY <1>1, StretchIs, LenProperties
<1>3. PICK j \in k..Len(script) : Offset(k) + p - 1 = Offset(j) /\ Drainable(k, j)
  BY <1>1, Drains
<1>4. p \in 1..Len(s) + 1 /\ rest \in Seq(Token) /\ ~FrameAt(rest, 1)
  <2>1. p \in Drained(s)
    BY <1>2, AfterFramesType
  <2> QED
    BY <1>2, <2>1, NoFrameLeft DEF Drained
<1>5. TakeRequest[s] = r
  BY <1>2 DEF TakeRequest
<1>6. j \in 0..Len(script) /\ j \in Nat
  BY <1>1
<1> HIDE DEF s, p
<1>7. Offset(k) \in Int /\ Offset(j) \in Int /\ Offset(j) <= a
  <2>1. Offset(k) \in 0..Len(ClientBytes) /\ Offset(j) \in 0..Len(ClientBytes)
    BY <1>1, <1>6, Offsets
  <2>2. Offset(k) \in Int /\ Offset(j) \in Int
    BY <1>1, <2>1
  <2>3. \A o, q, l, t \in Int : o + t - 1 = q /\ t <= l + 1 /\ l = a - o => q <= a
    BY <1>1
  <2>4. p \in Int /\ p <= Len(s) + 1 /\ Len(s) \in Int
    BY <1>2, <1>4
  <2> QED
    BY <1>2, <1>3, <2>2, <2>3, <2>4
<1>8. rest = Stretch(j, a)
  <2>1. p \in Nat \ {0}
    BY <1>2, <1>4
  <2> QED
    BY <1>1, <1>3, <1>6, <1>7, <2>1, StretchRest DEF s
<1>9. Len(rest) = a - Offset(j) /\ rest \in Seq(Token)
  BY <1>1, <1>6, <1>7, <1>8, StretchIs
<1> HIDE DEF rest, r
<1>10. r.what = "none" => r.rest = rest
  BY <1>4, AnswerType DEF r
<1>11. Served(j) = Served(k)
  BY <1>1, <1>3, FramesServeNothing
<1>12. j \in k..Sound
  <2>1. CASE j <= Sound
    BY <1>1, <1>6, <2>1
  <2>2. CASE ~(j <= Sound)
    <3>1. Sound < Len(script) /\ Sound + 1 \in k + 1..j
      BY <1>1, <1>6, <2>2
    <3>2. Proper(script[Sound + 1])
      BY <1>3, <3>1 DEF Drainable
    <3> QED
      BY <3>1, <3>2, SoundIs
  <2> QED
    BY <2>1, <2>2
<1>13. CASE r.what = "none"
  BY <1>5, <1>7, <1>8, <1>10, <1>11, <1>12, <1>13 DEF Decodes, s
<1>14. CASE j = Len(script)
  <2>1. Offset(j) = Len(ClientBytes)
    BY <1>14, Offsets
  <2>2. Len(rest) = 0
    BY <1>1, <1>7, <1>9, <2>1
  <2>3. rest = <<>>
    BY <1>9, <2>2, EmptySeq
  <2>4. r.what = "none"
    BY <2>3, AnswerOfNothing DEF r
  <2> QED
    BY <1>13, <2>4
<1>15. CASE j # Len(script)
  <2> DEFINE m == script[j + 1]
  <2>1. j + 1 \in 1..Len(script) /\ (j + 1) - 1 = j /\ 1 \in Nat \ {0}
    BY <1>1, <1>6, <1>15
  <2>2. m \in ClientMessage
    BY <2>1, ScriptIs
  <2>3. Matches(rest, 1, Bytes(m))
    <3>1. Offset(j) + 1 - 1 = Offset((j + 1) - 1)
      BY <1>7, <2>1
    <3> QED
      BY <1>6, <1>7, <1>8, <2>1, <3>1, StretchMatches
  <2>4. ASSUME r.what = "error", ~Proper(m)
        PROVE  Decodes(r, k, a)
    <3>1. ~(j + 1 \in 1..Sound)
      BY <2>4, SoundIs
    <3>2. j = Sound /\ Sound < Len(script)
      BY <1>1, <1>6, <1>12, <2>1, <3>1
    <3> QED
      BY <1>7, <1>11, <1>12, <2>4, <3>2 DEF Decodes
  <2>5. CASE m \in Frames
    <3>1. r.what = "none" \/ (r.what = "error" /\ ~Proper(m))
      BY <1>4, <1>9, <2>3, <2>5, AnswerToFrame DEF r
    <3> QED
      BY <1>5, <1>13, <2>4, <3>1 DEF s
  <2>6. CASE m \in Requests /\ m.kind = "request" /\ (Readable(m.lines) => Len(m.body) = BodyLength(m.lines))
    <3>1. \/ r.what = "none"
          \/ r.what = "error" /\ ~Proper(m)
          \/ /\ r.what = "request" /\ Proper(m) /\ r.request = m.lines[1][2]
             /\ Len(Bytes(m)) <= Len(rest)
             /\ r.rest = SubSeq(rest, Len(Bytes(m)) + 1, Len(rest))
      BY <1>9, <2>3, <2>6, AnswerToRequest DEF r
    <3>2. ASSUME r.what = "request", Proper(m), r.request = m.lines[1][2],
                 Len(Bytes(m)) <= Len(rest),
                 r.rest = SubSeq(rest, Len(Bytes(m)) + 1, Len(rest))
          PROVE  Decodes(r, k, a)
      <4>1. j + 1 \in k..Sound
        <5>1. j # Sound
          BY <1>1, <2>1, <3>2, SoundIs
        <5> QED
          BY <1>1, <1>6, <1>12, <5>1
      <4>2. Served(j + 1) = Append(Served(k), r.request)
        BY <1>11, <2>1, <2>6, <3>2, Serves
      <4>3. Len(Bytes(m)) \in Nat /\ Offset(j + 1) = Offset(j) + Len(Bytes(m))
        BY <2>1, Offsets
      <4>4. Offset(j + 1) <= a /\ Offset(j) + (Len(Bytes(m)) + 1) - 1 = Offset(j + 1)
        <5>1. \A o, q, l, t \in Int : q = o + t /\ t <= l /\ l = a - o =>
                q <= a /\ o + (t + 1) - 1 = q
          BY <1>1
        <5>2. Offset(j + 1) \in Int /\ Len(rest) \in Int /\ Len(Bytes(m)) \in Int
          BY <1>1, <1>7, <1>9, <4>3
        <5> QED
          BY <1>7, <1>9, <3>2, <4>3, <5>1, <5>2
      <4>5. r.rest = Stretch(j + 1, a)
        <5>1. Len(Bytes(m)) + 1 \in Nat \ {0} /\ j + 1 \in 0..Len(script)
          BY <1>1, <1>6, <2>1, <4>3
        <5> QED
          BY <1>6, <1>7, <1>8, <3>2, <4>4, <5>1, StretchRest
      <4> QED
        BY <3>2, <4>1, <4>2, <4>4, <4>5 DEF Decodes
    <3> QED
      BY <1>5, <1>13, <2>4, <3>1, <3>2 DEF s
  <2> QED
    BY <2>2, <2>5, <2>6, KindIs
<1> QED
  BY <1>14, <1>15

\* The inductive invariant: the client's bytes were read up to some message and cut there, the input
\* holds the rest of what was read, and the calls are those of the messages before the cut.
CutsInv ==
  \E k \in 0..Sound :
    /\ taken = Served(k) /\ Offset(k) <= at
    /\ state = "open" => input = Stretch(k, at)
    /\ state = "refused" => k = Sound /\ Sound < Len(script)

\* The script does not change.
LEMMA ScriptStays ==
  ASSUME script' = script
  PROVE  /\ ClientBytes' = ClientBytes /\ Sound' = Sound
         /\ \A k : Offset(k)' = Offset(k) /\ Served(k)' = Served(k)
<1>1. Understood' = Understood
  BY DEF Understood
<1>2. SentBytes' = SentBytes /\ Calls' = Calls
  BY DEF SentBytes, Calls
<1>3. \A k : Offset(k)' = Offset(k) /\ Served(k)' = Served(k)
  BY <1>2 DEF Offset, Served
<1> QED
  BY <1>1, <1>3 DEF ClientBytes, Sound

\* The invariant holds of a fresh connection.
LEMMA CutsStart == FramingInit => CutsInv
<1> SUFFICES ASSUME FramingInit
             PROVE  CutsInv
  OBVIOUS
<1>1. script \in Scripts /\ at = 0 /\ input = <<>> /\ taken = <<>> /\ state = "open"
  BY DEF FramingInit
<1>2. 0 \in 0..Sound /\ 0 \in 0..Len(script) /\ 0 \in 0..Len(ClientBytes)
  BY <1>1, SoundIs, ScriptIs
<1>3. Offset(0) = 0 /\ Served(0) = <<>>
  BY <1>1, Offsets, Serves
<1>4. Stretch(0, 0) \in Seq(Token) /\ Len(Stretch(0, 0)) = 0 - 0
  BY <1>1, <1>2, <1>3, StretchIs
<1>5. Stretch(0, 0) = <<>>
  BY <1>4, EmptySeq
<1> QED
  BY <1>1, <1>2, <1>3, <1>5 DEF CutsInv

\* A call of take_request keeps it.
LEMMA TakeCuts ==
  ASSUME script \in Scripts, state = "open", script' = script,
         NEW k \in 0..Sound, taken = Served(k),
         at' \in 0..Len(ClientBytes), Offset(k) <= at', Take(Stretch(k, at'))
  PROVE  CutsInv'
<1> DEFINE r == TakeRequest[Stretch(k, at')]
<1>1. PICK j \in k..Sound :
        /\ Offset(j) <= at'
        /\ \/ /\ r.what = "none"
              /\ Served(j) = Served(k) /\ r.rest = Stretch(j, at')
           \/ /\ r.what = "request"
              /\ Served(j) = Append(Served(k), r.request) /\ r.rest = Stretch(j, at')
           \/ /\ r.what = "error"
              /\ Served(j) = Served(k) /\ j = Sound /\ Sound < Len(script)
  BY Decoding DEF Decodes
<1>2. /\ input' = r.rest
      /\ taken' = IF r.what = "request" THEN Append(taken, r.request) ELSE taken
      /\ state' = IF r.what = "error" THEN "refused" ELSE state
  BY DEF Take
<1> HIDE DEF r
<1>3. j \in 0..Sound /\ j \in 0..Sound'
  <2>1. Sound \in Nat
    BY SoundIs, ScriptIs
  <2> QED
    BY <2>1, ScriptStays
<1>4. taken' = Served(j)' /\ Offset(j)' <= at'
  BY <1>1, <1>2, ScriptStays
<1>5. state' = "open" => input' = SubSeq(ClientBytes', Offset(j)' + 1, at')
  BY <1>1, <1>2, ScriptStays DEF Stretch
<1>6. state' = "refused" => j = Sound' /\ Sound' < Len(script')
  BY <1>1, <1>2, ScriptStays
<1> QED
  BY <1>3, <1>4, <1>5, <1>6 DEF CutsInv, Stretch

\* So does a read, whose bytes come right after those that were kept.
LEMMA ReadCuts ==
  ASSUME FramingInv, CutsInv, NEW n \in 0..Chunk, Read(n)
  PROVE  CutsInv'
<1>1. /\ script \in Scripts /\ at \in 0..Len(ClientBytes) /\ input \in Seq(Token)
      /\ ClientBytes \in Seq(Token) /\ Len(ClientBytes) \in Nat /\ at \in Nat
      /\ Sound \in 0..Len(script) /\ Len(script) \in Nat
  BY SoundIs, ScriptIs DEF FramingInv, FramingTypeOK
<1>2. /\ state = "open" /\ script' = script /\ at' = at + n /\ at + n <= Len(ClientBytes)
      /\ TakeRequest[input].what = "none"
      /\ Take(TakeRequest[input].rest \o SubSeq(ClientBytes, at + 1, at + n))
  BY DEF Read, Pending
<1>3. PICK k \in 0..Sound : taken = Served(k) /\ Offset(k) <= at /\ input = Stretch(k, at)
  BY <1>2 DEF CutsInv
<1>4. PICK j \in k..Sound :
        Offset(j) <= at /\ Served(j) = Served(k) /\ TakeRequest[input].rest = Stretch(j, at)
  <2>1. Decodes(TakeRequest[input], k, at)
    BY <1>1, <1>3, Decoding
  <2> QED
    BY <1>2, <2>1 DEF Decodes
<1>5. j \in 0..Sound /\ j \in 0..Len(script)
  BY <1>1
<1>6. n \in Nat /\ at + n \in 0..Len(ClientBytes)
  BY <1>1, <1>2, SizesType
<1>7. Offset(j) \in Nat
  BY <1>1, <1>5, Offsets
<1>8. Stretch(j, at) \o SubSeq(ClientBytes, at + 1, at + n) = Stretch(j, at + n)
  <2>1. /\ Offset(j) + 1 \in 1..Len(ClientBytes) + 1
        /\ at \in (Offset(j) + 1) - 1..Len(ClientBytes)
        /\ at + n \in at..Len(ClientBytes)
    BY <1>1, <1>2, <1>4, <1>6, <1>7
  <2> QED
    BY <1>1, <2>1, ConcatAdjacentSubSeq DEF Stretch
<1>9. Offset(j) <= at + n
  BY <1>1, <1>4, <1>6, <1>7
<1> QED
  BY <1>1, <1>2, <1>3, <1>4, <1>5, <1>6, <1>8, <1>9, TakeCuts

\* Every step of read_control keeps it.
LEMMA CutsSteps == FramingInv /\ CutsInv /\ [FramingNext]_framingVars => CutsInv'
<1> SUFFICES ASSUME FramingInv, CutsInv, [FramingNext]_framingVars
             PROVE  CutsInv'
  OBVIOUS
<1>1. CASE TakeBuffered
  <2>1. state = "open" /\ Take(input) /\ script' = script /\ at' = at
    BY <1>1 DEF TakeBuffered
  <2>2. PICK k \in 0..Sound : taken = Served(k) /\ Offset(k) <= at /\ input = Stretch(k, at)
    BY <2>1 DEF CutsInv
  <2>3. script \in Scripts /\ at \in 0..Len(ClientBytes)
    BY DEF FramingInv, FramingTypeOK
  <2> QED
    BY <2>1, <2>2, <2>3, TakeCuts
<1>2. ASSUME NEW n \in 0..Chunk, Read(n)
      PROVE  CutsInv'
  BY <1>2, ReadCuts
<1>3. CASE Disconnected \/ UNCHANGED framingVars
  <2>1. /\ script' = script /\ at' = at /\ taken' = taken
        /\ state' = "gone" \/ (state' = state /\ input' = input)
    BY <1>3 DEF Disconnected, framingVars
  <2>2. PICK k \in 0..Sound :
          /\ taken = Served(k) /\ Offset(k) <= at
          /\ state = "open" => input = Stretch(k, at)
          /\ state = "refused" => k = Sound /\ Sound < Len(script)
    BY DEF CutsInv
  <2>3. k \in 0..Sound' /\ taken' = Served(k)' /\ Offset(k)' <= at'
    BY <2>1, <2>2, ScriptStays
  <2>4. state' = "open" => input' = SubSeq(ClientBytes', Offset(k)' + 1, at')
    BY <2>1, <2>2, ScriptStays DEF Stretch
  <2>5. state' = "refused" => k = Sound' /\ Sound' < Len(script')
    BY <2>1, <2>2, ScriptStays
  <2> QED
    BY <2>3, <2>4, <2>5 DEF CutsInv, Stretch
<1> QED
  BY <1>1, <1>2, <1>3 DEF FramingNext

\* The invariant implies the property.
LEMMA CutsAreRight == FramingInv /\ CutsInv => CutsDoNotMatter
<1> SUFFICES ASSUME FramingInv, CutsInv
             PROVE  CutsDoNotMatter
  OBVIOUS
<1>1. /\ script \in Scripts /\ Sound \in 0..Len(script) /\ Len(script) \in Nat
      /\ Wanted = Served(Sound) /\ Wanted \in Seq(Names)
  BY SoundIs, ScriptIs, WantedIs DEF FramingInv, FramingTypeOK
<1>2. PICK k \in 0..Sound :
        taken = Served(k) /\ (state = "refused" => k = Sound /\ Sound < Len(script))
  BY DEF CutsInv
<1>3. k \in 0..Len(script) /\ Sound \in k..Len(script)
  BY <1>1
<1>4. taken \in Seq(Names)
  BY <1>1, <1>2, <1>3, Serves
<1>5. Len(taken) <= Len(Wanted) /\ \A i \in 1..Len(taken) : Wanted[i] = taken[i]
  <2>1. Calls \in Seq(Seq(Names)) /\ Len(Calls) = Len(script)
    BY <1>1, CallsAre
  <2> QED
    BY <1>1, <1>2, <1>3, <2>1, JoinedPrefix DEF Served
<1>6. SubSeq(taken, 1, Len(taken)) = SubSeq(Wanted, 1, Len(taken))
  <2>1. Len(taken) \in 0..Len(taken) /\ Len(taken) \in 0..Len(Wanted)
    BY <1>1, <1>4, <1>5, LenProperties
  <2>2. /\ SubSeq(taken, 1, Len(taken)) \in Seq(Names) /\ Len(SubSeq(taken, 1, Len(taken))) = Len(taken)
        /\ \A i \in 1..Len(taken) : SubSeq(taken, 1, Len(taken))[i] = taken[i]
    BY <1>4, <2>1, FirstOnes
  <2>3. /\ SubSeq(Wanted, 1, Len(taken)) \in Seq(Names) /\ Len(SubSeq(Wanted, 1, Len(taken))) = Len(taken)
        /\ \A i \in 1..Len(taken) : SubSeq(Wanted, 1, Len(taken))[i] = Wanted[i]
    BY <1>1, <2>1, FirstOnes
  <2> QED
    BY <1>5, <2>2, <2>3, SeqEqual
<1>7. IsPrefix(taken, Wanted)
  BY <1>5, <1>6 DEF IsPrefix
<1>8. state = "refused" => taken = Wanted /\ Understood # script
  BY <1>1, <1>2, SoundIs
<1> QED
  BY <1>7, <1>8 DEF CutsDoNotMatter

\* For every script, every size and every way to cut the stream, the requests that are served are
\* those that were sent, in order, and a connection is refused only for a message that must be, after
\* everything in front of it was served.
THEOREM RequestsSurviveCuts == Spec => []CutsDoNotMatter
<1> DEFINE CutsIInv == FramingInv /\ CutsInv
<1>1. Init => CutsIInv
  BY FramingStarts, CutsStart DEF Init
<1>2. CutsIInv /\ [Next]_wireVars => CutsIInv'
  <2> SUFFICES ASSUME FramingInv, CutsInv, [Next]_wireVars
               PROVE  FramingInv' /\ CutsInv'
    OBVIOUS
  <2>1. [FramingNext]_framingVars
    BY DEF Next, In, Out, wireVars, framingVars
  <2> QED
    BY <2>1, FramingSteps, CutsSteps
<1>3. CutsIInv => CutsDoNotMatter
  BY CutsAreRight
<1> QED
  BY <1>1, <1>2, <1>3, PTL DEF Spec

-----------------------------------------------------------------------------
(* Start codes in a buffer. *)

\* What the two start codes are, byte by byte.
ShortAt(bytes, i) == i + 2 <= Len(bytes) /\ bytes[i] = 0 /\ bytes[i + 1] = 0 /\ bytes[i + 2] = 1

LongAt(bytes, i) == i + 3 <= Len(bytes) /\ bytes[i] = 0 /\ ShortAt(bytes, i + 1)

\* A start code, byte by byte.
LEMMA OpensIs ==
  ASSUME NEW bytes \in Seq(Byte), NEW i \in 1..Len(bytes), NEW code \in Seq(Byte)
  PROVE  Opens(bytes, i, code) <=>
           /\ i + Len(code) - 1 <= Len(bytes)
           /\ \A j \in 1..Len(code) : code[j] = bytes[i + j - 1]
<1> DEFINE rest == SubSeq(bytes, i, Len(bytes))
<1>1. Len(bytes) \in Nat /\ Len(code) \in Nat /\ i \in Nat \ {0} /\ i <= Len(bytes)
  BY LenProperties
<1>2. /\ rest \in Seq(Byte) /\ Len(rest) = Len(bytes) - i + 1
      /\ \A j \in 1..Len(bytes) - i + 1 : rest[j] = bytes[i + j - 1]
  <2>1. Len(bytes) \in Int /\ Len(bytes) <= Len(bytes)
    BY <1>1
  <2>2. /\ SubSeq(bytes, i, Len(bytes)) \in Seq(Byte)
        /\ Len(SubSeq(bytes, i, Len(bytes))) = IF i <= Len(bytes) THEN Len(bytes) - i + 1 ELSE 0
        /\ \A j \in 1..Len(bytes) - i + 1 : SubSeq(bytes, i, Len(bytes))[j] = bytes[i + j - 1]
    BY <1>1, <2>1, PartType
  <2> QED
    BY <1>1, <2>2
<1> HIDE DEF rest
<1>3. Opens(bytes, i, code) <=> Len(code) <= Len(rest) /\ \A j \in 1..Len(code) : code[j] = rest[j]
  <2>1. Opens(bytes, i, code) <=> Len(code) <= Len(rest) /\ SubSeq(code, 1, Len(code)) = SubSeq(rest, 1, Len(code))
    BY DEF Opens, IsPrefix, rest
  <2>2. SubSeq(code, 1, Len(code)) = code
    BY <1>1
  <2>3. CASE Len(code) <= Len(rest)
    <3>1. /\ SubSeq(rest, 1, Len(code)) \in Seq(Byte) /\ Len(SubSeq(rest, 1, Len(code))) = Len(code)
          /\ \A j \in 1..Len(code) : SubSeq(rest, 1, Len(code))[j] = rest[j]
      <4>1. Len(rest) \in Nat /\ Len(code) \in 0..Len(rest)
        BY <1>1, <1>2, <2>3
      <4> QED
        BY <1>2, <4>1, FirstOnes
    <3>2. code = SubSeq(rest, 1, Len(code)) <=> \A j \in 1..Len(code) : code[j] = SubSeq(rest, 1, Len(code))[j]
      BY <3>1, SeqEqual
    <3> QED
      BY <2>1, <2>2, <2>3, <3>1, <3>2
  <2> QED
    BY <2>1, <2>3
<1>4. Len(code) <= Len(rest) <=> i + Len(code) - 1 <= Len(bytes)
  BY <1>1, <1>2
<1>5. CASE Len(code) <= Len(rest)
  <2>1. \A j \in 1..Len(code) : j \in 1..Len(bytes) - i + 1
    BY <1>1, <1>2, <1>5
  <2> QED
    BY <1>2, <1>3, <1>4, <1>5, <2>1
<1> QED
  BY <1>3, <1>4, <1>5

\* The two start codes.
LEMMA CodesType == /\ ShortCode \in Seq(Byte) /\ Len(ShortCode) = 3
                   /\ ShortCode[1] = 0 /\ ShortCode[2] = 0 /\ ShortCode[3] = 1
                   /\ LongCode \in Seq(Byte) /\ Len(LongCode) = 4
                   /\ LongCode[1] = 0 /\ LongCode[2] = 0 /\ LongCode[3] = 0 /\ LongCode[4] = 1
<1>1. 0 \in Byte /\ 1 \in Byte
  BY BaseAssumption DEF Byte
<1> QED
  BY <1>1 DEF ShortCode, LongCode

\* A start code in front of other bytes is found there.
LEMMA PrefixIs ==
  ASSUME NEW bytes \in Seq(Byte), NEW i \in 1..Len(bytes)
  PROVE  /\ PrefixAt(bytes, i) = IF LongAt(bytes, i) THEN 4 ELSE IF ShortAt(bytes, i) THEN 3 ELSE 0
         /\ i \in StartCodes(bytes) <=> LongAt(bytes, i) \/ ShortAt(bytes, i)
<1>1. Len(bytes) \in Nat /\ DOMAIN bytes = 1..Len(bytes)
  BY LenProperties
<1>2. Opens(bytes, i, ShortCode) <=> ShortAt(bytes, i)
  <2>1. Opens(bytes, i, ShortCode) <=> /\ i + 3 - 1 <= Len(bytes)
                                       /\ \A j \in 1..3 : ShortCode[j] = bytes[i + j - 1]
    <3>1. ShortCode \in Seq(Byte) /\ Len(ShortCode) = 3
      BY CodesType
    <3> QED
      BY ZenonT(40), <3>1, OpensIs
  <2>2. i + 1 - 1 = i /\ i + 2 - 1 = i + 1 /\ i + 3 - 1 = i + 2
    BY <1>1
  <2>3. (\A j \in 1..3 : ShortCode[j] = bytes[i + j - 1]) <=>
          ShortCode[1] = bytes[i + 1 - 1] /\ ShortCode[2] = bytes[i + 2 - 1] /\ ShortCode[3] = bytes[i + 3 - 1]
    OBVIOUS
  <2>4. ShortCode[1] = 0 /\ ShortCode[2] = 0 /\ ShortCode[3] = 1
    BY CodesType
  <2>5. Opens(bytes, i, ShortCode) <=>
          i + 2 <= Len(bytes) /\ 0 = bytes[i] /\ 0 = bytes[i + 1] /\ 1 = bytes[i + 2]
    BY <2>1, <2>2, <2>3, <2>4
  <2> QED
    BY <2>5 DEF ShortAt
<1>3. Opens(bytes, i, LongCode) <=> LongAt(bytes, i)
  <2>1. Opens(bytes, i, LongCode) <=> /\ i + 4 - 1 <= Len(bytes)
                                      /\ \A j \in 1..4 : LongCode[j] = bytes[i + j - 1]
    <3>1. LongCode \in Seq(Byte) /\ Len(LongCode) = 4
      BY CodesType
    <3> QED
      BY ZenonT(40), <3>1, OpensIs
  <2>2. i + 1 - 1 = i /\ i + 2 - 1 = i + 1 /\ i + 3 - 1 = i + 2 /\ i + 4 - 1 = i + 3
          /\ (i + 1) + 1 = i + 2 /\ (i + 1) + 2 = i + 3
    BY <1>1
  <2>3. (\A j \in 1..4 : LongCode[j] = bytes[i + j - 1]) <=>
          LongCode[1] = bytes[i + 1 - 1] /\ LongCode[2] = bytes[i + 2 - 1] /\ LongCode[3] = bytes[i + 3 - 1]
            /\ LongCode[4] = bytes[i + 4 - 1]
    OBVIOUS
  <2>4. LongCode[1] = 0 /\ LongCode[2] = 0 /\ LongCode[3] = 0 /\ LongCode[4] = 1
    BY CodesType
  <2>5. Opens(bytes, i, LongCode) <=>
          i + 3 <= Len(bytes) /\ 0 = bytes[i] /\ 0 = bytes[i + 1] /\ 0 = bytes[i + 2] /\ 1 = bytes[i + 3]
    BY <2>1, <2>2, <2>3, <2>4
  <2>6. ShortAt(bytes, i + 1) <=> i + 3 <= Len(bytes) /\ bytes[i + 1] = 0 /\ bytes[i + 2] = 0 /\ bytes[i + 3] = 1
    BY <2>2 DEF ShortAt
  <2> QED
    BY <2>5, <2>6 DEF LongAt
<1>4. PrefixAt(bytes, i) = IF LongAt(bytes, i) THEN 4 ELSE IF ShortAt(bytes, i) THEN 3 ELSE 0
  BY <1>2, <1>3 DEF PrefixAt
<1> QED
  BY <1>1, <1>4 DEF StartCodes

\* Every position of joined sequences is a position of one of them.
LEMMA Located ==
  ASSUME NEW S, NEW seqs \in Seq(Seq(S)), NEW i \in 1..Len(FlattenSeq(seqs))
  PROVE  \E k \in 1..Len(seqs) : \E j \in 1..Len(seqs[k]) : i = Len(Joined(seqs, k - 1)) + j
<1> DEFINE T == {k \in 0..Len(seqs) : i <= Len(Joined(seqs, k))}
<1>1. /\ Len(seqs) \in Nat /\ FlattenSeq(seqs) = Joined(seqs, Len(seqs))
      /\ Joined(seqs, 0) = <<>> /\ \A k \in 0..Len(seqs) : Len(Joined(seqs, k)) \in Nat
  BY LenProperties, JoinedSteps
<1>2. T \in SUBSET Nat /\ Len(seqs) \in T
  BY <1>1
<1>3. PICK k \in T : \A m \in T : k <= m
  <2> HIDE DEF T
  <2>1. T # {}
    BY <1>2
  <2> QED
    BY <1>2, <2>1, Least
<1>4. k # 0
  BY <1>1, <1>3
<1>5. k \in 1..Len(seqs) /\ k - 1 \in 0..Len(seqs) /\ ~(k <= k - 1)
  BY <1>1, <1>3, <1>4
<1>6. ~(i <= Len(Joined(seqs, k - 1)))
  BY <1>3, <1>5
<1>7. Len(seqs[k]) \in Nat /\ Len(Joined(seqs, k)) = Len(Joined(seqs, k - 1)) + Len(seqs[k])
  BY <1>5, JoinedAt
<1>8. i \in Nat /\ i <= Len(Joined(seqs, k)) /\ Len(Joined(seqs, k - 1)) \in Nat
  <2>1. Len(seqs) \in 0..Len(seqs)
    BY <1>1
  <2>2. Len(FlattenSeq(seqs)) \in Nat
    BY <1>1, <2>1
  <2> QED
    BY <1>1, <1>3, <1>5, <2>2
<1>9. \A before, size \in Nat : ~(i <= before) /\ i <= before + size =>
        i - before \in 1..size /\ i = before + (i - before)
  BY <1>8
<1>10. \E j \in 1..Len(seqs[k]) : i = Len(Joined(seqs, k - 1)) + j
  BY <1>6, <1>7, <1>8, <1>9
<1> QED
  BY <1>5, <1>10

-----------------------------------------------------------------------------
(* Sorted positions. *)

\* A rising sequence of numbers is the sorting of its elements.
LEMMA Rising ==
  ASSUME NEW n \in Nat, NEW f \in [1..n -> Nat], \A k \in 1..n - 1 : f[k] < f[k + 1]
  PROVE  \A x, y \in 1..n : x < y => f[x] < f[y]
<1> DEFINE T == {d \in Nat : \A x \in 1..n : x + d + 1 <= n => f[x] < f[x + d + 1]}
<1>1. 0 \in T
  <2>1. ASSUME NEW x \in 1..n, x + 0 + 1 <= n
        PROVE  f[x] < f[x + 0 + 1]
    <3>1. x \in 1..n - 1 /\ x + 0 + 1 = x + 1
      BY <2>1
    <3> QED
      BY <3>1
  <2> QED
    BY <2>1
<1>2. ASSUME NEW d \in T
      PROVE  d + 1 \in T
  <2>1. ASSUME NEW x \in 1..n, x + (d + 1) + 1 <= n
        PROVE  f[x] < f[x + (d + 1) + 1]
    <3>1. d \in Nat /\ x + d + 1 <= n /\ x + d + 1 \in 1..n - 1 /\ (x + d + 1) + 1 = x + (d + 1) + 1
      BY <2>1
    <3>2. f[x] < f[x + d + 1]
      BY <3>1
    <3>3. f[x + d + 1] < f[x + (d + 1) + 1]
      BY <3>1
    <3>4. f[x] \in Nat /\ f[x + d + 1] \in Nat /\ f[x + (d + 1) + 1] \in Nat
      BY <2>1, <3>1
    <3> QED
      BY <3>2, <3>3, <3>4
  <2> QED
    BY <2>1
<1>3. T = Nat
  <2>1. T \in SUBSET Nat
    OBVIOUS
  <2> HIDE DEF T
  <2> QED
    BY <1>1, <1>2, <2>1, Every
<1>4. ASSUME NEW x \in 1..n, NEW y \in 1..n, x < y
      PROVE  f[x] < f[y]
  <2>1. y - x - 1 \in Nat /\ x + (y - x - 1) + 1 = y /\ y <= n
    BY <1>4
  <2>2. y - x - 1 \in T
    BY <1>3, <2>1
  <2> QED
    BY <2>1, <2>2
<1> QED
  BY <1>4

\* A sequence that has the next number at its end.
LEMMA OneMore ==
  ASSUME NEW S, NEW v \in Seq(S), NEW k \in Nat, k < Len(v)
  PROVE  SubSeq(v, 1, k) \o <<v[k + 1]>> = SubSeq(v, 1, k + 1)
<1> DEFINE short == SubSeq(v, 1, k)
           long == SubSeq(v, 1, k + 1)
<1>1. Len(v) \in Nat /\ k \in 0..Len(v) /\ k + 1 \in 0..Len(v) /\ k + 1 \in 1..Len(v)
  BY LenProperties
<1>2. short \in Seq(S) /\ Len(short) = k /\ \A i \in 1..k : short[i] = v[i]
  BY <1>1, FirstOnes
<1>3. long \in Seq(S) /\ Len(long) = k + 1 /\ \A i \in 1..k + 1 : long[i] = v[i]
  BY <1>1, FirstOnes
<1>4. v[k + 1] \in S
  BY <1>1, ElementOfSeq
<1> HIDE DEF short, long
<1>5. <<v[k + 1]>> \in Seq(S) /\ Len(<<v[k + 1]>>) = 1
  BY <1>4
<1>6. /\ short \o <<v[k + 1]>> \in Seq(S) /\ Len(short \o <<v[k + 1]>>) = k + 1
      /\ \A i \in 1..k + 1 : (short \o <<v[k + 1]>>)[i] = IF i <= k THEN short[i] ELSE <<v[k + 1]>>[i - k]
  BY <1>2, <1>5, ConcatProperties
<1>7. ASSUME NEW i \in 1..k + 1
      PROVE  (short \o <<v[k + 1]>>)[i] = long[i]
  <2>1. CASE i <= k
    <3>1. i \in 1..k
      BY <2>1
    <3> QED
      BY <1>2, <1>3, <1>6, <2>1, <3>1
  <2>2. CASE ~(i <= k)
    <3>1. i = k + 1 /\ i - k = 1
      BY <2>2
    <3>2. <<v[k + 1]>>[1] = v[k + 1]
      OBVIOUS
    <3> QED
      BY <1>3, <1>6, <2>2, <3>1, <3>2
  <2> QED
    BY <2>1, <2>2
<1>8. short \o <<v[k + 1]>> = long
  BY <1>3, <1>6, <1>7, SeqEqual
<1> QED
  BY <1>8 DEF short, long

\* SetToSortSeq of the elements of a rising sequence is that sequence.
LEMMA Collects ==
  ASSUME NEW S, NEW v \in Seq(Seq(S)), \A k \in 1..Len(v) : v[k] # <<>>,
         NEW parts \in Seq(Seq(S)), NEW m \in [1..Len(v) -> 1..Len(parts)],
         \A x, y \in 1..Len(v) : x < y => m[x] < m[y],
         \A k \in 1..Len(v) : parts[m[k]] = v[k],
         \A i \in 1..Len(parts) : (\A k \in 1..Len(v) : i # m[k]) => parts[i] = <<>>
  PROVE  NonEmpty(parts) = v
<1> DEFINE kept == [k \in DOMAIN parts |-> IF parts[k] = <<>> THEN <<>> ELSE <<parts[k]>>]
           n == Len(v)
           all == Len(parts)
           Done(p, k) == /\ k = 0 \/ m[k] <= p
                         /\ k = n \/ p < m[k + 1]
                         /\ Joined(kept, p) = SubSeq(v, 1, k)
           T == {p \in Nat : p <= all => \E k \in 0..n : Done(p, k)}
<1>1. DOMAIN parts = 1..all /\ all \in Nat /\ n \in Nat /\ \A k \in 1..all : parts[k] \in Seq(S)
  BY LenProperties, ElementOfSeq
<1>2. kept \in Seq(Seq(Seq(S))) /\ Len(kept) = all
  <2>1. ASSUME NEW k \in 1..all PROVE kept[k] \in Seq(Seq(S))
    <3>1. parts[k] \in Seq(S) /\ <<>> \in Seq(Seq(S))
      BY <1>1, EmptySeq
    <3>2. <<parts[k]>> \in Seq(Seq(S))
      BY <3>1
    <3>3. kept[k] = IF parts[k] = <<>> THEN <<>> ELSE <<parts[k]>>
      BY <1>1
    <3> HIDE DEF kept
    <3> QED
      BY <3>1, <3>2, <3>3
  <2>2. DOMAIN kept = 1..all /\ kept = [k \in 1..all |-> kept[k]]
    BY <1>1
  <2> HIDE DEF kept, all
  <2> QED
    BY <1>1, <2>1, <2>2, Listed
<1>3. \A k \in 1..all : kept[k] = IF parts[k] = <<>> THEN <<>> ELSE <<parts[k]>>
  BY <1>1
<1>4. NonEmpty(parts) = FlattenSeq(kept)
  BY DEF NonEmpty
<1>5. \A k \in 1..n : m[k] \in 1..all
  OBVIOUS
<1> HIDE DEF kept
<1>6. /\ Joined(kept, 0) = <<>> /\ Joined(kept, all) = FlattenSeq(kept)
      /\ \A k \in 1..all : Joined(kept, k) = Joined(kept, k - 1) \o kept[k]
  BY <1>2, JoinedSteps
<1> HIDE DEF n, all
<1>7. 0 \in T
  <2>1. SubSeq(v, 1, 0) = <<>>
    BY <1>1
  <2>2. n = 0 \/ 0 < m[0 + 1]
    BY <1>1, <1>5
  <2>3. Done(0, 0)
    BY <1>6, <2>1, <2>2
  <2> QED
    BY <1>1, <2>3
<1>8. ASSUME NEW p \in T
      PROVE  p + 1 \in T
  <2> SUFFICES ASSUME p + 1 <= all
               PROVE  \E k \in 0..n : Done(p + 1, k)
    OBVIOUS
  <2>1. p \in Nat /\ p <= all /\ p + 1 \in 1..all /\ (p + 1) - 1 = p
    <3>1. p \in Nat
      BY Zenon
    <3>2. \A f \in Nat : f + 1 <= all => f <= all /\ f + 1 \in 1..all /\ (f + 1) - 1 = f
      BY <1>1
    <3> HIDE DEF T, Done
    <3> QED
      BY <3>1, <3>2
  <2>2. PICK k \in 0..n : Done(p, k)
    BY <2>1
  <2> HIDE DEF T
  <2>3. Joined(kept, p + 1) = Joined(kept, p) \o kept[p + 1]
    BY <1>6, <2>1
  <2>4. CASE k # n /\ m[k + 1] = p + 1
    <3>1. k + 1 \in 1..n /\ k + 1 \in 0..n /\ k \in Nat /\ k < n
      BY <1>1, <2>4
    <3>2. parts[p + 1] = v[k + 1] /\ v[k + 1] # <<>>
      BY <2>4, <3>1 DEF n
    <3>3. kept[p + 1] = <<v[k + 1]>>
      BY <1>3, <2>1, <3>2
    <3>4. Joined(kept, p + 1) = SubSeq(v, 1, k + 1)
      <4>1. SubSeq(v, 1, k) \o <<v[k + 1]>> = SubSeq(v, 1, k + 1)
        BY <3>1, OneMore DEF n
      <4> QED
        BY <2>2, <2>3, <3>3, <4>1
    <3>5. k + 1 = n \/ p + 1 < m[(k + 1) + 1]
      <4>1. CASE k + 1 # n
        <5>1. (k + 1) + 1 \in 1..n /\ k + 1 < (k + 1) + 1
          BY <1>1, <3>1, <4>1
        <5> QED
          BY <2>4, <3>1, <5>1 DEF n
      <4> QED
        BY <4>1
    <3>6. m[k + 1] <= p + 1
      BY <2>1, <2>4
    <3>7. Done(p + 1, k + 1)
      BY <3>4, <3>5, <3>6
    <3> HIDE DEF Done
    <3> QED
      BY <3>1, <3>7
  <2>5. CASE k = n \/ m[k + 1] # p + 1
    <3>1. k = n \/ p + 1 < m[k + 1]
      <4>1. CASE k # n
        <5>1. k + 1 \in 1..n
          BY <1>1, <4>1
        <5>2. m[k + 1] \in Nat
          BY <1>1, <1>5, <5>1
        <5> QED
          BY <2>1, <2>2, <2>5, <4>1, <5>2
      <4> QED
        BY <4>1
    <3>2. ASSUME NEW x \in 1..n
          PROVE  p + 1 # m[x]
      <4>1. m[x] \in Nat
        BY <1>1, <1>5
      <4>2. CASE x <= k
        <5>1. k \in 1..n /\ (x < k \/ x = k)
          BY <1>1, <4>2
        <5>2. m[k] \in Nat /\ (m[x] < m[k] \/ m[x] = m[k])
          BY <1>1, <1>5, <5>1 DEF n
        <5>3. m[k] <= p
          BY <2>2, <5>1
        <5> QED
          BY <2>1, <4>1, <5>2, <5>3
      <4>3. CASE ~(x <= k)
        <5>1. k # n /\ k + 1 \in 1..n /\ (k + 1 < x \/ x = k + 1)
          BY <1>1, <4>3
        <5>2. m[k + 1] \in Nat /\ (m[k + 1] < m[x] \/ m[x] = m[k + 1])
          BY <1>1, <1>5, <5>1 DEF n
        <5>3. p + 1 < m[k + 1]
          BY <3>1, <5>1
        <5> QED
          BY <2>1, <4>1, <5>2, <5>3
      <4> QED
        BY <4>2, <4>3
    <3>3. kept[p + 1] = <<>>
      <4>1. parts[p + 1] = <<>>
        BY <2>1, <3>2 DEF n, all
      <4> QED
        BY <1>3, <2>1, <4>1
    <3>4. Joined(kept, p + 1) = SubSeq(v, 1, k)
      <4>1. Joined(kept, p) \in Seq(Seq(S))
        <5>1. p \in 0..Len(kept)
          BY <1>1, <1>2, <2>1
        <5> QED
          BY <1>2, <5>1, JoinedSteps
      <4>2. Joined(kept, p) \o <<>> = Joined(kept, p)
        BY <4>1, ConcatEmptySeq
      <4> QED
        BY <2>2, <2>3, <3>3, <4>2
    <3>5. k = 0 \/ m[k] <= p + 1
      <4>1. CASE k # 0
        <5>1. k \in 1..n
          BY <1>1, <4>1
        <5>2. m[k] \in Nat /\ m[k] <= p
          BY <1>1, <1>5, <2>2, <4>1, <5>1
        <5> QED
          BY <2>1, <5>2
      <4> QED
        BY <4>1
    <3>6. Done(p + 1, k)
      BY <3>1, <3>4, <3>5
    <3> HIDE DEF Done
    <3> QED
      BY <3>6
  <2> QED
    BY <2>4, <2>5
<1>9. all \in T
  <2>1. T \in SUBSET Nat
    OBVIOUS
  <2> HIDE DEF T
  <2>2. T = Nat
    BY <1>7, <1>8, <2>1, Every
  <2> QED
    BY <1>1, <2>2
<1>10. PICK k \in 0..n : Done(all, k)
  <2> HIDE DEF Done
  <2> QED
    BY <1>1, <1>9
<1>11. k = n
  <2>1. CASE k # n
    <3>1. k + 1 \in 1..n
      BY <1>1, <2>1
    <3>2. m[k + 1] \in 1..all /\ all < m[k + 1]
      BY <1>5, <1>10, <2>1, <3>1
    <3> QED
      BY <1>1, <3>2
  <2> QED
    BY <2>1
<1>12. SubSeq(v, 1, n) = v
  BY <1>1 DEF n
<1> QED
  BY <1>4, <1>6, <1>10, <1>11, <1>12

-----------------------------------------------------------------------------
(* Units behind start codes. *)

\* What a decoder may rely on in a NAL unit.
Clean(nal) ==
  /\ nal \in Seq(Byte) /\ nal # <<>> /\ nal[1] # 0 /\ nal[Len(nal)] # 0
  /\ StartCodes(nal) = {}

\* The units lie one after the other in bytes, unit k behind a start code of code[k] bytes at
\* from[k], and zeros follow the last one.
Laid(bytes, unit, from, code) ==
  /\ bytes \in Seq(Byte) /\ unit \in Seq(Seq(Byte)) /\ unit # <<>>
  /\ from \in [1..Len(unit) + 1 -> Nat] /\ code \in [1..Len(unit) -> {3, 4}]
  /\ from[1] = 1 /\ from[Len(unit) + 1] <= Len(bytes) + 1
  /\ \A k \in 1..Len(unit) :
       /\ Clean(unit[k])
       /\ from[k + 1] = from[k] + code[k] + Len(unit[k])
       /\ \A j \in 0..code[k] - 1 : bytes[from[k] + j] = IF j = code[k] - 1 THEN 1 ELSE 0
       /\ \A j \in 1..Len(unit[k]) : bytes[from[k] + code[k] + j - 1] = unit[k][j]
  /\ \A i \in from[Len(unit) + 1]..Len(bytes) : bytes[i] = 0

\* No start code begins inside a unit that has none, nor reaches across its end.
LEMMA NoCode ==
  ASSUME NEW nal, Clean(nal)
  PROVE  /\ nal \in Seq(Byte) /\ Len(nal) \in Nat \ {0}
         /\ \A i \in 1..Len(nal) : ~ShortAt(nal, i)
<1>1. nal \in Seq(Byte) /\ Len(nal) \in Nat
  BY LenProperties DEF Clean
<1>2. Len(nal) # 0
  BY <1>1, EmptySeq DEF Clean
<1>3. ASSUME NEW i \in 1..Len(nal)
      PROVE  ~ShortAt(nal, i)
  BY <1>1, PrefixIs DEF Clean
<1> QED
  BY <1>1, <1>2, <1>3

\* Where the parts of such a buffer are.
LEMMA LaidType ==
  ASSUME NEW bytes, NEW unit, NEW from, NEW code, Laid(bytes, unit, from, code)
  PROVE  /\ bytes \in Seq(Byte) /\ Len(bytes) \in Nat /\ Len(unit) \in Nat \ {0}
         /\ \A k \in 1..Len(unit) + 1 : from[k] \in Nat \ {0} /\ from[k] <= Len(bytes) + 1
         /\ \A k \in 1..Len(unit) : code[k] \in {3, 4} /\ Len(unit[k]) \in Nat \ {0}
         /\ \A x, y \in 1..Len(unit) + 1 : x < y => from[x] < from[y]
<1>1. bytes \in Seq(Byte) /\ Len(bytes) \in Nat /\ Len(unit) \in Nat
  BY LenProperties DEF Laid
<1>2. Len(unit) # 0
  BY EmptySeq DEF Laid
<1>3. \A k \in 1..Len(unit) : code[k] \in {3, 4} /\ Len(unit[k]) \in Nat \ {0}
  BY NoCode DEF Laid
<1>4. from \in [1..Len(unit) + 1 -> Nat] /\ from[1] = 1 /\ from[Len(unit) + 1] <= Len(bytes) + 1
  BY DEF Laid
<1>5. \A k \in 1..Len(unit) : from[k + 1] = from[k] + code[k] + Len(unit[k])
  BY DEF Laid
<1>6. \A k \in 1..(Len(unit) + 1) - 1 : from[k] < from[k + 1]
  <2>1. ASSUME NEW k \in 1..Len(unit)
        PROVE  from[k] < from[k + 1]
    <3>1. from[k] \in Nat
      BY <1>1, <1>4
    <3>2. code[k] \in Nat /\ Len(unit[k]) \in Nat /\ code[k] > 0
      BY <1>3
    <3> QED
      BY <1>5, <3>1, <3>2
  <2> QED
    BY <1>1, <2>1
<1>7. \A x, y \in 1..Len(unit) + 1 : x < y => from[x] < from[y]
  <2> DEFINE n == Len(unit) + 1
  <2>1. n \in Nat /\ from \in [1..n -> Nat] /\ \A k \in 1..n - 1 : from[k] < from[k + 1]
    BY <1>1, <1>4, <1>6
  <2> HIDE DEF n
  <2>2. \A x, y \in 1..n : x < y => from[x] < from[y]
    BY <2>1, Rising
  <2> QED
    BY <2>2 DEF n
<1>8. ASSUME NEW k \in 1..Len(unit) + 1
      PROVE  from[k] \in Nat \ {0} /\ from[k] <= Len(bytes) + 1
  <2>1. from[k] \in Nat /\ from[1] \in Nat /\ from[Len(unit) + 1] \in Nat
    BY <1>1, <1>4
  <2>2. from[k] = 1 \/ from[1] < from[k]
    <3>1. k = 1 \/ 1 < k
      BY <1>1
    <3> QED
      BY <1>1, <1>4, <1>7, <3>1
  <2>3. from[k] = from[Len(unit) + 1] \/ from[k] < from[Len(unit) + 1]
    <3>1. k = Len(unit) + 1 \/ k < Len(unit) + 1
      BY <1>1
    <3> QED
      BY <1>1, <1>7, <3>1
  <2> QED
    BY <1>1, <1>4, <2>1, <2>2, <2>3
<1> QED
  BY <1>1, <1>2, <1>3, <1>7, <1>8

\* A short start code in the buffer is the last three bytes of one that was put there.
LEMMA LaidShort ==
  ASSUME NEW bytes, NEW unit, NEW from, NEW code, Laid(bytes, unit, from, code),
         NEW k \in 1..Len(unit), NEW i \in Nat, from[k] <= i, i < from[k + 1]
  PROVE  /\ ShortAt(bytes, i) <=> i = from[k] + code[k] - 3
         /\ i + 1 = from[k + 1] => bytes[i] # 0
<1> DEFINE f == from[k]
           c == code[k]
           nal == unit[k]
           size == Len(nal)
<1>1. /\ Len(bytes) \in Nat /\ f \in Nat \ {0} /\ c \in {3, 4} /\ size \in Nat \ {0}
      /\ from[k + 1] <= Len(bytes) + 1
  <2>1. k \in 1..Len(unit) + 1 /\ k + 1 \in 1..Len(unit) + 1
    BY LaidType
  <2> QED
    BY <2>1, LaidType
<1>2. /\ from[k + 1] = f + c + size /\ Clean(nal)
      /\ \A j \in 0..c - 1 : bytes[f + j] = IF j = c - 1 THEN 1 ELSE 0
      /\ \A j \in 1..size : bytes[f + c + j - 1] = nal[j]
  BY DEF Laid
<1>3. nal \in Seq(Byte) /\ nal[1] # 0 /\ nal[size] # 0 /\ \A j \in 1..size : ~ShortAt(nal, j)
  BY <1>2, NoCode DEF Clean
<1> HIDE DEF f, c, nal, size
<1>4. i < f + c + size /\ f <= i /\ f + c + size <= Len(bytes) + 1
  BY <1>1, <1>2 DEF f
<1>5. CASE i <= f + c - 1
  <2> DEFINE j == i - f
  <2>1. j \in 0..c - 1 /\ i = f + j
    BY <1>1, <1>4, <1>5
  <2> HIDE DEF j
  <2>2. CASE j = c - 3
    <3>1. j + 1 \in 0..c - 1 /\ j + 2 \in 0..c - 1 /\ j + 2 = c - 1 /\ j # c - 1 /\ j + 1 # c - 1
      BY <1>1, <2>2
    <3>2. bytes[i] = 0
      BY <1>2, <2>1, <3>1
    <3>3. bytes[i + 1] = 0
      <4>1. i + 1 = f + (j + 1)
        BY <1>1, <2>1
      <4> QED
        BY <1>2, <3>1, <4>1
    <3>4. bytes[i + 2] = 1
      <4>1. i + 2 = f + (j + 2)
        BY <1>1, <2>1
      <4> QED
        BY <1>2, <3>1, <4>1
    <3>5. i + 2 <= Len(bytes) /\ i = f + c - 3 /\ i + 1 # f + c + size
      BY <1>1, <1>4, <2>1, <2>2
    <3> QED
      BY <1>2, <3>2, <3>3, <3>4, <3>5 DEF ShortAt, f, c
  <2>3. CASE j # c - 3
    <3>1. i # f + c - 3 /\ i + 1 # f + c + size
      BY <1>1, <1>5, <2>1, <2>3
    <3>2. ~ShortAt(bytes, i)
      <4>1. CASE j = c - 4
        <5>1. j + 2 \in 0..c - 1 /\ j + 2 # c - 1 /\ i + 2 = f + (j + 2)
          BY <1>1, <2>1, <4>1
        <5>2. bytes[i + 2] = 0
          BY <1>2, <5>1
        <5> QED
          BY <5>2 DEF ShortAt
      <4>2. CASE j = c - 2
        <5>1. j + 1 \in 0..c - 1 /\ j + 1 = c - 1 /\ i + 1 = f + (j + 1)
          BY <1>1, <2>1, <4>2
        <5>2. bytes[i + 1] = 1
          BY <1>2, <5>1
        <5> QED
          BY <5>2 DEF ShortAt
      <4>3. CASE j = c - 1
        <5>1. bytes[i] = 1
          BY <1>2, <2>1, <4>3
        <5> QED
          BY <5>1 DEF ShortAt
      <4>4. j = c - 4 \/ j = c - 2 \/ j = c - 1
        BY <1>1, <2>1, <2>3
      <4> QED
        BY <4>1, <4>2, <4>3, <4>4
    <3> QED
      BY <1>2, <3>1, <3>2 DEF f, c
  <2> QED
    BY <2>2, <2>3
<1>6. CASE ~(i <= f + c - 1)
  <2> DEFINE j == i - f - c + 1
  <2>1. j \in 1..size /\ i = f + c + j - 1
    BY <1>1, <1>4, <1>6
  <2> HIDE DEF j
  <2>2. bytes[i] = nal[j]
    BY <1>2, <2>1
  <2>3. i # f + c - 3
    BY <1>1, <1>6
  <2>4. i + 1 = f + c + size => bytes[i] # 0
    <3>1. i + 1 = f + c + size => j = size
      BY <1>1, <2>1
    <3> QED
      BY <1>3, <2>2, <3>1
  <2>5. ~ShortAt(bytes, i)
    <3>1. CASE j + 2 <= size
      <4>1. /\ j + 1 \in 1..size /\ j + 2 \in 1..size
            /\ i + 1 = f + c + (j + 1) - 1 /\ i + 2 = f + c + (j + 2) - 1
        BY <1>1, <2>1, <3>1
      <4>2. bytes[i + 1] = nal[j + 1] /\ bytes[i + 2] = nal[j + 2]
        BY <1>2, <4>1
      <4>3. ~ShortAt(nal, j)
        BY <1>3, <2>1
      <4> QED
        BY <2>2, <3>1, <4>2, <4>3 DEF ShortAt, size
    <3>2. CASE j + 1 = size
      <4>1. j + 1 \in 1..size /\ i + 1 = f + c + (j + 1) - 1
        BY <1>1, <2>1, <3>2
      <4>2. bytes[i + 1] = nal[size]
        BY <1>2, <3>2, <4>1
      <4> QED
        BY <1>3, <4>2 DEF ShortAt
    <3>3. CASE j = size
      BY <1>3, <2>2, <3>3 DEF ShortAt
    <3>4. j + 2 <= size \/ j + 1 = size \/ j = size
      BY <1>1, <2>1
    <3> QED
      BY <3>1, <3>2, <3>3, <3>4
  <2> QED
    BY <1>2, <2>3, <2>4, <2>5 DEF f, c
<1> QED
  BY <1>5, <1>6

\* So each is at its unit.
LEMMA LaidWhere ==
  ASSUME NEW bytes, NEW unit, NEW from, NEW code, Laid(bytes, unit, from, code),
         NEW i \in 1..Len(bytes)
  PROVE  \/ \E k \in 1..Len(unit) : from[k] <= i /\ i < from[k + 1]
         \/ i >= from[Len(unit) + 1] /\ ~ShortAt(bytes, i)
<1> DEFINE n == Len(unit)
           T == {k \in 1..n + 1 : i < from[k]}
<1>1. /\ Len(bytes) \in Nat /\ n \in Nat \ {0} /\ i \in Nat \ {0}
      /\ \A k \in 1..n + 1 : from[k] \in Nat \ {0}
  BY LaidType
<1>2. CASE T # {}
  <2>1. T \in SUBSET Nat
    BY <1>1
  <2>2. PICK k \in T : \A m \in T : k <= m
    <3> HIDE DEF T
    <3> QED
      BY <1>2, <2>1, Least
  <2>3. k # 1
    <3>1. from[1] = 1
      BY DEF Laid
    <3> QED
      BY <1>1, <2>2, <3>1
  <2>4. k - 1 \in 1..n /\ k - 1 \in 1..n + 1 /\ ~(k <= k - 1) /\ (k - 1) + 1 = k
    BY <1>1, <2>2, <2>3
  <2>5. ~(i < from[k - 1])
    BY <2>2, <2>4
  <2>6. from[k - 1] <= i /\ i < from[(k - 1) + 1]
    BY <1>1, <2>2, <2>4, <2>5
  <2> QED
    BY <2>4, <2>6
<1>3. CASE T = {}
  <2>1. n + 1 \in 1..n + 1
    BY <1>1
  <2>2. i >= from[n + 1]
    BY <1>1, <1>3, <2>1
  <2>3. ASSUME ShortAt(bytes, i)
        PROVE  FALSE
    <3>1. i + 2 <= Len(bytes) /\ bytes[i + 2] = 1
      BY <2>3 DEF ShortAt
    <3>2. i + 2 \in from[n + 1]..Len(bytes)
      BY <1>1, <2>1, <2>2, <3>1
    <3>3. bytes[i + 2] = 0
      BY <3>2 DEF Laid
    <3> QED
      BY <3>1, <3>3
  <2> QED
    BY <2>2, <2>3
<1> QED
  BY <1>2, <1>3

\* And a long start code is one that was put there as well.
LEMMA LaidLong ==
  ASSUME NEW bytes, NEW unit, NEW from, NEW code, Laid(bytes, unit, from, code),
         NEW k \in 1..Len(unit), NEW i \in Nat, from[k] <= i, i < from[k + 1]
  PROVE  LongAt(bytes, i) <=> code[k] = 4 /\ i = from[k]
<1>1. /\ Len(bytes) \in Nat /\ from[k] \in Nat \ {0} /\ code[k] \in {3, 4}
      /\ Len(unit[k]) \in Nat \ {0} /\ from[k + 1] \in Nat \ {0} /\ from[k + 1] <= Len(bytes) + 1
  <2>1. k \in 1..Len(unit) + 1 /\ k + 1 \in 1..Len(unit) + 1
    BY LaidType
  <2> QED
    BY <2>1, LaidType
<1>2. /\ from[k + 1] = from[k] + code[k] + Len(unit[k])
      /\ \A j \in 0..code[k] - 1 : bytes[from[k] + j] = IF j = code[k] - 1 THEN 1 ELSE 0
  BY DEF Laid
<1>3. CASE i + 1 < from[k + 1]
  <2>1. i + 1 \in Nat /\ from[k] <= i + 1
    BY <1>1
  <2>2. ShortAt(bytes, i + 1) <=> i + 1 = from[k] + code[k] - 3
    BY <1>3, <2>1, LaidShort
  <2>3. i + 1 = from[k] + code[k] - 3 <=> code[k] = 4 /\ i = from[k]
    BY <1>1
  <2>4. code[k] = 4 /\ i = from[k] => bytes[i] = 0 /\ i + 3 <= Len(bytes)
    <3>1. ASSUME code[k] = 4, i = from[k]
          PROVE  bytes[i] = 0 /\ i + 3 <= Len(bytes)
      <4>1. 0 \in 0..code[k] - 1 /\ 0 # code[k] - 1 /\ from[k] + 0 = i
        BY <1>1, <3>1
      <4>2. bytes[from[k] + 0] = 0
        BY <1>2, <4>1
      <4>3. \A f, g, c, size, len \in Nat : c = 4 /\ g = f + c + size /\ g <= len + 1 => f + 3 <= len
        OBVIOUS
      <4>4. i + 3 <= Len(bytes)
        <5>1. from[k + 1] = from[k] + code[k] + Len(unit[k])
          BY <1>2
        <5>2. from[k] \in Nat /\ from[k + 1] \in Nat /\ code[k] \in Nat /\ Len(unit[k]) \in Nat
          BY <1>1
        <5> QED
          BY <1>1, <3>1, <4>3, <5>1, <5>2
      <4> QED
        BY <4>1, <4>2, <4>4
    <3> QED
      BY <3>1
  <2>5. LongAt(bytes, i) <=> i + 3 <= Len(bytes) /\ bytes[i] = 0 /\ ShortAt(bytes, i + 1)
    BY DEF LongAt
  <2> QED
    BY <2>2, <2>3, <2>4, <2>5, Zenon
<1>4. CASE i + 1 = from[k + 1]
  <2>1. bytes[i] # 0
    BY <1>4, LaidShort
  <2>2. i # from[k]
    BY <1>1, <1>2, <1>4
  <2> QED
    BY <2>1, <2>2 DEF LongAt
<1> QED
  BY <1>1, <1>3, <1>4

\* The start codes of the buffer are those in front of its units, and no others.
LEMMA LaidCodes ==
  ASSUME NEW bytes, NEW unit, NEW from, NEW code, Laid(bytes, unit, from, code)
  PROVE  /\ \A i \in 1..Len(bytes) :
              i \in StartCodes(bytes) <=>
                \E k \in 1..Len(unit) : i = from[k] \/ i = from[k] + code[k] - 3
         /\ \A k \in 1..Len(unit) :
              /\ from[k] \in 1..Len(bytes) /\ from[k] + code[k] - 3 \in 1..Len(bytes)
              /\ PrefixAt(bytes, from[k]) = code[k]
              /\ PrefixAt(bytes, from[k] + code[k] - 3) = IF code[k] = 4 THEN 3 ELSE code[k]
              /\ k # 1 => PrefixAt(bytes, from[k] - 1) = 0
<1>1. /\ bytes \in Seq(Byte) /\ Len(bytes) \in Nat /\ Len(unit) \in Nat \ {0}
      /\ \A k \in 1..Len(unit) + 1 : from[k] \in Nat \ {0} /\ from[k] <= Len(bytes) + 1
      /\ \A k \in 1..Len(unit) : code[k] \in {3, 4} /\ Len(unit[k]) \in Nat \ {0}
  BY LaidType
<1>2. \A k \in 1..Len(unit) : from[k + 1] = from[k] + code[k] + Len(unit[k])
  BY DEF Laid
<1>3. ASSUME NEW k \in 1..Len(unit)
      PROVE  /\ k \in 1..Len(unit) + 1 /\ k + 1 \in 1..Len(unit) + 1
             /\ from[k] \in Nat \ {0} /\ from[k + 1] \in Nat /\ code[k] \in {3, 4}
             /\ from[k] + code[k] - 3 \in Nat /\ from[k] <= from[k] + code[k] - 3
             /\ from[k] + code[k] - 3 < from[k + 1] /\ from[k] < from[k + 1]
             /\ from[k] \in 1..Len(bytes) /\ from[k] + code[k] - 3 \in 1..Len(bytes)
  <2>1. k \in 1..Len(unit) + 1 /\ k + 1 \in 1..Len(unit) + 1
    BY <1>1
  <2>2. /\ from[k] \in Nat \ {0} /\ from[k + 1] \in Nat /\ from[k + 1] <= Len(bytes) + 1
        /\ code[k] \in {3, 4} /\ Len(unit[k]) \in Nat \ {0}
    BY <1>1, <2>1
  <2>3. from[k + 1] = from[k] + code[k] + Len(unit[k])
    BY <1>2
  <2>4. Len(bytes) \in Nat
    BY <1>1
  <2>5. \A f, g, c, size, all \in Nat : f # 0 /\ (c = 3 \/ c = 4) /\ size # 0 /\ g <= all + 1 /\ g = f + c + size =>
          /\ f + c - 3 \in Nat /\ f <= f + c - 3 /\ f + c - 3 < g /\ f < g
          /\ f \in 1..all /\ f + c - 3 \in 1..all
    OBVIOUS
  <2> QED
    BY <2>1, <2>2, <2>3, <2>4, <2>5
<1>4. ASSUME NEW i \in 1..Len(bytes)
      PROVE  i \in StartCodes(bytes) <=>
               \E k \in 1..Len(unit) : i = from[k] \/ i = from[k] + code[k] - 3
  <2>1. i \in StartCodes(bytes) <=> LongAt(bytes, i) \/ ShortAt(bytes, i)
    BY <1>1, PrefixIs
  <2>2. i \in Nat
    BY <1>1
  <2>3. ASSUME LongAt(bytes, i) \/ ShortAt(bytes, i)
        PROVE  \E k \in 1..Len(unit) : i = from[k] \/ i = from[k] + code[k] - 3
    <3>1. CASE \E k \in 1..Len(unit) : from[k] <= i /\ i < from[k + 1]
      <4>1. PICK k \in 1..Len(unit) : from[k] <= i /\ i < from[k + 1]
        BY <3>1
      <4>2. LongAt(bytes, i) <=> code[k] = 4 /\ i = from[k]
        BY <2>2, <4>1, LaidLong
      <4>3. ShortAt(bytes, i) <=> i = from[k] + code[k] - 3
        BY <2>2, <4>1, LaidShort
      <4> QED
        BY <2>3, <4>2, <4>3
    <3>2. CASE i >= from[Len(unit) + 1] /\ ~ShortAt(bytes, i)
      <4>1. LongAt(bytes, i) /\ ShortAt(bytes, i + 1) /\ i + 3 <= Len(bytes)
        BY <2>3, <3>2 DEF LongAt
      <4>2. Len(unit) + 1 \in 1..Len(unit) + 1
        BY <1>1
      <4>3. i + 1 \in 1..Len(bytes) /\ i + 1 > from[Len(unit) + 1]
        BY <1>1, <2>2, <3>2, <4>1, <4>2
      <4>4. PICK k \in 1..Len(unit) : i + 1 < from[k + 1]
        BY <4>1, <4>3, LaidWhere
      <4>5. from[k + 1] <= from[Len(unit) + 1]
        <5>1. k + 1 \in 1..Len(unit) + 1 /\ (k + 1 = Len(unit) + 1 \/ k + 1 < Len(unit) + 1)
          BY <1>1
        <5>2. from[k + 1] = from[Len(unit) + 1] \/ from[k + 1] < from[Len(unit) + 1]
          BY <4>2, <5>1, LaidType
        <5>3. from[k + 1] \in Nat /\ from[Len(unit) + 1] \in Nat
          BY <1>1, <4>2, <5>1
        <5> QED
          BY <5>2, <5>3
      <4>6. from[k + 1] \in Nat /\ from[Len(unit) + 1] \in Nat
        BY <1>1, <1>3, <4>2
      <4> QED
        BY <2>2, <4>3, <4>4, <4>5, <4>6
    <3> QED
      BY <3>1, <3>2, LaidWhere
  <2>4. ASSUME NEW k \in 1..Len(unit), i = from[k] \/ i = from[k] + code[k] - 3
        PROVE  LongAt(bytes, i) \/ ShortAt(bytes, i)
    <3>1. from[k] <= i /\ i < from[k + 1] /\ (code[k] # 4 => i = from[k] + code[k] - 3)
      BY <1>3, <2>4
    <3>2. LongAt(bytes, i) <=> code[k] = 4 /\ i = from[k]
      BY <2>2, <3>1, LaidLong
    <3>3. ShortAt(bytes, i) <=> i = from[k] + code[k] - 3
      BY <2>2, <3>1, LaidShort
    <3> QED
      BY <2>4, <3>1, <3>2, <3>3
  <2> QED
    BY <2>1, <2>3, <2>4
<1>5. ASSUME NEW k \in 1..Len(unit)
      PROVE  /\ PrefixAt(bytes, from[k]) = code[k]
             /\ PrefixAt(bytes, from[k] + code[k] - 3) = IF code[k] = 4 THEN 3 ELSE code[k]
  <2> DEFINE s == from[k] + code[k] - 3
  <2>1. /\ from[k] \in Nat /\ s \in Nat /\ from[k] <= s /\ s < from[k + 1] /\ from[k] < from[k + 1]
        /\ from[k] \in 1..Len(bytes) /\ s \in 1..Len(bytes) /\ from[k] <= from[k]
    BY <1>3
  <2>2. /\ LongAt(bytes, from[k]) <=> code[k] = 4
        /\ ShortAt(bytes, from[k]) <=> from[k] = s
        /\ LongAt(bytes, s) <=> code[k] = 4 /\ s = from[k]
        /\ ShortAt(bytes, s)
    BY <2>1, LaidLong, LaidShort
  <2>3. code[k] = 3 => s = from[k]
    BY <1>3
  <2>4. code[k] = 4 => s # from[k]
    BY <1>3
  <2> HIDE DEF s
  <2>5. PrefixAt(bytes, from[k]) = IF LongAt(bytes, from[k]) THEN 4
                                   ELSE IF ShortAt(bytes, from[k]) THEN 3 ELSE 0
    BY <1>1, <2>1, PrefixIs
  <2>6. PrefixAt(bytes, s) = IF LongAt(bytes, s) THEN 4 ELSE IF ShortAt(bytes, s) THEN 3 ELSE 0
    BY <1>1, <2>1, PrefixIs
  <2>7. PrefixAt(bytes, from[k]) = code[k] /\ PrefixAt(bytes, s) = IF code[k] = 4 THEN 3 ELSE code[k]
    BY <1>3, <2>2, <2>3, <2>4, <2>5, <2>6
  <2> QED
    BY <2>7 DEF s
<1>6. ASSUME NEW k \in 1..Len(unit), k # 1
      PROVE  PrefixAt(bytes, from[k] - 1) = 0
  <2> DEFINE i == from[k] - 1
  <2>1. k - 1 \in 1..Len(unit) /\ (k - 1) + 1 = k
    BY <1>1, <1>6
  <2>2. i \in Nat /\ from[k - 1] <= i /\ i < from[(k - 1) + 1] /\ i + 1 = from[(k - 1) + 1]
          /\ i \in 1..Len(bytes)
    <3>1. /\ from[k] \in Nat \ {0} /\ from[k] \in 1..Len(bytes)
          /\ from[k - 1] \in Nat \ {0} /\ from[k - 1] < from[(k - 1) + 1]
      BY <1>3, <2>1
    <3> QED
      BY <1>1, <2>1, <3>1
  <2> HIDE DEF i
  <2>3. bytes[i] # 0
    BY <2>1, <2>2, LaidShort
  <2>4. PrefixAt(bytes, i) = 0
    BY <1>1, <2>2, <2>3, PrefixIs DEF ShortAt, LongAt
  <2> QED
    BY <2>4, Zenon DEF i
<1> QED
  BY <1>3, <1>4, <1>5, <1>6

-----------------------------------------------------------------------------
(* The pieces between start codes. *)

\* The bytes between the start code of unit k and what follows it.
Piece(bytes, unit, from, code, k) ==
  SubSeq(bytes, from[k] + code[k], IF k = Len(unit) THEN Len(bytes) ELSE from[k + 1] - 1)

\* The marks that a platform goes by: all at the start codes, and m[k] the one that leads to
\* unit k; a long code may be marked twice.
Marked(bytes, unit, from, code, marks, m) ==
  /\ marks \in SUBSET (1..Len(bytes)) /\ m \in [1..Len(unit) -> marks]
  /\ \A k \in 1..Len(unit) :
       /\ from[k] \in marks
       /\ m[k] + PrefixAt(bytes, m[k]) = from[k] + code[k]
       /\ m[k] = from[k] \/ (m[k] = from[k] + 1 /\ PrefixAt(bytes, from[k]) = 4)
  /\ \A x \in marks : \E k \in 1..Len(unit) : x = from[k] \/ x = m[k]

\* A least element is the minimum.
LEMMA MinUnique ==
  ASSUME NEW T \in SUBSET Nat, NEW x \in T, \A y \in T : x <= y
  PROVE  Min(T) = x
<1>1. Min(T) \in T /\ \A y \in T : Min(T) <= y
  BY MinIs
<1>2. Min(T) <= x /\ x <= Min(T) /\ Min(T) \in Nat /\ x \in Nat
  BY <1>1
<1> QED
  BY <1>2

\* What a piece consists of.
LEMMA PieceType ==
  ASSUME NEW bytes, NEW unit, NEW from, NEW code, Laid(bytes, unit, from, code),
         NEW k \in 1..Len(unit)
  PROVE  LET last == IF k = Len(unit) THEN Len(bytes) ELSE from[k + 1] - 1
             first == from[k] + code[k]
         IN  /\ Piece(bytes, unit, from, code, k) \in Seq(Byte)
             /\ Piece(bytes, unit, from, code, k) # <<>>
             /\ first \in Nat \ {0} /\ first <= last /\ last <= Len(bytes) /\ last \in Nat
             /\ Len(Piece(bytes, unit, from, code, k)) = last - first + 1
             /\ \A i \in 1..last - first + 1 :
                  Piece(bytes, unit, from, code, k)[i] = bytes[first + i - 1]
             /\ from[k] \in Nat \ {0} /\ from[k + 1] \in Nat
             /\ from[k + 1] = first + Len(unit[k]) /\ Len(unit[k]) \in Nat \ {0}
<1> DEFINE last == IF k = Len(unit) THEN Len(bytes) ELSE from[k + 1] - 1
           first == from[k] + code[k]
           part == SubSeq(bytes, first, last)
<1>1. /\ bytes \in Seq(Byte) /\ Len(bytes) \in Nat /\ Len(unit) \in Nat \ {0}
      /\ code[k] \in {3, 4} /\ Len(unit[k]) \in Nat \ {0}
  BY LaidType
<1>2. k \in 1..Len(unit) + 1 /\ k + 1 \in 1..Len(unit) + 1
  BY <1>1
<1>3. from[k] \in Nat \ {0} /\ from[k + 1] \in Nat \ {0} /\ from[k + 1] <= Len(bytes) + 1
  BY <1>2, LaidType
<1>4. from[k + 1] = first + Len(unit[k])
  BY DEF Laid
<1>5. first \in Nat \ {0} /\ first <= last /\ last <= Len(bytes) /\ last \in Nat
  <2>1. first \in Nat \ {0}
    BY <1>1, <1>3
  <2>2. last = Len(bytes) \/ last = from[k + 1] - 1
    OBVIOUS
  <2> HIDE DEF first, last
  <2> QED
    BY <1>1, <1>3, <1>4, <2>1, <2>2
<1> HIDE DEF first, last
<1>6. /\ part \in Seq(Byte) /\ Len(part) = last - first + 1
      /\ \A i \in 1..last - first + 1 : part[i] = bytes[first + i - 1]
  <2>1. last \in Int
    BY <1>5
  <2>2. /\ part \in Seq(Byte)
        /\ Len(part) = IF first <= last THEN last - first + 1 ELSE 0
        /\ \A i \in 1..last - first + 1 : part[i] = bytes[first + i - 1]
    BY <1>1, <1>5, <2>1, PartType
  <2> QED
    BY <1>5, <2>2
<1>7. part # <<>>
  <2>1. Len(part) # 0
    BY <1>5, <1>6
  <2>2. Len(<<>>) = 0
    OBVIOUS
  <2> QED
    BY <2>1, <2>2
<1>8. Piece(bytes, unit, from, code, k) = part
  BY DEF Piece, first, last
<1> HIDE DEF part
<1> QED
  BY <1>1, <1>3, <1>4, <1>5, <1>6, <1>7, <1>8 DEF first, last

\* The pieces between the marks are the units, with the zeros that follow them.
LEMMA LaidBetween ==
  ASSUME NEW bytes, NEW unit, NEW from, NEW code, Laid(bytes, unit, from, code),
         NEW marks, NEW m, Marked(bytes, unit, from, code, marks, m)
  PROVE  Between(bytes, marks) = [k \in 1..Len(unit) |-> Piece(bytes, unit, from, code, k)]
<1> DEFINE n == Len(unit)
           v == [k \in 1..n |-> Piece(bytes, unit, from, code, k)]
           After(i) == {j \in marks : j > i} \cup {Len(bytes) + 1}
           Cut(i) == SubSeq(bytes, i + PrefixAt(bytes, i), Min(After(i)) - 1)
           pieces == [i \in DOMAIN bytes |-> IF i \in marks THEN Cut(i) ELSE <<>>]
<1>1. /\ bytes \in Seq(Byte) /\ Len(bytes) \in Nat /\ DOMAIN bytes = 1..Len(bytes) /\ n \in Nat \ {0}
      /\ \A k \in 1..n + 1 : from[k] \in Nat \ {0} /\ from[k] <= Len(bytes) + 1
      /\ \A x, y \in 1..n + 1 : x < y => from[x] < from[y]
  BY LaidType, LenProperties
<1>2. /\ marks \subseteq 1..Len(bytes) /\ \A k \in 1..n : m[k] \in marks /\ from[k] \in marks
      /\ \A x \in marks : \E k \in 1..n : x = from[k] \/ x = m[k]
  BY DEF Marked
<1>3. \A k \in 1..n : /\ m[k] + PrefixAt(bytes, m[k]) = from[k] + code[k]
                      /\ m[k] = from[k] \/ (m[k] = from[k] + 1 /\ PrefixAt(bytes, from[k]) = 4)
  BY DEF Marked
<1>4. ASSUME NEW k \in 1..n
      PROVE  /\ from[k] \in Nat /\ from[k + 1] \in Nat /\ m[k] \in Nat
             /\ from[k] <= m[k] /\ m[k] <= from[k] + 1 /\ from[k] + 3 < from[k + 1]
             /\ k + 1 \in 1..n + 1 /\ k \in 1..n + 1
  <2>1. from[k] \in Nat /\ from[k + 1] \in Nat /\ from[k + 1] = from[k] + code[k] + Len(unit[k])
          /\ Len(unit[k]) \in Nat \ {0}
    BY PieceType
  <2>2. code[k] \in {3, 4}
    BY LaidType
  <2>3. m[k] = from[k] \/ m[k] = from[k] + 1
    BY <1>3
  <2>4. k + 1 \in 1..n + 1 /\ k \in 1..n + 1
    BY <1>1
  <2>5. \A f, g, c, size, p \in Nat :
          (c = 3 \/ c = 4) /\ size # 0 /\ g = f + c + size /\ (p = f \/ p = f + 1) =>
            f <= p /\ p <= f + 1 /\ f + 3 < g
    OBVIOUS
  <2>6. m[k] \in Nat
    BY <2>1, <2>3
  <2> QED
    BY <2>1, <2>2, <2>3, <2>4, <2>5, <2>6
<1>5. ASSUME NEW k \in 1..n
      PROVE  Min(After(m[k])) = IF k = n THEN Len(bytes) + 1 ELSE from[k + 1]
  <2> DEFINE next == IF k = n THEN Len(bytes) + 1 ELSE from[k + 1]
  <2>1. After(m[k]) \in SUBSET Nat
    <3>1. marks \subseteq Nat /\ Len(bytes) + 1 \in Nat
      BY <1>1, <1>2
    <3> QED
      BY <3>1
  <2>2. next \in After(m[k])
    <3>1. CASE k # n
      <4>1. k + 1 \in 1..n
        BY <1>1, <3>1
      <4>2. from[k + 1] \in marks
        BY <1>2, <4>1
      <4>3. from[k + 1] > m[k]
        <5>1. /\ from[k] \in Nat /\ from[k + 1] \in Nat /\ m[k] \in Nat
              /\ m[k] <= from[k] + 1 /\ from[k] + 3 < from[k + 1]
          BY <1>4
        <5> QED
          BY <5>1
      <4> QED
        BY <3>1, <4>2, <4>3
    <3> QED
      BY <3>1
  <2>3. ASSUME NEW x \in marks, x > m[k]
        PROVE  next <= x
    <3>1. PICK l \in 1..n : x = from[l] \/ x = m[l]
      BY <1>2
    <3>2. /\ from[l] \in Nat /\ m[l] \in Nat /\ from[l] <= m[l] /\ l \in 1..n + 1
          /\ m[l] <= from[l] + 1 /\ from[l + 1] \in Nat /\ from[l] + 3 < from[l + 1]
          /\ from[k] \in Nat /\ m[k] \in Nat /\ from[k + 1] \in Nat /\ from[k] <= m[k]
          /\ k + 1 \in 1..n + 1 /\ k \in 1..n + 1 /\ l + 1 \in 1..n + 1
      BY <1>4
    <3>3. l # k
      BY <2>3, <3>1, <3>2
    <3>4. ~(l < k)
      <4>1. CASE l < k
        <5>1. l + 1 = k \/ l + 1 < k
          BY <1>1, <4>1
        <5>2. from[l + 1] = from[k] \/ from[l + 1] < from[k]
          BY <1>1, <3>2, <5>1
        <5>3. m[k] < x /\ x <= m[l]
          BY <2>3, <3>1, <3>2
        <5>4. \A f, fn, fk, mk, ml, y \in Nat :
                 (fn = fk \/ fn < fk) /\ fk <= mk /\ ml <= f + 1 /\ f + 3 < fn /\ y <= ml => ~(mk < y)
          OBVIOUS
        <5>5. x \in Nat
          BY <3>1, <3>2
        <5> QED
          BY <3>2, <5>2, <5>3, <5>4, <5>5
      <4> QED
        BY <4>1
    <3>5. k < l /\ k # n
      BY <1>1, <3>3, <3>4
    <3>6. from[k + 1] <= x
      <4>1. k + 1 = l \/ k + 1 < l
        BY <1>1, <3>5
      <4>2. from[k + 1] = from[l] \/ from[k + 1] < from[l]
        BY <1>1, <3>2, <4>1
      <4>3. \A f, g, p, y \in Nat : (f = g \/ f < g) /\ g <= p /\ (y = g \/ y = p) => f <= y
        OBVIOUS
      <4>4. x \in Nat
        BY <3>1, <3>2
      <4> QED
        BY <3>1, <3>2, <4>2, <4>3, <4>4
    <3> QED
      BY <3>5, <3>6
  <2>4. next <= Len(bytes) + 1
    <3>1. from[k + 1] <= Len(bytes) + 1
      BY <1>1, <1>4
    <3> QED
      BY <1>1, <3>1
  <2>5. \A y \in After(m[k]) : next <= y
    BY <2>3, <2>4
  <2> HIDE DEF After, next
  <2>6. Min(After(m[k])) = next
    BY <2>1, <2>2, <2>5, MinUnique
  <2> QED
    BY <2>6 DEF next
<1>6. ASSUME NEW k \in 1..n, from[k] # m[k]
      PROVE  Min(After(from[k])) = from[k] + 1
  <2>1. m[k] = from[k] + 1 /\ m[k] \in marks /\ from[k] \in Nat
    BY <1>2, <1>3, <1>4, <1>6
  <2>2. After(from[k]) \in SUBSET Nat
    <3>1. marks \subseteq Nat /\ Len(bytes) + 1 \in Nat
      BY <1>1, <1>2
    <3> QED
      BY <3>1
  <2>3. from[k] + 1 \in After(from[k])
    BY <2>1
  <2>4. from[k] <= Len(bytes)
    BY <1>2, <2>1
  <2>5. \A y \in After(from[k]) : from[k] + 1 <= y
    BY <1>1, <1>2, <2>1, <2>4
  <2> HIDE DEF After
  <2> QED
    BY <2>2, <2>3, <2>5, MinUnique
<1>7. ASSUME NEW k \in 1..n
      PROVE  Cut(m[k]) = v[k] /\ v[k] \in Seq(Byte) /\ v[k] # <<>>
  <2> DEFINE last == IF k = n THEN Len(bytes) ELSE from[k + 1] - 1
  <2>1. v[k] = SubSeq(bytes, from[k] + code[k], last)
    BY DEF Piece
  <2>2. Min(After(m[k])) - 1 = last
    <3>1. from[k + 1] \in Nat
      BY <1>4
    <3> HIDE DEF After
    <3> QED
      BY <1>1, <1>5, <3>1
  <2>3. m[k] + PrefixAt(bytes, m[k]) = from[k] + code[k]
    BY <1>3
  <2>4. v[k] = Piece(bytes, unit, from, code, k)
    OBVIOUS
  <2>5. v[k] \in Seq(Byte) /\ v[k] # <<>>
    BY <2>4, PieceType
  <2> HIDE DEF After, last, v
  <2> QED
    BY <2>1, <2>2, <2>3, <2>5
<1>8. ASSUME NEW k \in 1..n, from[k] # m[k]
      PROVE  Cut(from[k]) = <<>>
  <2>1. PrefixAt(bytes, from[k]) = 4 /\ from[k] \in Nat
    BY <1>3, <1>4, <1>8
  <2>2. Min(After(from[k])) - 1 = from[k]
    <3>1. Min(After(from[k])) = from[k] + 1
      BY <1>6, <1>8
    <3> HIDE DEF After
    <3> QED
      BY <2>1, <3>1
  <2>3. Cut(from[k]) = SubSeq(bytes, from[k] + 4, from[k])
    <3> HIDE DEF After
    <3> QED
      BY <2>1, <2>2
  <2>4. from[k] <= Len(bytes) /\ from[k] + 4 \in Nat \ {0} /\ from[k] \in Int /\ ~(from[k] + 4 <= from[k])
    BY <1>2, <2>1
  <2>5. SubSeq(bytes, from[k] + 4, from[k]) \in Seq(Byte) /\ Len(SubSeq(bytes, from[k] + 4, from[k])) = 0
    BY <1>1, <2>4, PartType
  <2> QED
    BY <2>3, <2>5, EmptySeq
<1> HIDE DEF Cut
<1>9. ASSUME NEW x \in 1..Len(bytes)
      PROVE  pieces[x] \in Seq(Byte)
  <2>1. CASE x \in marks
    <3>1. PICK k \in 1..n : x = from[k] \/ x = m[k]
      BY <1>2, <2>1
    <3>2. pieces[x] = Cut(x)
      BY <1>1, <2>1
    <3>3. CASE x = m[k]
      BY <1>7, <3>2, <3>3
    <3>4. CASE x # m[k]
      <4>1. Cut(x) = <<>>
        BY <1>8, <3>1, <3>4
      <4> QED
        BY <3>2, <4>1, EmptySeq
    <3> QED
      BY <3>3, <3>4
  <2>2. CASE x \notin marks
    BY <1>1, <2>2, EmptySeq
  <2> QED
    BY <2>1, <2>2
<1>10. \A k \in 1..n : pieces[m[k]] = v[k]
  <2>1. ASSUME NEW k \in 1..n
        PROVE  pieces[m[k]] = v[k]
    <3>1. m[k] \in marks /\ m[k] \in DOMAIN bytes
      BY <1>1, <1>2
    <3>2. pieces[m[k]] = Cut(m[k])
      BY <3>1
    <3> QED
      BY <1>7, <3>2
  <2> QED
    BY <2>1
<1>11. \A x \in 1..Len(bytes) : (\A k \in 1..n : x # m[k]) => pieces[x] = <<>>
  <2>1. ASSUME NEW x \in 1..Len(bytes), \A k \in 1..n : x # m[k]
        PROVE  pieces[x] = <<>>
    <3>1. CASE x \in marks
      <4>1. PICK k \in 1..n : x = from[k]
        BY <1>2, <2>1, <3>1
      <4>2. Cut(x) = <<>>
        BY <1>8, <2>1, <4>1
      <4> QED
        BY <1>1, <3>1, <4>2
    <3>2. CASE x \notin marks
      BY <1>1, <3>2
    <3> QED
      BY <3>1, <3>2
  <2> QED
    BY <2>1
<1>12. \A k \in 1..n : v[k] \in Seq(Byte) /\ v[k] # <<>>
  BY <1>7
<1>13. DOMAIN v = 1..n /\ v = [k \in 1..n |-> v[k]]
  OBVIOUS
<1>14. DOMAIN pieces = 1..Len(bytes) /\ pieces = [x \in 1..Len(bytes) |-> pieces[x]]
  BY <1>1
<1>15. Between(bytes, marks) = NonEmpty(pieces)
  BY DEF Between, Cut
<1> HIDE DEF v, pieces
<1>16. v \in Seq(Seq(Byte)) /\ Len(v) = n
  BY <1>1, <1>12, <1>13, Listed
<1>17. pieces \in Seq(Seq(Byte)) /\ Len(pieces) = Len(bytes)
  BY <1>1, <1>9, <1>14, Listed
<1>18. m \in [1..n -> 1..Len(bytes)]
  BY <1>2 DEF Marked
<1>19. \A x, y \in 1..n : x < y => m[x] < m[y]
  <2>1. ASSUME NEW x \in 1..n, NEW y \in 1..n, x < y
        PROVE  m[x] < m[y]
    <3>1. /\ from[x] \in Nat /\ from[x + 1] \in Nat /\ m[x] \in Nat
          /\ m[x] <= from[x] + 1 /\ from[x] + 3 < from[x + 1] /\ x + 1 \in 1..n + 1
      BY <1>4
    <3>2. from[y] \in Nat /\ m[y] \in Nat /\ from[y] <= m[y] /\ y \in 1..n + 1
      BY <1>4
    <3>3. x + 1 = y \/ x + 1 < y
      BY <1>1, <2>1
    <3>4. from[x + 1] = from[y] \/ from[x + 1] < from[y]
      BY <1>1, <3>1, <3>2, <3>3
    <3>5. \A f, g, h, p, q \in Nat : p <= f + 1 /\ f + 3 < g /\ (g = h \/ g < h) /\ h <= q => p < q
      OBVIOUS
    <3> QED
      BY <3>1, <3>2, <3>4, <3>5
  <2> QED
    BY <2>1
<1> HIDE DEF n
<1>20. NonEmpty(pieces) = v
  <2>1. \A k \in 1..Len(v) : v[k] # <<>> /\ pieces[m[k]] = v[k]
    BY <1>10, <1>12, <1>16
  <2>2. m \in [1..Len(v) -> 1..Len(pieces)] /\ \A x, y \in 1..Len(v) : x < y => m[x] < m[y]
    BY <1>16, <1>17, <1>18, <1>19
  <2>3. \A x \in 1..Len(pieces) : (\A k \in 1..Len(v) : x # m[k]) => pieces[x] = <<>>
    BY <1>11, <1>16, <1>17
  <2> QED
    BY <1>16, <1>17, <2>1, <2>2, <2>3, Collects
<1> QED
  BY <1>15, <1>20 DEF v, n

\* Trimming takes the zeros from the end, and nothing else.
LEMMA TrimIs ==
  ASSUME NEW nal, Clean(nal), NEW piece \in Seq(Byte), Len(nal) <= Len(piece),
         \A i \in 1..Len(nal) : piece[i] = nal[i],
         \A i \in Len(nal) + 1..Len(piece) : piece[i] = 0
  PROVE  TrimZeros(piece) = nal
<1> DEFINE size == Len(nal)
           ends == {e \in 0..Len(piece) : \A i \in e + 1..Len(piece) : piece[i] = 0}
<1>1. nal \in Seq(Byte) /\ size \in Nat \ {0} /\ Len(piece) \in Nat /\ nal[size] # 0
  BY NoCode, LenProperties DEF Clean
<1> HIDE DEF size
<1>2. ends \in SUBSET Nat /\ size \in ends
  BY <1>1 DEF size
<1>3. ASSUME NEW e \in ends
      PROVE  size <= e
  <2>1. CASE e < size
    <3>1. e \in Nat /\ size \in e + 1..Len(piece) /\ size \in 1..size
      BY <1>1, <2>1 DEF size
    <3>2. piece[size] = 0
      BY <3>1
    <3>3. piece[size] = nal[size]
      BY <3>1 DEF size
    <3> QED
      BY <1>1, <3>2, <3>3
  <2>2. e \in Nat
    BY <1>1
  <2> QED
    BY <1>1, <2>1, <2>2
<1>4. TrimZeros(piece) = SubSeq(piece, 1, Min(ends))
  BY DEF TrimZeros
<1> HIDE DEF ends
<1>5. Min(ends) = size
  BY <1>2, <1>3, MinUnique
<1>6. /\ SubSeq(piece, 1, size) \in Seq(Byte) /\ Len(SubSeq(piece, 1, size)) = size
      /\ \A i \in 1..size : SubSeq(piece, 1, size)[i] = piece[i]
  <2>1. size \in 0..Len(piece)
    BY <1>1 DEF size
  <2> QED
    BY <2>1, FirstOnes
<1>7. SubSeq(piece, 1, size) = nal
  BY <1>1, <1>6, SeqEqual DEF size
<1> QED
  BY <1>4, <1>5, <1>7

\* A piece is its unit, and the zeros that follow it.
LEMMA PieceIs ==
  ASSUME NEW bytes, NEW unit, NEW from, NEW code, Laid(bytes, unit, from, code),
         NEW k \in 1..Len(unit)
  PROVE  LET piece == Piece(bytes, unit, from, code, k)
         IN  /\ piece \in Seq(Byte) /\ Len(unit[k]) <= Len(piece)
             /\ \A i \in 1..Len(unit[k]) : piece[i] = unit[k][i]
             /\ \A i \in Len(unit[k]) + 1..Len(piece) : piece[i] = 0
             /\ from[Len(unit) + 1] = Len(bytes) + 1 => piece = unit[k]
<1> DEFINE piece == Piece(bytes, unit, from, code, k)
           nal == unit[k]
           size == Len(nal)
           last == IF k = Len(unit) THEN Len(bytes) ELSE from[k + 1] - 1
           first == from[k] + code[k]
<1>1. /\ piece \in Seq(Byte)
      /\ first \in Nat \ {0} /\ first <= last /\ last <= Len(bytes) /\ last \in Nat
      /\ Len(piece) = last - first + 1
      /\ \A i \in 1..last - first + 1 : piece[i] = bytes[first + i - 1]
      /\ from[k + 1] \in Nat /\ from[k + 1] = first + size /\ size \in Nat \ {0}
  BY PieceType
<1>2. Len(unit) \in Nat \ {0} /\ Len(bytes) \in Nat
  BY LaidType
<1>3. from[k + 1] <= last + 1
  <2>1. CASE k = Len(unit)
    <3>1. from[Len(unit) + 1] <= Len(bytes) + 1
      BY DEF Laid
    <3> QED
      BY <2>1, <3>1
  <2>2. CASE k # Len(unit)
    BY <1>1, <2>2
  <2> QED
    BY <2>1, <2>2
<1>4. ASSUME k # Len(unit) \/ from[Len(unit) + 1] = Len(bytes) + 1
      PROVE  from[k + 1] = last + 1
  BY <1>1, <1>2, <1>4
<1>5. \A i \in from[Len(unit) + 1]..Len(bytes) : bytes[i] = 0
  BY DEF Laid
<1>6. \A j \in 1..size : bytes[first + j - 1] = nal[j]
  BY DEF Laid
<1>7. nal \in Seq(Byte)
  BY NoCode DEF Laid
<1>8. k = Len(unit) => last = Len(bytes)
  OBVIOUS
<1>9. last \in Nat /\ first \in Nat
  BY <1>1
<1> HIDE DEF piece, last, first, size, nal
<1>10. size <= Len(piece)
  BY <1>1, <1>3
<1>11. \A i \in 1..size : piece[i] = nal[i]
  <2>1. ASSUME NEW i \in 1..size
        PROVE  piece[i] = nal[i]
    <3>1. i \in 1..last - first + 1
      BY <1>1, <1>3
    <3> QED
      BY <1>1, <1>6, <3>1
  <2> QED
    BY <2>1
<1>12. \A i \in size + 1..Len(piece) : piece[i] = 0
  <2>1. ASSUME NEW i \in size + 1..Len(piece)
        PROVE  piece[i] = 0
    <3>1. i \in 1..last - first + 1 /\ first + i - 1 >= from[k + 1] /\ first + i - 1 <= last
            /\ first + i - 1 \in Nat
      BY <1>1
    <3>2. piece[i] = bytes[first + i - 1]
      BY <1>1, <3>1
    <3>3. k = Len(unit)
      <4>1. ~(from[k + 1] = last + 1)
        BY <1>1, <3>1
      <4> QED
        BY <1>4, <4>1
    <3>4. first + i - 1 \in from[Len(unit) + 1]..Len(bytes)
      BY <1>1, <1>2, <1>8, <3>1, <3>3
    <3> QED
      BY <1>5, <3>2, <3>4
  <2> QED
    BY <2>1
<1>13. ASSUME from[Len(unit) + 1] = Len(bytes) + 1
       PROVE  piece = nal
  <2>1. Len(piece) = size
    BY <1>1, <1>4, <1>13
  <2>2. \A i \in 1..Len(piece) : piece[i] = nal[i]
    BY <1>11, <2>1
  <2> QED
    BY <1>1, <1>7, <2>1, <2>2, SeqEqual DEF size
<1> QED
  BY <1>1, <1>10, <1>11, <1>12, <1>13 DEF piece, nal, size

\* split_h264 finds the units of an Annex B buffer.
LEMMA WindowsSplits ==
  ASSUME NEW bytes, NEW unit, NEW from, NEW code, Laid(bytes, unit, from, code),
         from[Len(unit) + 1] = Len(bytes) + 1
  PROVE  SplitWindows(bytes) = unit
<1> DEFINE n == Len(unit)
           marks == StartCodes(bytes)
           m == [k \in 1..n |-> from[k] + code[k] - 3]
<1>1. bytes \in Seq(Byte) /\ DOMAIN bytes = 1..Len(bytes) /\ n \in Nat \ {0} /\ unit \in Seq(Seq(Byte))
  BY LaidType, LenProperties DEF Laid
<1>2. /\ \A i \in 1..Len(bytes) : i \in marks <=> \E k \in 1..n : i = from[k] \/ i = m[k]
      /\ \A k \in 1..n :
           /\ from[k] \in 1..Len(bytes) /\ m[k] \in 1..Len(bytes)
           /\ PrefixAt(bytes, from[k]) = code[k]
           /\ PrefixAt(bytes, m[k]) = IF code[k] = 4 THEN 3 ELSE code[k]
           /\ m[k] = from[k] + code[k] - 3
  BY LaidCodes
<1>3. marks \in SUBSET (1..Len(bytes))
  BY <1>1 DEF StartCodes
<1> HIDE DEF marks, m
<1>4. \A k \in 1..n : from[k] \in marks /\ m[k] \in marks
  BY <1>2
<1>5. m \in [1..n -> marks]
  BY <1>4 DEF m
<1>6. ASSUME NEW k \in 1..n
      PROVE  /\ m[k] + PrefixAt(bytes, m[k]) = from[k] + code[k]
             /\ m[k] = from[k] \/ (m[k] = from[k] + 1 /\ PrefixAt(bytes, from[k]) = 4)
  <2>1. from[k] \in Nat /\ code[k] \in {3, 4}
    BY PieceType, LaidType
  <2>2. m[k] = from[k] + code[k] - 3
    BY <1>2
  <2>3. CASE code[k] = 3
    <3>1. PrefixAt(bytes, m[k]) = 3 /\ m[k] = from[k]
      BY <1>2, <2>1, <2>2, <2>3
    <3> QED
      BY <2>1, <2>3, <3>1
  <2>4. CASE code[k] = 4
    <3>1. PrefixAt(bytes, m[k]) = 3 /\ m[k] = from[k] + 1 /\ PrefixAt(bytes, from[k]) = 4
      BY <1>2, <2>1, <2>2, <2>4
    <3> QED
      BY <2>1, <2>4, <3>1
  <2> QED
    BY <2>1, <2>3, <2>4
<1>7. \A x \in marks : \E k \in 1..n : x = from[k] \/ x = m[k]
  BY <1>2, <1>3
<1>8. Marked(bytes, unit, from, code, marks, m)
  BY <1>3, <1>4, <1>5, <1>6, <1>7 DEF Marked
<1>9. Between(bytes, marks) = [k \in 1..n |-> Piece(bytes, unit, from, code, k)]
  BY <1>8, LaidBetween
<1>10. \A k \in 1..n : Piece(bytes, unit, from, code, k) = unit[k]
  BY PieceIs
<1>11. unit = [k \in 1..n |-> unit[k]]
  BY <1>1
<1>12. Between(bytes, marks) = unit
  BY <1>9, <1>10, <1>11
<1>13. marks # {}
  <2>1. 1 \in 1..n
    BY <1>1
  <2> QED
    BY <1>4, <2>1
<1> QED
  BY <1>12, <1>13 DEF SplitWindows, marks

\* So does the split_h264 of the Android bridge.
LEMMA AndroidSplits ==
  ASSUME NEW bytes, NEW unit, NEW from, NEW code, Laid(bytes, unit, from, code)
  PROVE  SplitAndroid(bytes) = unit
<1> DEFINE n == Len(unit)
           found == StartCodes(bytes)
           marks == {i \in found : i = 1 \/ PrefixAt(bytes, i - 1) # 4}
           m == [k \in 1..n |-> from[k]]
           v == [k \in 1..n |-> Piece(bytes, unit, from, code, k)]
           trimmed == [k \in DOMAIN v |-> TrimZeros(v[k])]
<1>1. bytes \in Seq(Byte) /\ DOMAIN bytes = 1..Len(bytes) /\ n \in Nat \ {0} /\ unit \in Seq(Seq(Byte))
  BY LaidType, LenProperties DEF Laid
<1>2. /\ \A i \in 1..Len(bytes) : i \in found <=> \E k \in 1..n : i = from[k] \/ i = from[k] + code[k] - 3
      /\ \A k \in 1..n :
           /\ from[k] \in 1..Len(bytes)
           /\ PrefixAt(bytes, from[k]) = code[k]
           /\ k # 1 => PrefixAt(bytes, from[k] - 1) = 0
  BY LaidCodes
<1>3. found \in SUBSET (1..Len(bytes)) /\ marks \subseteq found
  BY <1>1 DEF StartCodes
<1>4. from[1] = 1
  BY DEF Laid
<1> HIDE DEF found
<1>5. ASSUME NEW k \in 1..n
      PROVE  from[k] \in marks
  <2>1. from[k] \in found
    BY <1>2
  <2>2. from[k] = 1 \/ PrefixAt(bytes, from[k] - 1) # 4
    BY <1>2, <1>4
  <2> QED
    BY <2>1, <2>2
<1>6. ASSUME NEW x \in marks
      PROVE  \E k \in 1..n : x = from[k]
  <2>1. PICK k \in 1..n : x = from[k] \/ x = from[k] + code[k] - 3
    BY <1>2, <1>3
  <2>2. from[k] \in Nat \ {0} /\ code[k] \in {3, 4}
    BY PieceType, LaidType
  <2>3. CASE code[k] = 3
    BY <2>1, <2>2, <2>3
  <2>4. CASE code[k] = 4 /\ x # from[k]
    <3>1. x = from[k] + 1 /\ x - 1 = from[k] /\ x # 1
      BY <2>1, <2>2, <2>4
    <3>2. PrefixAt(bytes, x - 1) = 4
      BY <1>2, <2>4, <3>1
    <3> QED
      BY <3>1, <3>2
  <2> QED
    BY <2>2, <2>3, <2>4
<1> HIDE DEF marks
<1>7. m \in [1..n -> marks] /\ \A k \in 1..n : m[k] = from[k]
  BY <1>5
<1> HIDE DEF m
<1>8. Marked(bytes, unit, from, code, marks, m)
  BY <1>2, <1>3, <1>5, <1>6, <1>7 DEF Marked
<1>9. Between(bytes, marks) = v
  BY <1>8, LaidBetween
<1>10. \A k \in 1..n : TrimZeros(v[k]) = unit[k]
  <2>1. ASSUME NEW k \in 1..n
        PROVE  TrimZeros(Piece(bytes, unit, from, code, k)) = unit[k]
    <3>1. Clean(unit[k])
      BY DEF Laid
    <3> QED
      BY <3>1, PieceIs, TrimIs
  <2> QED
    BY <2>1
<1>11. unit = [k \in 1..n |-> unit[k]] /\ DOMAIN v = 1..n
  BY <1>1
<1> HIDE DEF v
<1>12. trimmed = unit
  BY <1>10, <1>11
<1>13. NonEmpty(unit) = unit
  <2> DEFINE id == [k \in 1..Len(unit) |-> k]
  <2>1. /\ id \in [1..Len(unit) -> 1..Len(unit)] /\ \A k \in 1..Len(unit) : id[k] = k
    OBVIOUS
  <2>2. \A k \in 1..Len(unit) : unit[k] # <<>>
    BY DEF Laid, Clean
  <2> HIDE DEF id
  <2>3. /\ \A x, y \in 1..Len(unit) : x < y => id[x] < id[y]
        /\ \A k \in 1..Len(unit) : unit[id[k]] = unit[k]
        /\ \A x \in 1..Len(unit) : (\A k \in 1..Len(unit) : x # id[k]) => unit[x] = <<>>
    BY <2>1
  <2> QED
    BY ZenonT(40), <1>1, <2>1, <2>2, <2>3, Collects
<1>14. 1 \in found
  <2>1. 1 \in 1..n
    BY <1>1
  <2> QED
    BY <1>3, <1>4, <1>5, <2>1
<1>15. SplitAndroid(bytes) = NonEmpty([k \in DOMAIN Between(bytes, marks) |-> TrimZeros(Between(bytes, marks)[k])])
  BY <1>14 DEF SplitAndroid, marks, found
<1> QED
  BY <1>9, <1>12, <1>13, <1>15

-----------------------------------------------------------------------------
(* Units behind their lengths. *)

\* A number by its quotient and its remainder.
LEMMA DivisionOf ==
  ASSUME NEW n \in Nat, NEW d \in Nat \ {0}
  PROVE  n = (n \div d) * d + (n % d)
OBVIOUS

\* The quotient and the remainder of such a sum.
LEMMA DivisionIs ==
  ASSUME NEW d \in Nat \ {0}, NEW q \in Nat, NEW r \in 0..d - 1, NEW n, n = q * d + r
  PROVE  n \in Nat /\ n \div d = q /\ n % d = r
<1> DEFINE p == n \div d
           s == n % d
<1>1. q * d \in Nat /\ r \in Nat /\ n \in Nat
  BY Times
<1>2. p \in Nat /\ s \in 0..d - 1 /\ n = p * d + s
  BY <1>1, Division, DivisionOf
<1> HIDE DEF p, s
<1>3. p * d \in Nat /\ s \in Nat /\ s < d /\ r < d
  BY <1>2, Times
<1>4. ~(q < p)
  <2>1. CASE q < p
    <3>1. q + 1 \in Nat /\ q + 1 <= p
      BY <1>2, <2>1
    <3>2. (q + 1) * d <= p * d
      BY <1>2, <3>1, Monotone
    <3>3. (q + 1) * d = q * d + d
      BY <1>1
    <3> QED
      BY <1>1, <1>2, <1>3, <3>2, <3>3
  <2> QED
    BY <2>1
<1>5. ~(p < q)
  <2>1. CASE p < q
    <3>1. p + 1 \in Nat /\ p + 1 <= q
      BY <1>2, <2>1
    <3>2. (p + 1) * d <= q * d
      BY <1>2, <3>1, Monotone
    <3>3. (p + 1) * d = p * d + d
      BY <1>2, <1>3
    <3> QED
      BY <1>1, <1>2, <1>3, <3>2, <3>3
  <2> QED
    BY <2>1
<1>6. p = q
  BY <1>2, <1>4, <1>5
<1>7. s = r
  BY <1>1, <1>2, <1>3, <1>6
<1> QED
  BY <1>1, <1>6, <1>7 DEF p, s

\* Dividing by a product is dividing twice.
LEMMA Nested ==
  ASSUME NEW n \in Nat, NEW m \in Nat \ {0}, NEW d \in Nat \ {0}
  PROVE  /\ n \div (m * d) = (n \div m) \div d
         /\ n % (m * d) = ((n \div m) % d) * m + (n % m)
<1> DEFINE q == n \div m
           r == n % m
           p == q \div d
           s == q % d
           all == m * d
           rest == s * m + r
<1>1. q \in Nat /\ r \in 0..m - 1 /\ n = q * m + r
  BY Division, DivisionOf
<1> HIDE DEF q, r
<1>2. p \in Nat /\ s \in 0..d - 1 /\ q = p * d + s
  BY <1>1, Division, DivisionOf
<1> HIDE DEF p, s
<1>3. all \in Nat \ {0}
  OBVIOUS
<1>4. rest \in 0..all - 1
  <2>1. s * m <= (d - 1) * m
    BY <1>2, Monotone
  <2>2. (d - 1) * m = all - m
    OBVIOUS
  <2>3. s * m \in Nat
    BY <1>2, Times
  <2> HIDE DEF all
  <2> QED
    BY <1>1, <1>3, <2>1, <2>2, <2>3
<1>5. n = p * all + rest
  <2>1. q * m = p * d * m + s * m
    BY <1>1, <1>2
  <2>2. p * d * m = p * all
    BY <1>2
  <2>3. p * d * m \in Nat /\ s * m \in Nat /\ q * m \in Nat /\ r \in Nat
    BY <1>1, <1>2, Times
  <2> HIDE DEF all
  <2> QED
    BY <1>1, <2>1, <2>2, <2>3
<1> HIDE DEF rest, all
<1>6. n \div all = p /\ n % all = rest
  BY <1>2, <1>3, <1>4, <1>5, DivisionIs
<1> QED
  BY <1>6 DEF all, rest, p, s, q, r

\* Four digits are a number's own.
LEMMA Digits ==
  ASSUME NEW n \in Nat, n < Base * Base * Base * Base
  PROVE  \E d, c, b, a \in Byte :
           /\ BigEndian(n) = <<d, c, b, a>>
           /\ n = ((d * Base + c) * Base + b) * Base + a
           /\ n \div Base = (d * Base + c) * Base + b
           /\ n \div (Base * Base * Base) = d
           /\ n % (Base * Base) = b * Base + a
           /\ n % (Base * Base * Base) = c * (Base * Base) + (b * Base + a)
<1> DEFINE q == n \div Base
           a == n % Base
           p == q \div Base
           b == q % Base
           d == p \div Base
           c == p % Base
           sq == Base * Base
           cube == sq * Base
<1>0. Base \in Nat \ {0} /\ sq \in Nat \ {0} /\ cube \in Nat \ {0} /\ Base * Base * Base = cube
        /\ Base * Base * Base * Base = cube * Base
  BY BaseAssumption
<1>1. q \in Nat /\ a \in 0..Base - 1 /\ n = q * Base + a
  BY <1>0, Division, DivisionOf
<1>2. n \div sq = p /\ n % sq = b * Base + a
  BY <1>0, Nested
<1>3. n \div cube = (n \div sq) \div Base /\ n % cube = ((n \div sq) % Base) * sq + (n % sq)
  <2> HIDE DEF sq
  <2> QED
    BY <1>0, Nested
<1> HIDE DEF q, a
<1>4. p \in Nat /\ b \in 0..Base - 1 /\ q = p * Base + b
  BY <1>0, <1>1, Division, DivisionOf
<1> HIDE DEF p, b
<1>5. d \in Nat /\ c \in 0..Base - 1 /\ p = d * Base + c
  BY <1>0, <1>4, Division, DivisionOf
<1>6. n \div cube = d /\ n % cube = c * sq + (b * Base + a)
  <2> HIDE DEF sq, cube
  <2> QED
    BY <1>2, <1>3
<1> HIDE DEF d, c, cube
<1>7. d < Base
  <2>1. n = (n \div cube) * cube + (n % cube) /\ n % cube \in 0..cube - 1
    BY <1>0, Division, DivisionOf
  <2>2. CASE Base <= d
    <3>1. Base * cube <= d * cube
      BY <1>0, <1>5, <2>2, Monotone
    <3>2. Base * cube = cube * Base /\ Base * cube \in Nat /\ d * cube \in Nat
      BY <1>0, <1>5, Times
    <3> DEFINE rest == n % cube
    <3>3. rest \in Nat
      BY <1>0, <2>1
    <3>4. n = d * cube + rest
      BY <1>6, <2>1, Zenon
    <3> HIDE DEF rest
    <3> QED
      BY <1>0, <3>1, <3>2, <3>3, <3>4
  <2> QED
    BY <1>0, <1>5, <2>2
<1>8. d % Base = d /\ n \div 1 = n
  <2>1. d \in 0..Base - 1 /\ d = 0 * Base + d
    BY <1>0, <1>5, <1>7
  <2>2. n = n * 1 + 0 /\ 0 \in 0..1 - 1 /\ 1 \in Nat \ {0}
    OBVIOUS
  <2> QED
    BY <1>0, <2>1, <2>2, DivisionIs
<1>9. BigEndian(n) = <<d, c, b, a>>
  <2>1. n \div (Base * Base) = p /\ n \div Base = q /\ q % Base = b /\ n % Base = a /\ p % Base = c
    BY <1>2 DEF sq, q, b, a, c
  <2>2. BigEndian(n) = <<(n \div (Base * Base * Base)) % Base, (n \div (Base * Base)) % Base,
                         (n \div Base) % Base, (n \div 1) % Base>>
    BY Zenon DEF BigEndian
  <2>3. n \div (Base * Base * Base) = d
    BY <1>0, <1>6
  <2> QED
    BY <1>8, <2>1, <2>2, <2>3
<1>10. a \in Byte /\ b \in Byte /\ c \in Byte /\ d \in Byte
  BY <1>0, <1>1, <1>4, <1>5, <1>7 DEF Byte
<1>11. n = ((d * Base + c) * Base + b) * Base + a /\ n \div Base = (d * Base + c) * Base + b
  BY <1>1, <1>4, <1>5 DEF q
<1>12. /\ n \div (Base * Base * Base) = d /\ n % (Base * Base) = b * Base + a
       /\ n % (Base * Base * Base) = c * (Base * Base) + (b * Base + a)
  BY <1>0, <1>2, <1>6 DEF sq
<1> QED
  BY <1>9, <1>10, <1>11, <1>12

\* A unit with a length that AVCC can put in front of it.
Measured(nal) == Clean(nal) /\ Len(nal) < Base * Base * Base * Base

\* A unit behind its length.
LengthFirst(nal) == BigEndian(Len(nal)) \o nal

\* The length in front of a unit is the unit's, and its four bytes are a start code only where
\* ReadsAsCode says so, and another format's beginning only where OpensOtherwise does.
LEMMA LengthFirstIs ==
  ASSUME NEW nal, Measured(nal)
  PROVE  LET part == LengthFirst(nal)
         IN  /\ part \in Seq(Byte) /\ Len(part) = Len(nal) + 4
             /\ part[Len(part)] # 0
             /\ ((part[1] * Base + part[2]) * Base + part[3]) * Base + part[4] = Len(nal)
             /\ \A j \in 1..Len(nal) : part[j + 4] = nal[j]
             /\ ~ReadsAsCode(nal) => \A i \in 1..Len(part) : ~ShortAt(part, i)
             /\ ~OpensOtherwise(nal) =>
                  ~ShortAt(part, 1) /\ ~LongAt(part, 1) /\ part[1] \notin Headers
<1> DEFINE size == Len(nal)
           part == LengthFirst(nal)
<1>1. /\ nal \in Seq(Byte) /\ size \in Nat \ {0} /\ nal[size] # 0 /\ nal[1] # 0
      /\ \A i \in 1..size : ~ShortAt(nal, i)
  BY NoCode DEF Measured, Clean
<1>2. size < Base * Base * Base * Base
  BY DEF Measured
<1>3. PICK d, c, b, a \in Byte :
        /\ BigEndian(size) = <<d, c, b, a>>
        /\ size = ((d * Base + c) * Base + b) * Base + a
        /\ size \div Base = (d * Base + c) * Base + b
        /\ size \div (Base * Base * Base) = d
        /\ size % (Base * Base) = b * Base + a
        /\ size % (Base * Base * Base) = c * (Base * Base) + (b * Base + a)
  BY <1>1, <1>2, Digits
<1>4. Base \in Nat /\ a \in Nat /\ b \in Nat /\ c \in Nat /\ d \in Nat
        /\ 0 * Base = 0 /\ 0 * (Base * Base) = 0
  BY BaseAssumption DEF Byte
<1> HIDE DEF size
<1>5. /\ part \in Seq(Byte) /\ Len(part) = 4 + size
      /\ \A i \in 1..4 + size : part[i] = IF i <= 4 THEN <<d, c, b, a>>[i] ELSE nal[i - 4]
  <2>1. <<d, c, b, a>> \in Seq(Byte) /\ Len(<<d, c, b, a>>) = 4
    OBVIOUS
  <2>2. part = <<d, c, b, a>> \o nal
    BY <1>3 DEF LengthFirst, size
  <2> HIDE DEF part
  <2> QED
    BY <1>1, <2>1, <2>2, ConcatProperties DEF size
<1> HIDE DEF part
<1>6. part[1] = d /\ part[2] = c /\ part[3] = b /\ part[4] = a
  <2>1. /\ 1 \in 1..4 + size /\ 2 \in 1..4 + size /\ 3 \in 1..4 + size /\ 4 \in 1..4 + size
        /\ 1 <= 4 /\ 2 <= 4 /\ 3 <= 4 /\ 4 <= 4
    BY <1>1
  <2>2. /\ <<d, c, b, a>>[1] = d /\ <<d, c, b, a>>[2] = c /\ <<d, c, b, a>>[3] = b
        /\ <<d, c, b, a>>[4] = a
    OBVIOUS
  <2> QED
    BY <1>5, <2>1, <2>2
<1>7. \A j \in 1..size : part[j + 4] = nal[j]
  <2>1. ASSUME NEW j \in 1..size
        PROVE  part[j + 4] = nal[j]
    <3>1. j + 4 \in 1..4 + size /\ ~(j + 4 <= 4) /\ (j + 4) - 4 = j
      BY <1>1
    <3> QED
      BY <1>5, <3>1
  <2> QED
    BY <2>1
<1>8. ((part[1] * Base + part[2]) * Base + part[3]) * Base + part[4] = size
  BY <1>3, <1>6
<1>9. part[4 + size] # 0
  BY <1>1, <1>7
<1>10. ShortAt(part, 1) => size \div Base = 1
  <2> SUFFICES ASSUME ShortAt(part, 1)
               PROVE  size \div Base = 1
    OBVIOUS
  <2>1. d = 0 /\ c = 0 /\ b = 1
    BY <1>6 DEF ShortAt
  <2>2. (0 * Base + 0) * Base + 1 = 1
    BY <1>4
  <2> QED
    BY <1>3, <2>1, <2>2
<1>11. LongAt(part, 1) => size = 1
  <2> SUFFICES ASSUME LongAt(part, 1)
               PROVE  size = 1
    OBVIOUS
  <2>1. d = 0 /\ c = 0 /\ b = 0 /\ a = 1
    BY <1>6 DEF LongAt, ShortAt
  <2>2. ((0 * Base + 0) * Base + 0) * Base + 1 = 1
    BY <1>4
  <2> QED
    BY <1>3, <2>1, <2>2
<1>12. ASSUME NEW i \in 1..4 + size, ShortAt(part, i), ~ReadsAsCode(nal)
       PROVE  FALSE
  <2>1. /\ i + 2 <= 4 + size /\ part[i] = 0 /\ part[i + 1] = 0 /\ part[i + 2] = 1 /\ i \in Nat
    BY <1>1, <1>5, <1>12 DEF ShortAt
  <2>0. /\ size \div Base # 1 /\ size % (Base * Base * Base) # 1
        /\ size % (Base * Base) = 0 => nal[1] # 1
    BY <1>12 DEF ReadsAsCode, size
  <2>2. CASE i = 1
    BY <1>10, <1>12, <2>0, <2>2
  <2>3. CASE i = 2
    <3>1. c = 0 /\ b = 0 /\ a = 1
      BY <1>6, <2>1, <2>3
    <3>2. 0 * (Base * Base) + (0 * Base + 1) = 1
      BY <1>4
    <3> QED
      BY <1>3, <2>0, <3>1, <3>2
  <2>4. CASE i = 3
    <3>1. b = 0 /\ a = 0 /\ part[5] = 1
      BY <1>6, <2>1, <2>4
    <3>2. 1 \in 1..size /\ 1 + 4 = 5
      BY <1>1
    <3>3. nal[1] = 1
      BY <1>7, <3>1, <3>2
    <3>4. 0 * Base + 0 = 0
      BY <1>4
    <3> QED
      BY <1>3, <2>0, <3>1, <3>3, <3>4
  <2>5. CASE i = 4
    <3>1. 1 \in 1..size /\ i + 1 = 1 + 4
      BY <1>1, <2>5
    <3> QED
      BY <1>1, <1>7, <2>1, <3>1
  <2>6. CASE i > 4
    <3>1. /\ i - 4 \in 1..size /\ (i - 4) + 1 \in 1..size /\ (i - 4) + 2 \in 1..size
          /\ (i - 4) + 4 = i /\ ((i - 4) + 1) + 4 = i + 1 /\ ((i - 4) + 2) + 4 = i + 2
          /\ (i - 4) + 2 <= size
      BY <1>1, <2>1, <2>6
    <3>2. nal[i - 4] = 0 /\ nal[(i - 4) + 1] = 0 /\ nal[(i - 4) + 2] = 1
      BY <1>7, <2>1, <3>1
    <3> QED
      BY <1>1, <3>1, <3>2 DEF ShortAt, size
  <2> QED
    BY <2>1, <2>2, <2>3, <2>4, <2>5, <2>6
<1>13. ~OpensOtherwise(nal) => ~ShortAt(part, 1) /\ ~LongAt(part, 1) /\ part[1] \notin Headers
  BY <1>3, <1>6, <1>10, <1>11, Zenon DEF OpensOtherwise, size
<1>14. Len(part) = size + 4
  BY <1>1, <1>5
<1> QED
  BY <1>1, <1>5, <1>6, <1>7, <1>8, <1>9, <1>12, <1>13, <1>14 DEF part, size

\* What is left of a sequence from k on is element k and what is left after it.
LEMMA OneLess ==
  ASSUME NEW S, NEW v \in Seq(S), NEW k \in 1..Len(v)
  PROVE  <<v[k]>> \o SubSeq(v, k + 1, Len(v)) = SubSeq(v, k, Len(v))
<1> DEFINE n == Len(v)
           short == SubSeq(v, k + 1, n)
           long == SubSeq(v, k, n)
<1>1. n \in Nat /\ k \in Nat \ {0} /\ k + 1 \in Nat \ {0} /\ k <= n /\ n <= n /\ v[k] \in S
  BY LenProperties, ElementOfSeq
<1>2. /\ short \in Seq(S) /\ Len(short) = n - k
      /\ \A i \in 1..n - k : short[i] = v[k + i]
  <2> HIDE DEF n
  <2>1. n <= Len(v) /\ n \in Int
    BY <1>1 DEF n
  <2>2. /\ SubSeq(v, k + 1, n) \in Seq(S)
        /\ Len(SubSeq(v, k + 1, n)) = IF k + 1 <= n THEN n - (k + 1) + 1 ELSE 0
        /\ \A i \in 1..n - (k + 1) + 1 : SubSeq(v, k + 1, n)[i] = v[(k + 1) + i - 1]
    BY <1>1, <2>1, PartType
  <2>3. \A i \in Nat : (k + 1) + i - 1 = k + i
    BY <1>1
  <2>4. n - (k + 1) + 1 = n - k
    BY <1>1
  <2>5. \A i \in 1..n - k : SubSeq(v, k + 1, n)[i] = v[k + i]
    <3>1. ASSUME NEW i \in 1..n - k
          PROVE  SubSeq(v, k + 1, n)[i] = v[k + i]
      <4>1. i \in 1..n - (k + 1) + 1 /\ i \in Nat
        BY <1>1
      <4> QED
        BY <2>2, <2>3, <4>1
    <3> QED
      BY <3>1
  <2>6. Len(SubSeq(v, k + 1, n)) = n - k
    BY <1>1, <2>2
  <2> QED
    BY <2>2, <2>5, <2>6
<1>3. /\ long \in Seq(S) /\ Len(long) = n - k + 1
      /\ \A i \in 1..n - k + 1 : long[i] = v[k + i - 1]
  <2> HIDE DEF n
  <2>1. n <= Len(v) /\ n \in Int
    BY <1>1 DEF n
  <2>2. /\ SubSeq(v, k, n) \in Seq(S)
        /\ Len(SubSeq(v, k, n)) = IF k <= n THEN n - k + 1 ELSE 0
        /\ \A i \in 1..n - k + 1 : SubSeq(v, k, n)[i] = v[k + i - 1]
    BY <1>1, <2>1, PartType
  <2> QED
    BY <1>1, <2>2
<1> HIDE DEF short, long, n
<1>4. <<v[k]>> \in Seq(S) /\ Len(<<v[k]>>) = 1 /\ <<v[k]>>[1] = v[k]
  BY <1>1
<1>5. /\ <<v[k]>> \o short \in Seq(S) /\ Len(<<v[k]>> \o short) = 1 + (n - k)
      /\ \A i \in 1..1 + (n - k) : (<<v[k]>> \o short)[i] = IF i <= 1 THEN <<v[k]>>[i] ELSE short[i - 1]
  BY <1>2, <1>4, ConcatProperties
<1>6. Len(<<v[k]>> \o short) = Len(long)
  BY <1>1, <1>3, <1>5
<1>7. ASSUME NEW i \in 1..Len(long)
      PROVE  (<<v[k]>> \o short)[i] = long[i]
  <2>1. i \in 1..1 + (n - k) /\ i \in 1..n - k + 1 /\ i \in Nat
    BY <1>1, <1>3
  <2>2. CASE i <= 1
    <3>1. i = 1 /\ k + i - 1 = k
      BY <1>1, <2>1, <2>2
    <3> QED
      BY <1>3, <1>4, <1>5, <2>1, <3>1
  <2>3. CASE ~(i <= 1)
    <3>1. i - 1 \in 1..n - k /\ k + (i - 1) = k + i - 1
      BY <1>1, <2>1, <2>3
    <3> QED
      BY <1>2, <1>3, <1>5, <2>1, <2>3, <3>1
  <2> QED
    BY <2>2, <2>3
<1>8. <<v[k]>> \o short = long
  BY <1>3, <1>5, <1>6, <1>7, SeqEqual
<1> QED
  BY <1>8 DEF short, long, n

\* All of them.
LengthsFirst(unit) == [k \in DOMAIN unit |-> LengthFirst(unit[k])]

\* The units behind their lengths are sequences of bytes.
LEMMA LengthsFirstAre ==
  ASSUME NEW unit \in Seq(Seq(Byte)), \A k \in DOMAIN unit : Measured(unit[k])
  PROVE  LET parts == LengthsFirst(unit)
         IN  /\ parts \in Seq(Seq(Byte)) /\ Len(parts) = Len(unit) /\ Len(unit) \in Nat
             /\ DOMAIN unit = 1..Len(unit)
             /\ \A k \in 1..Len(unit) :
                  /\ parts[k] = LengthFirst(unit[k]) /\ Measured(unit[k])
                  /\ Len(parts[k]) = Len(unit[k]) + 4 /\ Len(unit[k]) \in Nat \ {0}
<1> DEFINE parts == LengthsFirst(unit)
<1>1. DOMAIN unit = 1..Len(unit) /\ Len(unit) \in Nat
  BY LenProperties
<1>2. ASSUME NEW k \in 1..Len(unit)
      PROVE  /\ parts[k] = LengthFirst(unit[k]) /\ Measured(unit[k]) /\ parts[k] \in Seq(Byte)
             /\ Len(parts[k]) = Len(unit[k]) + 4 /\ Len(unit[k]) \in Nat \ {0}
  <2>1. Measured(unit[k])
    BY <1>1
  <2>2. parts[k] = LengthFirst(unit[k])
    BY <1>1 DEF LengthsFirst
  <2>3. Len(unit[k]) \in Nat \ {0}
    BY <2>1, NoCode DEF Measured
  <2> QED
    BY <2>1, <2>2, <2>3, LengthFirstIs
<1>3. DOMAIN parts = 1..Len(unit) /\ parts = [k \in 1..Len(unit) |-> parts[k]]
  BY <1>1 DEF LengthsFirst
<1> HIDE DEF parts
<1>4. parts \in Seq(Seq(Byte)) /\ Len(parts) = Len(unit)
  BY <1>1, <1>2, <1>3, Listed
<1> QED
  BY <1>1, <1>2, <1>4 DEF parts

\* A buffer of units behind lengths that do not read as start codes has none.
LEMMA AvccHasNoCode ==
  ASSUME NEW unit \in Seq(Seq(Byte)), \A k \in DOMAIN unit : Measured(unit[k]) /\ ~ReadsAsCode(unit[k])
  PROVE  /\ FlattenSeq(LengthsFirst(unit)) \in Seq(Byte)
         /\ StartCodes(FlattenSeq(LengthsFirst(unit))) = {}
<1> DEFINE parts == LengthsFirst(unit)
           bytes == FlattenSeq(parts)
<1>1. parts \in Seq(Seq(Byte)) /\ Len(parts) = Len(unit)
        /\ \A k \in 1..Len(unit) : /\ parts[k] = LengthFirst(unit[k]) /\ Measured(unit[k])
                                   /\ ~ReadsAsCode(unit[k])
  BY LengthsFirstAre
<1>2. bytes \in Seq(Byte) /\ Len(bytes) \in Nat /\ DOMAIN bytes = 1..Len(bytes)
  BY <1>1, FlattenType, LenProperties
<1> HIDE DEF parts
<1>3. ASSUME NEW i \in 1..Len(bytes), ShortAt(bytes, i)
      PROVE  FALSE
  <2>0. PICK k \in 1..Len(parts) : \E j \in 1..Len(parts[k]) : i = Len(Joined(parts, k - 1)) + j
    BY <1>1, Located
  <2>1. PICK j \in 1..Len(parts[k]) : i = Len(Joined(parts, k - 1)) + j
    BY <2>0
  <2> DEFINE part == parts[k]
             off == Len(Joined(parts, k - 1))
  <2>2. /\ off \in Nat /\ Len(part) \in Nat
        /\ \A x \in 1..Len(part) : bytes[off + x] = part[x]
    BY <1>1, JoinedAt
  <2>3. part[Len(part)] # 0 /\ \A x \in 1..Len(part) : ~ShortAt(part, x)
    <3>1. part = LengthFirst(unit[k]) /\ Measured(unit[k]) /\ ~ReadsAsCode(unit[k])
      BY <1>1
    <3> QED
      BY <3>1, LengthFirstIs
  <2>4. bytes[i] = 0 /\ bytes[i + 1] = 0 /\ bytes[i + 2] = 1
    BY <1>3 DEF ShortAt
  <2> HIDE DEF part, off, bytes
  <2>5. i = off + j /\ j \in 1..Len(part)
    BY <2>1 DEF part, off
  <2>6. CASE j + 2 <= Len(part)
    <3>1. j + 1 \in 1..Len(part) /\ j + 2 \in 1..Len(part) /\ i + 1 = off + (j + 1) /\ i + 2 = off + (j + 2)
      BY <2>2, <2>5, <2>6
    <3>2. /\ bytes[off + j] = part[j] /\ bytes[off + (j + 1)] = part[j + 1]
          /\ bytes[off + (j + 2)] = part[j + 2]
      BY <2>2, <2>5, <3>1, Zenon
    <3>3. part[j] = 0 /\ part[j + 1] = 0 /\ part[j + 2] = 1
      BY <2>4, <2>5, <3>1, <3>2, Zenon
    <3>4. ShortAt(part, j)
      BY <2>6, <3>3, Zenon DEF ShortAt
    <3> QED
      BY <2>3, <2>5, <3>4, Zenon
  <2>7. CASE j + 1 = Len(part)
    <3>1. j + 1 \in 1..Len(part) /\ i + 1 = off + (j + 1)
      BY <2>2, <2>5, <2>7
    <3>2. bytes[i + 1] = part[Len(part)]
      BY <2>2, <2>7, <3>1
    <3> QED
      BY <2>3, <2>4, <3>2
  <2>8. CASE j = Len(part)
    <3>1. bytes[i] = part[Len(part)]
      BY <2>2, <2>5, <2>8
    <3> QED
      BY <2>3, <2>4, <3>1
  <2>9. j + 2 <= Len(part) \/ j + 1 = Len(part) \/ j = Len(part)
    BY <2>2, <2>5
  <2> QED
    BY <2>6, <2>7, <2>8, <2>9
<1>4. ASSUME NEW i \in 1..Len(bytes), LongAt(bytes, i)
      PROVE  FALSE
  <2>1. ShortAt(bytes, i + 1) /\ i + 3 <= Len(bytes)
    BY <1>4 DEF LongAt
  <2>2. i + 1 \in 1..Len(bytes)
    BY <1>2, <2>1
  <2> QED
    BY <1>3, <2>1, <2>2
<1> HIDE DEF bytes
<1>5. \A i \in 1..Len(bytes) : i \notin StartCodes(bytes)
  BY <1>2, <1>3, <1>4, PrefixIs
<1>6. StartCodes(bytes) \subseteq 1..Len(bytes)
  BY <1>2 DEF StartCodes
<1>7. StartCodes(bytes) = {}
  BY <1>5, <1>6
<1> QED
  BY <1>2, <1>7 DEF bytes, parts

\* The walk over the lengths finds the units.
LEMMA AvccUndone ==
  ASSUME NEW unit \in Seq(Seq(Byte)), \A k \in DOMAIN unit : Measured(unit[k])
  PROVE  Avcc(FlattenSeq(LengthsFirst(unit))) = [units |-> unit, end |-> "exact"]
<1> DEFINE parts == LengthsFirst(unit)
           bytes == FlattenSeq(parts)
           n == Len(unit)
           off(k) == Len(Joined(parts, k))
           Rest(k) == [units |-> SubSeq(unit, k + 1, n), end |-> "exact"]
<1>1. parts \in Seq(Seq(Byte)) /\ Len(parts) = n /\ n \in Nat
        /\ \A k \in 1..n : /\ parts[k] = LengthFirst(unit[k]) /\ Measured(unit[k])
                           /\ Len(parts[k]) = Len(unit[k]) + 4 /\ Len(unit[k]) \in Nat \ {0}
  BY LengthsFirstAre
<1>2. bytes \in Seq(Byte) /\ Len(bytes) \in Nat
  BY <1>1, FlattenType, LenProperties
<1> HIDE DEF parts, bytes
<1>3. PICK walk :
        /\ Avcc(bytes) = walk[1]
        /\ \A o \in 1..Len(bytes) + 1 : walk[o] \in Walked
        /\ walk[Len(bytes) + 1] = [units |-> <<>>, end |-> "exact"]
        /\ \A o, p \in 1..Len(bytes) + 1 :
             o + 3 <= Len(bytes) /\ p = o + 4 + Length32(bytes, o) =>
               walk[o] = [units |-> <<SubSeq(bytes, o + 4, p - 1)>> \o walk[p].units,
                          end |-> walk[p].end]
  BY <1>2, AvccWalk
<1>4. off(0) = 0 /\ off(n) = Len(bytes)
  <2>1. Joined(parts, 0) = <<>> /\ Joined(parts, Len(parts)) = FlattenSeq(parts)
    BY <1>1, JoinedSteps
  <2> QED
    BY <1>1, <2>1 DEF bytes
<1>5. ASSUME NEW k \in 1..n
      PROVE  /\ off(k - 1) \in Nat /\ off(k) = off(k - 1) + (Len(unit[k]) + 4) /\ off(k) <= Len(bytes)
             /\ \A j \in 1..Len(unit[k]) + 4 : bytes[off(k - 1) + j] = parts[k][j]
  <2>0. k \in 1..Len(parts)
    BY <1>1
  <2>1. LET before == Len(Joined(parts, k - 1))
            all == FlattenSeq(parts)
         IN  /\ before \in Nat /\ Len(parts[k]) \in Nat /\ Len(all) \in Nat
             /\ Len(Joined(parts, k)) = before + Len(parts[k])
             /\ before + Len(parts[k]) <= Len(all)
             /\ \A j \in 1..Len(parts[k]) : all[before + j] = parts[k][j]
    BY ZenonT(40), <1>1, <2>0, JoinedAt
  <2>2. Len(parts[k]) = Len(unit[k]) + 4
    BY <1>1
  <2> QED
    BY <2>1, <2>2 DEF bytes
<1> HIDE DEF off
<1>6. ASSUME NEW k \in 1..n
      PROVE  /\ off(k - 1) + 1 \in 1..Len(bytes) + 1 /\ off(k) + 1 \in 1..Len(bytes) + 1
             /\ walk[off(k - 1) + 1] = [units |-> <<unit[k]>> \o walk[off(k) + 1].units,
                                        end |-> walk[off(k) + 1].end]
  <2> DEFINE o == off(k - 1) + 1
             p == off(k) + 1
             size == Len(unit[k])
             part == parts[k]
  <2>1. size \in Nat \ {0} /\ part = LengthFirst(unit[k]) /\ Measured(unit[k]) /\ unit[k] \in Seq(Byte)
    BY <1>1 DEF Measured, Clean
  <2>2. /\ ((part[1] * Base + part[2]) * Base + part[3]) * Base + part[4] = size
        /\ \A j \in 1..size : part[j + 4] = unit[k][j]
    BY <2>1, LengthFirstIs
  <2>3. /\ o \in 1..Len(bytes) + 1 /\ p \in 1..Len(bytes) + 1 /\ o + 3 <= Len(bytes)
        /\ p = o + 4 + size
    <3> HIDE DEF size
    <3>1. off(k - 1) \in Nat /\ off(k) = off(k - 1) + (size + 4) /\ off(k) <= Len(bytes)
      BY <1>5 DEF size
    <3> QED
      BY SMTT(30), <1>2, <2>1, <3>1
  <2>4. \A j \in 1..size + 4 : bytes[off(k - 1) + j] = part[j]
    BY <1>5
  <2>5. off(k - 1) \in Nat
    BY <1>5
  <2> HIDE DEF size, part
  <2>6. bytes[o] = part[1] /\ bytes[o + 1] = part[2] /\ bytes[o + 2] = part[3] /\ bytes[o + 3] = part[4]
    <3>1. /\ 1 \in 1..size + 4 /\ 2 \in 1..size + 4 /\ 3 \in 1..size + 4 /\ 4 \in 1..size + 4
          /\ o + 1 = off(k - 1) + 2 /\ o + 2 = off(k - 1) + 3 /\ o + 3 = off(k - 1) + 4
      BY <2>1, <2>5 DEF size
    <3> QED
      BY <2>4, <3>1
  <2>7. Length32(bytes, o) = size
    BY <2>2, <2>6 DEF Length32
  <2>8. SubSeq(bytes, o + 4, p - 1) = unit[k]
    <3> DEFINE nal == SubSeq(bytes, o + 4, p - 1)
    <3> HIDE DEF o, p
    <3>0. size \in Nat \ {0}
      BY <2>1 DEF size
    <3>1. o + 4 \in Nat \ {0} /\ p - 1 \in Int /\ p - 1 <= Len(bytes) /\ (p - 1) - (o + 4) + 1 = size
            /\ o + 4 <= p - 1
      BY <1>2, <2>3, <3>0
    <3>2. /\ nal \in Seq(Byte)
          /\ Len(nal) = IF o + 4 <= p - 1 THEN (p - 1) - (o + 4) + 1 ELSE 0
          /\ \A i \in 1..(p - 1) - (o + 4) + 1 : nal[i] = bytes[(o + 4) + i - 1]
      BY <1>2, <3>1, PartType
    <3>3. nal \in Seq(Byte) /\ Len(nal) = size /\ \A i \in 1..size : nal[i] = bytes[(o + 4) + i - 1]
      BY <3>1, <3>2
    <3>4. ASSUME NEW i \in 1..size
          PROVE  nal[i] = unit[k][i]
      <4>1. i + 4 \in 1..size + 4 /\ (o + 4) + i - 1 = off(k - 1) + (i + 4)
        BY SMTT(30), <2>1, <2>5 DEF size, o
      <4> QED
        BY <2>2, <2>4, <3>3, <4>1
    <3> QED
      BY <2>1, <3>3, <3>4, SeqEqual DEF size
  <2>9. walk[o] = [units |-> <<SubSeq(bytes, o + 4, p - 1)>> \o walk[p].units, end |-> walk[p].end]
    <3> HIDE DEF o, p
    <3> QED
      BY <1>3, <2>3, <2>7
  <2> QED
    BY <2>3, <2>8, <2>9
<1> DEFINE Reached(d) == d <= n => walk[off(n - d) + 1] = Rest(n - d)
           T == {d \in Nat : Reached(d)}
<1>7. 0 \in T
  <2>1. SubSeq(unit, n + 1, n) = <<>>
    <3>1. n + 1 \in Nat \ {0} /\ n \in Int /\ n <= Len(unit) /\ ~(n + 1 <= n)
      BY <1>1
    <3>2. SubSeq(unit, n + 1, n) \in Seq(Seq(Byte)) /\ Len(SubSeq(unit, n + 1, n)) = 0
      BY <3>1, PartType
    <3> QED
      BY <3>2, EmptySeq
  <2>2. n - 0 = n
    BY <1>1
  <2> HIDE DEF n
  <2> QED
    BY <1>3, <1>4, <2>1, <2>2
<1>8. ASSUME NEW d \in T
      PROVE  d + 1 \in T
  <2> HIDE DEF Reached
  <2>a. d \in Nat /\ Reached(d)
    OBVIOUS
  <2>0. d \in Nat /\ d + 1 \in Nat /\ (d <= n => walk[off(n - d) + 1] = Rest(n - d))
    BY <2>a DEF Reached
  <2>1. ASSUME d + 1 <= n
        PROVE  walk[off(n - (d + 1)) + 1] = Rest(n - (d + 1))
    <3> DEFINE k == n - d
    <3>1. k \in 1..n /\ n - (d + 1) = k - 1 /\ (k - 1) + 1 = k /\ d <= n
      BY <1>1, <2>0, <2>1
    <3>2. walk[off(k) + 1] = Rest(k)
      BY <2>0, <3>1
    <3> HIDE DEF k, T
    <3>3. walk[off(k - 1) + 1] = [units |-> <<unit[k]>> \o walk[off(k) + 1].units,
                                  end |-> walk[off(k) + 1].end]
      BY <1>6, <3>1
    <3>4. <<unit[k]>> \o SubSeq(unit, k + 1, n) = SubSeq(unit, k, n)
      BY <3>1, OneLess
    <3>5. walk[off(k - 1) + 1] = [units |-> <<unit[k]>> \o SubSeq(unit, k + 1, n), end |-> "exact"]
      BY <3>2, <3>3
    <3> QED
      BY <3>1, <3>4, <3>5
  <2>2. Reached(d + 1)
    BY <2>1 DEF Reached
  <2> QED
    BY <2>0, <2>2
<1>9. n \in T
  <2>1. T \in SUBSET Nat
    OBVIOUS
  <2> HIDE DEF T
  <2>2. T = Nat
    BY <1>7, <1>8, <2>1, Every
  <2> QED
    BY <1>1, <2>2
<1>10. walk[1] = [units |-> unit, end |-> "exact"]
  <2>1. n - n = 0 /\ off(0) + 1 = 1 /\ n <= n /\ 0 + 1 = 1
    BY <1>1, <1>4
  <2>2. SubSeq(unit, 1, n) = unit
    BY <1>1
  <2>3. walk[off(n - n) + 1] = Rest(n - n)
    BY <1>1, <1>9
  <2> QED
    BY <2>1, <2>2, <2>3
<1> QED
  BY <1>3, <1>10 DEF bytes, parts

-----------------------------------------------------------------------------
(* The encoder's buffer. *)

\* The units of a buffer, with what the format puts in front of them.
Coded(format, unit) == [k \in DOMAIN unit |-> Prefixed(format, unit, k)]

\* The start code in front of unit k.
CodeOf(format, k) ==
  IF format \in {"long", "padded"} \/ (format = "mixed" /\ k = 1) THEN LongCode ELSE ShortCode

\* Its length.
Width(format, k) == Len(CodeOf(format, k))

\* What stands in front of a unit in Annex B.
LEMMA CodeOfIs ==
  ASSUME NEW format, NEW k
  PROVE  LET code == CodeOf(format, k)
             w == Width(format, k)
         IN  /\ code \in Seq(Byte) /\ Len(code) = w /\ w \in {3, 4}
             /\ \A j \in 0..w - 1 : code[j + 1] = IF j = w - 1 THEN 1 ELSE 0
<1>1. CASE CodeOf(format, k) = ShortCode
  <2>1. \A j \in 0..2 : ShortCode[j + 1] = IF j = 2 THEN 1 ELSE 0
    BY CodesType
  <2>2. CodeOf(format, k) \in Seq(Byte) /\ Width(format, k) = 3 /\ 3 - 1 = 2
    BY <1>1, CodesType DEF Width
  <2> QED
    BY <1>1, <2>1, <2>2 DEF Width
<1>2. CASE CodeOf(format, k) = LongCode
  <2>1. \A j \in 0..3 : LongCode[j + 1] = IF j = 3 THEN 1 ELSE 0
    BY CodesType
  <2>2. CodeOf(format, k) \in Seq(Byte) /\ Width(format, k) = 4 /\ 4 - 1 = 3
    BY <1>2, CodesType DEF Width
  <2> QED
    BY <1>2, <2>1, <2>2 DEF Width
<1> QED
  BY <1>1, <1>2 DEF CodeOf

\* The units behind their start codes are sequences of bytes.
LEMMA CodedIs ==
  ASSUME NEW unit \in Seq(Seq(Byte)), \A k \in DOMAIN unit : Clean(unit[k]),
         NEW format \in {"short", "long", "mixed", "padded"}
  PROVE  LET parts == Coded(format, unit)
         IN  /\ parts \in Seq(Seq(Byte)) /\ Len(parts) = Len(unit) /\ Len(unit) \in Nat
             /\ \A k \in 1..Len(unit) :
                  LET w == Width(format, k)
                  IN  /\ Clean(unit[k]) /\ Len(unit[k]) \in Nat
                      /\ Len(parts[k]) = w + Len(unit[k])
                      /\ \A j \in 0..w - 1 : parts[k][j + 1] = IF j = w - 1 THEN 1 ELSE 0
                      /\ \A j \in 1..Len(unit[k]) : parts[k][w + j] = unit[k][j]
<1> DEFINE parts == Coded(format, unit)
<1>1. DOMAIN unit = 1..Len(unit) /\ Len(unit) \in Nat
  BY LenProperties
<1>2. ASSUME NEW k \in 1..Len(unit)
      PROVE  LET w == Width(format, k)
             IN  /\ Clean(unit[k]) /\ Len(unit[k]) \in Nat /\ parts[k] \in Seq(Byte)
                 /\ Len(parts[k]) = w + Len(unit[k])
                 /\ \A j \in 0..w - 1 : parts[k][j + 1] = IF j = w - 1 THEN 1 ELSE 0
                 /\ \A j \in 1..Len(unit[k]) : parts[k][w + j] = unit[k][j]
  <2> DEFINE w == Width(format, k)
             code == CodeOf(format, k)
             nal == unit[k]
             part == parts[k]
  <2>1. Clean(nal) /\ nal \in Seq(Byte) /\ Len(nal) \in Nat
    <3>1. Clean(nal)
      BY <1>1
    <3> QED
      BY <3>1, LenProperties DEF Clean
  <2>2. /\ code \in Seq(Byte) /\ Len(code) = w /\ w \in {3, 4}
        /\ \A j \in 0..w - 1 : code[j + 1] = IF j = w - 1 THEN 1 ELSE 0
    BY CodeOfIs
  <2>3. part = code \o nal
    <3>1. part = Prefixed(format, unit, k)
      BY <1>1 DEF Coded
    <3>2. Prefixed(format, unit, k) = code \o nal
      BY ZenonT(60) DEF Prefixed, CodeOf
    <3> QED
      BY <3>1, <3>2
  <2> HIDE DEF w, code, nal, part
  <2>4. /\ part \in Seq(Byte) /\ Len(part) = w + Len(nal)
        /\ \A i \in 1..w + Len(nal) : part[i] = IF i <= w THEN code[i] ELSE nal[i - w]
    BY <2>1, <2>2, <2>3, ConcatProperties
  <2>5. \A j \in 0..w - 1 : part[j + 1] = IF j = w - 1 THEN 1 ELSE 0
    <3>1. \A j \in 0..w - 1 : j + 1 \in 1..w + Len(nal) /\ j + 1 <= w
      BY <2>1, <2>2
    <3> QED
      BY <2>2, <2>4, <3>1
  <2>6. \A j \in 1..Len(nal) : part[w + j] = nal[j]
    <3>1. \A j \in 1..Len(nal) : w + j \in 1..w + Len(nal) /\ ~(w + j <= w) /\ (w + j) - w = j
      BY <2>1, <2>2
    <3> QED
      BY <2>4, <3>1
  <2> QED
    BY <2>1, <2>4, <2>5, <2>6 DEF w, nal, part
<1>3. DOMAIN parts = 1..Len(unit) /\ parts = [k \in 1..Len(unit) |-> parts[k]]
  BY <1>1 DEF Coded
<1> HIDE DEF parts
<1>4. parts \in Seq(Seq(Byte)) /\ Len(parts) = Len(unit)
  BY <1>1, <1>2, <1>3, Listed
<1> QED
  BY <1>1, <1>2, <1>4 DEF parts

\* A buffer in Annex B is laid out that way.
LEMMA CodedIsLaid ==
  ASSUME NEW unit \in Seq(Seq(Byte)), unit # <<>>, \A k \in DOMAIN unit : Clean(unit[k]),
         NEW format \in {"short", "long", "mixed", "padded"}
  PROVE  \E from, code : /\ Laid(Buffer(format, unit), unit, from, code)
                         /\ format # "padded" =>
                              from[Len(unit) + 1] = Len(Buffer(format, unit)) + 1
<1> DEFINE n == Len(unit)
           parts == Coded(format, unit)
           flat == FlattenSeq(parts)
           bytes == Buffer(format, unit)
           pad == IF format = "padded" THEN <<0, 0>> ELSE <<>>
           from == [k \in 1..n + 1 |-> Len(Joined(parts, k - 1)) + 1]
           code == [k \in 1..n |-> Width(format, k)]
<1>1. /\ parts \in Seq(Seq(Byte)) /\ Len(parts) = n /\ n \in Nat \ {0}
      /\ \A k \in 1..n :
           LET w == Width(format, k)
           IN  /\ Clean(unit[k]) /\ Len(unit[k]) \in Nat
               /\ Len(parts[k]) = w + Len(unit[k])
               /\ \A j \in 0..w - 1 : parts[k][j + 1] = IF j = w - 1 THEN 1 ELSE 0
               /\ \A j \in 1..Len(unit[k]) : parts[k][w + j] = unit[k][j]
  <2>1. n \in Nat \ {0}
    BY EmptySeq
  <2> QED
    BY <2>1, CodedIs
<1>2. flat \in Seq(Byte) /\ Len(flat) \in Nat
  BY <1>1, FlattenType, LenProperties
<1>3. /\ bytes \in Seq(Byte) /\ Len(bytes) \in Nat /\ Len(flat) <= Len(bytes)
      /\ format # "padded" => Len(bytes) = Len(flat)
      /\ \A i \in 1..Len(flat) : bytes[i] = flat[i]
      /\ \A i \in Len(flat) + 1..Len(bytes) : bytes[i] = 0
  <2>1. bytes = flat \o pad
    BY DEF Buffer, Coded
  <2>2. /\ pad \in Seq(Byte) /\ Len(pad) \in {0, 2} /\ \A i \in 1..Len(pad) : pad[i] = 0
        /\ format # "padded" => Len(pad) = 0
    <3>1. 0 \in Byte
      BY BaseAssumption DEF Byte
    <3>2. <<0, 0>> \in Seq(Byte) /\ Len(<<0, 0>>) = 2 /\ \A i \in 1..2 : <<0, 0>>[i] = 0
      BY <3>1
    <3>3. <<>> \in Seq(Byte) /\ Len(<<>>) = 0
      BY EmptySeq
    <3>4. CASE format = "padded"
      BY <3>2, <3>4
    <3>5. CASE format # "padded"
      BY <3>3, <3>5
    <3> QED
      BY <3>4, <3>5
  <2> HIDE DEF bytes, flat, pad
  <2>3. /\ bytes \in Seq(Byte) /\ Len(bytes) = Len(flat) + Len(pad)
        /\ \A i \in 1..Len(flat) + Len(pad) :
             bytes[i] = IF i <= Len(flat) THEN flat[i] ELSE pad[i - Len(flat)]
    BY <1>2, <2>1, <2>2, ConcatProperties
  <2>4. \A i \in 1..Len(flat) : bytes[i] = flat[i]
    <3>1. \A i \in 1..Len(flat) : i \in 1..Len(flat) + Len(pad) /\ i <= Len(flat)
      BY <1>2, <2>2
    <3> QED
      BY <2>3, <3>1
  <2>5. \A i \in Len(flat) + 1..Len(bytes) : bytes[i] = 0
    <3>1. \A i \in Len(flat) + 1..Len(bytes) :
            i \in 1..Len(flat) + Len(pad) /\ ~(i <= Len(flat)) /\ i - Len(flat) \in 1..Len(pad)
      BY <1>2, <2>2, <2>3
    <3> QED
      BY <2>2, <2>3, <3>1
  <2> QED
    BY <1>2, <2>2, <2>3, <2>4, <2>5
<1> HIDE DEF parts
<1>4. ASSUME NEW k \in 1..n
      PROVE  /\ Len(Joined(parts, k - 1)) \in Nat
             /\ Len(Joined(parts, k)) = Len(Joined(parts, k - 1)) + Len(parts[k])
             /\ Len(Joined(parts, k - 1)) + Len(parts[k]) <= Len(flat)
             /\ \A j \in 1..Len(parts[k]) : flat[Len(Joined(parts, k - 1)) + j] = parts[k][j]
  <2>1. k \in 1..Len(parts)
    BY <1>1
  <2> QED
    BY ZenonT(40), <1>1, <2>1, JoinedAt
<1>5. Len(Joined(parts, 0)) = 0 /\ Len(Joined(parts, n)) = Len(flat)
  <2>1. Joined(parts, 0) = <<>> /\ Joined(parts, Len(parts)) = FlattenSeq(parts)
    BY <1>1, JoinedSteps
  <2> QED
    BY <1>1, <2>1, EmptySeq
<1>6. \A k \in 0..n : Len(Joined(parts, k)) \in Nat
  <2>1. \A k \in 0..Len(parts) : Joined(parts, k) \in Seq(Byte)
    BY <1>1, JoinedSteps
  <2> QED
    BY <1>1, <2>1, LenProperties
<1>7. /\ from \in [1..n + 1 -> Nat] /\ from[1] = 1 /\ from[n + 1] = Len(flat) + 1
      /\ \A k \in 1..n : /\ from[k] = Len(Joined(parts, k - 1)) + 1
                         /\ from[k + 1] = Len(Joined(parts, k)) + 1
  <2>1. \A k \in 1..n + 1 : k - 1 \in 0..n
    BY <1>1
  <2>2. \A k \in 1..n + 1 : Len(Joined(parts, k - 1)) + 1 \in Nat
    BY <1>6, <2>1
  <2>3. 1 \in 1..n + 1 /\ n + 1 \in 1..n + 1 /\ 1 - 1 = 0 /\ (n + 1) - 1 = n
          /\ \A k \in 1..n : k \in 1..n + 1 /\ k + 1 \in 1..n + 1 /\ (k + 1) - 1 = k
    BY <1>1
  <2> QED
    BY <1>5, <2>2, <2>3
<1>8. code \in [1..n -> {3, 4}] /\ \A k \in 1..n : code[k] = Width(format, k)
  BY CodeOfIs
<1> HIDE DEF from, code, bytes, flat, n
<1>9. ASSUME NEW k \in 1..n
      PROVE  /\ Clean(unit[k])
             /\ from[k + 1] = from[k] + code[k] + Len(unit[k])
             /\ \A j \in 0..code[k] - 1 : bytes[from[k] + j] = IF j = code[k] - 1 THEN 1 ELSE 0
             /\ \A j \in 1..Len(unit[k]) : bytes[from[k] + code[k] + j - 1] = unit[k][j]
  <2> DEFINE part == parts[k]
             off == Len(Joined(parts, k - 1))
             w == code[k]
  <2>1. /\ Clean(unit[k]) /\ Len(unit[k]) \in Nat
        /\ Len(part) = w + Len(unit[k]) /\ w \in {3, 4}
        /\ \A j \in 0..w - 1 : part[j + 1] = IF j = w - 1 THEN 1 ELSE 0
        /\ \A j \in 1..Len(unit[k]) : part[w + j] = unit[k][j]
    <3>1. w = Width(format, k) /\ w \in {3, 4}
      BY <1>8
    <3> HIDE DEF w
    <3> QED
      BY <1>1, <3>1
  <2>2. /\ off \in Nat /\ off + Len(part) <= Len(flat) /\ from[k] = off + 1
        /\ from[k + 1] = (off + Len(part)) + 1
        /\ \A j \in 1..Len(part) : flat[off + j] = part[j]
    BY <1>4, <1>7
  <2> HIDE DEF part, off, w
  <2>3. \A j \in 1..Len(part) : bytes[off + j] = part[j]
    <3>1. \A j \in 1..Len(part) : off + j \in 1..Len(flat)
      BY <1>2, <2>1, <2>2
    <3> QED
      BY <1>3, <2>2, <3>1
  <2>4. from[k + 1] = from[k] + w + Len(unit[k])
    <3>1. \A f, g, c \in Nat : (f + (g + c)) + 1 = (f + 1) + g + c
      OBVIOUS
    <3>2. w \in Nat
      BY <2>1
    <3>3. (off + (w + Len(unit[k]))) + 1 = (off + 1) + w + Len(unit[k])
      BY <2>1, <2>2, <3>1, <3>2
    <3>4. from[k] = off + 1 /\ from[k + 1] = (off + Len(part)) + 1 /\ Len(part) = w + Len(unit[k])
      BY <2>1, <2>2
    <3> QED
      BY <3>3, <3>4
  <2>5. \A j \in 0..w - 1 : bytes[from[k] + j] = IF j = w - 1 THEN 1 ELSE 0
    <3>1. \A j \in 0..w - 1 : from[k] + j = off + (j + 1) /\ j + 1 \in 1..Len(part)
      BY <2>1, <2>2
    <3> QED
      BY ZenonT(40), <2>1, <2>3, <3>1
  <2>6. \A j \in 1..Len(unit[k]) : bytes[from[k] + w + j - 1] = unit[k][j]
    <3>1. \A j \in 1..Len(unit[k]) : from[k] + w + j - 1 = off + (w + j) /\ w + j \in 1..Len(part)
      BY SMTT(30), <2>1, <2>2
    <3> QED
      BY <2>1, <2>3, <3>1
  <2> QED
    BY <2>1, <2>4, <2>5, <2>6 DEF w
<1>10. Laid(bytes, unit, from, code)
  <2>1. from[n + 1] <= Len(bytes) + 1
    BY <1>2, <1>3, <1>7
  <2> QED
    BY <1>3, <1>7, <1>8, <1>9, <2>1 DEF Laid, n
<1>11. format # "padded" => from[n + 1] = Len(bytes) + 1
  BY <1>3, <1>7
<1> QED
  BY <1>10, <1>11 DEF bytes, n

\* What is assumed of the units.
LEMMA UnitsAreClean ==
  ASSUME NEW u \in Units
  PROVE  u \in Seq(Seq(Byte)) /\ u # <<>> /\ \A k \in DOMAIN u : Clean(u[k])
<1>1. u \in Seq(Seq(Byte)) /\ u # <<>>
  BY UnitsAssumption
<1>2. ASSUME NEW k \in DOMAIN u
      PROVE  Clean(u[k])
  <2>1. u[k] \in Seq(Byte)
    BY <1>1, LenProperties, ElementOfSeq
  <2> QED
    BY <2>1, UnitsAssumption DEF Clean
<1> QED
  BY <1>1, <1>2

\* The walk undoes the lengths of a buffer, and the platform that may get it does walk.
LEMMA AvccBuffer ==
  ASSUME NEW u \in Seq(Seq(Byte)), u # <<>>, \A k \in DOMAIN u : Measured(u[k])
  PROVE  LET bytes == Buffer("avcc", u)
         IN  /\ Avcc(bytes) = [units |-> u, end |-> "exact"]
             /\ (\A k \in DOMAIN u : ~ReadsAsCode(u[k])) => StartCodes(bytes) = {}
             /\ ~OpensOtherwise(u[1]) => 1 \notin StartCodes(bytes) /\ bytes[1] \notin Headers
<1> DEFINE bytes == Buffer("avcc", u)
           parts == LengthsFirst(u)
<1>1. parts = [k \in DOMAIN u |-> Prefixed("avcc", u, k)]
  BY DEF LengthsFirst, LengthFirst, Prefixed
<1>2. /\ parts \in Seq(Seq(Byte)) /\ Len(parts) = Len(u)
      /\ \A k \in 1..Len(u) : parts[k] = LengthFirst(u[k]) /\ Measured(u[k])
  BY LengthsFirstAre
<1>3. bytes = FlattenSeq(parts)
  <2>1. bytes = FlattenSeq(parts) \o <<>>
    BY <1>1, Zenon DEF Buffer
  <2>2. FlattenSeq(parts) \in Seq(Byte)
    BY <1>2, FlattenType
  <2> HIDE DEF bytes, parts
  <2> QED
    BY <2>1, <2>2, ConcatEmptySeq
<1>4. /\ Avcc(bytes) = [units |-> u, end |-> "exact"]
      /\ (\A k \in DOMAIN u : ~ReadsAsCode(u[k])) => StartCodes(bytes) = {}
  BY <1>3, AvccUndone, AvccHasNoCode
<1> HIDE DEF bytes, parts
<1>5. bytes \in Seq(Byte) /\ Len(bytes) \in Nat
  BY <1>2, <1>3, FlattenType, LenProperties
<1> DEFINE part == parts[1]
<1>6. /\ Len(part) \in Nat /\ 5 <= Len(part) /\ Len(part) <= Len(bytes)
      /\ \A j \in 1..Len(part) : bytes[j] = part[j]
      /\ ~OpensOtherwise(u[1]) =>
           ~ShortAt(part, 1) /\ ~LongAt(part, 1) /\ part[1] \notin Headers
  <2>1. Len(u) \in Nat \ {0}
    BY EmptySeq
  <2>2. 1 \in 1..Len(parts) /\ 1 \in 1..Len(u) /\ 1 - 1 = 0
    BY <1>2, <2>1
  <2>3. /\ Len(parts[1]) \in Nat
        /\ Len(Joined(parts, 0)) + Len(parts[1]) <= Len(bytes)
        /\ \A j \in 1..Len(parts[1]) : bytes[Len(Joined(parts, 0)) + j] = parts[1][j]
    <3>1. LET before == Len(Joined(parts, 1 - 1))
              all == FlattenSeq(parts)
          IN  /\ before \in Nat /\ Len(parts[1]) \in Nat /\ Len(all) \in Nat
              /\ Len(Joined(parts, 1)) = before + Len(parts[1])
              /\ before + Len(parts[1]) <= Len(all)
              /\ \A j \in 1..Len(parts[1]) : all[before + j] = parts[1][j]
      BY <1>2, <2>2, JoinedAt
    <3> QED
      BY <1>3, <2>2, <3>1
  <2>4. Len(Joined(parts, 0)) = 0
    <3>1. Joined(parts, 0) = <<>>
      BY <1>2, JoinedSteps
    <3> QED
      BY <3>1, EmptySeq
  <2>5. parts[1] = LengthFirst(u[1]) /\ Measured(u[1])
    BY <1>2, <2>2
  <2>6. Len(parts[1]) = Len(u[1]) + 4 /\ Len(u[1]) \in Nat \ {0}
    <3>1. Len(u[1]) \in Nat \ {0}
      BY <2>5, NoCode DEF Measured
    <3> QED
      BY <2>5, <3>1, LengthFirstIs
  <2>7. ~OpensOtherwise(u[1]) =>
          ~ShortAt(parts[1], 1) /\ ~LongAt(parts[1], 1) /\ parts[1][1] \notin Headers
    BY <2>5, LengthFirstIs
  <2>8. \A j \in 1..Len(parts[1]) : bytes[j] = parts[1][j]
    <3>1. \A j \in 1..Len(parts[1]) : 0 + j = j
      OBVIOUS
    <3> QED
      BY <2>3, <2>4, <3>1
  <2> QED
    BY <1>5, <2>3, <2>4, <2>6, <2>7, <2>8
<1> HIDE DEF part
<1>7. bytes[1] = part[1] /\ bytes[2] = part[2] /\ bytes[3] = part[3] /\ bytes[4] = part[4]
  <2>1. 1 \in 1..Len(part) /\ 2 \in 1..Len(part) /\ 3 \in 1..Len(part) /\ 4 \in 1..Len(part)
    BY <1>6
  <2> QED
    BY <1>6, <2>1
<1>8. (ShortAt(bytes, 1) => ShortAt(part, 1)) /\ (LongAt(bytes, 1) => LongAt(part, 1))
  BY <1>6, <1>7 DEF ShortAt, LongAt
<1>9. 1 \in StartCodes(bytes) => LongAt(bytes, 1) \/ ShortAt(bytes, 1)
  <2>1. 1 \in 1..Len(bytes)
    BY <1>5, <1>6
  <2> QED
    BY <1>5, <2>1, PrefixIs
<1> QED
  BY <1>4, <1>6, <1>7, <1>8, <1>9 DEF bytes

\* A single unit without anything in front of it stays one.
LEMMA BareBuffer ==
  ASSUME NEW u \in Seq(Seq(Byte)), Len(u) = 1
  PROVE  Buffer("bare", u) = u[1] /\ u = <<u[1]>>
<1> DEFINE parts == [k \in DOMAIN u |-> Prefixed("bare", u, k)]
<1>1. DOMAIN u = 1..1 /\ u[1] \in Seq(Byte)
  BY LenProperties, ElementOfSeq
<1>2. DOMAIN parts = DOMAIN u /\ \A k \in DOMAIN u : parts[k] = u[k]
  BY DEF Prefixed
<1>3. parts = u
  BY <1>1, <1>2
<1>4. Buffer("bare", u) = FlattenSeq(parts) \o <<>>
  BY Zenon DEF Buffer
<1> HIDE DEF parts
<1>5. FlattenSeq(u) = u[1]
  <2>1. Joined(u, 0) = <<>> /\ Joined(u, 1) = FlattenSeq(u) /\ Joined(u, 1) = Joined(u, 0) \o u[1]
    <3>1. /\ Joined(u, 0) = <<>> /\ Joined(u, Len(u)) = FlattenSeq(u)
          /\ \A k \in 1..Len(u) : Joined(u, k) = Joined(u, k - 1) \o u[k]
      BY JoinedSteps
    <3>2. 1 \in 1..Len(u) /\ 1 - 1 = 0
      OBVIOUS
    <3>3. Joined(u, 1) = Joined(u, 1 - 1) \o u[1]
      BY <3>1, <3>2
    <3> QED
      BY <3>1, <3>2, <3>3
  <2> QED
    BY <1>1, <2>1, ConcatEmptySeq
<1>6. u[1] \o <<>> = u[1]
  BY <1>1, ConcatEmptySeq
<1>7. u = <<u[1]>>
  BY <1>1
<1> QED
  BY <1>3, <1>4, <1>5, <1>6, <1>7

\* Whatever buffer an encoder may hand over, in AVCC or in Annex B with any of its start codes, the
\* platform's splitting returns exactly the NAL units the encoder put in, in order: in Annex B
\* units of every size, in AVCC all that have a length of four bytes, except on Windows
\* and Android those with a length that the platform takes for another format (FitsAvcc).
THEOREM SplitUndoesBuffer ==
  ASSUME platform \in {"mac", "windows", "android"}, NEW u \in Units, NEW f \in Formats(u)
  PROVE  Split(platform, Buffer(f, u)) = u
<1> DEFINE bytes == Buffer(f, u)
<1>1. u \in Seq(Seq(Byte)) /\ u # <<>> /\ \A k \in DOMAIN u : Clean(u[k])
  BY UnitsAreClean
<1>2. \/ f = "avcc" /\ FitsAvcc(u)
      \/ platform # "mac" /\ f \in {"short", "long", "mixed", "padded"}
           /\ (f = "padded" => platform = "android")
      \/ platform = "android" /\ f = "bare" /\ Len(u) = 1 /\ u[1][1] \in Headers
  BY DEF Formats, FormatsOf
<1>3. CASE f = "avcc" /\ FitsAvcc(u)
  <2>0. \A k \in DOMAIN u : Measured(u[k])
    BY <1>1, <1>3 DEF Measured, FitsAvcc
  <2>1. /\ Avcc(bytes) = [units |-> u, end |-> "exact"]
        /\ (\A k \in DOMAIN u : ~ReadsAsCode(u[k])) => StartCodes(bytes) = {}
        /\ ~OpensOtherwise(u[1]) => 1 \notin StartCodes(bytes) /\ bytes[1] \notin Headers
    BY <1>1, <1>3, <2>0, AvccBuffer
  <2> HIDE DEF bytes
  <2>2. Avcc(bytes).units = u /\ Avcc(bytes).end = "exact"
    BY <2>1
  <2>3. \A k \in DOMAIN u : u[k] # <<>>
    BY <1>1 DEF Clean
  <2>4. SplitMac(bytes) = u
    BY <2>2 DEF SplitMac
  <2>5. ASSUME platform = "windows"
        PROVE  SplitWindows(bytes) = u
    <3>1. StartCodes(bytes) = {}
      BY <1>3, <2>1, <2>5 DEF FitsAvcc
    <3> QED
      BY <2>2, <3>1 DEF SplitWindows
  <2>6. ASSUME platform = "android"
        PROVE  SplitAndroid(bytes) = u
    <3>1. 1 \notin StartCodes(bytes) /\ bytes[1] \notin Headers
      BY <1>3, <2>1, <2>6 DEF FitsAvcc
    <3> QED
      BY <2>2, <2>3, <3>1 DEF SplitAndroid
  <2> QED
    BY <2>4, <2>5, <2>6 DEF Split, bytes
<1>4. CASE platform # "mac" /\ f \in {"short", "long", "mixed", "padded"}
             /\ (f = "padded" => platform = "android")
  <2>1. \E from, code : /\ Laid(bytes, u, from, code)
                        /\ f # "padded" => from[Len(u) + 1] = Len(bytes) + 1
    BY <1>1, <1>4, CodedIsLaid
  <2>2. PICK from, code : /\ Laid(bytes, u, from, code)
                          /\ f # "padded" => from[Len(u) + 1] = Len(bytes) + 1
    BY <2>1
  <2> HIDE DEF bytes
  <2>3. CASE platform = "android"
    BY <2>2, <2>3, AndroidSplits DEF Split, bytes
  <2>4. CASE platform = "windows"
    <3>1. from[Len(u) + 1] = Len(bytes) + 1
      BY <1>4, <2>2, <2>4
    <3> QED
      BY <2>2, <2>4, <3>1, WindowsSplits DEF Split, bytes
  <2> QED
    BY <1>4, <2>3, <2>4
<1>5. CASE platform = "android" /\ f = "bare" /\ Len(u) = 1 /\ u[1][1] \in Headers
  <2>1. bytes = u[1] /\ u = <<u[1]>>
    BY <1>1, <1>5, BareBuffer
  <2>2. Clean(u[1])
    <3>1. 1 \in DOMAIN u
      BY <1>1, <1>5, LenProperties
    <3> QED
      BY <1>1, <3>1
  <2> HIDE DEF bytes
  <2>3. StartCodes(bytes) = {} /\ bytes # <<>> /\ bytes[1] \in Headers
    BY <1>5, <2>1, <2>2 DEF Clean
  <2>4. SplitAndroid(bytes) = u
    BY <2>1, <2>3 DEF SplitAndroid
  <2> QED
    BY <1>5, <2>4 DEF Split, bytes
<1> QED
  BY <1>2, <1>3, <1>4, <1>5

-----------------------------------------------------------------------------
(* The payloads of a unit, one after the other. *)

\* What a client has of a NAL unit after j payloads.
Assembled(nal, j) == IF j = 0 THEN <<>> ELSE <<nal[1]>> \o Joined(Datas(Packetize(nal)), j)

\* There is at least one payload.
LEMMA PayloadCount ==
  ASSUME NEW nal \in Seq(Byte), nal # <<>>
  PROVE  Len(Packetize(nal)) \in Nat \ {0}
<1>1. CASE Len(nal) <= Mtu
  <2> DEFINE single == Payload(FALSE, nal, TRUE, TRUE, Tail(nal))
  <2>1. Packetize(nal) = <<single>>
    BY <1>1, SinglePayload
  <2> HIDE DEF single
  <2> QED
    BY <2>1
<1>2. CASE Len(nal) > Mtu
  <2>1. PICK count : CutInto(nal, count)
    BY <1>2, CutIntoFragments
  <2>2. Len(Packetize(nal)) = count
    BY <2>1, CutType
  <2>3. count \in Nat \ {0}
    BY <2>1, Zenon DEF CutInto
  <2> QED
    BY <2>2, <2>3
<1> QED
  BY <1>1, <1>2, LongOrShort

\* A sequence is its first element and the rest.
LEMMA HeadAndTail ==
  ASSUME NEW S, NEW seq \in Seq(S), seq # <<>>
  PROVE  seq[1] \in S /\ <<seq[1]>> \o Tail(seq) = seq
<1>1. Len(seq) \in Nat \ {0}
  BY EmptySeq
<1>2. 1 \in 1..Len(seq) /\ Len(seq) \in 1..Len(seq)
  BY <1>1
<1>3. SubSeq(seq, 1, Len(seq)) = <<seq[1]>> \o SubSeq(seq, 1 + 1, Len(seq))
  BY <1>2, SubSeqRecursiveFirst
<1>4. SubSeq(seq, 1, Len(seq)) = seq /\ Tail(seq) = SubSeq(seq, 2, Len(seq)) /\ 1 + 1 = 2
  BY SubSeqFull, TailIsSubSeq
<1> QED
  BY <1>2, <1>3, <1>4, ElementOfSeq

\* Payload by payload a client gets the whole unit.
LEMMA PayloadsAre ==
  ASSUME NEW nal \in Seq(Byte), nal # <<>>
  PROVE  LET payloads == Packetize(nal)
         IN  /\ payloads \in Seq(Fits) /\ Len(payloads) \in Nat \ {0}
             /\ DOMAIN payloads = 1..Len(payloads)
             /\ Assembled(nal, 0) = <<>> /\ Assembled(nal, Len(payloads)) = nal
             /\ \A j \in 1..Len(payloads) :
                  /\ payloads[j].header = nal[1]
                  /\ payloads[j].first = (j = 1)
                  /\ payloads[j].last = (j = Len(payloads))
                  /\ Assembled(nal, j) # <<>>
                  /\ Assembled(nal, j) =
                       (IF j = 1 THEN <<nal[1]>> ELSE Assembled(nal, j - 1)) \o payloads[j].data
<1> DEFINE payloads == Packetize(nal)
           datas == Datas(payloads)
           c == Len(payloads)
<1>1. payloads \in Seq(Fits) /\ c \in Nat \ {0} /\ DOMAIN payloads = 1..c
  BY PacketizeType, PayloadCount, LenProperties
<1>2. /\ \A j \in 1..c : /\ payloads[j].header = nal[1]
                         /\ payloads[j].first = (j = 1)
                         /\ payloads[j].last = (j = c)
      /\ FlattenSeq(datas) = Tail(nal)
  <2>1. LET all == Packetize(nal)
         IN  /\ all \in Seq(Fits)
             /\ \A k \in DOMAIN all :
                  /\ all[k].header = nal[1]
                  /\ all[k].first = (k = 1)
                  /\ all[k].last = (k = Len(all))
             /\ FlattenSeq([k \in DOMAIN all |-> all[k].data]) = Tail(nal)
    BY PayloadsCarryTheUnit
  <2> QED
    BY <1>1, <2>1, Zenon DEF Datas
<1>3. datas \in Seq(Seq(Byte)) /\ Len(datas) = c /\ \A j \in 1..c : datas[j] = payloads[j].data
  <2> HIDE DEF payloads, c
  <2>1. \A j \in 1..c : payloads[j] \in Fits
    BY <1>1, ElementOfSeq DEF c
  <2>2. DOMAIN datas = 1..c /\ datas = [j \in 1..c |-> datas[j]] /\ \A j \in 1..c : datas[j] = payloads[j].data
    BY <1>1 DEF Datas
  <2>3. \A j \in 1..c : datas[j] \in Seq(Byte)
    BY <2>1, <2>2 DEF Fits
  <2> HIDE DEF datas
  <2> QED
    BY <1>1, <2>2, <2>3, Listed
<1> HIDE DEF payloads, c, datas
<1>4. /\ Joined(datas, 0) = <<>> /\ Joined(datas, c) = FlattenSeq(datas)
      /\ \A k \in 0..c : Joined(datas, k) \in Seq(Byte)
      /\ \A k \in 1..c : Joined(datas, k) = Joined(datas, k - 1) \o datas[k]
  BY <1>3, JoinedSteps
<1>5. \A j \in 1..c : Assembled(nal, j) = <<nal[1]>> \o Joined(datas, j)
  <2>1. \A j \in 1..c : j # 0
    BY <1>1
  <2> QED
    BY <2>1 DEF Assembled, datas, payloads
<1>6. Assembled(nal, 0) = <<>>
  BY DEF Assembled
<1>7. nal[1] \in Byte /\ <<nal[1]>> \o Tail(nal) = nal
  BY HeadAndTail
<1>8. Assembled(nal, c) = nal
  <2>1. c \in 1..c
    BY <1>1
  <2>2. Assembled(nal, c) = <<nal[1]>> \o Joined(datas, c)
    BY <1>5, <2>1
  <2>3. Joined(datas, c) = Tail(nal)
    BY <1>2, <1>4
  <2> QED
    BY <1>7, <2>2, <2>3, Zenon
<1>9. ASSUME NEW j \in 1..c
      PROVE  /\ Assembled(nal, j) # <<>>
             /\ Assembled(nal, j) = (IF j = 1 THEN <<nal[1]>> ELSE Assembled(nal, j - 1)) \o payloads[j].data
  <2>1. <<nal[1]>> \in Seq(Byte) /\ Len(<<nal[1]>>) = 1
    BY <1>7
  <2>2. j - 1 \in 0..c /\ j \in 0..c /\ (j # 1 => j - 1 \in 1..c)
    BY <1>1
  <2>3. Joined(datas, j - 1) \in Seq(Byte) /\ Joined(datas, j) \in Seq(Byte) /\ datas[j] \in Seq(Byte)
    BY <1>3, <1>4, <2>2, ElementOfSeq
  <2>4. Assembled(nal, j) = (<<nal[1]>> \o Joined(datas, j - 1)) \o datas[j]
    <3>1. Assembled(nal, j) = <<nal[1]>> \o (Joined(datas, j - 1) \o datas[j])
      BY <1>4, <1>5
    <3>2. (<<nal[1]>> \o Joined(datas, j - 1)) \o datas[j]
            = <<nal[1]>> \o (Joined(datas, j - 1) \o datas[j])
      <4>1. \A a, b, d \in Seq(Byte) : (a \o b) \o d = a \o (b \o d)
        <5>1. ASSUME NEW a \in Seq(Byte), NEW b \in Seq(Byte), NEW d \in Seq(Byte)
              PROVE  (a \o b) \o d = a \o (b \o d)
          BY ConcatAssociative
        <5> QED
          BY <5>1
      <4> QED
        BY <2>1, <2>3, <4>1, Zenon
    <3> QED
      BY <3>1, <3>2, Zenon
  <2>5. <<nal[1]>> \o Joined(datas, j - 1) = IF j = 1 THEN <<nal[1]>> ELSE Assembled(nal, j - 1)
    <3>1. CASE j = 1
      <4>1. Joined(datas, j - 1) = <<>>
        BY <1>4, <3>1
      <4> QED
        BY <2>1, <3>1, <4>1, ConcatEmptySeq
    <3>2. CASE j # 1
      BY <1>5, <2>2, <3>2
    <3> QED
      BY <3>1, <3>2
  <2>6. Assembled(nal, j) # <<>>
    <3>1. Assembled(nal, j) = <<nal[1]>> \o Joined(datas, j)
      BY <1>5
    <3>2. Len(<<nal[1]>> \o Joined(datas, j)) = 1 + Len(Joined(datas, j)) /\ Len(Joined(datas, j)) \in Nat
      BY <2>1, <2>3, ConcatProperties, LenProperties
    <3>3. 1 + Len(Joined(datas, j)) # 0
      BY <3>2
    <3> QED
      BY <3>1, <3>2, <3>3, EmptySeq
  <2> QED
    BY <1>3, <2>4, <2>5, <2>6
<1> QED
  BY <1>1, <1>2, <1>6, <1>8, <1>9 DEF payloads, c

-----------------------------------------------------------------------------
(* The packets of all units. *)

\* The packets of a unit by NAL unit, and those of all units by unit.
NalPackets(nals, pts) ==
  [n \in DOMAIN nals |->
    LET payloads == Packetize(nals[n]) IN
    [k \in DOMAIN payloads |->
      [kind |-> "rtp", pts |-> pts, payload |-> payloads[k],
       marker |-> n = Len(nals) /\ k = Len(payloads)]]]

UnitPackets(units) == [n \in DOMAIN units |-> Packets(units[n], n)]

Flow(units) == FlattenSeq(UnitPackets(units))

\* The packets that precede a unit, and those that precede a NAL unit within its unit.
UnitsBefore(units, n) == Len(Joined(UnitPackets(units), n - 1))
NalsBefore(units, n, k) == Len(Joined(NalPackets(units[n], n), k - 1))

\* The packet of payload j of NAL unit k of unit n.
Carried(units, n, k, j) ==
  [kind |-> "rtp", pts |-> n, payload |-> Packetize(units[n][k])[j],
   marker |-> k = Len(units[n]) /\ j = Len(Packetize(units[n][k]))]

\* Packet x carries payload j of NAL unit k of unit n.
Place(units, x, n, k, j) ==
  /\ n \in 1..Len(units) /\ k \in 1..Len(units[n]) /\ j \in 1..Len(Packetize(units[n][k]))
  /\ x = UnitsBefore(units, n) + NalsBefore(units, n, k) + j

\* Any units an encoder may have made.
MadeOf(units) == units \in Seq(Units) /\ Len(units) <= MaxUnits

\* The units that were made, and their NAL units.
LEMMA MadeIs ==
  ASSUME NEW units, MadeOf(units)
  PROVE  /\ Len(units) \in Nat /\ DOMAIN units = 1..Len(units)
         /\ \A n \in 1..Len(units) :
              /\ n \in 1..MaxUnits /\ units[n] \in Units
              /\ units[n] \in Seq(Seq(Byte)) /\ Len(units[n]) \in Nat \ {0}
              /\ DOMAIN units[n] = 1..Len(units[n])
              /\ \A k \in 1..Len(units[n]) : units[n][k] \in Seq(Byte) /\ units[n][k] # <<>>
<1>1. Len(units) \in Nat /\ DOMAIN units = 1..Len(units) /\ Len(units) <= MaxUnits /\ MaxUnits \in Nat
  BY LenProperties, LimitsAssumption DEF MadeOf
<1>2. ASSUME NEW n \in 1..Len(units)
      PROVE  /\ n \in 1..MaxUnits /\ units[n] \in Units
             /\ units[n] \in Seq(Seq(Byte)) /\ Len(units[n]) \in Nat \ {0}
             /\ DOMAIN units[n] = 1..Len(units[n])
             /\ \A k \in 1..Len(units[n]) : units[n][k] \in Seq(Byte) /\ units[n][k] # <<>>
  <2> DEFINE u == units[n]
  <2>1. u \in Units /\ n \in 1..MaxUnits
    BY <1>1, ElementOfSeq DEF MadeOf
  <2> HIDE DEF u
  <2>2. u \in Seq(Seq(Byte)) /\ u # <<>> /\ \A k \in DOMAIN u : Clean(u[k])
    BY <2>1, UnitsAreClean
  <2>3. Len(u) \in Nat \ {0} /\ DOMAIN u = 1..Len(u)
    BY <2>2, EmptySeq, LenProperties
  <2> QED
    BY <2>1, <2>2, <2>3 DEF u, Clean
<1> QED
  BY <1>1, <1>2

\* The packets of a unit, NAL unit by NAL unit.
LEMMA NalPacketsAre ==
  ASSUME NEW nals \in Seq(Seq(Byte)), \A k \in 1..Len(nals) : nals[k] # <<>>,
         NEW pts \in 1..MaxUnits
  PROVE  LET parts == NalPackets(nals, pts)
         IN  /\ parts \in Seq(Seq(Waiting)) /\ Len(parts) = Len(nals) /\ Len(nals) \in Nat
             /\ Packets(nals, pts) = FlattenSeq(parts)
             /\ \A k \in 1..Len(nals) :
                  /\ Len(parts[k]) = Len(Packetize(nals[k])) /\ Len(Packetize(nals[k])) \in Nat \ {0}
                  /\ \A j \in 1..Len(Packetize(nals[k])) :
                       parts[k][j] = [kind |-> "rtp", pts |-> pts, payload |-> Packetize(nals[k])[j],
                                      marker |-> k = Len(nals) /\ j = Len(Packetize(nals[k]))]
<1> DEFINE parts == NalPackets(nals, pts)
           Item(k, j) == [kind |-> "rtp", pts |-> pts, payload |-> Packetize(nals[k])[j],
                          marker |-> k = Len(nals) /\ j = Len(Packetize(nals[k]))]
<1>1. DOMAIN nals = 1..Len(nals) /\ Len(nals) \in Nat
  BY LenProperties
<1>2. Packets(nals, pts) = FlattenSeq(parts)
  BY Zenon DEF Packets, NalPackets
<1>3. ASSUME NEW k \in 1..Len(nals)
      PROVE  /\ parts[k] \in Seq(Waiting)
             /\ Len(parts[k]) = Len(Packetize(nals[k])) /\ Len(Packetize(nals[k])) \in Nat \ {0}
             /\ \A j \in 1..Len(Packetize(nals[k])) : parts[k][j] = Item(k, j)
  <2> DEFINE payloads == Packetize(nals[k])
             c == Len(payloads)
             part == [j \in DOMAIN payloads |-> Item(k, j)]
  <2>1. payloads \in Seq(Fits) /\ c \in Nat \ {0} /\ DOMAIN payloads = 1..c
    <3>1. nals[k] \in Seq(Byte) /\ nals[k] # <<>>
      BY ElementOfSeq
    <3> QED
      BY <3>1, PayloadCount, PacketizeType, LenProperties
  <2>2. parts[k] = part
    BY <1>1, Zenon DEF NalPackets
  <2>3. ASSUME NEW j \in 1..c
        PROVE  Item(k, j) \in Waiting
    <3> HIDE DEF payloads, c
    <3>1. payloads[j] \in Fits
      BY <2>1, ElementOfSeq DEF c
    <3>2. (k = Len(nals) /\ j = c) \in BOOLEAN
      OBVIOUS
    <3>3. Item(k, j) = [kind |-> "rtp", pts |-> pts, payload |-> payloads[j],
                        marker |-> k = Len(nals) /\ j = c]
      BY DEF payloads, c
    <3> HIDE DEF Item
    <3> QED
      BY <3>1, <3>2, <3>3 DEF Waiting
  <2> HIDE DEF Item
  <2>4. DOMAIN part = 1..c /\ part = [j \in 1..c |-> part[j]] /\ \A j \in 1..c : part[j] = Item(k, j)
    <3> HIDE DEF payloads, c
    <3> QED
      BY <2>1
  <2> HIDE DEF part
  <2>5. part \in Seq(Waiting) /\ Len(part) = c
    <3> HIDE DEF payloads, c
    <3>1. \A j \in 1..c : part[j] \in Waiting
      BY <2>3, <2>4
    <3>2. c \in Nat
      BY <2>1
    <3> QED
      BY <2>4, <3>1, <3>2, Listed
  <2> HIDE DEF parts
  <2> QED
    BY <2>1, <2>2, <2>4, <2>5
<1>4. DOMAIN parts = 1..Len(nals) /\ parts = [k \in 1..Len(nals) |-> parts[k]]
  BY <1>1 DEF NalPackets
<1> HIDE DEF parts
<1>5. parts \in Seq(Seq(Waiting)) /\ Len(parts) = Len(nals)
  <2> HIDE DEF Item
  <2> QED
    BY <1>1, <1>3, <1>4, Listed
<1> QED
  BY <1>1, <1>2, <1>3, <1>5 DEF parts

\* And those of all units.
LEMMA UnitPacketsAre ==
  ASSUME NEW units, MadeOf(units)
  PROVE  /\ UnitPackets(units) \in Seq(Seq(Waiting)) /\ Len(UnitPackets(units)) = Len(units)
         /\ \A n \in 1..Len(units) : /\ UnitPackets(units)[n] = Packets(units[n], n)
                                     /\ UnitPackets(units)[n] = FlattenSeq(NalPackets(units[n], n))
<1> DEFINE parts == UnitPackets(units)
<1>1. Len(units) \in Nat /\ DOMAIN units = 1..Len(units)
  BY MadeIs
<1>2. ASSUME NEW n \in 1..Len(units)
      PROVE  /\ parts[n] = Packets(units[n], n)
             /\ parts[n] = FlattenSeq(NalPackets(units[n], n)) /\ parts[n] \in Seq(Waiting)
  <2>1. parts[n] = Packets(units[n], n)
    BY <1>1 DEF UnitPackets
  <2>2. /\ n \in 1..MaxUnits /\ units[n] \in Seq(Seq(Byte))
        /\ \A k \in 1..Len(units[n]) : units[n][k] # <<>>
    BY MadeIs
  <2> HIDE DEF parts
  <2>3. Packets(units[n], n) = FlattenSeq(NalPackets(units[n], n))
    BY <2>2, NalPacketsAre
  <2>4. Packets(units[n], n) \in Seq(Waiting)
    BY <2>2, PacketsType
  <2> QED
    BY <2>1, <2>3, <2>4
<1>3. DOMAIN parts = 1..Len(units) /\ parts = [n \in 1..Len(units) |-> parts[n]]
  BY <1>1 DEF UnitPackets
<1> HIDE DEF parts
<1>4. parts \in Seq(Seq(Waiting)) /\ Len(parts) = Len(units)
  BY <1>1, <1>2, <1>3, Listed
<1> QED
  BY <1>2, <1>4 DEF parts

\* parts are the packets of the NAL units nals, NAL unit by NAL unit.
Parcelled(nals, pts, parts) ==
  /\ parts \in Seq(Seq(Waiting)) /\ Len(parts) = Len(nals) /\ Len(nals) \in Nat
  /\ Packets(nals, pts) = FlattenSeq(parts)
  /\ \A k \in 1..Len(nals) :
       /\ Len(parts[k]) = Len(Packetize(nals[k])) /\ Len(Packetize(nals[k])) \in Nat \ {0}
       /\ \A j \in 1..Len(Packetize(nals[k])) :
            parts[k][j] = [kind |-> "rtp", pts |-> pts, payload |-> Packetize(nals[k])[j],
                           marker |-> k = Len(nals) /\ j = Len(Packetize(nals[k]))]

\* The same in one word.
LEMMA NalPacketsParcelled ==
  ASSUME NEW nals \in Seq(Seq(Byte)), \A k \in 1..Len(nals) : nals[k] # <<>>,
         NEW pts \in 1..MaxUnits
  PROVE  Parcelled(nals, pts, NalPackets(nals, pts))
<1>1. LET parts == NalPackets(nals, pts)
      IN  /\ parts \in Seq(Seq(Waiting)) /\ Len(parts) = Len(nals) /\ Len(nals) \in Nat
          /\ Packets(nals, pts) = FlattenSeq(parts)
          /\ \A k \in 1..Len(nals) :
               /\ Len(parts[k]) = Len(Packetize(nals[k])) /\ Len(Packetize(nals[k])) \in Nat \ {0}
               /\ \A j \in 1..Len(Packetize(nals[k])) :
                    parts[k][j] = [kind |-> "rtp", pts |-> pts, payload |-> Packetize(nals[k])[j],
                                   marker |-> k = Len(nals) /\ j = Len(Packetize(nals[k]))]
  BY NalPacketsAre
<1> QED
  BY <1>1, Zenon DEF Parcelled

\* The same for the units that were made.
LEMMA NalPacketsOf ==
  ASSUME NEW units, MadeOf(units), NEW n \in 1..Len(units)
  PROVE  LET nals == NalPackets(units[n], n)
         IN  /\ nals \in Seq(Seq(Waiting)) /\ Len(nals) = Len(units[n])
             /\ \A k \in 1..Len(units[n]) :
                  /\ Len(nals[k]) = Len(Packetize(units[n][k])) /\ Len(Packetize(units[n][k])) \in Nat \ {0}
                  /\ \A j \in 1..Len(Packetize(units[n][k])) : nals[k][j] = Carried(units, n, k, j)
<1> DEFINE nals == NalPackets(units[n], n)
<1>2. /\ Len(units) \in Nat /\ n \in 1..MaxUnits /\ units[n] \in Seq(Seq(Byte))
      /\ Len(units[n]) \in Nat \ {0} /\ \A k \in 1..Len(units[n]) : units[n][k] # <<>>
  BY MadeIs
<1>3. /\ nals \in Seq(Seq(Waiting)) /\ Len(nals) = Len(units[n])
      /\ \A k \in 1..Len(units[n]) :
           /\ Len(nals[k]) = Len(Packetize(units[n][k])) /\ Len(Packetize(units[n][k])) \in Nat \ {0}
           /\ \A j \in 1..Len(Packetize(units[n][k])) : nals[k][j] = Carried(units, n, k, j)
  <2>1. Parcelled(units[n], n, NalPackets(units[n], n))
    BY <1>2, NalPacketsParcelled
  <2> QED
    BY <2>1, Zenon DEF Parcelled, Carried
<1> HIDE DEF nals
<1> QED
  BY <1>3 DEF nals

\* What precedes a NAL unit is a number of packets, and what follows begins there.
LEMMA OffsetsAre ==
  ASSUME NEW units, MadeOf(units), NEW n \in 1..Len(units)
  PROVE  LET whole == NalsBefore(units, n, Len(units[n]) + 1)
         IN  /\ UnitsBefore(units, n) \in Nat /\ whole \in Nat /\ Len(Flow(units)) \in Nat
             /\ UnitsBefore(units, n + 1) = UnitsBefore(units, n) + whole
             /\ UnitsBefore(units, n + 1) <= Len(Flow(units))
             /\ NalsBefore(units, n, 1) = 0
             /\ \A i \in 1..whole : Flow(units)[UnitsBefore(units, n) + i] = UnitPackets(units)[n][i]
             /\ \A k \in 1..Len(units[n]) :
                  /\ NalsBefore(units, n, k) \in Nat
                  /\ NalsBefore(units, n, k + 1) = NalsBefore(units, n, k) + Len(Packetize(units[n][k]))
                  /\ NalsBefore(units, n, k + 1) <= whole
                  /\ Len(Packetize(units[n][k])) \in Nat \ {0}
                  /\ \A j \in 1..Len(Packetize(units[n][k])) :
                       UnitPackets(units)[n][NalsBefore(units, n, k) + j] = Carried(units, n, k, j)
<1> DEFINE parts == UnitPackets(units)
           nals == NalPackets(units[n], n)
           whole == NalsBefore(units, n, Len(units[n]) + 1)
<1>1. /\ parts \in Seq(Seq(Waiting)) /\ Len(parts) = Len(units)
      /\ parts[n] = FlattenSeq(nals)
  BY UnitPacketsAre
<1>2. /\ Len(units) \in Nat /\ n \in 1..MaxUnits /\ units[n] \in Seq(Seq(Byte))
      /\ Len(units[n]) \in Nat \ {0} /\ \A k \in 1..Len(units[n]) : units[n][k] # <<>>
  BY MadeIs
<1>3. /\ nals \in Seq(Seq(Waiting)) /\ Len(nals) = Len(units[n])
      /\ \A k \in 1..Len(units[n]) :
           /\ Len(nals[k]) = Len(Packetize(units[n][k])) /\ Len(Packetize(units[n][k])) \in Nat \ {0}
           /\ \A j \in 1..Len(Packetize(units[n][k])) : nals[k][j] = Carried(units, n, k, j)
  BY NalPacketsOf
<1> HIDE DEF parts, nals
<1>4. /\ Joined(nals, 0) = <<>> /\ Joined(nals, Len(units[n])) = parts[n]
  BY <1>1, <1>3, JoinedSteps
<1>5. whole = Len(parts[n]) /\ NalsBefore(units, n, 1) = 0
  <2>1. (Len(units[n]) + 1) - 1 = Len(units[n]) /\ 1 - 1 = 0
    BY <1>2
  <2> QED
    BY <1>4, <2>1, EmptySeq DEF NalsBefore, nals
<1>6. /\ Len(Joined(parts, n - 1)) \in Nat /\ Len(parts[n]) \in Nat /\ Len(FlattenSeq(parts)) \in Nat
      /\ Len(Joined(parts, n)) = Len(Joined(parts, n - 1)) + Len(parts[n])
      /\ Len(Joined(parts, n - 1)) + Len(parts[n]) <= Len(FlattenSeq(parts))
      /\ \A i \in 1..Len(parts[n]) : FlattenSeq(parts)[Len(Joined(parts, n - 1)) + i] = parts[n][i]
  <2>1. n \in 1..Len(parts)
    BY <1>1
  <2> QED
    BY <1>1, <2>1, JoinedAt
<1>7. UnitsBefore(units, n) = Len(Joined(parts, n - 1)) /\ UnitsBefore(units, n + 1) = Len(Joined(parts, n))
        /\ Flow(units) = FlattenSeq(parts)
  <2>1. (n + 1) - 1 = n
    BY <1>2
  <2> QED
    BY <2>1 DEF UnitsBefore, Flow, parts
<1>8. ASSUME NEW k \in 1..Len(units[n])
      PROVE  /\ NalsBefore(units, n, k) \in Nat
             /\ NalsBefore(units, n, k + 1) = NalsBefore(units, n, k) + Len(Packetize(units[n][k]))
             /\ NalsBefore(units, n, k + 1) <= whole
             /\ Len(Packetize(units[n][k])) \in Nat \ {0}
             /\ \A j \in 1..Len(Packetize(units[n][k])) :
                  parts[n][NalsBefore(units, n, k) + j] = Carried(units, n, k, j)
  <2>1. k \in 1..Len(nals)
    BY <1>3
  <2>2. /\ Len(Joined(nals, k - 1)) \in Nat /\ Len(nals[k]) \in Nat
        /\ Len(Joined(nals, k)) = Len(Joined(nals, k - 1)) + Len(nals[k])
        /\ Len(Joined(nals, k - 1)) + Len(nals[k]) <= Len(FlattenSeq(nals))
        /\ \A j \in 1..Len(nals[k]) : FlattenSeq(nals)[Len(Joined(nals, k - 1)) + j] = nals[k][j]
    BY <1>3, <2>1, JoinedAt
  <2>3. NalsBefore(units, n, k) = Len(Joined(nals, k - 1)) /\ NalsBefore(units, n, k + 1) = Len(Joined(nals, k))
    <3>1. (k + 1) - 1 = k
      BY <1>2
    <3> QED
      BY <3>1 DEF NalsBefore, nals
  <2>4. FlattenSeq(nals) = parts[n]
    BY <1>1
  <2> HIDE DEF whole
  <2> QED
    BY <1>3, <1>5, <2>2, <2>3, <2>4
<1> HIDE DEF whole
<1>9. /\ UnitsBefore(units, n) \in Nat /\ whole \in Nat /\ Len(Flow(units)) \in Nat
      /\ UnitsBefore(units, n + 1) = UnitsBefore(units, n) + whole
      /\ UnitsBefore(units, n + 1) <= Len(Flow(units))
      /\ \A i \in 1..whole : Flow(units)[UnitsBefore(units, n) + i] = parts[n][i]
  BY <1>5, <1>6, <1>7
<1> QED
  BY <1>5, <1>8, <1>9 DEF whole, parts

\* No packet precedes the first unit, and all precede the one after the last.
LEMMA AllBefore ==
  ASSUME NEW units, MadeOf(units)
  PROVE  /\ UnitsBefore(units, 1) = 0 /\ UnitsBefore(units, Len(units) + 1) = Len(Flow(units))
         /\ Flow(units) \in Seq(Waiting) /\ Len(Flow(units)) \in Nat
<1>1. UnitPackets(units) \in Seq(Seq(Waiting)) /\ Len(UnitPackets(units)) = Len(units) /\ Len(units) \in Nat
  BY UnitPacketsAre, MadeIs
<1>2. /\ Joined(UnitPackets(units), 0) = <<>>
      /\ Joined(UnitPackets(units), Len(units)) = FlattenSeq(UnitPackets(units))
  BY <1>1, JoinedSteps
<1>3. (Len(units) + 1) - 1 = Len(units) /\ 1 - 1 = 0
  BY <1>1
<1>4. Flow(units) \in Seq(Waiting) /\ Len(Flow(units)) \in Nat
  BY <1>1, FlattenType, LenProperties DEF Flow
<1> QED
  BY <1>2, <1>3, <1>4, EmptySeq DEF UnitsBefore, Flow

\* A place names one packet, and its unit's bounds.
LEMMA PlaceIs ==
  ASSUME NEW units, MadeOf(units), NEW x, NEW n, NEW k, NEW j, Place(units, x, n, k, j)
  PROVE  /\ x \in 1..Len(Flow(units)) /\ Flow(units)[x] = Carried(units, n, k, j)
         /\ UnitsBefore(units, n) < x /\ x <= UnitsBefore(units, n + 1)
         /\ UnitsBefore(units, n) \in Nat /\ UnitsBefore(units, n + 1) \in Nat
<1> DEFINE whole == NalsBefore(units, n, Len(units[n]) + 1)
           i == NalsBefore(units, n, k) + j
           off == UnitsBefore(units, n)
           c == Len(Packetize(units[n][k]))
<1>1. n \in 1..Len(units) /\ k \in 1..Len(units[n]) /\ j \in 1..c /\ x = off + NalsBefore(units, n, k) + j
  BY DEF Place
<1>2. /\ off \in Nat /\ whole \in Nat /\ Len(Flow(units)) \in Nat
      /\ UnitsBefore(units, n + 1) = off + whole
      /\ UnitsBefore(units, n + 1) <= Len(Flow(units))
      /\ \A m \in 1..whole : Flow(units)[off + m] = UnitPackets(units)[n][m]
      /\ NalsBefore(units, n, k) \in Nat
      /\ NalsBefore(units, n, k + 1) = NalsBefore(units, n, k) + c
      /\ NalsBefore(units, n, k + 1) <= whole
      /\ c \in Nat \ {0}
      /\ UnitPackets(units)[n][i] = Carried(units, n, k, j)
  BY <1>1, OffsetsAre
<1> HIDE DEF off, whole, c
<1>3. i \in 1..whole /\ x = off + i /\ i \in Nat \ {0}
  BY SMTT(30), <1>1, <1>2
<1> HIDE DEF i
<1>4. x \in 1..Len(Flow(units)) /\ off < x /\ x <= off + whole
  BY SMTT(30), <1>2, <1>3
<1>5. Flow(units)[x] = UnitPackets(units)[n][i]
  BY SMTT(30), <1>2, <1>3
<1>6. off + whole \in Nat
  BY <1>2
<1> QED
  BY <1>2, <1>4, <1>5, <1>6 DEF off

\* Every packet has a place.
LEMMA Placed ==
  ASSUME NEW units, MadeOf(units), NEW x \in 1..Len(Flow(units))
  PROVE  \E n, k, j : Place(units, x, n, k, j)
<1>1. /\ UnitPackets(units) \in Seq(Seq(Waiting)) /\ Len(UnitPackets(units)) = Len(units)
      /\ \A n \in 1..Len(units) : UnitPackets(units)[n] = FlattenSeq(NalPackets(units[n], n))
  BY UnitPacketsAre
<1>2. x \in 1..Len(FlattenSeq(UnitPackets(units)))
  BY DEF Flow
<1>a. PICK n \in 1..Len(UnitPackets(units)) :
        \E i \in 1..Len(UnitPackets(units)[n]) : x = Len(Joined(UnitPackets(units), n - 1)) + i
  BY <1>1, <1>2, Located
<1>3. n \in 1..Len(units)
  BY <1>1
<1>4. PICK i \in 1..Len(UnitPackets(units)[n]) : x = Len(Joined(UnitPackets(units), n - 1)) + i
  BY <1>a
<1> DEFINE nals == NalPackets(units[n], n)
<1>5. i \in 1..Len(FlattenSeq(nals))
  BY <1>1, <1>3, <1>4
<1>6. /\ nals \in Seq(Seq(Waiting)) /\ Len(nals) = Len(units[n])
      /\ \A k \in 1..Len(units[n]) : Len(nals[k]) = Len(Packetize(units[n][k]))
  BY <1>3, NalPacketsOf
<1> HIDE DEF nals
<1>7. PICK k \in 1..Len(nals) : \E j \in 1..Len(nals[k]) : i = Len(Joined(nals, k - 1)) + j
  BY <1>5, <1>6, Located
<1>8. PICK j \in 1..Len(nals[k]) : i = Len(Joined(nals, k - 1)) + j
  BY <1>7
<1>9. n \in 1..Len(units) /\ k \in 1..Len(units[n]) /\ j \in 1..Len(Packetize(units[n][k]))
  BY <1>3, <1>6, <1>8
<1>10. x = UnitsBefore(units, n) + NalsBefore(units, n, k) + j
  <2>1. x = UnitsBefore(units, n) + (NalsBefore(units, n, k) + j)
    BY <1>4, <1>8 DEF UnitsBefore, NalsBefore, nals
  <2>2. UnitsBefore(units, n) \in Nat /\ NalsBefore(units, n, k) \in Nat
    BY <1>9, OffsetsAre
  <2>3. \A a, b \in Nat : \A m \in Int : a + (b + m) = a + b + m
    OBVIOUS
  <2>4. j \in Int
    BY <1>9
  <2> QED
    BY <2>1, <2>2, <2>3, <2>4
<1> QED
  BY <1>9, <1>10 DEF Place

\* The place of the next packet.
LEMMA PlaceNext ==
  ASSUME NEW units, MadeOf(units), NEW x, NEW n, NEW k, NEW j, Place(units, x, n, k, j)
  PROVE  LET c == Len(Packetize(units[n][k]))
         IN  /\ j # c => Place(units, x + 1, n, k, j + 1)
             /\ j = c /\ k # Len(units[n]) => Place(units, x + 1, n, k + 1, 1)
             /\ j = c /\ k = Len(units[n]) /\ n # Len(units) => Place(units, x + 1, n + 1, 1, 1)
             /\ j = c /\ k = Len(units[n]) /\ n = Len(units) => x = Len(Flow(units))
<1> DEFINE whole == NalsBefore(units, n, Len(units[n]) + 1)
           before == NalsBefore(units, n, k)
           off == UnitsBefore(units, n)
           c == Len(Packetize(units[n][k]))
<1>1. n \in 1..Len(units) /\ k \in 1..Len(units[n]) /\ j \in 1..c /\ x = off + before + j
  BY DEF Place
<1>2. Len(units) \in Nat /\ Len(units[n]) \in Nat
  BY <1>1, MadeIs
<1>3. /\ off \in Nat /\ whole \in Nat /\ UnitsBefore(units, n + 1) = off + whole
      /\ before \in Nat /\ NalsBefore(units, n, k + 1) = before + c /\ c \in Nat \ {0}
      /\ \A m \in 1..Len(units[n]) : Len(Packetize(units[n][m])) \in Nat \ {0}
  BY <1>1, OffsetsAre
<1> HIDE DEF whole, before, off, c
<1>4. ASSUME j # c
      PROVE  Place(units, x + 1, n, k, j + 1)
  <2>1. j + 1 \in 1..c /\ x + 1 = off + before + (j + 1)
    BY <1>1, <1>3, <1>4
  <2> QED
    BY <1>1, <2>1 DEF Place, off, before, c
<1>5. ASSUME j = c, k # Len(units[n])
      PROVE  Place(units, x + 1, n, k + 1, 1)
  <2>1. k + 1 \in 1..Len(units[n])
    BY <1>1, <1>2, <1>5
  <2>2. 1 \in 1..Len(Packetize(units[n][k + 1]))
    <3>1. Len(Packetize(units[n][k + 1])) \in Nat \ {0}
      BY <1>3, <2>1
    <3> QED
      BY <3>1
  <2>3. x + 1 = off + (before + c) + 1
    BY <1>1, <1>3, <1>5
  <2>4. x + 1 = UnitsBefore(units, n) + NalsBefore(units, n, k + 1) + 1
    BY <1>3, <2>3 DEF off
  <2> QED
    BY <1>1, <2>1, <2>2, <2>4 DEF Place
<1>6. ASSUME j = c, k = Len(units[n])
      PROVE  x = UnitsBefore(units, n + 1)
  <2>1. whole = before + c
    BY <1>3, <1>6 DEF whole
  <2> QED
    BY <1>1, <1>3, <1>6, <2>1
<1>7. ASSUME j = c, k = Len(units[n]), n # Len(units)
      PROVE  Place(units, x + 1, n + 1, 1, 1)
  <2>1. n + 1 \in 1..Len(units)
    BY <1>1, <1>2, <1>7
  <2>2. /\ NalsBefore(units, n + 1, 1) = 0 /\ UnitsBefore(units, n + 1) \in Nat
        /\ \A m \in 1..Len(units[n + 1]) : Len(Packetize(units[n + 1][m])) \in Nat \ {0}
    BY <2>1, OffsetsAre
  <2>3. 1 \in 1..Len(units[n + 1])
    <3>1. Len(units[n + 1]) \in Nat \ {0}
      BY <2>1, MadeIs
    <3> QED
      BY <3>1
  <2>4. 1 \in 1..Len(Packetize(units[n + 1][1]))
    <3>1. Len(Packetize(units[n + 1][1])) \in Nat \ {0}
      BY <2>2, <2>3
    <3> QED
      BY <3>1
  <2>5. x + 1 = UnitsBefore(units, n + 1) + NalsBefore(units, n + 1, 1) + 1
    BY <1>6, <1>7, <2>2
  <2> QED
    BY <2>1, <2>3, <2>4, <2>5 DEF Place
<1>8. ASSUME j = c, k = Len(units[n]), n = Len(units)
      PROVE  x = Len(Flow(units))
  BY <1>6, <1>8, AllBefore
<1> QED
  BY <1>4, <1>5, <1>7, <1>8 DEF c

\* Places come in the order of the units.
LEMMA PlaceOrder ==
  ASSUME NEW units, MadeOf(units), NEW x, NEW n, NEW k, NEW j, Place(units, x, n, k, j),
         NEW y, NEW m, NEW l, NEW i, Place(units, y, m, l, i), x <= y
  PROVE  n <= m
<1>1. n \in 1..Len(units) /\ m \in 1..Len(units) /\ Len(units) \in Nat
  BY MadeIs DEF Place
<1>2. /\ UnitsBefore(units, n) < x /\ UnitsBefore(units, n) \in Nat /\ x \in Nat
      /\ y <= UnitsBefore(units, m + 1) /\ UnitsBefore(units, m + 1) \in Nat /\ y \in Nat
  <2>1. /\ x \in 1..Len(Flow(units)) /\ UnitsBefore(units, n) < x /\ UnitsBefore(units, n) \in Nat
    BY PlaceIs
  <2>2. /\ y \in 1..Len(Flow(units)) /\ y <= UnitsBefore(units, m + 1) /\ UnitsBefore(units, m + 1) \in Nat
    BY PlaceIs
  <2> QED
    BY <2>1, <2>2
<1> SUFFICES ASSUME m < n
             PROVE  FALSE
  BY <1>1
<1>3. UnitPackets(units) \in Seq(Seq(Waiting)) /\ Len(UnitPackets(units)) = Len(units)
  BY UnitPacketsAre
<1>4. m \in 0..Len(UnitPackets(units)) /\ n - 1 \in m..Len(UnitPackets(units)) /\ (m + 1) - 1 = m
  BY <1>1, <1>3
<1>5. Len(Joined(UnitPackets(units), m)) <= Len(Joined(UnitPackets(units), n - 1))
  BY <1>3, <1>4, JoinedPrefix
<1>6. UnitsBefore(units, m + 1) <= UnitsBefore(units, n)
  BY <1>4, <1>5 DEF UnitsBefore
<1> QED
  BY <1>2, <1>6

\* Appending a sequence leaves what was joined before it.
LEMMA JoinedAppend ==
  ASSUME NEW S, NEW seqs \in Seq(Seq(S)), NEW last \in Seq(S)
  PROVE  LET more == Append(seqs, last)
         IN  /\ more \in Seq(Seq(S)) /\ Len(more) = Len(seqs) + 1
             /\ \A k \in 0..Len(seqs) : Joined(more, k) = Joined(seqs, k)
             /\ FlattenSeq(more) = FlattenSeq(seqs) \o last
<1> DEFINE more == Append(seqs, last)
           n == Len(seqs)
<1>1. /\ n \in Nat /\ more \in Seq(Seq(S)) /\ Len(more) = n + 1 /\ more[n + 1] = last
      /\ \A i \in 1..n : more[i] = seqs[i]
  BY AppendProperties, LenProperties
<1> HIDE DEF more
<1>2. ASSUME NEW k \in 0..n
      PROVE  Joined(more, k) = Joined(seqs, k)
  <2>1. k \in 0..Len(more) /\ k \in Nat /\ k <= n
    BY <1>1
  <2>2. /\ SubSeq(more, 1, k) \in Seq(Seq(S)) /\ Len(SubSeq(more, 1, k)) = k
        /\ \A i \in 1..k : SubSeq(more, 1, k)[i] = more[i]
    BY <1>1, <2>1, FirstOnes
  <2>3. /\ SubSeq(seqs, 1, k) \in Seq(Seq(S)) /\ Len(SubSeq(seqs, 1, k)) = k
        /\ \A i \in 1..k : SubSeq(seqs, 1, k)[i] = seqs[i]
    BY <1>1, FirstOnes
  <2>4. \A i \in 1..k : i \in 1..n
    BY <1>1, <2>1
  <2>5. SubSeq(more, 1, k) = SubSeq(seqs, 1, k)
    BY <1>1, <2>2, <2>3, <2>4, SeqEqual
  <2> QED
    BY <2>5 DEF Joined
<1>3. FlattenSeq(more) = FlattenSeq(seqs) \o last
  <2>1. /\ Joined(more, Len(more)) = FlattenSeq(more)
        /\ \A k \in 1..Len(more) : Joined(more, k) = Joined(more, k - 1) \o more[k]
    BY <1>1, JoinedSteps
  <2>2. n + 1 \in 1..Len(more) /\ (n + 1) - 1 = n /\ n \in 0..n
    BY <1>1
  <2>3. Joined(more, n + 1) = Joined(more, n) \o last
    BY <1>1, <2>1, <2>2
  <2>4. Joined(more, n) = FlattenSeq(seqs)
    BY <1>2, <2>2, JoinedSteps
  <2> QED
    BY <1>1, <2>1, <2>3, <2>4, Zenon
<1> QED
  BY <1>1, <1>2, <1>3 DEF more

\* The packets of another unit come after all others.
LEMMA FlowGrows ==
  ASSUME NEW units, MadeOf(units), Len(units) < MaxUnits, NEW u \in Units
  PROVE  LET more == Append(units, u)
             added == Packets(u, Len(units) + 1)
         IN  /\ MadeOf(more) /\ Len(more) = Len(units) + 1
             /\ \A n \in 1..Len(units) : more[n] = units[n]
             /\ added \in Seq(Waiting) /\ Len(Flow(more)) = Len(Flow(units)) + Len(added)
             /\ \A x \in 1..Len(Flow(units)) : Flow(more)[x] = Flow(units)[x]
             /\ \A i \in 1..Len(added) : Flow(more)[Len(Flow(units)) + i] = added[i]
             /\ \A x, n, k, j : Place(units, x, n, k, j) => Place(more, x, n, k, j)
             /\ Place(more, Len(Flow(units)) + 1, Len(units) + 1, 1, 1)
<1> DEFINE more == Append(units, u)
           last == Len(units) + 1
           added == Packets(u, last)
           parts == UnitPackets(units)
<1>1. units \in Seq(Units) /\ Len(units) \in Nat /\ MaxUnits \in Nat /\ Len(units) < MaxUnits
  BY LenProperties, LimitsAssumption DEF MadeOf
<1>2. /\ more \in Seq(Units) /\ Len(more) = last /\ more[last] = u
      /\ \A n \in 1..Len(units) : more[n] = units[n]
  BY <1>1, AppendProperties
<1> HIDE DEF more
<1>3. MadeOf(more)
  BY <1>1, <1>2 DEF MadeOf
<1>4. UnitPackets(more) = Append(parts, added) /\ parts \in Seq(Seq(Waiting)) /\ Len(parts) = Len(units)
        /\ added \in Seq(Waiting)
  <2>1. parts \in Seq(Seq(Waiting)) /\ Len(parts) = Len(units)
          /\ \A n \in 1..Len(units) : parts[n] = Packets(units[n], n)
    BY UnitPacketsAre
  <2>2. UnitPackets(more) \in Seq(Seq(Waiting)) /\ Len(UnitPackets(more)) = last
          /\ \A n \in 1..last : UnitPackets(more)[n] = Packets(more[n], n)
    BY <1>2, <1>3, UnitPacketsAre
  <2> HIDE DEF parts
  <2>3. last \in 1..last /\ \A n \in 1..Len(units) : n \in 1..last
    BY <1>1
  <2>4. UnitPackets(more)[last] = added
    BY <1>2, <2>2, <2>3
  <2>5. added \in Seq(Waiting)
    <3>1. last \in 1..Len(UnitPackets(more))
      BY <2>2, <2>3
    <3> QED
      BY <2>2, <2>4, <3>1, ElementOfSeq
  <2>6. \A n \in 1..Len(units) : UnitPackets(more)[n] = parts[n]
    BY <1>2, <2>1, <2>2, <2>3
  <2> HIDE DEF added
  <2>7. /\ Append(parts, added) \in Seq(Seq(Waiting)) /\ Len(Append(parts, added)) = Len(units) + 1
        /\ \A n \in 1..Len(units) : Append(parts, added)[n] = parts[n]
        /\ Append(parts, added)[Len(units) + 1] = added
    BY <2>1, <2>5, AppendProperties
  <2>8. \A n \in 1..last : n \in 1..Len(units) \/ n = last
    BY <1>1
  <2>9. \A n \in 1..Len(UnitPackets(more)) : UnitPackets(more)[n] = Append(parts, added)[n]
    BY <2>2, <2>4, <2>6, <2>7, <2>8
  <2>10. UnitPackets(more) = Append(parts, added)
    BY <2>2, <2>7, <2>9, SeqEqual
  <2> QED
    BY <2>1, <2>5, <2>10
<1> HIDE DEF parts, added
<1>5. /\ \A k \in 0..Len(units) : Joined(UnitPackets(more), k) = Joined(parts, k)
      /\ Flow(more) = Flow(units) \o added
  <2>1. /\ \A k \in 0..Len(parts) : Joined(Append(parts, added), k) = Joined(parts, k)
        /\ FlattenSeq(Append(parts, added)) = FlattenSeq(parts) \o added
    BY <1>4, JoinedAppend
  <2> QED
    BY <1>4, <2>1 DEF Flow, parts
<1>6. \A n \in 1..last : UnitsBefore(more, n) = UnitsBefore(units, n)
  <2>1. \A n \in 1..last : n - 1 \in 0..Len(units)
    BY <1>1
  <2> QED
    BY <1>5, <2>1 DEF UnitsBefore, parts
<1>7. \A n \in 1..Len(units) : \A k : NalsBefore(more, n, k) = NalsBefore(units, n, k)
  BY <1>2 DEF NalsBefore
<1>8. /\ Len(Flow(more)) = Len(Flow(units)) + Len(added)
      /\ \A x \in 1..Len(Flow(units)) : Flow(more)[x] = Flow(units)[x]
      /\ \A i \in 1..Len(added) : Flow(more)[Len(Flow(units)) + i] = added[i]
  <2> DEFINE f == Flow(units)
  <2>1. f \in Seq(Waiting) /\ Len(f) \in Nat /\ Len(added) \in Nat
    BY <1>4, AllBefore, LenProperties
  <2> HIDE DEF f
  <2>2. /\ Len(f \o added) = Len(f) + Len(added)
        /\ \A i \in 1..Len(f) + Len(added) : (f \o added)[i] = IF i <= Len(f) THEN f[i] ELSE added[i - Len(f)]
    BY <1>4, <2>1, ConcatProperties
  <2>3. /\ \A x \in 1..Len(f) : x \in 1..Len(f) + Len(added) /\ x <= Len(f)
        /\ \A i \in 1..Len(added) : Len(f) + i \in 1..Len(f) + Len(added) /\ ~(Len(f) + i <= Len(f))
                                      /\ (Len(f) + i) - Len(f) = i
    BY <2>1
  <2>4. Flow(more) = f \o added
    BY <1>5 DEF f
  <2> HIDE DEF added
  <2>5. Len(Flow(more)) = Len(f) + Len(added)
    BY <2>2, <2>4, Zenon
  <2>6. \A x \in 1..Len(f) : Flow(more)[x] = f[x]
    BY <2>2, <2>3, <2>4, Zenon
  <2>7. \A i \in 1..Len(added) : Flow(more)[Len(f) + i] = added[i]
    BY <2>2, <2>3, <2>4, Zenon
  <2> QED
    BY <2>5, <2>6, <2>7 DEF f
<1>9. ASSUME NEW x, NEW n, NEW k, NEW j, Place(units, x, n, k, j)
      PROVE  Place(more, x, n, k, j)
  <2>1. n \in 1..Len(units) /\ n \in 1..last /\ n \in 1..Len(more)
    BY <1>1, <1>2, <1>9 DEF Place
  <2>2. more[n] = units[n] /\ UnitsBefore(more, n) = UnitsBefore(units, n)
          /\ NalsBefore(more, n, k) = NalsBefore(units, n, k)
    BY <1>2, <1>6, <1>7, <2>1
  <2> QED
    BY <1>9, <2>1, <2>2 DEF Place
<1>10. Place(more, Len(Flow(units)) + 1, last, 1, 1)
  <2>1. last \in 1..Len(more) /\ last \in 1..last
    BY <1>1, <1>2
  <2>2. UnitsBefore(more, last) = Len(Flow(units)) /\ Len(Flow(units)) \in Nat
    BY <1>6, <2>1, AllBefore
  <2>3. /\ NalsBefore(more, last, 1) = 0
        /\ \A m \in 1..Len(more[last]) : Len(Packetize(more[last][m])) \in Nat \ {0}
    BY <1>3, <2>1, OffsetsAre
  <2>4. Len(more[last]) \in Nat \ {0}
    BY <1>3, <2>1, MadeIs
  <2> HIDE DEF last
  <2>5. 1 \in 1..Len(more[last])
    BY <2>4
  <2>6. Len(Packetize(more[last][1])) \in Nat \ {0}
    BY <2>3, <2>5
  <2>7. 1 \in 1..Len(Packetize(more[last][1]))
    BY <2>6
  <2>8. Len(Flow(units)) + 1 = UnitsBefore(more, last) + NalsBefore(more, last, 1) + 1
    BY <2>2, <2>3
  <2> QED
    BY <2>1, <2>5, <2>7, <2>8 DEF Place
<1> QED
  BY <1>2, <1>3, <1>4, <1>8, <1>9, <1>10 DEF more, added

-----------------------------------------------------------------------------
(* Sequence numbers. *)

\* Remainders of small numbers and of their negatives.
LEMMA Remainder ==
  ASSUME NEW R \in Nat \ {0}, NEW d \in Int
  PROVE  /\ d \in 0..R - 1 => d % R = d
         /\ d \in 1..R => (-d) % R = R - d \/ d = R
<1>1. ASSUME d \in 0..R - 1
      PROVE  d % R = d
  <2>1. d = 0 * R + d /\ 0 \in Nat
    BY <1>1
  <2> QED
    BY <1>1, <2>1, DivisionIs
<1>2. ASSUME d \in 1..R, d # R
      PROVE  (-d) % R = R - d
  <2> DEFINE q == (-d) \div R
             r == (-d) % R
  <2>1. q \in Int /\ r \in 0..R - 1 /\ -d = q * R + r
    OBVIOUS
  <2> HIDE DEF q, r
  <2>2. q * R \in Int /\ r \in Int
    BY <2>1
  <2>3. q = -1
    <3>1. CASE q >= 0
      <4>1. q * R \in Nat
        BY <2>1, <3>1, Times
      <4> QED
        BY <1>2, <2>1, <4>1
    <3>2. CASE q <= -2
      <4>1. q = -(-q) /\ -q \in Nat /\ 2 <= -q /\ 2 \in Nat
        BY <2>1, <3>2
      <4>2. 2 * R <= (-q) * R
        BY <4>1, Monotone
      <4>3. q * R = -((-q) * R) /\ (-q) * R \in Int
        BY <2>1
      <4> QED
        BY <1>2, <2>1, <2>2, <4>2, <4>3
    <3> QED
      BY <2>1, <3>1, <3>2
  <2>4. q * R = -R
    BY <2>3
  <2>5. r = R - d
    BY <1>2, <2>1, <2>4
  <2> QED
    BY <2>5 DEF r
<1> QED
  BY <1>1, <1>2

\* Numbers less than the range apart differ, and of two that are at most half the range apart the
\* earlier one is recognised as late.
LEMMA Numbers ==
  ASSUME NEW R \in Nat, R > 1, NEW a \in Nat, NEW b \in Nat
  PROVE  /\ a < b /\ b < a + R => b % R # a % R
         /\ a < b /\ b - a <= R - R \div 2 => ((a % R) - (b % R)) % R >= R \div 2
<1> DEFINE ra == a % R
           qa == a \div R
           d == b - a
           h == R \div 2
<1>1. ra \in 0..R - 1 /\ qa \in Nat /\ a = qa * R + ra /\ qa * R \in Nat /\ R \in Nat \ {0}
  <2>1. R \in Nat \ {0}
    OBVIOUS
  <2>2. ra \in 0..R - 1 /\ qa \in Nat
    BY <2>1, Division
  <2>3. a = qa * R + ra
    BY <2>1, DivisionOf
  <2> HIDE DEF ra, qa
  <2>4. qa * R \in Nat
    BY <2>1, <2>2, Times
  <2> QED
    BY <2>1, <2>2, <2>3, <2>4
<1>2. h \in Nat /\ 1 <= h /\ h < R
  OBVIOUS
<1>3. d \in Int
  OBVIOUS
<1> HIDE DEF h
<1>4. ASSUME a < b, b < a + R
      PROVE  /\ d \in 1..R - 1
             /\ b % R = IF ra + d < R THEN ra + d ELSE ra + d - R
  <2>1. d \in 1..R - 1 /\ b = a + d
    BY <1>4
  <2> HIDE DEF ra, qa, d
  <2>2. CASE ra + d < R
    <3>1. ra + d \in 0..R - 1 /\ b = qa * R + (ra + d)
      BY <1>1, <2>1, <2>2
    <3>2. b % R = ra + d
      <4> DEFINE s == ra + d
      <4>1. s \in 0..R - 1 /\ b = qa * R + s
        BY <3>1
      <4> HIDE DEF s
      <4>2. b % R = s
        BY <1>1, <4>1, DivisionIs
      <4> QED
        BY <4>2 DEF s
    <3> QED
      BY <2>1, <2>2, <3>2
  <2>3. CASE ~(ra + d < R)
    <3>1. (qa + 1) * R = qa * R + R /\ qa + 1 \in Nat
      BY <1>1
    <3>2. ra + d - R \in 0..R - 1 /\ b = qa * R + R + (ra + d - R)
      BY <1>1, <2>1, <2>3
    <3>3. b = (qa + 1) * R + (ra + d - R)
      BY <3>1, <3>2
    <3>4. b % R = ra + d - R
      <4> DEFINE s == ra + d - R
                 q == qa + 1
      <4>1. s \in 0..R - 1 /\ b = q * R + s /\ q \in Nat
        BY <3>1, <3>2, <3>3
      <4> HIDE DEF s, q
      <4>2. b % R = s
        BY <1>1, <4>1, DivisionIs
      <4> QED
        BY <4>2 DEF s
    <3> QED
      BY <2>1, <2>3, <3>4
  <2> QED
    BY <2>2, <2>3
<1> HIDE DEF ra, qa, d
<1> DEFINE rb == b % R
<1>5. ASSUME a < b, b < a + R
      PROVE  rb # ra
  BY <1>1, <1>4, <1>5
<1>6. ASSUME a < b, d <= R - h
      PROVE  (ra - rb) % R >= h
  <2>1. b < a + R
    BY <1>2, <1>6 DEF d
  <2>2. d \in 1..R - 1 /\ rb = IF ra + d < R THEN ra + d ELSE ra + d - R
    BY <1>4, <1>6, <2>1
  <2> HIDE DEF rb
  <2>3. R - d >= h /\ R - d \in 0..R - 1 /\ d \in Int /\ R - d \in Int /\ d \in 1..R /\ d # R
    BY <1>2, <1>6, <2>2
  <2>4. CASE ra + d < R
    <3>0. rb = ra + d
      BY <1>1, <2>2, <2>3, <2>4
    <3>1. ra - rb = -d
      BY <1>1, <2>3, <3>0
    <3>2. (-d) % R = R - d
      BY <1>1, <2>3, Remainder
    <3> QED
      BY <2>3, <3>1, <3>2
  <2>5. CASE ~(ra + d < R)
    <3>0. rb = ra + d - R
      BY <1>1, <2>2, <2>3, <2>5
    <3>1. ra - rb = R - d
      BY <1>1, <2>3, <3>0
    <3>2. (R - d) % R = R - d
      BY <1>1, <2>3, Remainder
    <3> QED
      BY <2>3, <3>1, <3>2
  <2> QED
    BY <2>4, <2>5
<1>7. ASSUME a < b, b - a <= R - R \div 2
      PROVE  ((a % R) - (b % R)) % R >= R \div 2
  <2>1. d <= R - h
    BY <1>7 DEF d, h
  <2>2. (ra - rb) % R >= h
    BY <1>6, <1>7, <2>1
  <2> QED
    BY <2>2 DEF ra, h
<1>8. a < b /\ b < a + R => b % R # a % R
  BY <1>5, Zenon DEF ra
<1> QED
  BY <1>7, <1>8, Zenon

-----------------------------------------------------------------------------
(* The invariant of the viewer. *)

\* The x-th packet of all, as it is sent by a connection whose numbers start with `first`.
Stamped(first, x) ==
  [kind |-> "rtp", seq |-> (first + x - 1) % SeqRange, pts |-> Stream[x].pts,
   marker |-> Stream[x].marker, payload |-> Stream[x].payload]

\* A client at the first packet of a unit, and within unit n.
Fresh == client.pts = NoNumber /\ client.whole /\ client.nal = <<>> /\ client.unit = <<>>

Midway(n, k, j) ==
  /\ client.pts = n
  /\ client.whole => /\ client.nal = Assembled(made[n][k], j - 1)
                     /\ client.unit = SubSeq(made[n], 1, k - 1)

\* The packet after the first `read` is of unit n, and the client has what came before it.
Awaits(read, n) ==
  \/ n = Len(made) + 1 /\ read = Len(Stream) /\ Fresh
  \/ \E k, j : /\ Place(made, read + 1, n, k, j)
               /\ IF k = 1 /\ j = 1 THEN Fresh ELSE Midway(n, k, j)

\* Units before n were shown, in order; over TCP all of them.
ShownUpTo(n) ==
  /\ \A i \in 1..Len(shown) : shown[i].pts \in 1..n - 1 /\ shown[i].nals = made[shown[i].pts]
  /\ \A i \in 2..Len(shown) : shown[i - 1].pts < shown[i].pts
  /\ carrier = "tcp" => /\ client.whole /\ Len(shown) = n - 1
                        /\ \A i \in 1..Len(shown) : shown[i].pts = i

\* The client has taken packets up to `read`, and waits for one of unit n.
Viewed(first, read, n) ==
  /\ client.expected = IF read = 0 THEN NoNumber ELSE (first + read) % SeqRange
  /\ Awaits(read, n) /\ ShownUpTo(n)

\* What is due are the packets after the first `sent`, or it is not a packet.
Waits(sent) ==
  open => \/ /\ Len(due) = Len(Stream) - sent
             /\ \A i \in 1..Len(due) : due[i] = Stream[sent + i]
          \/ sent = Len(Stream) /\ Len(due) = 1 /\ due[1].kind # "rtp"

\* What is on the connection are the packets after the first `read` up to `sent`, in order;
\* over UDP any packets sent.
Counts(count, first, read, sent) ==
  /\ count \in [0..Len(link) -> 0..sent] /\ count[0] = read /\ count[Len(link)] = sent
  /\ \A m \in 1..Len(link) :
       IF link[m].kind = "rtp"
         THEN count[m] = count[m - 1] + 1 /\ link[m] = Stamped(first, count[m])
       ELSE count[m] = count[m - 1]

Carries(first, read, sent) ==
  /\ carrier = "udp" => \A p \in link : \E x \in 1..sent : p = Stamped(first, x)
  /\ carrier = "tcp" => \E count : Counts(count, first, read, sent)

\* The positions are positions of the packets.
InRange(first, sent, read, n) ==
  /\ first \in 0..SeqRange - 1 /\ sent \in 0..Len(Stream) /\ read \in 0..sent
  /\ n \in 1..Len(made) + 1

\* The invariant at given positions.
Viewing(first, sent, read, n) ==
  /\ InRange(first, sent, read, n)
  /\ sequence = (first + sent) % SeqRange
  /\ Waits(sent) /\ Carries(first, read, sent) /\ Viewed(first, read, n)

\* Sequence numbers tell the packets apart.
Known == carrier = "tcp" \/ Len(Stream) <= SeqRange - SeqRange \div 2

\* The inductive invariant of the media: some numbers of packets were sent and read, and everything
\* on the way and everything the client has is as they say.
ViewerInv == Known => \E first, sent, read, n : Viewing(first, sent, read, n)

\* All packets, by unit.
LEMMA StreamIs ==
  ASSUME MediaInv
  PROVE  /\ Stream = Flow(made) /\ MadeOf(made) /\ Len(made) \in Nat
         /\ Stream \in Seq(Waiting) /\ Len(Stream) \in Nat
         /\ \A x \in 1..Len(Stream) : Stream[x].kind = "rtp" /\ Stream[x] \in Waiting
<1>1. Stream = Flow(made)
  BY Zenon DEF Stream, Flow, UnitPackets
<1>2. MadeOf(made)
  BY DEF MediaInv, SendTypes, MadeOf
<1>3. Flow(made) \in Seq(Waiting) /\ Len(Flow(made)) \in Nat /\ Len(made) \in Nat
  BY <1>2, AllBefore, MadeIs
<1>4. ASSUME NEW x \in 1..Len(Flow(made))
      PROVE  Flow(made)[x].kind = "rtp" /\ Flow(made)[x] \in Waiting
  <2>1. Flow(made)[x] \in Waiting
    BY <1>3, ElementOfSeq
  <2> QED
    BY <2>1 DEF Waiting
<1> QED
  BY <1>1, <1>2, <1>3, <1>4

\* The invariant holds of a fresh connection.
LEMMA ViewerStarts == MediaInit => ViewerInv
<1> SUFFICES ASSUME MediaInit
             PROVE  ViewerInv
  OBVIOUS
<1>1. /\ made = <<>> /\ due = <<>> /\ sequence \in 0..SeqRange - 1 /\ open = TRUE
      /\ link = IF carrier = "tcp" THEN <<>> ELSE {}
      /\ client.expected = NoNumber /\ Fresh /\ shown = <<>>
  BY SequenceType DEF MediaInit, Fresh
<1>2. Stream = Flow(made) /\ MadeOf(made)
  BY MediaStarts, StreamIs
<1>3. Len(made) = 0 /\ Len(due) = 0 /\ Len(shown) = 0
  BY <1>1, EmptySeq
<1>4. Len(Stream) = 0
  <2>1. UnitsBefore(made, 1) = 0 /\ UnitsBefore(made, Len(made) + 1) = Len(Flow(made))
    BY <1>2, AllBefore
  <2>2. Len(made) + 1 = 1
    BY <1>3
  <2> QED
    BY <1>2, <2>1, <2>2
<1>5. InRange(sequence, 0, 0, 1)
  BY <1>1, <1>3, <1>4 DEF InRange
<1>6. sequence = (sequence + 0) % SeqRange
  <2>1. SeqRange \in Nat \ {0} /\ sequence + 0 = sequence /\ sequence \in Int
    BY <1>1, SequenceType
  <2> QED
    BY <1>1, <2>1, Remainder
<1>7. Waits(0)
  BY <1>3, <1>4 DEF Waits
<1>8. Carries(sequence, 0, 0)
  <2>1. CASE carrier = "tcp"
    <3>1. Len(link) = 0
      BY <1>1, <2>1, EmptySeq
    <3> DEFINE count == [m \in 0..0 |-> 0]
    <3>2. count \in [0..Len(link) -> 0..0] /\ count[0] = 0 /\ count[Len(link)] = 0
      BY <3>1
    <3>3. Counts(count, sequence, 0, 0)
      BY <3>1, <3>2 DEF Counts
    <3> QED
      BY <2>1, <3>3 DEF Carries
  <2>2. CASE carrier # "tcp"
    BY <1>1, <2>2 DEF Carries
  <2> QED
    BY <2>1, <2>2
<1>9. Viewed(sequence, 0, 1)
  <2>1. Awaits(0, 1)
    BY <1>1, <1>3, <1>4 DEF Awaits
  <2>2. ShownUpTo(1)
    BY <1>1, <1>3 DEF ShownUpTo, Fresh
  <2> QED
    BY <1>1, <2>1, <2>2 DEF Viewed
<1> QED
  BY <1>5, <1>6, <1>7, <1>8, <1>9 DEF Viewing, ViewerInv

\* And it says that what is shown is what was made.
LEMMA ViewerShows ==
  ASSUME MediaInv, ViewerInv
  PROVE  ShownIsMade
<1> SUFFICES ASSUME Known
             PROVE  /\ \A k \in DOMAIN shown : shown[k].pts <= Len(made) /\ shown[k].nals = made[shown[k].pts]
                    /\ \A k \in 2 .. Len(shown) : shown[k - 1].pts < shown[k].pts
                    /\ carrier = "tcp" => \A k \in DOMAIN shown : shown[k].pts = k
  BY Zenon DEF ShownIsMade, Known
<1>1. PICK first, sent, read, n : Viewing(first, sent, read, n)
  BY DEF ViewerInv
<1>2. n \in 1..Len(made) + 1 /\ Len(made) \in Nat /\ ShownUpTo(n)
  BY <1>1, StreamIs DEF Viewing, InRange, Viewed
<1>3. DOMAIN shown = 1..Len(shown)
  BY LenProperties DEF MediaInv, ViewerTypes
<1>4. \A i \in 1..n - 1 : i <= Len(made)
  BY <1>2
<1> QED
  BY <1>2, <1>3, <1>4 DEF ShownUpTo

-----------------------------------------------------------------------------
(* The steps of the server. *)

\* A step that leaves the units and the client alone keeps what the client has.
LEMMA ViewedStays ==
  ASSUME NEW first, NEW read, NEW n, Viewed(first, read, n), UNCHANGED <<carrier, made, client, shown>>
  PROVE  Stream' = Stream /\ Viewed(first, read, n)'
<1>1. Stream' = Stream
  BY Zenon DEF Stream
<1>2. Fresh' <=> Fresh
  BY DEF Fresh
<1>3. \A k, j : Midway(n, k, j)' <=> Midway(n, k, j)
  BY DEF Midway
<1>4. Awaits(read, n)'
  <2>1. CASE n = Len(made) + 1 /\ read = Len(Stream) /\ Fresh
    BY <1>1, <1>2, <2>1 DEF Awaits
  <2>2. ASSUME NEW k, NEW j, Place(made, read + 1, n, k, j),
               IF k = 1 /\ j = 1 THEN Fresh ELSE Midway(n, k, j)
        PROVE  Awaits(read, n)'
    <3>1. made' = made
      OBVIOUS
    <3>2. Place(made', read + 1, n, k, j)
      BY <2>2, <3>1
    <3> QED
      BY <1>2, <1>3, <2>2, <3>2 DEF Awaits
  <2> QED
    BY <2>1, <2>2 DEF Viewed, Awaits
<1>5. ShownUpTo(n)'
  BY DEF Viewed, ShownUpTo
<1> QED
  BY <1>1, <1>4, <1>5 DEF Viewed

\* It keeps the packets.
LEMMA StampedStays ==
  ASSUME NEW first, NEW x, Stream'[x] = Stream[x]
  PROVE  Stamped(first, x)' = Stamped(first, x)
BY DEF Stamped

\* And with the connection what is on it.
LEMMA CarriesStays ==
  ASSUME NEW first, NEW read, NEW sent \in Nat, Carries(first, read, sent), read \in 0..sent,
         UNCHANGED <<carrier, link>>, \A x \in 1..sent : Stream'[x] = Stream[x],
         carrier = "tcp" => Len(link) \in Nat
  PROVE  Carries(first, read, sent)'
<1>1. \A x \in 1..sent : Stamped(first, x)' = Stamped(first, x)
  BY StampedStays
<1>2. CASE carrier = "udp"
  BY <1>1, <1>2 DEF Carries
<1>3. CASE carrier = "tcp"
  <2>1. PICK count : Counts(count, first, read, sent)
    BY <1>3 DEF Carries
  <2>2. ASSUME NEW m \in 1..Len(link)
        PROVE  IF link[m].kind = "rtp"
                 THEN count[m] = count[m - 1] + 1 /\ link[m] = Stamped(first, count[m])'
               ELSE count[m] = count[m - 1]
    <3>1. m - 1 \in 0..Len(link) /\ m \in 0..Len(link)
      BY <1>3
    <3>2. count[m - 1] \in 0..sent /\ count[m] \in 0..sent
      BY <2>1, <3>1 DEF Counts
    <3>3. count[m] = count[m - 1] + 1 => count[m] \in 1..sent
      BY <3>2
    <3> QED
      BY <1>1, <2>1, <3>3 DEF Counts
  <2>3. Counts(count, first, read, sent)'
    BY <2>1, <2>2 DEF Counts
  <2> QED
    BY <1>3, <2>3 DEF Carries
<1> QED
  BY <1>2, <1>3 DEF Carries

\* Taking another unit adds its packets behind all others.
LEMMA TakeUnitViewed ==
  ASSUME MediaInv, NEW u \in Units, NEW f \in Formats(u), TakeUnit(u, f),
         NEW first, NEW sent, NEW read, NEW n, Viewing(first, sent, read, n)
  PROVE  Viewing(first, sent, read, n)' /\ Len(Stream) <= Len(Stream')
<1> DEFINE last == Len(made) + 1
           added == Packets(u, last)
<1>1. /\ platform \in {"mac", "windows", "android"} /\ due = <<>> /\ open
      /\ made' = Append(made, u) /\ Len(made) < MaxUnits
      /\ due' = Packets(Split(platform, Buffer(f, u)), last)
      /\ UNCHANGED <<carrier, half, sequence, open, link, parser, client, shown>>
  BY DEF MediaInv, SendTypes, TakeUnit, Idle, fixed, clientVars
<1>2. due' = added
  <2>1. Split(platform, Buffer(f, u)) = u
    BY <1>1, SplitUndoesBuffer
  <2> QED
    BY <1>1, <2>1
<1>3. Stream = Flow(made) /\ MadeOf(made) /\ Len(made) \in Nat /\ Len(Stream) \in Nat
  BY StreamIs
<1>4. Stream' = Flow(made')
  BY Zenon DEF Stream, Flow, UnitPackets
<1>5. /\ Len(made') = last
      /\ \A m \in 1..Len(made) : made'[m] = made[m]
      /\ added \in Seq(Waiting) /\ Len(Stream') = Len(Stream) + Len(added)
      /\ \A x \in 1..Len(Stream) : Stream'[x] = Stream[x]
      /\ \A i \in 1..Len(added) : Stream'[Len(Stream) + i] = added[i]
      /\ \A x, m, k, j : Place(made, x, m, k, j) => Place(made', x, m, k, j)
      /\ Place(made', Len(Stream) + 1, last, 1, 1)
  <2>1. LET more == Append(made, u)
            some == Packets(u, Len(made) + 1)
         IN  /\ MadeOf(more) /\ Len(more) = Len(made) + 1
             /\ \A m \in 1..Len(made) : more[m] = made[m]
             /\ some \in Seq(Waiting) /\ Len(Flow(more)) = Len(Flow(made)) + Len(some)
             /\ \A x \in 1..Len(Flow(made)) : Flow(more)[x] = Flow(made)[x]
             /\ \A i \in 1..Len(some) : Flow(more)[Len(Flow(made)) + i] = some[i]
             /\ \A x, m, k, j : Place(made, x, m, k, j) => Place(more, x, m, k, j)
             /\ Place(more, Len(Flow(made)) + 1, Len(made) + 1, 1, 1)
    BY <1>1, <1>3, FlowGrows
  <2> QED
    BY <1>1, <1>3, <1>4, <2>1
<1> HIDE DEF added
<1>6. InRange(first, sent, read, n) /\ Waits(sent) /\ Carries(first, read, sent) /\ Viewed(first, read, n)
        /\ sequence = (first + sent) % SeqRange
  BY DEF Viewing
<1>7. Len(added) \in Nat
  BY <1>5, LenProperties
<1>8. sent = Len(Stream)
  <2>1. Len(due) = 0
    BY <1>1, EmptySeq
  <2>2. sent \in Int /\ Len(Stream) \in Int
    BY <1>3, <1>6 DEF InRange
  <2> QED
    BY <1>1, <1>6, <2>1, <2>2 DEF Waits
<1>9. InRange(first, sent, read, n)'
  <2>1. sent \in 0..Len(Stream') /\ n \in 1..Len(made') + 1
    BY <1>3, <1>5, <1>6, <1>7 DEF InRange
  <2> QED
    BY <1>6, <2>1 DEF InRange
<1>10. Waits(sent)'
  <2>1. Len(due') = Len(Stream') - sent
    BY <1>2, <1>3, <1>5, <1>7, <1>8
  <2> QED
    BY <1>2, <1>5, <1>8, <2>1 DEF Waits
<1>11. Carries(first, read, sent)'
  <2>1. carrier = "tcp" => Len(link) \in Nat
    BY LenProperties DEF MediaInv, LinkTypes
  <2>2. sent \in Nat /\ read \in 0..sent
    BY <1>3, <1>6 DEF InRange
  <2> QED
    BY <1>1, <1>5, <1>6, <1>8, <2>1, <2>2, CarriesStays
<1>12. Fresh' <=> Fresh
  BY <1>1 DEF Fresh
<1>13. Awaits(read, n)'
  <2>1. CASE n = Len(made) + 1 /\ read = Len(Stream) /\ Fresh
    <3>1. Place(made', read + 1, n, 1, 1) /\ Fresh'
      BY <1>5, <1>12, <2>1
    <3> QED
      BY <3>1 DEF Awaits
  <2>2. ASSUME NEW k, NEW j, Place(made, read + 1, n, k, j),
               IF k = 1 /\ j = 1 THEN Fresh ELSE Midway(n, k, j)
        PROVE  Awaits(read, n)'
    <3>1. n \in 1..Len(made)
      BY <2>2 DEF Place
    <3>2. Place(made', read + 1, n, k, j) /\ made'[n] = made[n]
      BY <1>5, <2>2, <3>1
    <3>3. Midway(n, k, j)' <=> Midway(n, k, j)
      BY <1>1, <3>2 DEF Midway
    <3> QED
      BY <1>12, <2>2, <3>2, <3>3 DEF Awaits
  <2> QED
    BY <1>6, <2>1, <2>2 DEF Viewed, Awaits
<1>14. ShownUpTo(n)'
  <2>1. \A m \in 1..n - 1 : made'[m] = made[m]
    <3>1. \A m \in 1..n - 1 : m \in 1..Len(made)
      BY <1>3, <1>6 DEF InRange
    <3> QED
      BY <1>5, <3>1
  <2>2. ShownUpTo(n)
    BY <1>6 DEF Viewed
  <2> QED
    BY <1>1, <2>1, <2>2 DEF ShownUpTo
<1>15. Viewed(first, read, n)'
  BY <1>1, <1>6, <1>13, <1>14 DEF Viewed
<1>16. Len(Stream) <= Len(Stream')
  BY <1>3, <1>5, <1>7
<1> QED
  BY <1>1, <1>6, <1>9, <1>10, <1>11, <1>15, <1>16 DEF Viewing

\* The number after a number modulo the range.
LEMMA NextNumber ==
  ASSUME NEW R \in Nat \ {0}, NEW a \in Nat
  PROVE  ((a % R) + 1) % R = (a + 1) % R
<1> DEFINE r == a % R
           q == a \div R
           b == a + 1
<1>1. r \in 0..R - 1 /\ q \in Nat /\ a = q * R + r
  BY Division, DivisionOf
<1> HIDE DEF r, q
<1>2. q * R \in Nat /\ 0 \in Nat
  BY <1>1, Times
<1>3. CASE r + 1 < R
  <2> DEFINE s == r + 1
  <2>1. s \in 0..R - 1 /\ b = q * R + s /\ s = 0 * R + s /\ s \in Nat
    BY <1>1, <1>2, <1>3
  <2> HIDE DEF s, b
  <2>2. b % R = s /\ s % R = s
    BY <1>1, <1>2, <2>1, DivisionIs
  <2> QED
    BY <2>2 DEF b, s, r
<1>4. CASE ~(r + 1 < R)
  <2> DEFINE p == q + 1
  <2>1. r + 1 = R
    BY <1>1, <1>4
  <2>2. p * R = q * R + R /\ p \in Nat /\ 1 \in Nat
    BY <1>1
  <2>3. b = p * R + 0 /\ R = 1 * R + 0 /\ 0 \in 0..R - 1
    BY <1>1, <1>2, <2>1, <2>2
  <2> HIDE DEF p, b
  <2>4. b % R = 0
    BY ZenonT(40), <2>2, <2>3, DivisionIs
  <2>5. R % R = 0
    BY SMTT(40), <2>2, <2>3, DivisionIs
  <2>6. (r + 1) % R = b % R
    BY <2>1, <2>4, <2>5
  <2> QED
    BY <2>6 DEF b, r
<1> QED
  BY <1>3, <1>4

\* A message is appended to the connection: the next packet, or one that is none.
LEMMA CarriesMore ==
  ASSUME carrier = "tcp", carrier' = carrier, Stream' = Stream, link \in Seq(OnStream),
         NEW message \in OnStream, link' = Append(link, message),
         NEW first, NEW read, NEW sent \in Nat, Carries(first, read, sent), NEW more \in Nat,
         IF message.kind = "rtp" THEN more = sent + 1 /\ message = Stamped(first, more)
         ELSE more = sent
  PROVE  Carries(first, read, more)'
<1> DEFINE n == Len(link)
           after(count) == [m \in 0..n + 1 |-> IF m = n + 1 THEN more ELSE count[m]]
<1>1. /\ n \in Nat /\ Len(link') = n + 1 /\ link'[n + 1] = message
      /\ \A m \in 1..n : link'[m] = link[m]
  BY AppendProperties, LenProperties
<1> HIDE DEF n
<1>2. \A x : Stamped(first, x)' = Stamped(first, x)
  BY DEF Stamped
<1>3. PICK count : Counts(count, first, read, sent)
  BY DEF Carries
<1>4. /\ count \in [0..n -> 0..sent] /\ count[0] = read /\ count[n] = sent
      /\ \A m \in 1..n :
           IF link[m].kind = "rtp" THEN count[m] = count[m - 1] + 1 /\ link[m] = Stamped(first, count[m])
           ELSE count[m] = count[m - 1]
  BY <1>3 DEF Counts, n
<1>a. PICK next : next = after(count)
  OBVIOUS
<1>5. /\ next[n + 1] = more /\ \A m \in 0..n : next[m] = count[m]
      /\ DOMAIN next = 0..n + 1 /\ next = [m \in 0..n + 1 |-> next[m]]
  BY <1>1, <1>a
<1>6. sent <= more
  BY DEF Stamped
<1>7. next \in [0..n + 1 -> 0..more]
  <2>1. ASSUME NEW m \in 0..n + 1
        PROVE  next[m] \in 0..more
    <3>1. CASE m = n + 1
      BY <1>5, <3>1
    <3>2. CASE m # n + 1
      <4>1. m \in 0..n
        BY <1>1, <3>2
      <4>2. count[m] \in 0..sent /\ next[m] = count[m]
        BY <1>4, <1>5, <4>1
      <4> QED
        BY <1>6, <4>2
    <3> QED
      BY <3>1, <3>2
  <2> QED
    BY <1>5, <2>1
<1>8. ASSUME NEW m \in 1..n + 1
      PROVE  IF link'[m].kind = "rtp"
               THEN next[m] = next[m - 1] + 1 /\ link'[m] = Stamped(first, next[m])
             ELSE next[m] = next[m - 1]
  <2>1. CASE m = n + 1
    <3>1. m - 1 = n /\ n \in 0..n
      BY <1>1, <2>1
    <3>2. next[m] = more /\ next[m - 1] = sent /\ link'[m] = message
      BY <1>1, <1>4, <1>5, <2>1, <3>1
    <3> QED
      BY <3>2
  <2>2. CASE m # n + 1
    <3>1. m \in 1..n /\ m \in 0..n /\ m - 1 \in 0..n
      BY <1>1, <2>2
    <3>2. next[m] = count[m] /\ next[m - 1] = count[m - 1] /\ link'[m] = link[m]
      BY <1>1, <1>5, <3>1
    <3> QED
      BY <1>4, <3>1, <3>2
  <2> QED
    BY <2>1, <2>2
<1>9. next[0] = read /\ next[n + 1] = more
  <2>1. 0 \in 0..n
    BY <1>1
  <2> QED
    BY <1>4, <1>5, <2>1
<1>10. Counts(next, first, read, more)'
  BY <1>1, <1>2, <1>7, <1>8, <1>9 DEF Counts
<1> QED
  BY <1>10 DEF Carries

\* What is sent next is the next packet, or it is none.
LEMMA SentNext ==
  ASSUME MediaInv, NEW first, NEW sent, NEW read, NEW n, Viewing(first, sent, read, n),
         open, open' = open, made' = made, due # <<>>, Sent
  PROVE  /\ Head(due).kind = "rtp" =>
              /\ sent + 1 \in 1..Len(Stream) /\ Numbered(Head(due)) = Stamped(first, sent + 1)
              /\ Waits(sent + 1)' /\ sequence' = (first + (sent + 1)) % SeqRange
         /\ Head(due).kind # "rtp" =>
              /\ Numbered(Head(due)).kind # "rtp" /\ Waits(sent)' /\ sequence' = sequence
<1> DEFINE len == Len(due)
           flow == Len(Stream)
<1>1. /\ due' = Tail(due)
      /\ Head(due).kind = "rtp" => sequence' = (sequence + 1) % SeqRange
      /\ Head(due).kind # "rtp" => sequence' = sequence
  BY DEF Sent
<1>2. /\ Waits(sent) /\ sequence = (first + sent) % SeqRange
      /\ first \in Nat /\ sent \in 0..flow
  BY SequenceType DEF Viewing, InRange
<1>3. flow \in Nat /\ sent \in Nat /\ \A x \in 1..flow : Stream[x].kind = "rtp"
  BY <1>2, StreamIs
<1>4. /\ len \in Nat \ {0} /\ Head(due) = due[1] /\ Len(due') = len - 1
      /\ \A i \in 1..len - 1 : due'[i] = due[i + 1]
  <2>1. due \in Seq(Outgoing)
    BY DEF MediaInv, SendTypes
  <2>2. Len(Tail(due)) = len - 1 /\ \A i \in 1..Len(Tail(due)) : Tail(due)[i] = due[i + 1]
    BY <2>1, HeadTailProperties
  <2>3. len \in Nat \ {0} /\ Head(due) = due[1]
    BY <2>1, EmptySeq
  <2> QED
    BY <1>1, <2>2, <2>3
<1>5. Stream' = Stream
  BY Zenon DEF Stream
<1> HIDE DEF len
<1>6. CASE Len(due) = flow - sent /\ \A i \in 1..Len(due) : due[i] = Stream[sent + i]
  <2>1. len = flow - sent /\ \A i \in 1..len : due[i] = Stream[sent + i]
    BY <1>6 DEF len
  <2> HIDE DEF flow
  <2>2. sent + 1 \in 1..flow /\ 1 \in 1..len
    BY <1>2, <1>3, <1>4, <2>1
  <2>3. Head(due) = Stream[sent + 1] /\ Head(due).kind = "rtp"
    BY <1>3, <1>4, <2>1, <2>2
  <2>4. Numbered(Head(due)) = Stamped(first, sent + 1)
    <3>1. first + (sent + 1) - 1 = first + sent
      BY <1>2, <1>3
    <3> QED
      BY <1>2, <2>3, <3>1 DEF Numbered, Stamped
  <2>5. sequence' = (first + (sent + 1)) % SeqRange
    <3>1. SeqRange \in Nat \ {0} /\ first + sent \in Nat /\ (first + sent) + 1 = first + (sent + 1)
      BY <1>2, <1>3, SequenceType
    <3>2. (((first + sent) % SeqRange) + 1) % SeqRange = ((first + sent) + 1) % SeqRange
      BY <3>1, NextNumber
    <3> QED
      BY <1>1, <1>2, <2>3, <3>1, <3>2
  <2>6. Waits(sent + 1)'
    <3>1. Len(due') = flow - (sent + 1)
      BY <1>2, <1>3, <1>4, <2>1
    <3>2. ASSUME NEW i \in 1..Len(due')
          PROVE  due'[i] = Stream[(sent + 1) + i]
      <4>1. i \in 1..len - 1 /\ i + 1 \in 1..len /\ sent + (i + 1) = (sent + 1) + i
        BY <1>3, <1>4
      <4> QED
        BY <1>4, <2>1, <4>1
    <3> QED
      BY <1>5, <3>1, <3>2 DEF Waits, flow
  <2> QED
    BY <2>2, <2>3, <2>4, <2>5, <2>6 DEF flow
<1>7. CASE sent = flow /\ Len(due) = 1 /\ due[1].kind # "rtp"
  <2>1. Head(due).kind # "rtp"
    BY <1>4, <1>7
  <2>2. Numbered(Head(due)) = Head(due)
    BY <2>1 DEF Numbered
  <2>3. Len(due') = flow - sent /\ Len(due') = 0
    BY <1>3, <1>4, <1>7 DEF len
  <2>4. Waits(sent)'
    BY <1>5, <2>3 DEF Waits
  <2> QED
    BY <1>1, <2>1, <2>2, <2>4
<1> QED
  BY <1>2, <1>6, <1>7 DEF Waits

\* The same for the invariant.
LEMMA RangeStays ==
  ASSUME NEW first, NEW sent, NEW read, NEW n, Viewing(first, sent, read, n), MediaInv,
         UNCHANGED <<carrier, made, client, shown>>
  PROVE  /\ Stream' = Stream /\ InRange(first, sent, read, n)' /\ Viewed(first, read, n)'
         /\ first \in Nat /\ sent \in Nat /\ read \in 0..sent
         /\ sent + 1 \in 1..Len(Stream) => InRange(first, sent + 1, read, n)'
<1>1. Stream' = Stream /\ Viewed(first, read, n)'
  BY ViewedStays DEF Viewing
<1>2. InRange(first, sent, read, n) /\ made' = made
  BY DEF Viewing
<1>3. InRange(first, sent, read, n)'
  BY <1>1, <1>2 DEF InRange
<1>4. first \in Nat /\ sent \in Nat /\ read \in 0..sent /\ Len(Stream) \in Nat
  BY <1>2, StreamIs, SequenceType DEF InRange
<1>5. ASSUME sent + 1 \in 1..Len(Stream)
      PROVE  InRange(first, sent + 1, read, n)'
  <2>1. sent + 1 \in 0..Len(Stream) /\ read \in 0..sent + 1
    BY <1>4, <1>5
  <2> QED
    BY <1>1, <1>3, <2>1 DEF InRange
<1> QED
  BY <1>1, <1>3, <1>4, <1>5

\* And for the connection.
LEMMA LinkStays ==
  ASSUME NEW first, NEW sent, NEW read, NEW n, Viewing(first, sent, read, n), MediaInv,
         UNCHANGED <<carrier, made, link, client, shown>>
  PROVE  Carries(first, read, sent)'
<1>1. Stream' = Stream /\ sent \in Nat /\ read \in 0..sent
  BY RangeStays
<1>2. carrier = "tcp" => Len(link) \in Nat
  BY LenProperties DEF MediaInv, LinkTypes
<1>3. Carries(first, read, sent)
  BY DEF Viewing
<1> QED
  BY <1>1, <1>2, <1>3, CarriesStays

\* Steps of the requests keep the invariant,
LEMMA NothingViewed ==
  ASSUME NEW first, NEW sent, NEW read, NEW n, Viewing(first, sent, read, n), MediaInv,
         UNCHANGED mediaVars
  PROVE  Viewing(first, sent, read, n)'
<1>1. UNCHANGED <<carrier, made, due, sequence, open, link, client, shown>>
  BY DEF mediaVars
<1>2. /\ Stream' = Stream /\ InRange(first, sent, read, n)' /\ Viewed(first, read, n)'
      /\ Carries(first, read, sent)'
  BY <1>1, RangeStays, LinkStays
<1>3. Waits(sent)' /\ sequence' = (first + sent) % SeqRange
  BY <1>1, <1>2 DEF Viewing, Waits
<1> QED
  BY <1>2, <1>3 DEF Viewing

\* a response or a report does,
LEMMA SendOtherViewed ==
  ASSUME NEW first, NEW sent, NEW read, NEW n, Viewing(first, sent, read, n), MediaInv,
         NEW kind \in {"response", "report"}, SendOther(kind)
  PROVE  Viewing(first, sent, read, n)'
<1>1. /\ open /\ due = <<>> /\ due' = <<Message(kind)>>
      /\ UNCHANGED <<carrier, made, sequence, open, link, client, shown>>
  BY DEF SendOther, Idle, fixed, clientVars
<1>2. /\ Stream' = Stream /\ InRange(first, sent, read, n)' /\ Viewed(first, read, n)'
      /\ Carries(first, read, sent)' /\ sent \in Nat
  BY <1>1, RangeStays, LinkStays
<1>3. sent = Len(Stream)
  <2>1. Len(due) = 0 /\ Len(Stream) \in Nat
    BY <1>1, EmptySeq, StreamIs
  <2> QED
    BY <1>1, <1>2, <2>1 DEF Viewing, Waits
<1>4. Len(due') = 1 /\ due'[1].kind # "rtp"
  BY <1>1 DEF Message
<1>5. Waits(sent)' /\ sequence' = (first + sent) % SeqRange
  BY <1>1, <1>2, <1>3, <1>4 DEF Viewing, Waits
<1> QED
  BY <1>2, <1>5 DEF Viewing

\* a prefix does,
LEMMA WritePrefixViewed ==
  ASSUME NEW first, NEW sent, NEW read, NEW n, Viewing(first, sent, read, n), MediaInv, WritePrefix
  PROVE  Viewing(first, sent, read, n)'
<1>1. /\ carrier = "tcp" /\ link' = Append(link, Message("prefix"))
      /\ UNCHANGED <<carrier, made, due, sequence, open, client, shown>>
  BY DEF WritePrefix, fixed, clientVars
<1>2. /\ Stream' = Stream /\ InRange(first, sent, read, n)' /\ Viewed(first, read, n)' /\ sent \in Nat
  BY <1>1, RangeStays
<1>3. Message("prefix") \in OnStream /\ Message("prefix").kind # "rtp" /\ link \in Seq(OnStream)
  BY <1>1 DEF OnStream, Plain, Message, MediaInv, LinkTypes
<1>4. Carries(first, read, sent)'
  <2>1. Carries(first, read, sent)
    BY DEF Viewing
  <2> DEFINE message == Message("prefix")
  <2> HIDE DEF message
  <2>2. IF message.kind = "rtp" THEN sent = sent + 1 /\ message = Stamped(first, sent) ELSE sent = sent
    BY <1>3 DEF message
  <2>3. message \in OnStream /\ link' = Append(link, message)
    BY <1>1, <1>3 DEF message
  <2> QED
    BY <1>1, <1>2, <1>3, <2>1, <2>2, <2>3, CarriesMore
<1>5. Waits(sent)' /\ sequence' = (first + sent) % SeqRange
  BY <1>1, <1>2 DEF Viewing, Waits
<1> QED
  BY <1>2, <1>4, <1>5 DEF Viewing

\* and so does a write that fails.
LEMMA WriteFailsViewed ==
  ASSUME NEW first, NEW sent, NEW read, NEW n, Viewing(first, sent, read, n), MediaInv, WriteFails
  PROVE  Viewing(first, sent, read, n)'
<1>1. /\ carrier = "tcp" /\ link' \in {link, Append(link, Message("torn"))} /\ open' = FALSE
      /\ UNCHANGED <<carrier, made, sequence, client, shown>>
  BY DEF WriteFails, fixed, clientVars
<1>2. /\ Stream' = Stream /\ InRange(first, sent, read, n)' /\ Viewed(first, read, n)' /\ sent \in Nat
  BY <1>1, RangeStays
<1>3. Message("torn") \in OnStream /\ Message("torn").kind # "rtp" /\ link \in Seq(OnStream)
  BY <1>1 DEF OnStream, Plain, Message, MediaInv, LinkTypes
<1>4. CASE link' = link
  BY <1>1, <1>2, <1>4, LinkStays DEF Viewing, Waits
<1>5. CASE link' = Append(link, Message("torn"))
  <2>1. Carries(first, read, sent)
    BY DEF Viewing
  <2> DEFINE message == Message("torn")
  <2> HIDE DEF message
  <2>2. IF message.kind = "rtp" THEN sent = sent + 1 /\ message = Stamped(first, sent) ELSE sent = sent
    BY <1>3 DEF message
  <2>3. message \in OnStream /\ link' = Append(link, message)
    BY <1>3, <1>5 DEF message
  <2>4. Carries(first, read, sent)'
    BY <1>1, <1>2, <1>3, <2>1, <2>2, <2>3, CarriesMore
  <2> QED
    BY <1>1, <1>2, <2>4 DEF Viewing, Waits
<1> QED
  BY <1>1, <1>4, <1>5

\* A packet that is written is the next one.
LEMMA WriteBodyViewed ==
  ASSUME NEW first, NEW sent, NEW read, NEW n, Viewing(first, sent, read, n), MediaInv, WriteBody
  PROVE  \E more : Viewing(first, more, read, n)'
<1> DEFINE message == Numbered(Head(due))
<1>1. /\ carrier = "tcp" /\ due # <<>> /\ link' = Append(link, Numbered(Head(due))) /\ Sent
      /\ UNCHANGED <<carrier, made, open, client, shown>>
  BY DEF WriteBody, fixed, clientVars
<1>2. open /\ link \in Seq(OnStream) /\ Head(due) \in Waiting \cup Plain({"report", "response"})
  BY <1>1, TcpFacts
<1>3. message \in OnStream /\ message.kind = Head(due).kind
  <2>1. sequence \in 0 .. SeqRange - 1
    BY DEF MediaInv, SendTypes
  <2>2. /\ Numbered(Head(due)) \in Packet \cup Plain({"report", "response"})
        /\ Numbered(Head(due)).kind = Head(due).kind
    BY <1>2, <2>1, NumberedType
  <2>3. Packet \cup Plain({"report", "response"}) \subseteq OnStream
    BY DEF OnStream, Plain
  <2> QED
    BY <2>2, <2>3
<1>4. /\ Stream' = Stream /\ InRange(first, sent, read, n)' /\ Viewed(first, read, n)' /\ sent \in Nat
      /\ sent + 1 \in 1..Len(Stream) => InRange(first, sent + 1, read, n)'
  BY <1>1, RangeStays
<1>5. /\ Head(due).kind = "rtp" =>
           /\ sent + 1 \in 1..Len(Stream) /\ message = Stamped(first, sent + 1)
           /\ Waits(sent + 1)' /\ sequence' = (first + (sent + 1)) % SeqRange
      /\ Head(due).kind # "rtp" =>
           /\ message.kind # "rtp" /\ Waits(sent)' /\ sequence' = sequence
  BY <1>1, <1>2, SentNext
<1>6. Carries(first, read, sent) /\ sequence = (first + sent) % SeqRange
  BY DEF Viewing
<1>7. link' = Append(link, message)
  BY <1>1
<1> HIDE DEF message
<1>8. CASE Head(due).kind = "rtp"
  <2>1. IF message.kind = "rtp" THEN sent + 1 = sent + 1 /\ message = Stamped(first, sent + 1)
        ELSE sent + 1 = sent
    BY <1>3, <1>5, <1>8
  <2>2. Carries(first, read, sent + 1)'
    <3>1. sent + 1 \in Nat
      BY <1>4
    <3> QED
      BY <1>1, <1>2, <1>3, <1>4, <1>6, <1>7, <2>1, <3>1, CarriesMore
  <2>3. Viewing(first, sent + 1, read, n)'
    BY <1>4, <1>5, <1>8, <2>2 DEF Viewing
  <2> QED
    BY <2>3
<1>9. CASE Head(due).kind # "rtp"
  <2>1. IF message.kind = "rtp" THEN sent = sent + 1 /\ message = Stamped(first, sent) ELSE sent = sent
    BY <1>3, <1>9
  <2>2. Carries(first, read, sent)'
    BY <1>1, <1>2, <1>3, <1>4, <1>6, <1>7, <2>1, CarriesMore
  <2>3. Viewing(first, sent, read, n)'
    BY <1>4, <1>5, <1>6, <1>9, <2>2 DEF Viewing
  <2> QED
    BY <2>3
<1> QED
  BY <1>8, <1>9

\* Over UDP too.
LEMMA SendDatagramViewed ==
  ASSUME NEW first, NEW sent, NEW read, NEW n, Viewing(first, sent, read, n), MediaInv, SendDatagram
  PROVE  \E more : Viewing(first, more, read, n)'
<1>1. carrier = "udp" /\ due # <<>> /\ UNCHANGED <<carrier, made, client, shown>>
  BY DEF SendDatagram, fixed, clientVars
<1>2. /\ Stream' = Stream /\ InRange(first, sent, read, n)' /\ Viewed(first, read, n)' /\ sent \in Nat
      /\ sent + 1 \in 1..Len(Stream) => InRange(first, sent + 1, read, n)'
  BY <1>1, RangeStays
<1>3. Carries(first, read, sent) /\ sequence = (first + sent) % SeqRange
  BY DEF Viewing
<1>4. \A x : Stamped(first, x)' = Stamped(first, x)
  BY <1>2 DEF Stamped
<1>5. CASE link' = link \cup {Numbered(Head(due))} /\ Sent /\ open' = open
  <2>1. open
    BY <1>1 DEF MediaInv, LinkIsFramed
  <2>2. Head(due).kind = "rtp"
    <3>1. due \in Seq(Waiting)
      BY <1>1 DEF MediaInv, SendTypes, Outgoing
    <3>2. Head(due) \in Waiting
      BY <1>1, <3>1, HeadTailProperties
    <3> QED
      BY <3>2 DEF Waiting
  <2>3. /\ sent + 1 \in 1..Len(Stream) /\ Numbered(Head(due)) = Stamped(first, sent + 1)
        /\ Waits(sent + 1)' /\ sequence' = (first + (sent + 1)) % SeqRange
    BY <1>1, <1>5, <2>1, <2>2, SentNext
  <2>4. Carries(first, read, sent + 1)'
    <3>1. ASSUME NEW p \in link'
          PROVE  \E x \in 1..sent + 1 : p = Stamped(first, x)
      <4>1. CASE p = Numbered(Head(due))
        <5>1. sent + 1 \in 1..sent + 1
          BY <1>2
        <5> QED
          BY <2>3, <4>1, <5>1
      <4>2. CASE p \in link
        <5>1. PICK x \in 1..sent : p = Stamped(first, x)
          BY <1>1, <1>3, <4>2 DEF Carries
        <5>2. x \in 1..sent + 1
          BY <1>2
        <5> QED
          BY <5>1, <5>2
      <4> QED
        BY <1>5, <4>1, <4>2
    <3> QED
      BY <1>1, <1>4, <3>1 DEF Carries
  <2>5. Viewing(first, sent + 1, read, n)'
    BY <1>2, <2>3, <2>4 DEF Viewing
  <2> QED
    BY <2>5
<1>6. CASE open' = FALSE /\ UNCHANGED <<link, sequence>>
  <2>1. Carries(first, read, sent)'
    BY <1>1, <1>6, LinkStays
  <2>2. Viewing(first, sent, read, n)'
    BY <1>2, <1>3, <1>6, <2>1 DEF Viewing, Waits
  <2> QED
    BY <2>2
<1> QED
  BY <1>5, <1>6 DEF SendDatagram

\* A datagram that is lost was sent.
LEMMA LoseViewed ==
  ASSUME NEW first, NEW sent, NEW read, NEW n, Viewing(first, sent, read, n), MediaInv,
         NEW p \in Datagrams, Lose(p)
  PROVE  Viewing(first, sent, read, n)'
<1>1. /\ carrier = "udp" /\ link' \subseteq link
      /\ UNCHANGED <<carrier, made, due, sequence, open, client, shown>>
  BY DEF Lose, Datagrams, fixed, clientVars, MediaInv, SendTypes
<1>2. Stream' = Stream /\ InRange(first, sent, read, n)' /\ Viewed(first, read, n)'
  BY <1>1, RangeStays
<1>3. \A x : Stamped(first, x)' = Stamped(first, x)
  BY <1>2 DEF Stamped
<1>4. Carries(first, read, sent)'
  BY <1>1, <1>3 DEF Viewing, Carries
<1>5. Waits(sent)' /\ sequence' = (first + sent) % SeqRange
  BY <1>1, <1>2 DEF Viewing, Waits
<1> QED
  BY <1>2, <1>4, <1>5 DEF Viewing

-----------------------------------------------------------------------------
(* The steps of the client. *)

\* A packet after a gap: the client drops what it had, and starts afresh at a marker.
LEMMA GapTaken ==
  ASSUME NEW p \in Packet, Receive(p), Gap(p)
  PROVE  /\ client'.expected = (p.seq + 1) % SeqRange
         /\ client'.pts = IF p.marker THEN NoNumber ELSE p.pts
         /\ client'.whole = p.marker /\ client'.nal = <<>> /\ client'.unit = <<>>
         /\ shown' = shown
<1> DEFINE pay == p.payload
           fresh == p.pts # client.pts
           partial == IF fresh \/ Gap(p) THEN <<>> ELSE client.nal
           broken == IF pay.first THEN partial # <<>> ELSE partial = <<>>
           whole == ~Gap(p) /\ ~broken /\ (fresh \/ client.whole)
           nal == (IF pay.first THEN <<pay.header>> ELSE partial) \o pay.data
           before == IF fresh THEN <<>> ELSE client.unit
           unit == IF pay.last THEN Append(before, nal) ELSE before
<1>1. /\ client' = [expected |-> (p.seq + 1) % SeqRange,
                    pts |-> IF p.marker THEN NoNumber ELSE p.pts,
                    whole |-> whole \/ p.marker,
                    nal |-> IF pay.last \/ ~whole THEN <<>> ELSE nal,
                    unit |-> IF p.marker \/ ~whole THEN <<>> ELSE unit]
      /\ shown' = IF p.marker /\ whole THEN Append(shown, [pts |-> p.pts, nals |-> unit]) ELSE shown
  BY Zenon DEF Receive
<1>2. ~whole /\ p.marker \in BOOLEAN
  BY DEF Packet
<1> HIDE DEF whole, nal, unit, pay
<1> QED
  BY <1>1, <1>2

\* The packet of payload j of NAL unit k of unit n, and a client that waits for it.
Bears(p, n, k, j) ==
  /\ p.pts = n /\ p.payload = Packetize(made[n][k])[j]
  /\ p.marker = (k = Len(made[n]) /\ j = Len(Packetize(made[n][k])))

Ready(n, k, j) == IF k = 1 /\ j = 1 THEN Fresh ELSE Midway(n, k, j)

\* What such a client makes of it.
Took(p, n, k, j) ==
  LET c == Len(Packetize(made[n][k]))
  IN  /\ client'.expected = (p.seq + 1) % SeqRange
      /\ client'.pts = IF p.marker THEN NoNumber ELSE n
      /\ client'.whole = (client.whole \/ p.marker)
      /\ client'.nal = IF j = c \/ ~client.whole THEN <<>> ELSE Assembled(made[n][k], j)
      /\ client'.unit = IF p.marker \/ ~client.whole THEN <<>>
                        ELSE IF j = c THEN SubSeq(made[n], 1, k) ELSE SubSeq(made[n], 1, k - 1)
      /\ shown' = IF p.marker /\ client.whole THEN Append(shown, [pts |-> n, nals |-> made[n]])
                  ELSE shown

\* The packet it waits for: the client has one payload more.
LEMMA NextTaken ==
  ASSUME NEW p \in Packet, Receive(p), ~Gap(p), ViewerTypes, MadeOf(made),
         NEW x, NEW n, NEW k, NEW j, Place(made, x, n, k, j), Bears(p, n, k, j), Ready(n, k, j)
  PROVE  Took(p, n, k, j)
<1> USE DEF Bears, Ready
<1> DEFINE pay == p.payload
           fresh == p.pts # client.pts
           partial == IF fresh \/ Gap(p) THEN <<>> ELSE client.nal
           broken == IF pay.first THEN partial # <<>> ELSE partial = <<>>
           whole == ~Gap(p) /\ ~broken /\ (fresh \/ client.whole)
           nal == (IF pay.first THEN <<pay.header>> ELSE partial) \o pay.data
           before == IF fresh THEN <<>> ELSE client.unit
           unit == IF pay.last THEN Append(before, nal) ELSE before
           c == Len(Packetize(made[n][k]))
           U == made[n]
<1>1. /\ client' = [expected |-> (p.seq + 1) % SeqRange,
                    pts |-> IF p.marker THEN NoNumber ELSE p.pts,
                    whole |-> whole \/ p.marker,
                    nal |-> IF pay.last \/ ~whole THEN <<>> ELSE nal,
                    unit |-> IF p.marker \/ ~whole THEN <<>> ELSE unit]
      /\ shown' = IF p.marker /\ whole THEN Append(shown, [pts |-> p.pts, nals |-> unit]) ELSE shown
  BY Zenon DEF Receive
<1>2. n \in 1..Len(made) /\ k \in 1..Len(U) /\ j \in 1..c
  BY DEF Place
<1>3. /\ n \in 1..MaxUnits /\ n \in Nat /\ U \in Seq(Seq(Byte)) /\ Len(U) \in Nat \ {0}
      /\ U[k] \in Seq(Byte) /\ U[k] # <<>>
  BY <1>2, MadeIs, LimitsAssumption
<1>4. /\ c \in Nat \ {0} /\ Assembled(U[k], 0) = <<>> /\ Assembled(U[k], c) = U[k]
      /\ pay.header = U[k][1] /\ pay.first = (j = 1) /\ pay.last = (j = c)
      /\ \A i \in 1..c : Assembled(U[k], i) # <<>>
      /\ Assembled(U[k], j) = (IF j = 1 THEN <<U[k][1]>> ELSE Assembled(U[k], j - 1)) \o pay.data
  <2>1. LET payloads == Packetize(U[k])
         IN  /\ payloads \in Seq(Fits) /\ Len(payloads) \in Nat \ {0}
             /\ DOMAIN payloads = 1..Len(payloads)
             /\ Assembled(U[k], 0) = <<>> /\ Assembled(U[k], Len(payloads)) = U[k]
             /\ \A i \in 1..Len(payloads) :
                  /\ payloads[i].header = U[k][1]
                  /\ payloads[i].first = (i = 1)
                  /\ payloads[i].last = (i = Len(payloads))
                  /\ Assembled(U[k], i) # <<>>
                  /\ Assembled(U[k], i) =
                       (IF i = 1 THEN <<U[k][1]>> ELSE Assembled(U[k], i - 1)) \o payloads[i].data
    <3> HIDE DEF U
    <3> QED
      BY <1>3, PayloadsAre
  <2>2. /\ c \in Nat \ {0} /\ Assembled(U[k], 0) = <<>> /\ Assembled(U[k], c) = U[k]
        /\ \A i \in 1..c :
             /\ Packetize(U[k])[i].header = U[k][1] /\ Packetize(U[k])[i].first = (i = 1)
             /\ Packetize(U[k])[i].last = (i = c) /\ Assembled(U[k], i) # <<>>
             /\ Assembled(U[k], i) =
                  (IF i = 1 THEN <<U[k][1]>> ELSE Assembled(U[k], i - 1)) \o Packetize(U[k])[i].data
    BY <2>1, Zenon
  <2>3. pay = Packetize(U[k])[j]
    OBVIOUS
  <2> HIDE DEF pay, c
  <2> QED
    BY <1>2, <2>2, <2>3
<1>5. client.whole \in BOOLEAN
  BY DEF ViewerTypes, Viewer
<1> HIDE DEF c, U, pay
<1>6. client.whole => before = SubSeq(U, 1, k - 1)
  <2>1. CASE k = 1 /\ j = 1
    <3>1. fresh
      BY <1>3, <2>1, NoNumberAssumption DEF Fresh
    <3>2. SubSeq(U, 1, k - 1) = <<>>
      BY <2>1, SubSeqEmpty
    <3> QED
      BY <3>1, <3>2
  <2>2. CASE ~(k = 1 /\ j = 1)
    BY <2>2 DEF Midway, U
  <2> QED
    BY <2>1, <2>2
<1>7. /\ whole = client.whole
      /\ client.whole => nal = Assembled(U[k], j)
  <2>1. CASE k = 1 /\ j = 1
    <3>1. fresh /\ client.whole
      BY <1>3, <2>1, NoNumberAssumption DEF Fresh
    <3>2. partial = <<>> /\ pay.first
      BY <1>4, <2>1, <3>1
    <3>3. whole = TRUE
      BY <3>1, <3>2
    <3>4. nal = <<U[k][1]>> \o pay.data
      BY <1>4, <3>2
    <3> QED
      BY <1>4, <2>1, <3>1, <3>3, <3>4
  <2>2. CASE ~(k = 1 /\ j = 1)
    <3>1. ~fresh /\ (client.whole => client.nal = Assembled(U[k], j - 1))
      BY <2>2 DEF Midway, U
    <3>2. ~client.whole => whole = FALSE
      BY <3>1
    <3>3. ASSUME client.whole, j = 1
          PROVE  whole /\ nal = Assembled(U[k], j)
      <4>0. j - 1 = 0
        BY <3>3
      <4>1. partial = <<>> /\ pay.first
        BY <1>4, <3>1, <3>3, <4>0
      <4> QED
        BY <1>4, <1>5, <3>3, <4>1
    <3>4. ASSUME client.whole, j # 1
          PROVE  whole /\ nal = Assembled(U[k], j)
      <4>1. j - 1 \in 1..c
        BY <1>2, <1>4, <3>4
      <4>2. partial = Assembled(U[k], j - 1) /\ partial # <<>> /\ pay.first = FALSE
        BY <1>4, <3>1, <3>4, <4>1
      <4> HIDE DEF partial
      <4> QED
        BY <1>4, <1>5, <3>4, <4>2
    <3> QED
      BY <1>5, <3>2, <3>3, <3>4
  <2> QED
    BY <2>1, <2>2
<1>8. client.whole => unit = IF j = c THEN SubSeq(U, 1, k) ELSE SubSeq(U, 1, k - 1)
  <2> SUFFICES ASSUME client.whole
               PROVE  unit = IF j = c THEN SubSeq(U, 1, k) ELSE SubSeq(U, 1, k - 1)
    OBVIOUS
  <2> HIDE DEF nal, before
  <2>1. CASE j = c
    <3>1. nal = U[k] /\ before = SubSeq(U, 1, k - 1) /\ pay.last
      BY <1>4, <1>6, <1>7, <2>1
    <3>2. SubSeq(U, 1, k) = SubSeq(U, 1, k - 1) \o <<U[k]>>
      BY <1>2, <1>3, SubSeqRecursiveSecond
    <3>3. SubSeq(U, 1, k - 1) \in Seq(Seq(Byte))
      <4>1. \A i \in 1..k - 1 : U[i] \in Seq(Byte)
        <5>1. \A i \in 1..k - 1 : i \in 1..Len(U)
          BY <1>2, <1>3
        <5> QED
          BY <1>3, <5>1, ElementOfSeq
      <4>2. k - 1 \in Int
        BY <1>2
      <4> QED
        BY <4>1, <4>2, SubSeqProperties
    <3>4. Append(SubSeq(U, 1, k - 1), U[k]) = SubSeq(U, 1, k - 1) \o <<U[k]>>
      BY <1>3, <3>3, AppendIsConcat
    <3> QED
      BY <2>1, <3>1, <3>2, <3>4
  <2>2. CASE j # c
    BY <1>4, <1>6, <2>2
  <2> QED
    BY <2>1, <2>2
<1>9. p.marker \in BOOLEAN /\ p.marker = (k = Len(U) /\ j = c)
  BY DEF U, c
<1>10. p.marker /\ client.whole => unit = U
  BY <1>3, <1>8, <1>9, SubSeqFull
<1> HIDE DEF whole, nal, unit
<1>11. shown' = IF p.marker /\ client.whole THEN Append(shown, [pts |-> n, nals |-> U]) ELSE shown
  BY <1>1, <1>7, <1>10
<1> QED
  BY <1>1, <1>4, <1>7, <1>8, <1>11 DEF c, U, Took

\* What the client has once it has taken payload j of NAL unit k of unit n.
Landed(n, k, j) ==
  IF Carried(made, n, k, j).marker THEN Fresh'
  ELSE /\ client'.pts = n
       /\ client'.whole =>
            IF j = Len(Packetize(made[n][k]))
              THEN client'.nal = <<>> /\ client'.unit = SubSeq(made[n], 1, k)
            ELSE client'.nal = Assembled(made[n][k], j) /\ client'.unit = SubSeq(made[n], 1, k - 1)

\* The unit of the packet after it.
UnitAfter(n, k, j) == IF Carried(made, n, k, j).marker THEN n + 1 ELSE n

\* The packet that a place is sent as.
Stamps(first, x, n, k, j) ==
  /\ Stamped(first, x) \in Packet /\ Stamped(first, x).seq = (first + x - 1) % SeqRange
  /\ Stamped(first, x).pts = n /\ Stamped(first, x).payload = Packetize(made[n][k])[j]
  /\ Stamped(first, x).marker = (k = Len(made[n]) /\ j = Len(Packetize(made[n][k])))
  /\ Stamped(first, x).marker = Carried(made, n, k, j).marker

\* The packet of a place.
LEMMA StampedType ==
  ASSUME MediaInv, NEW first \in Nat, NEW x \in 1..Len(Stream),
         NEW n, NEW k, NEW j, Place(made, x, n, k, j)
  PROVE  Stamps(first, x, n, k, j)
<1>1. Stream = Flow(made) /\ MadeOf(made) /\ Stream[x] \in Waiting
  BY StreamIs
<1>2. Stream[x] = Carried(made, n, k, j)
  BY <1>1, PlaceIs
<1>3. (first + x - 1) % SeqRange \in 0..SeqRange - 1
  <2>1. first + x - 1 \in Nat /\ SeqRange \in Nat \ {0}
    BY SequenceType
  <2> QED
    BY <2>1, Division
<1>4. Stamped(first, x) \in Packet
  BY <1>1, <1>3 DEF Stamped, Packet, Waiting
<1> QED
  BY <1>2, <1>4 DEF Stamped, Carried, Stamps

\* A client that took a packet waits for the next one.
LEMMA LandsOnwards ==
  ASSUME MediaInv, NEW x, NEW n, NEW k, NEW j, Place(made, x, n, k, j), Landed(n, k, j), made' = made,
         NEW m, m = UnitAfter(n, k, j)
  PROVE  m \in 1..Len(made) + 1 /\ Awaits(x, m)'
<1> DEFINE c == Len(Packetize(made[n][k]))
<1>1. Stream = Flow(made) /\ MadeOf(made) /\ Len(made) \in Nat
  BY StreamIs
<1>2. Stream' = Stream
  BY Zenon DEF Stream
<1>3. n \in 1..Len(made) /\ k \in 1..Len(made[n]) /\ j \in 1..c
  BY DEF Place
<1>4. Len(made[n]) \in Nat
  BY <1>1, <1>3, MadeIs
<1>5. Carried(made, n, k, j).marker = (k = Len(made[n]) /\ j = c)
  BY DEF Carried
<1>6. /\ j # c => Place(made, x + 1, n, k, j + 1)
      /\ j = c /\ k # Len(made[n]) => Place(made, x + 1, n, k + 1, 1)
      /\ j = c /\ k = Len(made[n]) /\ n # Len(made) => Place(made, x + 1, n + 1, 1, 1)
      /\ j = c /\ k = Len(made[n]) /\ n = Len(made) => x = Len(Flow(made))
  <2>1. LET d == Len(Packetize(made[n][k]))
         IN  /\ j # d => Place(made, x + 1, n, k, j + 1)
             /\ j = d /\ k # Len(made[n]) => Place(made, x + 1, n, k + 1, 1)
             /\ j = d /\ k = Len(made[n]) /\ n # Len(made) => Place(made, x + 1, n + 1, 1, 1)
             /\ j = d /\ k = Len(made[n]) /\ n = Len(made) => x = Len(Flow(made))
    BY <1>1, PlaceNext
  <2> QED
    BY <2>1
<1>7. CASE j = c /\ k = Len(made[n])
  <2>1. Fresh' /\ m = n + 1
    BY <1>5, <1>7 DEF Landed, UnitAfter
  <2>2. CASE n = Len(made)
    <3>1. x = Len(Stream') /\ n + 1 = Len(made') + 1
      BY <1>1, <1>2, <1>6, <1>7, <2>2
    <3>2. Awaits(x, n + 1)'
      BY <2>1, <3>1 DEF Awaits
    <3> QED
      BY <1>1, <1>3, <2>1, <3>2
  <2>3. CASE n # Len(made)
    <3>1. Place(made', x + 1, n + 1, 1, 1)
      BY <1>6, <1>7, <2>3
    <3>2. Awaits(x, n + 1)'
      BY <2>1, <3>1 DEF Awaits
    <3> QED
      BY <1>1, <1>3, <2>1, <3>2
  <2> QED
    BY <2>2, <2>3
<1>8. CASE ~(j = c /\ k = Len(made[n]))
  <2>1. m = n /\ client'.pts = n
    BY <1>5, <1>8 DEF Landed, UnitAfter
  <2>2. CASE j = c
    <3>1. Place(made', x + 1, n, k + 1, 1)
      BY <1>6, <1>8, <2>2
    <3>2. client'.whole => client'.nal = <<>> /\ client'.unit = SubSeq(made[n], 1, k)
      BY <1>5, <1>8, <2>2 DEF Landed
    <3>3. (k + 1) - 1 = k /\ Assembled(made[n][k + 1], 1 - 1) = <<>> /\ k + 1 # 1
      BY <1>3 DEF Assembled
    <3>4. Midway(n, k + 1, 1)'
      BY <2>1, <3>2, <3>3 DEF Midway
    <3>5. Awaits(x, n)'
      BY <3>1, <3>3, <3>4 DEF Awaits
    <3> QED
      BY <1>1, <1>3, <2>1, <3>5
  <2>3. CASE j # c
    <3>1. Place(made', x + 1, n, k, j + 1)
      BY <1>6, <2>3
    <3>2. client'.whole => client'.nal = Assembled(made[n][k], j) /\ client'.unit = SubSeq(made[n], 1, k - 1)
      BY <1>5, <1>8, <2>3 DEF Landed
    <3>3. (j + 1) - 1 = j /\ j + 1 # 1
      BY <1>3
    <3>4. Midway(n, k, j + 1)'
      BY <2>1, <3>2, <3>3 DEF Midway
    <3>5. Awaits(x, n)'
      BY <3>1, <3>3, <3>4 DEF Awaits
    <3> QED
      BY <1>1, <1>3, <2>1, <3>5
  <2> QED
    BY <2>2, <2>3
<1> QED
  BY <1>7, <1>8

\* The packet the client waits for completes what it has, and shows the unit at its end.
LEMMA ReceiveNext ==
  ASSUME MediaInv, NEW first \in Nat, NEW x \in 1..Len(Stream), NEW n, NEW k, NEW j,
         Place(made, x, n, k, j), NEW p, p = Stamped(first, x), Receive(p), ~Gap(p),
         IF k = 1 /\ j = 1 THEN Fresh ELSE Midway(n, k, j), ShownUpTo(n), UNCHANGED <<carrier, made>>,
         NEW m, m = UnitAfter(n, k, j)
  PROVE  /\ client'.expected = (p.seq + 1) % SeqRange
         /\ Landed(n, k, j) /\ ShownUpTo(m)'
<1> DEFINE c == Len(Packetize(made[n][k]))
           item == [pts |-> n, nals |-> made[n]]
<1>1. /\ p \in Packet /\ p.pts = n /\ p.payload = Packetize(made[n][k])[j]
      /\ p.marker = (k = Len(made[n]) /\ j = c)
      /\ p.marker = Carried(made, n, k, j).marker
  <2>1. Stamps(first, x, n, k, j)
    BY StampedType
  <2> QED
    BY <2>1 DEF Stamps
<1>2. MadeOf(made) /\ ViewerTypes
  BY StreamIs DEF MediaInv
<1>3. /\ client'.expected = (p.seq + 1) % SeqRange
      /\ client'.pts = IF p.marker THEN NoNumber ELSE n
      /\ client'.whole = (client.whole \/ p.marker)
      /\ client'.nal = IF j = c \/ ~client.whole THEN <<>> ELSE Assembled(made[n][k], j)
      /\ client'.unit = IF p.marker \/ ~client.whole THEN <<>>
                        ELSE IF j = c THEN SubSeq(made[n], 1, k) ELSE SubSeq(made[n], 1, k - 1)
      /\ shown' = IF p.marker /\ client.whole THEN Append(shown, item) ELSE shown
  <2>1. Bears(p, n, k, j) /\ Ready(n, k, j)
    BY <1>1 DEF Bears, Ready
  <2>2. Took(p, n, k, j)
    BY <1>1, <1>2, <2>1, NextTaken
  <2> QED
    BY <2>2 DEF Took
<1>4. client.whole \in BOOLEAN /\ p.marker \in BOOLEAN
  BY <1>1, <1>2 DEF ViewerTypes, Viewer, Packet
<1>5. Landed(n, k, j)
  <2>1. CASE p.marker
    <3>1. Fresh'
      BY <1>1, <1>3, <1>4, <2>1 DEF Fresh
    <3> QED
      BY <1>1, <2>1, <3>1 DEF Landed
  <2>2. CASE ~p.marker
    <3>1. Carried(made, n, k, j).marker = FALSE
      BY <1>1, <2>2
    <3>2. client'.pts = n /\ client'.whole = client.whole
      BY <1>3, <1>4, <2>2
    <3>3. client.whole => IF j = c THEN client'.nal = <<>> /\ client'.unit = SubSeq(made[n], 1, k)
                          ELSE client'.nal = Assembled(made[n][k], j) /\ client'.unit = SubSeq(made[n], 1, k - 1)
      BY <1>3, <1>4, <2>2
    <3> QED
      BY <3>1, <3>2, <3>3 DEF Landed
  <2> QED
    BY <2>1, <2>2
<1>6. n \in 1..MaxUnits /\ n \in Nat /\ made[n] \in Seq(Seq(Byte))
  <2>1. n \in 1..Len(made)
    BY DEF Place
  <2> QED
    BY <1>2, <2>1, MadeIs
<1>7. /\ shown \in Seq([pts : 1..MaxUnits, nals : Seq(Seq(Byte))])
      /\ item \in [pts : 1..MaxUnits, nals : Seq(Seq(Byte))]
  BY <1>2, <1>6 DEF ViewerTypes
<1>8. Len(shown) \in Nat
  BY <1>7, LenProperties
<1>9. ShownUpTo(m)'
  <2>1. ASSUME ~(p.marker /\ client.whole)
        PROVE  ShownUpTo(m)'
    <3>1. shown' = shown /\ (carrier = "tcp" => client.whole /\ ~p.marker /\ client'.whole)
      BY <1>3, <1>4, <2>1 DEF ShownUpTo
    <3>2. m = IF p.marker THEN n + 1 ELSE n
      BY <1>1 DEF UnitAfter
    <3>3. \A i \in 1..Len(shown) : shown[i].pts \in 1..m - 1
      BY <1>6, <3>2 DEF ShownUpTo
    <3>4. made' = made /\ carrier' = carrier
      OBVIOUS
    <3> QED
      BY <3>1, <3>2, <3>3, <3>4 DEF ShownUpTo
  <2>2. ASSUME p.marker, client.whole
        PROVE  ShownUpTo(m)'
    <3>1. shown' = Append(shown, item) /\ client'.whole
      BY <1>3, <1>4, <2>2
    <3>2. m = n + 1 /\ (n + 1) - 1 = n
      BY <1>1, <1>6, <2>2 DEF UnitAfter
    <3>3. /\ Len(shown') = Len(shown) + 1 /\ shown'[Len(shown) + 1] = item
          /\ \A i \in 1..Len(shown) : shown'[i] = shown[i]
      BY <1>7, <3>1, AppendProperties
    <3>4. made' = made /\ carrier' = carrier /\ item.pts = n /\ item.nals = made[n]
      OBVIOUS
    <3> HIDE DEF item
    <3>5. /\ \A i \in 1..Len(shown) : shown[i].pts \in 1..n - 1 /\ shown[i].nals = made[shown[i].pts]
          /\ \A i \in 2..Len(shown) : shown[i - 1].pts < shown[i].pts
          /\ carrier = "tcp" => Len(shown) = n - 1 /\ \A i \in 1..Len(shown) : shown[i].pts = i
      BY DEF ShownUpTo
    <3>6. ASSUME NEW i \in 1..Len(shown')
          PROVE  shown'[i].pts \in 1..n /\ shown'[i].nals = made[shown'[i].pts]
      <4>1. CASE i = Len(shown) + 1
        BY <1>6, <3>3, <3>4, <4>1
      <4>2. CASE i # Len(shown) + 1
        <5>1. i \in 1..Len(shown)
          BY <1>8, <3>3, <4>2
        <5>2. /\ shown'[i] = shown[i] /\ shown[i].pts \in 1..n - 1
              /\ shown[i].nals = made[shown[i].pts]
          BY <3>3, <3>5, <5>1
        <5>3. shown[i].pts \in 1..n
          BY <1>6, <5>2
        <5> QED
          BY <5>2, <5>3
      <4> QED
        BY <4>1, <4>2
    <3>7. ASSUME NEW i \in 2..Len(shown')
          PROVE  shown'[i - 1].pts < shown'[i].pts
      <4>1. i - 1 \in 1..Len(shown)
        BY <1>8, <3>3
      <4>2. shown'[i - 1] = shown[i - 1] /\ shown[i - 1].pts \in 1..n - 1
        BY <3>3, <3>5, <4>1
      <4>3. CASE i = Len(shown) + 1
        BY <1>6, <3>3, <3>4, <4>2, <4>3
      <4>4. CASE i # Len(shown) + 1
        <5>1. i \in 2..Len(shown) /\ i \in 1..Len(shown)
          BY <1>8, <3>3, <4>4
        <5> QED
          BY <3>3, <3>5, <4>2, <5>1
      <4> QED
        BY <4>3, <4>4
    <3>8. ASSUME carrier = "tcp"
          PROVE  Len(shown') = n /\ \A i \in 1..Len(shown') : shown'[i].pts = i
      <4>1. Len(shown) = n - 1
        BY <3>5, <3>8
      <4>2. ASSUME NEW i \in 1..Len(shown')
            PROVE  shown'[i].pts = i
        <5>1. CASE i = Len(shown) + 1
          BY <1>6, <3>3, <3>4, <4>1, <5>1
        <5>2. CASE i # Len(shown) + 1
          <6>1. i \in 1..Len(shown)
            BY <1>8, <3>3, <5>2
          <6> QED
            BY <3>3, <3>5, <3>8, <6>1
        <5> QED
          BY <5>1, <5>2
      <4> QED
        BY <1>6, <3>3, <4>1, <4>2
    <3> QED
      BY <3>1, <3>2, <3>4, <3>6, <3>7, <3>8 DEF ShownUpTo
  <2> QED
    BY <2>1, <2>2
<1> QED
  BY <1>3, <1>5, <1>9

\* A packet after a gap shows nothing.
LEMMA ReceiveAfterGap ==
  ASSUME MediaInv, NEW first \in Nat, NEW x \in 1..Len(Stream), NEW n, NEW k, NEW j,
         Place(made, x, n, k, j), NEW p, p = Stamped(first, x), Receive(p), Gap(p), carrier = "udp",
         NEW r \in Nat, r <= n, ShownUpTo(r), UNCHANGED <<carrier, made>>,
         NEW m, m = UnitAfter(n, k, j)
  PROVE  /\ client'.expected = (p.seq + 1) % SeqRange
         /\ Landed(n, k, j) /\ ShownUpTo(m)'
<1>1. /\ p \in Packet /\ p.pts = n
      /\ p.marker = Carried(made, n, k, j).marker
  <2>1. Stamps(first, x, n, k, j)
    BY StampedType
  <2> QED
    BY <2>1 DEF Stamps
<1>2. /\ client'.expected = (p.seq + 1) % SeqRange
      /\ client'.pts = IF p.marker THEN NoNumber ELSE p.pts
      /\ client'.whole = p.marker /\ client'.nal = <<>> /\ client'.unit = <<>>
      /\ shown' = shown
  BY <1>1, GapTaken
<1>3. p.marker \in BOOLEAN /\ n \in 1..Len(made) /\ Len(made) \in Nat
  BY <1>1, StreamIs DEF Packet, Place
<1>4. Landed(n, k, j)
  <2>1. CASE p.marker
    <3>1. Fresh'
      BY <1>2, <1>3, <2>1 DEF Fresh
    <3> QED
      BY <1>1, <2>1, <3>1 DEF Landed
  <2>2. CASE ~p.marker
    <3>1. client'.pts = n /\ client'.whole = FALSE
      BY <1>1, <1>2, <1>3, <2>2
    <3>2. Carried(made, n, k, j).marker = FALSE
      BY <1>1, <2>2
    <3> QED
      BY <3>1, <3>2 DEF Landed
  <2> QED
    BY <2>1, <2>2
<1>5. ShownUpTo(m)'
  <2>1. m \in Nat /\ r <= m
    BY <1>3 DEF UnitAfter
  <2>2. /\ \A i \in 1..Len(shown) : shown[i].pts \in 1..r - 1 /\ shown[i].nals = made[shown[i].pts]
        /\ \A i \in 2..Len(shown) : shown[i - 1].pts < shown[i].pts
    BY DEF ShownUpTo
  <2>3. \A i \in 1..Len(shown) : shown[i].pts \in 1..m - 1
    BY <2>1, <2>2
  <2>4. shown' = shown /\ made' = made /\ carrier' # "tcp"
    BY <1>2
  <2> QED
    BY <2>2, <2>3, <2>4 DEF ShownUpTo
<1> QED
  BY <1>2, <1>4, <1>5

\* Any packet that is not late takes the client to the place after it.
LEMMA ReceiveViewed ==
  ASSUME MediaInv, NEW first \in Nat, NEW read \in Nat, NEW n \in Nat, Viewed(first, read, n),
         NEW x \in 1..Len(Stream), NEW p, p = Stamped(first, x), Receive(p), UNCHANGED <<carrier, made>>,
         x > read, Gap(p) => carrier = "udp", ~Gap(p) => x = read + 1
  PROVE  \E m : m \in 1..Len(made) + 1 /\ Viewed(first, x, m)'
<1>1. Stream = Flow(made) /\ MadeOf(made) /\ Len(made) \in Nat /\ Len(Stream) \in Nat
  BY StreamIs
<1>2. PICK k, j : Place(made, read + 1, n, k, j) /\ Ready(n, k, j)
  <2>1. read # Len(Stream)
    BY <1>1
  <2> QED
    BY <2>1 DEF Viewed, Awaits, Ready
<1>3. ShownUpTo(n)
  BY DEF Viewed
<1>4. client'.expected = (p.seq + 1) % SeqRange
        => client'.expected = IF x = 0 THEN NoNumber ELSE (first + x) % SeqRange
  <2>1. p.seq = (first + x - 1) % SeqRange
    BY DEF Stamped
  <2>2. SeqRange \in Nat \ {0} /\ first + x - 1 \in Nat /\ (first + x - 1) + 1 = first + x
    BY SequenceType
  <2>3. (((first + x - 1) % SeqRange) + 1) % SeqRange = ((first + x - 1) + 1) % SeqRange
    BY <2>2, NextNumber
  <2>4. x # 0
    OBVIOUS
  <2> QED
    BY <2>1, <2>2, <2>3, <2>4
<1>5. CASE Gap(p)
  <2>1. PICK q, l, i : Place(made, x, q, l, i)
    BY <1>1, Placed
  <2>2. n <= q
    <3>1. read + 1 <= x
      OBVIOUS
    <3> QED
      BY <1>1, <1>2, <2>1, <3>1, PlaceOrder
  <2>3. PICK m : m = UnitAfter(q, l, i)
    OBVIOUS
  <2>4. /\ client'.expected = (p.seq + 1) % SeqRange
        /\ Landed(q, l, i) /\ ShownUpTo(m)'
    BY <1>3, <1>5, <2>1, <2>2, <2>3, ReceiveAfterGap
  <2>5. m \in 1..Len(made) + 1 /\ Awaits(x, m)'
    BY <2>1, <2>3, <2>4, LandsOnwards
  <2>6. Viewed(first, x, m)'
    BY <1>4, <2>4, <2>5 DEF Viewed
  <2> QED
    BY <2>5, <2>6
<1>6. CASE ~Gap(p)
  <2>1. Place(made, x, n, k, j)
    BY <1>2, <1>6
  <2>2. PICK m : m = UnitAfter(n, k, j)
    OBVIOUS
  <2>3. IF k = 1 /\ j = 1 THEN Fresh ELSE Midway(n, k, j)
    BY <1>2 DEF Ready
  <2>4. /\ client'.expected = (p.seq + 1) % SeqRange
        /\ Landed(n, k, j) /\ ShownUpTo(m)'
    BY <1>3, <1>6, <2>1, <2>2, <2>3, ReceiveNext
  <2>5. m \in 1..Len(made) + 1 /\ Awaits(x, m)'
    BY <2>1, <2>2, <2>4, LandsOnwards
  <2>6. Viewed(first, x, m)'
    BY <1>4, <2>4, <2>5 DEF Viewed
  <2> QED
    BY <2>5, <2>6
<1> QED
  BY <1>5, <1>6

\* A datagram that is not late lies ahead, and it is the next one unless there is a gap.
LEMMA ReceiveDatagramViewed ==
  ASSUME NEW first, NEW sent, NEW read, NEW n, Viewing(first, sent, read, n), MediaInv, Known,
         NEW p \in Datagrams, ReceiveDatagram(p)
  PROVE  \E y, m : Viewing(first, sent, y, m)'
<1>1. /\ carrier = "udp" /\ link' \subseteq link /\ p \in link
      /\ UNCHANGED <<carrier, made, due, sequence, open>>
  BY DEF ReceiveDatagram, Datagrams, fixed, MediaInv, SendTypes
<1>2. /\ InRange(first, sent, read, n) /\ Viewed(first, read, n)
      /\ Carries(first, read, sent) /\ Waits(sent) /\ sequence = (first + sent) % SeqRange
  BY DEF Viewing
<1>3. Stream' = Stream /\ Len(Stream) \in Nat /\ Len(made) \in Nat
  BY <1>1, StreamIs, Zenon DEF Stream
<1>4. /\ first \in Nat /\ sent \in 0..Len(Stream) /\ sent \in Nat /\ read \in 0..sent /\ read \in Nat
      /\ n \in Nat
  BY <1>2, <1>3, SequenceType DEF InRange
<1>5. /\ \A y : Carries(first, y, sent)'
      /\ Waits(sent)' /\ sequence' = (first + sent) % SeqRange
  <2>1. \A x : Stamped(first, x)' = Stamped(first, x)
    BY <1>3 DEF Stamped
  <2>2. \A q \in link' : \E x \in 1..sent : q = Stamped(first, x)'
    BY <1>1, <1>2, <2>1 DEF Carries
  <2>3. \A y : Carries(first, y, sent)'
    BY <1>1, <2>2 DEF Carries
  <2> QED
    BY <1>1, <1>2, <1>3, <2>3 DEF Waits
<1>6. PICK x \in 1..sent : p = Stamped(first, x)
  BY <1>1, <1>2 DEF Carries
<1>7. CASE Late(p)
  <2>1. UNCHANGED <<client, shown>>
    BY <1>7 DEF ReceiveDatagram
  <2>2. InRange(first, sent, read, n)' /\ Viewed(first, read, n)'
    BY <1>1, <2>1, RangeStays
  <2>3. Viewing(first, sent, read, n)'
    BY <1>5, <2>2 DEF Viewing
  <2> QED
    BY <2>3
<1>8. CASE ~Late(p)
  <2>1. Receive(p)
    BY <1>8 DEF ReceiveDatagram
  <2>2. /\ x \in 1..Len(Stream) /\ x \in 0..Len(Stream) /\ x \in Nat
        /\ first + x - 1 \in Nat /\ first + read \in Nat
    BY <1>3, <1>4
  <2>3. /\ client.expected = IF read = 0 THEN NoNumber ELSE (first + read) % SeqRange
        /\ p.seq = (first + x - 1) % SeqRange
    BY <1>2, <1>6 DEF Viewed, Stamped
  <2>4. SeqRange \in Nat /\ SeqRange > 1 /\ Len(Stream) <= SeqRange - SeqRange \div 2
    BY <1>1, SequenceType DEF Known
  <2>5. read # 0 => client.expected # NoNumber
    <3>1. (first + read) % SeqRange \in Nat
      <4>1. SeqRange \in Nat \ {0}
        BY <2>4
      <4>2. (first + read) % SeqRange \in 0..SeqRange - 1
        BY <2>2, <4>1, Division
      <4> QED
        BY <2>4, <4>2
    <3> QED
      BY <2>3, <3>1, NoNumberAssumption
  <2>6. \A a, b \in Nat : a < b /\ b < a + SeqRange => b % SeqRange # a % SeqRange
    BY <2>4, Numbers
  <2>8. \A f, y, r, s, c \in Nat : y <= r /\ r <= s /\ s <= c /\ 1 <= y
                                     => f + y - 1 < f + r /\ (f + r) - (f + y - 1) <= c
    OBVIOUS
  <2>9. x > read
    <3> SUFFICES ASSUME x <= read
                 PROVE  FALSE
      BY <1>4, <2>2
    <3>1. read # 0 /\ client.expected # NoNumber /\ client.expected = (first + read) % SeqRange
      BY <1>4, <2>2, <2>3, <2>5
    <3>2. first + x - 1 < first + read /\ (first + read) - (first + x - 1) <= Len(Stream)
      BY <1>3, <1>4, <2>2, <2>8
    <3>3. (first + read) - (first + x - 1) <= SeqRange - SeqRange \div 2
      BY <1>3, <2>2, <2>4, <3>2
    <3> DEFINE its == first + x - 1
               next == first + read
    <3>4. p.seq = its % SeqRange /\ client.expected = next % SeqRange
      BY <2>3, <3>1
    <3>5. its \in Nat /\ next \in Nat /\ its < next /\ next - its <= SeqRange - SeqRange \div 2
      BY <2>2, <3>2, <3>3
    <3> HIDE DEF its, next
    <3>6. ((its % SeqRange) - (next % SeqRange)) % SeqRange >= SeqRange \div 2
      BY <2>4, <3>5, Numbers
    <3>7. (p.seq - client.expected) % SeqRange >= SeqRange \div 2
      BY <3>4, <3>6, Zenon
    <3> QED
      BY <1>8, <3>1, <3>7, Zenon DEF Late
  <2>10. ~Gap(p) => x = read + 1
    <3> SUFFICES ASSUME ~Gap(p), x # read + 1
                 PROVE  FALSE
      OBVIOUS
    <3>1. read # 0 /\ p.seq = client.expected
      BY <1>1, <2>3, <2>5 DEF Gap
    <3>2. p.seq = (first + read) % SeqRange
      BY <2>3, <3>1
    <3>3. first + read < first + x - 1 /\ first + x - 1 < (first + read) + SeqRange
      <4>1. x <= Len(Stream) /\ Len(Stream) < SeqRange + 1
        BY <1>3, <2>2, <2>4
      <4>2. x > read + 1
        BY <1>4, <2>2, <2>9
      <4> QED
        BY <1>3, <1>4, <2>2, <2>4, <4>1, <4>2
    <3>4. (first + x - 1) % SeqRange # (first + read) % SeqRange
      BY <2>2, <2>6, <3>3
    <3> QED
      BY <2>3, <3>2, <3>4
  <2>11. PICK m : m \in 1..Len(made) + 1 /\ Viewed(first, x, m)'
    BY <1>1, <1>2, <1>4, <1>6, <2>1, <2>2, <2>9, <2>10, ReceiveViewed
  <2>12. InRange(first, sent, x, m)'
    <3>1. x \in 0..sent
      BY <1>4
    <3> QED
      BY <1>1, <1>2, <1>3, <2>11, <3>1 DEF InRange
  <2>13. Viewing(first, sent, x, m)'
    BY <1>5, <2>11, <2>12 DEF Viewing
  <2> QED
    BY <2>13
<1> QED
  BY <1>7, <1>8

\* The head of the connection is the next packet, or it is none.
LEMMA CarriesLess ==
  ASSUME carrier = "tcp", carrier' = carrier, Stream' = Stream, link \in Seq(OnStream), link # <<>>,
         link' = Tail(link), NEW first, NEW sent \in Nat, NEW read \in 0..sent, Carries(first, read, sent)
  PROVE  /\ Head(link).kind = "rtp" =>
              read + 1 <= sent /\ Head(link) = Stamped(first, read + 1) /\ Carries(first, read + 1, sent)'
         /\ Head(link).kind # "rtp" => Carries(first, read, sent)'
<1> DEFINE n == Len(link)
           shifted(count) == [m \in 0..n - 1 |-> count[m + 1]]
<1>1. /\ n \in Nat \ {0} /\ Len(link') = n - 1 /\ Head(link) = link[1]
      /\ \A m \in 1..n - 1 : link'[m] = link[m + 1]
  <2>1. n \in Nat \ {0} /\ Head(link) = link[1]
    BY EmptySeq
  <2>2. Len(Tail(link)) = n - 1 /\ \A m \in 1..Len(Tail(link)) : Tail(link)[m] = link[m + 1]
    BY HeadTailProperties
  <2> QED
    BY <2>1, <2>2
<1> HIDE DEF n
<1>2. \A x : Stamped(first, x)' = Stamped(first, x)
  BY DEF Stamped
<1>3. PICK count : Counts(count, first, read, sent)
  BY DEF Carries
<1>4. /\ count \in [0..n -> 0..sent] /\ count[0] = read /\ count[n] = sent
      /\ \A m \in 1..n :
           IF link[m].kind = "rtp" THEN count[m] = count[m - 1] + 1 /\ link[m] = Stamped(first, count[m])
           ELSE count[m] = count[m - 1]
  BY <1>3 DEF Counts, n
<1>5. PICK rest : rest = shifted(count)
  OBVIOUS
<1>6. DOMAIN rest = 0..n - 1 /\ \A m \in 0..n - 1 : rest[m] = count[m + 1]
  BY <1>5
<1>7. rest = [m \in 0..n - 1 |-> rest[m]]
  BY <1>5
<1>8. rest \in [0..n - 1 -> 0..sent]
  <2>1. ASSUME NEW m \in 0..n - 1
        PROVE  rest[m] \in 0..sent
    <3>1. m + 1 \in 0..n
      BY <1>1
    <3> QED
      BY <1>4, <1>6, <3>1
  <2> QED
    BY <1>7, <2>1
<1>9. rest[0] = count[1] /\ rest[n - 1] = sent
  <2>1. 0 \in 0..n - 1 /\ n - 1 \in 0..n - 1 /\ 0 + 1 = 1 /\ (n - 1) + 1 = n
    BY <1>1
  <2> QED
    BY <1>4, <1>6, <2>1
<1>10. ASSUME NEW m \in 1..n - 1
       PROVE  IF link'[m].kind = "rtp"
                THEN rest[m] = rest[m - 1] + 1 /\ link'[m] = Stamped(first, rest[m])
              ELSE rest[m] = rest[m - 1]
  <2>1. /\ m + 1 \in 1..n /\ m \in 0..n - 1 /\ m - 1 \in 0..n - 1
        /\ (m - 1) + 1 = m /\ (m + 1) - 1 = m
    BY <1>1
  <2>2. rest[m] = count[m + 1] /\ rest[m - 1] = count[m] /\ link'[m] = link[m + 1]
    BY <1>1, <1>6, <2>1
  <2>3. IF link[m + 1].kind = "rtp"
          THEN count[m + 1] = count[(m + 1) - 1] + 1 /\ link[m + 1] = Stamped(first, count[m + 1])
        ELSE count[m + 1] = count[(m + 1) - 1]
    BY <1>4, <2>1
  <2> QED
    BY <2>1, <2>2, <2>3
<1>11. ASSUME NEW r, r = count[1]
       PROVE  Carries(first, r, sent)'
  <2>1. Counts(rest, first, r, sent)'
    BY <1>1, <1>2, <1>8, <1>9, <1>10, <1>11 DEF Counts
  <2> QED
    BY <2>1 DEF Carries
<1>12. /\ link[1].kind = "rtp" => count[1] = read + 1 /\ link[1] = Stamped(first, count[1])
       /\ link[1].kind # "rtp" => count[1] = read
       /\ count[1] \in 0..sent
  <2>1. 1 \in 1..n /\ 1 \in 0..n /\ 1 - 1 = 0
    BY <1>1
  <2>2. IF link[1].kind = "rtp" THEN count[1] = count[1 - 1] + 1 /\ link[1] = Stamped(first, count[1])
        ELSE count[1] = count[1 - 1]
    BY <1>4, <2>1
  <2>3. count[1] \in 0..sent
    BY <1>4, <2>1
  <2> QED
    BY <1>4, <2>1, <2>2, <2>3
<1>13. Carries(first, count[1], sent)'
  <2>1. PICK r : r = count[1]
    OBVIOUS
  <2>2. Carries(first, r, sent)'
    BY <1>11, <2>1
  <2> QED
    BY <2>1, <2>2
<1> QED
  BY <1>1, <1>12, <1>13

\* A client of a TCP stream reads the next packet, or a message that is none.
LEMMA ReadStreamViewed ==
  ASSUME NEW first, NEW sent, NEW read, NEW n, Viewing(first, sent, read, n), MediaInv, ReadStream
  PROVE  \E y, m : Viewing(first, sent, y, m)'
<1>1. /\ carrier = "tcp" /\ link # <<>> /\ link' = Tail(link)
      /\ UNCHANGED <<carrier, made, due, sequence, open>>
      /\ IF Head(link).kind = "rtp" /\ parser = "body" THEN Receive(Head(link))
         ELSE UNCHANGED <<client, shown>>
  BY DEF ReadStream, fixed
<1>2. /\ InRange(first, sent, read, n) /\ Viewed(first, read, n)
      /\ Carries(first, read, sent) /\ Waits(sent) /\ sequence = (first + sent) % SeqRange
  BY DEF Viewing
<1>3. Stream' = Stream /\ Len(Stream) \in Nat /\ Len(made) \in Nat
  BY <1>1, StreamIs, Zenon DEF Stream
<1>4. /\ first \in Nat /\ sent \in 0..Len(Stream) /\ sent \in Nat /\ read \in 0..sent /\ read \in Nat
      /\ n \in Nat
  BY <1>2, <1>3, SequenceType DEF InRange
<1>5. link \in Seq(OnStream) /\ Framed(link, parser)
  BY <1>1 DEF MediaInv, LinkTypes, LinkIsFramed
<1>6. Waits(sent)' /\ sequence' = (first + sent) % SeqRange
  BY <1>1, <1>2, <1>3 DEF Waits
<1>7. /\ Head(link).kind = "rtp" =>
           read + 1 <= sent /\ Head(link) = Stamped(first, read + 1) /\ Carries(first, read + 1, sent)'
      /\ Head(link).kind # "rtp" => Carries(first, read, sent)'
  BY <1>1, <1>2, <1>3, <1>4, <1>5, CarriesLess
<1>8. CASE Head(link).kind = "rtp"
  <2>1. parser = "body"
    <3>1. Admits(parser, Head(link).kind)
      BY <1>1, <1>5, TailFramed
    <3> QED
      BY <1>8, <3>1 DEF Admits
  <2>2. Receive(Head(link)) /\ Head(link) = Stamped(first, read + 1)
    BY <1>1, <1>7, <1>8, <2>1
  <2>3. read + 1 \in 1..Len(Stream) /\ read + 1 \in 0..sent /\ read + 1 > read
    BY <1>3, <1>4, <1>7, <1>8
  <2>4. ~Gap(Head(link))
    <3>1. client.expected = IF read = 0 THEN NoNumber ELSE (first + read) % SeqRange
      BY <1>2 DEF Viewed
    <3>2. Head(link).seq = (first + (read + 1) - 1) % SeqRange /\ first + (read + 1) - 1 = first + read
      BY <1>4, <2>2 DEF Stamped
    <3>3. Head(link).seq = (first + read) % SeqRange
      BY <3>2
    <3>4. (first + read) % SeqRange # NoNumber
      <4>1. first + read \in Nat /\ SeqRange \in Nat \ {0}
        BY <1>4, SequenceType
      <4>2. (first + read) % SeqRange \in 0..SeqRange - 1
        BY <4>1, Division
      <4> QED
        BY <4>1, <4>2, NoNumberAssumption
    <3>5. CASE read = 0
      <4>1. client.expected = NoNumber
        BY <3>1, <3>5
      <4> QED
        BY <1>1, <4>1 DEF Gap
    <3>6. CASE read # 0
      <4>1. client.expected = Head(link).seq /\ client.expected # NoNumber
        BY <3>1, <3>3, <3>4, <3>6
      <4> QED
        BY <4>1 DEF Gap
    <3> QED
      BY <3>5, <3>6
  <2>5. PICK x : x = read + 1
    OBVIOUS
  <2>6. PICK p : p = Head(link)
    OBVIOUS
  <2>7. PICK m : m \in 1..Len(made) + 1 /\ Viewed(first, x, m)'
    BY <1>1, <1>2, <1>4, <2>2, <2>3, <2>4, <2>5, <2>6, ReceiveViewed
  <2>8. InRange(first, sent, x, m)'
    BY <1>1, <1>2, <1>3, <2>3, <2>5, <2>7 DEF InRange
  <2>9. Carries(first, x, sent)'
    BY <1>7, <1>8, <2>5
  <2>10. Viewing(first, sent, x, m)'
    BY <1>6, <2>7, <2>8, <2>9 DEF Viewing
  <2> QED
    BY <2>10
<1>9. CASE Head(link).kind # "rtp"
  <2>1. UNCHANGED <<client, shown>>
    BY <1>1, <1>9
  <2>2. InRange(first, sent, read, n)' /\ Viewed(first, read, n)'
    BY <1>1, <2>1, RangeStays
  <2>3. Viewing(first, sent, read, n)'
    BY <1>6, <1>7, <1>9, <2>2 DEF Viewing
  <2> QED
    BY <2>3
<1> QED
  BY <1>8, <1>9

-----------------------------------------------------------------------------
(* What is shown is what was made. *)

\* Every step of the media keeps the invariant,
LEMMA ViewerStepsOne ==
  ASSUME MediaInv, [MediaNext]_mediaVars, Known,
         NEW first, NEW sent, NEW read, NEW n, Viewing(first, sent, read, n)
  PROVE  \E more, y, m : Viewing(first, more, y, m)'
<1>1. ASSUME NEW u \in Units, NEW f \in Formats(u), TakeUnit(u, f)
      PROVE  Viewing(first, sent, read, n)'
  BY <1>1, TakeUnitViewed
<1>2. ASSUME NEW kind \in {"response", "report"}, SendOther(kind)
      PROVE  Viewing(first, sent, read, n)'
  BY <1>2, SendOtherViewed
<1>3. CASE WritePrefix
  BY <1>3, WritePrefixViewed
<1>4. CASE WriteBody
  BY <1>4, WriteBodyViewed
<1>5. CASE WriteFails
  BY <1>5, WriteFailsViewed
<1>6. CASE SendDatagram
  BY <1>6, SendDatagramViewed
<1>7. CASE ReadStream
  BY <1>7, ReadStreamViewed
<1>8. ASSUME NEW p \in Datagrams, ReceiveDatagram(p)
      PROVE  \E y, m : Viewing(first, sent, y, m)'
  BY <1>8, ReceiveDatagramViewed
<1>9. ASSUME NEW p \in Datagrams, Lose(p)
      PROVE  Viewing(first, sent, read, n)'
  BY <1>9, LoseViewed
<1>10. CASE UNCHANGED mediaVars
  BY <1>10, NothingViewed
<1> QED
  BY <1>1, <1>2, <1>3, <1>4, <1>5, <1>6, <1>7, <1>8, <1>9, <1>10 DEF MediaNext

\* whose condition never comes back once it is gone,
LEMMA StreamGrows ==
  ASSUME MediaInv, [MediaNext]_mediaVars, Known'
  PROVE  Known
<1>1. carrier' = carrier
  BY DEF MediaNext, mediaVars, fixed, TakeUnit, SendOther, WritePrefix, WriteBody, WriteFails,
         SendDatagram, ReadStream, ReceiveDatagram, Lose
<1>2. made' = made \/ \E u \in Units : made' = Append(made, u) /\ Len(made) < MaxUnits
  BY DEF MediaNext, mediaVars, TakeUnit, SendOther, WritePrefix, WriteBody, WriteFails,
         SendDatagram, ReadStream, ReceiveDatagram, Lose
<1>3. Len(Stream) <= Len(Stream') /\ Len(Stream') \in Nat /\ Len(Stream) \in Nat
  <2>1. Stream = Flow(made) /\ MadeOf(made) /\ Len(Stream) \in Nat
    BY StreamIs
  <2>2. Stream' = Flow(made')
    BY Zenon DEF Stream, Flow, UnitPackets
  <2>3. CASE made' = made
    BY <2>1, <2>2, <2>3
  <2>4. ASSUME NEW u \in Units, made' = Append(made, u), Len(made) < MaxUnits
        PROVE  Len(Stream) <= Len(Stream') /\ Len(Stream') \in Nat
    <3> DEFINE some == Packets(u, Len(made) + 1)
    <3>1. LET more == Append(made, u)
              rest == Packets(u, Len(made) + 1)
          IN  rest \in Seq(Waiting) /\ Len(Flow(more)) = Len(Flow(made)) + Len(rest)
      BY <2>1, <2>4, FlowGrows
    <3>2. some \in Seq(Waiting) /\ Len(Stream') = Len(Stream) + Len(some)
      BY <2>1, <2>2, <2>4, <3>1
    <3> HIDE DEF some
    <3>3. Len(some) \in Nat
      BY <3>2, LenProperties
    <3> QED
      BY <2>1, <3>2, <3>3
  <2> QED
    BY <1>2, <2>1, <2>3, <2>4
<1>4. CASE carrier = "tcp"
  BY <1>4 DEF Known
<1>5. CASE carrier # "tcp"
  <2>1. Len(Stream') <= SeqRange - SeqRange \div 2
    BY <1>1, <1>5 DEF Known
  <2>2. SeqRange - SeqRange \div 2 \in Int
    BY SequenceType
  <2>3. Len(Stream) <= SeqRange - SeqRange \div 2
    BY <1>3, <2>1, <2>2
  <2> QED
    BY <2>3 DEF Known
<1> QED
  BY <1>4, <1>5

\* so it is inductive.
LEMMA ViewerSteps ==
  ASSUME MediaInv, ViewerInv, [MediaNext]_mediaVars
  PROVE  ViewerInv'
<1> SUFFICES ASSUME Known'
             PROVE  \E first, sent, read, n : Viewing(first, sent, read, n)'
  BY DEF ViewerInv
<1>1. Known
  BY StreamGrows
<1>2. PICK first, sent, read, n : Viewing(first, sent, read, n)
  BY <1>1 DEF ViewerInv
<1> QED
  BY <1>1, <1>2, ViewerStepsOne

\* Whatever encoder, format, carrier, loss, reordering, duplication or failure: every unit a viewer
\* shows is one that the encoder made, with exactly its NAL units; units are shown in order, and over
\* TCP none is left out.
THEOREM ViewersSeeWhatWasMade == Spec => []ShownIsMade
<1> DEFINE IInv == WireIInv /\ ViewerInv
<1>1. Init => IInv
  BY FramingStarts, MediaStarts, ViewerStarts DEF Init, WireIInv
<1>2. IInv /\ [Next]_wireVars => IInv'
  <2> SUFFICES ASSUME WireIInv, ViewerInv, [Next]_wireVars
               PROVE  WireIInv' /\ ViewerInv'
    OBVIOUS
  <2>1. [FramingNext]_framingVars /\ [MediaNext]_mediaVars
    BY DEF Next, In, Out, wireVars, framingVars, mediaVars
  <2>2. MediaInv
    BY DEF WireIInv
  <2>3. WireIInv'
    BY WireSteps
  <2> QED
    BY <2>1, <2>2, <2>3, ViewerSteps
<1>3. IInv => ShownIsMade
  BY ViewerShows DEF WireIInv
<1> QED
  BY <1>1, <1>2, <1>3, PTL DEF Spec
=============================================================================
