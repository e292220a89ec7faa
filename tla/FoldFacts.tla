----------------------------- MODULE FoldFacts -----------------------------
(***************************************************************************)
(* What a loop over a vector computes, for vectors of every length: the    *)
(* two equations of FoldLeft, and induction over numbers and sequences.    *)
(*                                                                         *)
(* The induction theorems of the library take a predicate, which the       *)
(* provers cannot instantiate.  Here induction is about a set, and a proof *)
(* takes the set of the numbers or sequences that have its property.  It   *)
(* comes from the library's theorem that < is well-founded on Nat.  A step *)
(* of a loop is a parameter of this module: a proof about a fold has an    *)
(* INSTANCE with that fold's step.                                         *)
(***************************************************************************)
EXTENDS Naturals, Sequences, SequencesExt, SequenceTheorems,
        WellFoundedInduction, TLAPS

CONSTANT Op(_, _)   \* the loop's body: the accumulator, an element

\* The accumulator after the loop over seq; base is the one before it.
Fold(base, seq) == FoldLeft(Op, base, seq)

-----------------------------------------------------------------------------
(* Induction *)

LEMMA LessIsWellFounded ==
    IsWellFoundedOn({pair \in Nat \X Nat : pair[1] < pair[2]}, Nat)
BY NatLessThanWellFounded, Zenon DEF OpToRel

\* A set of numbers that is not empty has a least one.
LEMMA Least ==
    ASSUME NEW C \in SUBSET Nat, C # {}
    PROVE  \E n \in C : \A m \in C : n <= m
<1> DEFINE Less == {pair \in Nat \X Nat : pair[1] < pair[2]}
<1>1. PICK n \in C : \A m \in C : <<m, n>> \notin Less
  BY LessIsWellFounded, WFMin, Zenon
<1>2. ASSUME NEW m \in C PROVE n <= m
  <2>1. n \in Nat /\ m \in Nat
    OBVIOUS
  <2>2. <<m, n>> \notin Less
    BY <1>1
  <2>3. <<m, n>>[1] = m /\ <<m, n>>[2] = n /\ <<m, n>> \in Nat \X Nat
    BY <2>1
  <2>4. ~(m < n)
    BY <2>2, <2>3
  <2> QED BY <2>1, <2>4
<1> QED BY <1>2

LEMMA Induction ==
    ASSUME NEW T, 0 \in T, \A n \in Nat : n \in T => n + 1 \in T
    PROVE  Nat \subseteq T
<1> SUFFICES ASSUME Nat \ T # {} PROVE FALSE
  OBVIOUS
<1>1. PICK n \in Nat \ T : \A m \in Nat \ T : n <= m
  BY Least
<1>2. n # 0 /\ n - 1 \in Nat
  OBVIOUS
<1>3. n - 1 \in T
  BY <1>1, <1>2
<1> QED BY <1>2, <1>3

\* A bounded set of numbers that is not empty has a greatest one.
LEMMA Greatest ==
    ASSUME NEW b \in Nat, NEW C \in SUBSET (0..b), C # {}
    PROVE  \E n \in C : \A m \in C : m <= n
<1> DEFINE D == {d \in Nat : b - d \in C}
<1>1. PICK c \in C : TRUE
  OBVIOUS
<1>2. b - c \in D
  OBVIOUS
<1>3. D \in SUBSET Nat
  OBVIOUS
<1> HIDE DEF D
<1>4. PICK d \in D : \A e \in D : d <= e
  BY <1>2, <1>3, Least
<1>5. d \in Nat /\ b - d \in C
  BY DEF D
<1>6. ASSUME NEW m \in C PROVE m <= b - d
  <2>1. b - m \in D /\ m \in Nat
    BY DEF D
  <2>2. d <= b - m
    BY <1>4, <2>1
  <2> QED BY <2>1, <2>2, <1>5
<1> QED BY <1>5, <1>6

\* Induction over sequences, by their last element.
LEMMA SequenceInduction ==
    ASSUME NEW E, NEW T, <<>> \in T,
           \A seq \in Seq(E), e \in E : seq \in T => Append(seq, e) \in T
    PROVE  Seq(E) \subseteq T
<1> DEFINE N == {n \in Nat : \A seq \in Seq(E) : Len(seq) = n => seq \in T}
<1>1. 0 \in N
  <2>1. ASSUME NEW seq \in Seq(E), Len(seq) = 0 PROVE seq \in T
    BY <2>1
  <2> QED BY <2>1
<1>2. ASSUME NEW n \in Nat, n \in N PROVE n + 1 \in N
  <2>1. ASSUME NEW seq \in Seq(E), Len(seq) = n + 1 PROVE seq \in T
    <3> DEFINE front == SubSeq(seq, 1, n)
    <3>1. /\ front \in Seq(E) /\ Len(front) = n /\ seq[n + 1] \in E
          /\ \A i \in 1..n : front[i] = seq[i]
      BY <2>1
    <3>2. Append(front, seq[n + 1]) = seq
      <4> HIDE DEF front
      <4>1. /\ Append(front, seq[n + 1]) \in Seq(E)
            /\ Len(Append(front, seq[n + 1])) = Len(seq)
            /\ \A i \in 1..Len(seq) : Append(front, seq[n + 1])[i] = seq[i]
        BY <2>1, <3>1
      <4> QED BY <4>1, SeqEqual
    <3>3. front \in T
      BY <1>2, <3>1
    <3> QED BY <3>1, <3>2, <3>3
  <2> QED BY <2>1
<1> HIDE DEF N
<1>3. Nat \subseteq N
  BY <1>1, <1>2, Induction
<1> QED BY <1>3 DEF N

-----------------------------------------------------------------------------
(* The equations *)

LEMMA MaxIs ==
    ASSUME NEW n \in Nat, NEW S \in SUBSET (1..n), n \in S
    PROVE  Max(S) = n
<1>1. ASSUME NEW m \in S, \A x \in S : m >= x PROVE m = n
  <2>1. m \in 1..n /\ m >= n
    BY <1>1
  <2> QED BY <2>1
<1>2. \A x \in S : n >= x
  OBVIOUS
<1>3. Max(S) \in S /\ \A x \in S : Max(S) >= x
  BY <1>2 DEF Max
<1> QED BY <1>1, <1>3, Zenon

\* What FoldLeft says of its function f from sets of places in seq.
Body(base, f, seq, S) ==
    IF S = {} THEN base ELSE Op(f[S \ {Max(S)}], seq[Max(S)])

\* There is such a function.
HasFold(base, seq, k) ==
    \E f : f = [S \in SUBSET (1..k) |-> Body(base, f, seq, S)]

LEMMA FoldExists ==
    ASSUME NEW base, NEW seq, NEW k \in Nat
    PROVE  HasFold(base, seq, k)
<1> DEFINE T ==
        {n \in Nat : \E f : f = [S \in SUBSET (1..n) |-> Body(base, f, seq, S)]}
<1>1. 0 \in T
  <2> DEFINE f == [S \in SUBSET (1..0) |-> base]
  <2>1. SUBSET (1..0) = {{}}
    OBVIOUS
  <2>2. f = [S \in SUBSET (1..0) |-> Body(base, f, seq, S)]
    BY <2>1 DEF Body
  <2> QED BY <2>2
<1>2. ASSUME NEW n \in Nat, n \in T PROVE n + 1 \in T
  <2>1. PICK f : f = [S \in SUBSET (1..n) |-> Body(base, f, seq, S)]
    BY <1>2
  <2> DEFINE g == [S \in SUBSET (1..n+1) |->
                      IF n + 1 \in S THEN Op(f[S \ {n + 1}], seq[n + 1])
                      ELSE f[S]]
  <2>2. ASSUME NEW S \in SUBSET (1..n+1) PROVE g[S] = Body(base, g, seq, S)
    <3>1. CASE n + 1 \in S
      <4>1. Max(S) = n + 1
        BY <3>1, MaxIs
      <4>2. S \ {n + 1} \in SUBSET (1..n)
        OBVIOUS
      <4>3. g[S \ {n + 1}] = f[S \ {n + 1}]
        BY <4>2
      <4> QED BY <4>1, <4>3, <3>1 DEF Body
    <3>2. CASE n + 1 \notin S
      <4>1. S \in SUBSET (1..n)
        BY <3>2
      <4>2. f[S] = Body(base, f, seq, S)
        BY <2>1, <4>1
      <4>3. g[S] = f[S]
        BY <3>2
      <4>4. S # {} => g[S \ {Max(S)}] = f[S \ {Max(S)}]
        BY <3>2
      <4> QED BY <4>2, <4>3, <4>4 DEF Body
    <3> QED BY <3>1, <3>2
  <2>3. g = [S \in SUBSET (1..n+1) |-> Body(base, g, seq, S)]
    BY <2>2, Zenon
  <2> HIDE DEF g
  <2> QED BY <2>3
<1> HIDE DEF T
<1>3. Nat \subseteq T
  BY <1>1, <1>2, Induction
<1>4. k \in T
  BY <1>3
<1> QED BY <1>4, Zenon DEF T, HasFold

LEMMA FoldIsOfBody ==
    ASSUME NEW base, NEW E, NEW seq \in Seq(E)
    PROVE  \E f : /\ f = [S \in SUBSET (1..Len(seq)) |-> Body(base, f, seq, S)]
                  /\ Fold(base, seq) = f[1..Len(seq)]
<1> DEFINE f == CHOOSE f : f = [S \in SUBSET (1..Len(seq)) |-> Body(base, f, seq, S)]
<1>1. Len(seq) \in Nat /\ DOMAIN seq = 1..Len(seq)
  OBVIOUS
<1>2. f = [S \in SUBSET (1..Len(seq)) |-> Body(base, f, seq, S)]
  <2>1. HasFold(base, seq, Len(seq))
    BY FoldExists, <1>1
  <2>2. \E h : h = [S \in SUBSET (1..Len(seq)) |-> Body(base, h, seq, S)]
    BY <2>1, Zenon DEF HasFold
  <2> QED BY <2>2, Zenon
<1>3. Fold(base, seq) = f[1..Len(seq)]
  BY <1>1, Zenon DEF Fold, FoldLeft, MapThenFoldSet, Body
<1> QED BY <1>2, <1>3, Zenon

LEMMA FoldEmpty == ASSUME NEW base PROVE Fold(base, <<>>) = base
<1>1. PICK f : /\ f = [S \in SUBSET (1..0) |-> Body(base, f, <<>>, S)]
               /\ Fold(base, <<>>) = f[1..0]
  BY FoldIsOfBody, EmptySeq
<1>2. 1..0 = {} /\ {} \in SUBSET (1..0)
  OBVIOUS
<1> QED BY <1>1, <1>2 DEF Body

\* After one more element, the body has been run once more.
LEMMA FoldAppend ==
    ASSUME NEW base, NEW E, NEW seq \in Seq(E), NEW e \in E
    PROVE  Fold(base, Append(seq, e)) = Op(Fold(base, seq), e)
<1> DEFINE n == Len(seq)
           long == Append(seq, e)
<1>1. /\ n \in Nat /\ long \in Seq(E) /\ Len(long) = n + 1 /\ long[n + 1] = e
      /\ \A i \in 1..n : long[i] = seq[i]
  OBVIOUS
<1>2. PICK f : /\ f = [S \in SUBSET (1..n) |-> Body(base, f, seq, S)]
               /\ Fold(base, seq) = f[1..n]
  BY FoldIsOfBody
<1>3. PICK g : /\ g = [S \in SUBSET (1..n+1) |-> Body(base, g, long, S)]
               /\ Fold(base, long) = g[1..n+1]
  <2>0. long \in Seq(E)
    BY <1>1
  <2> HIDE DEF long, n
  <2>1. \E g : /\ g = [S \in SUBSET (1..Len(long)) |-> Body(base, g, long, S)]
               /\ Fold(base, long) = g[1..Len(long)]
    BY FoldIsOfBody, <2>0
  <2> QED BY <2>1, <1>1
<1> HIDE DEF long, n
<1> DEFINE T == {m \in Nat : m <= n => \A S \in SUBSET (1..m) : g[S] = f[S]}
<1>4. 0 \in T
  <2>1. /\ SUBSET (1..0) = {{}}
        /\ {} \in SUBSET (1..n) /\ {} \in SUBSET (1..n+1)
    OBVIOUS
  <2>2. g[{}] = base /\ f[{}] = base
    BY <1>2, <1>3, <2>1 DEF Body
  <2> QED BY <2>1, <2>2
<1>5. ASSUME NEW m \in Nat, m \in T PROVE m + 1 \in T
  <2> SUFFICES ASSUME m + 1 <= n, NEW S \in SUBSET (1..m+1) PROVE g[S] = f[S]
    OBVIOUS
  <2>1. CASE m + 1 \notin S
    BY <2>1, <1>5, <1>1
  <2>2. CASE m + 1 \in S
    <3>1. Max(S) = m + 1
      BY <2>2, MaxIs
    <3>2. /\ S \ {m + 1} \in SUBSET (1..m) /\ S \in SUBSET (1..n)
          /\ S \in SUBSET (1..n+1) /\ m <= n
      BY <1>1
    <3>3. g[S \ {m + 1}] = f[S \ {m + 1}]
      BY <3>2, <1>5
    <3>4. g[S] = Op(g[S \ {m + 1}], long[m + 1])
      BY <1>3, <3>1, <3>2, <2>2 DEF Body
    <3>5. f[S] = Op(f[S \ {m + 1}], seq[m + 1])
      BY <1>2, <3>1, <3>2, <2>2 DEF Body
    <3>6. long[m + 1] = seq[m + 1]
      BY <1>1
    <3> QED BY <3>3, <3>4, <3>5, <3>6
  <2> QED BY <2>1, <2>2
<1> HIDE DEF T
<1>6. n \in T
  BY <1>4, <1>5, Induction, <1>1
<1>7. g[1..n] = f[1..n]
  BY <1>6, <1>1 DEF T
<1>8. Max(1..n+1) = n + 1 /\ (1..n+1) \ {n + 1} = 1..n /\ 1..n+1 # {}
  BY <1>1, MaxIs
<1>9. g[1..n+1] = Op(g[1..n], long[n + 1])
  BY <1>3, <1>8 DEF Body
<1> QED BY <1>1, <1>2, <1>3, <1>7, <1>9 DEF long
=============================================================================
