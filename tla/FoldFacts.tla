------------------------------- MODULE FoldFacts -------------------------------
(***************************************************************************)
(* Folds from the left: what FoldLeft of the community modules computes for  *)
(* a sequence that is empty, and for one that ends with x.  Op is the        *)
(* operation, so that an instance of this module has the facts for its own.  *)
(* And induction over the natural numbers, from their least elements.       *)
(***************************************************************************)
EXTENDS Naturals, Sequences, Folds, TLAPS, WellFoundedInduction

CONSTANT Op(_, _)

Max(S) == CHOOSE x \in S : \A y \in S : x >= y

(* FoldLeft(Op, base, s) as SequencesExt defines it.  The definition is      *)
(* repeated so that an instance brings the few modules under it and no more. *)
Folded(base, s) ==
    MapThenFoldSet(LAMBDA x, y : Op(y, x), base, LAMBDA i : s[i], LAMBDA S : Max(S), DOMAIN s)

(* A set of numbers that is not empty has a least element. *)
LEMMA LeastNumber ==
    ASSUME NEW T, T \subseteq Nat, T # {}
    PROVE  \E x \in T : \A y \in T : x <= y
<1>1. IsWellFoundedOn(OpToRel(<, Nat), Nat)
    BY NatLessThanWellFounded
<1>2. PICK x \in T : \A y \in T : ~ (<<y, x>> \in OpToRel(<, Nat))
    BY <1>1, WFMin
<1>3. \A y \in T : ~ (y < x)
    BY <1>2 DEF OpToRel
<1> QED BY <1>3

(* Induction, for the set of the numbers that have the property. *)
LEMMA NumbersByInduction ==
    ASSUME NEW T, 0 \in T, \A n \in Nat : n \in T => n + 1 \in T
    PROVE  \A n \in Nat : n \in T
<1> SUFFICES ASSUME Nat \ T # {} PROVE FALSE
    OBVIOUS
<1>1. PICK x \in Nat \ T : \A y \in Nat \ T : x <= y
    BY LeastNumber
<1>2. x # 0 /\ x - 1 \in Nat /\ x = (x - 1) + 1
    BY <1>1
<1>3. x - 1 \in T
    BY <1>1, <1>2
<1> QED BY <1>1, <1>2, <1>3

(* Induction over sequences, for the set of those that have the property. *)
LEMMA SequencesByInduction ==
    ASSUME NEW S, NEW T, <<>> \in T,
           \A s \in Seq(S), x \in S : s \in T => Append(s, x) \in T
    PROVE  \A s \in Seq(S) : s \in T
<1> DEFINE N == {n \in Nat : \A s \in Seq(S) : Len(s) = n => s \in T}
<1>1. 0 \in N
    BY \A s \in Seq(S) : Len(s) = 0 => s = <<>>
<1>2. ASSUME NEW n \in Nat, n \in N PROVE n + 1 \in N
    <2> SUFFICES ASSUME NEW s \in Seq(S), Len(s) = n + 1 PROVE s \in T
        OBVIOUS
    <2> DEFINE r == [i \in 1..n |-> s[i]]
               x == s[n + 1]
    <2>1. \A i \in 1..n + 1 : s[i] \in S
        OBVIOUS
    <2>2. r \in Seq(S) /\ Len(r) = n /\ x \in S
        BY <2>1
    <2>3. s = Append(r, x)
        BY <2>1
    <2>4. r \in T
        BY <1>2, <2>2
    <2> HIDE DEF r, x
    <2> QED BY <2>2, <2>3, <2>4
<1>3. \A n \in Nat : n \in N
    <2> HIDE DEF N
    <2> QED BY <1>1, <1>2, NumbersByInduction
<1>4. \A s \in Seq(S) : Len(s) \in Nat
    OBVIOUS
<1> QED BY <1>3, <1>4

LEMMA MaxOfSome ==
    ASSUME NEW n \in Nat, NEW t \in SUBSET (1..n), t # {}
    PROVE  Max(t) \in t /\ \A y \in t : y <= Max(t)
<1> DEFINE U == {u \in Nat : \A y \in t : y <= u}
<1>1. n \in U
    OBVIOUS
<1>2. PICK u \in U : \A v \in U : u <= v
    BY <1>1, LeastNumber
<1>3. u \in t
    <2> SUFFICES ASSUME u \notin t PROVE FALSE
        OBVIOUS
    <2>1. u # 0 /\ u - 1 \in Nat
        <3>1. PICK y \in t : y \in 1..n
            OBVIOUS
        <3>2. y <= u /\ u \in Nat /\ y \in Nat /\ y >= 1
            BY <1>2, <3>1
        <3> QED BY <3>2
    <2>2. u - 1 \in U
        <3>1. \A y \in t : y \in Nat /\ y <= u /\ y # u
            BY <1>2
        <3>2. \A y \in t : y <= u - 1
            BY <1>2, <3>1
        <3> QED BY <2>1, <3>2
    <2> QED BY <1>2, <2>1, <2>2
<1>4. \E x \in t : \A y \in t : x >= y
    BY <1>2, <1>3
<1>5. Max(t) \in t /\ \A y \in t : Max(t) >= y
    BY <1>4 DEF Max
<1> QED BY <1>5

(***************************************************************************)
(* FoldLeft recurs over sets of positions: g does so for the sets within D.  *)
(***************************************************************************)
Recurs(g, base, s, D) ==
    g = [t \in SUBSET D |->
            IF t = {} THEN base ELSE Op(g[t \ {Max(t)}], s[Max(t)])]

LEMMA FoldUnfolded ==
    ASSUME NEW base, NEW s
    PROVE  Folded(base, s) = (CHOOSE g : Recurs(g, base, s, DOMAIN s))[DOMAIN s]
BY DEF Folded, MapThenFoldSet, Recurs

LEMMA WithoutMax ==
    ASSUME NEW n \in Nat, NEW t \in SUBSET (1..n + 1), t # {}
    PROVE  t \ {Max(t)} \in SUBSET (1..n) /\ Max(t) \in t
<1>1. n + 1 \in Nat
    OBVIOUS
<1>2. Max(t) \in t /\ \A y \in t : y <= Max(t)
    BY <1>1, MaxOfSome
<1> DEFINE m == Max(t)
<1>3. m \in Nat /\ m \in t /\ m \in 1..n + 1
    <2>1. \A x \in t : x \in 1..n + 1 /\ x \in Nat
        OBVIOUS
    <2> QED BY <1>2, <2>1
<1>4. \A y \in t \ {m} : y \in 1..n
    <2> SUFFICES ASSUME NEW y \in t \ {m} PROVE y \in 1..n
        OBVIOUS
    <2>1. y \in 1..n + 1 /\ y <= m /\ y # m
        BY <1>2
    <2> HIDE DEF m
    <2> QED BY <1>3, <2>1
<1> QED BY <1>3, <1>4

LEMMA RecursStep ==
    ASSUME NEW base, NEW s, NEW n \in Nat, NEW h, Recurs(h, base, s, 1..n)
    PROVE  \E g : Recurs(g, base, s, 1..n + 1)
<1> DEFINE F(k, t) == IF t = {} THEN base ELSE Op(k[t \ {Max(t)}], s[Max(t)])
           g == [t \in SUBSET (1..n + 1) |-> F(h, t)]
<1>1. h = [t \in SUBSET (1..n) |-> F(h, t)]
    BY DEF Recurs
<1>2. \A t \in SUBSET (1..n) : t \in SUBSET (1..n + 1)
    OBVIOUS
<1> HIDE DEF F
<1>3. \A t \in SUBSET (1..n) : g[t] = h[t]
    BY <1>1, <1>2
<1>4. \A t \in SUBSET (1..n + 1) : F(h, t) = F(g, t)
    <2> SUFFICES ASSUME NEW t \in SUBSET (1..n + 1) PROVE F(h, t) = F(g, t)
        OBVIOUS
    <2>1. t = {} \/ h[t \ {Max(t)}] = g[t \ {Max(t)}]
        BY <1>3, WithoutMax
    <2> HIDE DEF g
    <2> QED BY <2>1 DEF F
<1>5. g = [t \in SUBSET (1..n + 1) |-> F(g, t)]
    BY <1>4
<1> HIDE DEF g
<1>6. Recurs(g, base, s, 1..n + 1)
    BY <1>5 DEF Recurs, F
<1> QED BY <1>6

LEMMA RecursExists ==
    ASSUME NEW base, NEW s
    PROVE  \A n \in Nat : \E g : Recurs(g, base, s, 1..n)
<1> DEFINE T == {n \in Nat : \E g : Recurs(g, base, s, 1..n)}
<1>1. 0 \in T
    <2> DEFINE g == [t \in SUBSET (1..0) |-> base]
    <2>1. 1..0 = {}
        OBVIOUS
    <2>2. \A t \in SUBSET (1..0) : t = {}
        BY <2>1
    <2>3. g = [t \in SUBSET (1..0) |->
                 IF t = {} THEN base ELSE Op(g[t \ {Max(t)}], s[Max(t)])]
        BY <2>2
    <2> HIDE DEF g
    <2>4. Recurs(g, base, s, 1..0)
        BY <2>3 DEF Recurs
    <2> QED BY <2>4
<1>2. \A n \in Nat : n \in T => n + 1 \in T
    BY RecursStep
<1>3. \A n \in Nat : n \in T
    <2> HIDE DEF T
    <2> QED BY <1>1, <1>2, NumbersByInduction
<1> QED BY <1>3

(* Where two sequences agree, so do their recursions. *)
Agree(s, r, n) == \A i \in 1..n : s[i] = r[i]
Same(g, h, n)  == \A t \in SUBSET (1..n) : g[t] = h[t]

LEMMA RecursUnique ==
    ASSUME NEW base, NEW s, NEW r, NEW n \in Nat, NEW g, NEW h,
           Recurs(g, base, s, 1..n), Recurs(h, base, r, 1..n + 1),
           Agree(s, r, n)
    PROVE  Same(g, h, n)
<1> USE DEF Agree, Same
<1> DEFINE T == {k \in Nat : k <= n => \A t \in SUBSET (1..k) : g[t] = h[t]}
<1>1. /\ \A t \in SUBSET (1..n) :
            g[t] = IF t = {} THEN base ELSE Op(g[t \ {Max(t)}], s[Max(t)])
      /\ \A t \in SUBSET (1..n + 1) :
            h[t] = IF t = {} THEN base ELSE Op(h[t \ {Max(t)}], r[Max(t)])
    BY DEF Recurs
<1>2. \A t \in SUBSET (1..n) : t \in SUBSET (1..n + 1)
    OBVIOUS
<1>3. 0 \in T
    <2>1. \A t \in SUBSET (1..0) : t = {} /\ t \in SUBSET (1..n)
        OBVIOUS
    <2> QED BY <1>1, <1>2, <2>1
<1>4. ASSUME NEW k \in Nat, k \in T PROVE k + 1 \in T
    <2> SUFFICES ASSUME k + 1 <= n PROVE \A t \in SUBSET (1..k + 1) : g[t] = h[t]
        OBVIOUS
    <2>0. \A t \in SUBSET (1..k + 1) : t \in SUBSET (1..n)
        OBVIOUS
    <2> SUFFICES ASSUME NEW t \in SUBSET (1..k + 1), t # {} PROVE g[t] = h[t]
        BY <1>1, <1>2, <2>0
    <2>1. t \in SUBSET (1..n) /\ t \ {Max(t)} \in SUBSET (1..k) /\ Max(t) \in t
        BY <2>0, WithoutMax
    <2>2. g[t \ {Max(t)}] = h[t \ {Max(t)}]
        BY <1>4, <2>1
    <2>3. s[Max(t)] = r[Max(t)]
        BY <2>1
    <2> QED BY <1>1, <1>2, <2>1, <2>2, <2>3
<1>5. \A k \in Nat : k \in T
    <2> HIDE DEF T
    <2> QED BY <1>3, <1>4, NumbersByInduction
<1> QED BY <1>5

LEMMA FoldRecurs ==
    ASSUME NEW base, NEW s, NEW n \in Nat, DOMAIN s = 1..n
    PROVE  \E g : Recurs(g, base, s, 1..n) /\ Folded(base, s) = g[1..n]
<1> DEFINE g == CHOOSE f : Recurs(f, base, s, DOMAIN s)
<1>1. \E f : Recurs(f, base, s, DOMAIN s)
    BY RecursExists
<1>2. Recurs(g, base, s, DOMAIN s)
    BY <1>1
<1> QED BY <1>2, FoldUnfolded

(***************************************************************************)
(* The two equations of a fold.                                             *)
(***************************************************************************)
(* Of nothing, a fold makes its base. *)
THEOREM FoldEmpty ==
    ASSUME NEW base
    PROVE  Folded(base, <<>>) = base
<1>1. DOMAIN <<>> = 1..0
    OBVIOUS
<1>2. PICK g : Recurs(g, base, <<>>, 1..0) /\ Folded(base, <<>>) = g[1..0]
    BY <1>1, FoldRecurs
<1>3. 1..0 = {} /\ 1..0 \in SUBSET (1..0)
    OBVIOUS
<1>4. g[1..0] = base
    BY <1>2, <1>3 DEF Recurs
<1> QED BY <1>2, <1>4

LEMMA FoldLonger ==
    ASSUME NEW base, NEW s, NEW r, NEW n \in Nat, DOMAIN s = 1..n, DOMAIN r = 1..n + 1,
           \A i \in 1..n : s[i] = r[i]
    PROVE  Folded(base, r) = Op(Folded(base, s), r[n + 1])
<1>1. n + 1 \in Nat /\ 1..n \in SUBSET (1..n) /\ 1..n + 1 \in SUBSET (1..n + 1)
      /\ n + 1 \in 1..n + 1
    OBVIOUS
<1>0. ASSUME NEW q, NEW m \in Nat, DOMAIN q = 1..m
      PROVE  \E g : Recurs(g, base, q, 1..m) /\ Folded(base, q) = g[1..m]
    BY ONLY <1>0, FoldRecurs
<1>2. PICK g : Recurs(g, base, s, 1..n) /\ Folded(base, s) = g[1..n]
    BY <1>0
<1>3. PICK h : Recurs(h, base, r, 1..n + 1) /\ Folded(base, r) = h[1..n + 1]
    BY <1>0, <1>1
<1>4. Same(g, h, n)
    <2>1. Agree(s, r, n)
        BY DEF Agree
    <2>2. Recurs(g, base, s, 1..n) /\ Recurs(h, base, r, 1..n + 1)
        BY <1>2, <1>3
    <2> QED BY <2>1, <2>2, RecursUnique
<1>5. Max(1..n + 1) = n + 1 /\ 1..n + 1 # {} /\ (1..n + 1) \ {n + 1} = 1..n
    <2>1. Max(1..n + 1) \in 1..n + 1 /\ \A y \in 1..n + 1 : y <= Max(1..n + 1)
        BY <1>1, MaxOfSome
    <2>2. (1..n + 1) \ {n + 1} = 1..n
        OBVIOUS
    <2> QED BY <1>1, <2>1, <2>2
<1>6. h[1..n + 1] = Op(h[(1..n + 1) \ {Max(1..n + 1)}], r[Max(1..n + 1)])
    BY <1>1, <1>3, <1>5 DEF Recurs
<1> QED BY <1>1, <1>2, <1>3, <1>4, <1>5, <1>6 DEF Same

(* Of a sequence that ends with x, what the operation makes of x and the fold  *)
(* of the rest.                                                             *)
THEOREM FoldAppend ==
    ASSUME NEW base, NEW S, NEW s \in Seq(S), NEW x \in S
    PROVE  Folded(base, Append(s, x)) = Op(Folded(base, s), x)
<1> DEFINE n == Len(s)
           r == Append(s, x)
<1>1. /\ n \in Nat /\ DOMAIN s = 1..n /\ DOMAIN r = 1..n + 1
      /\ \A i \in 1..n : s[i] = r[i]
      /\ r[n + 1] = x
    OBVIOUS
<1> HIDE DEF n, r
<1>2. Folded(base, r) = Op(Folded(base, s), r[n + 1])
    BY <1>1, FoldLonger
<1> QED BY <1>1, <1>2 DEF r

(* What Op keeps of its first argument, a fold keeps of its base. *)
THEOREM FoldKeeps ==
    ASSUME NEW S, NEW R, NEW base \in R, \A r \in R, x \in S : Op(r, x) \in R
    PROVE  \A s \in Seq(S) : Folded(base, s) \in R
<1> DEFINE T == {s \in Seq(S) : Folded(base, s) \in R}
<1>1. <<>> \in T
    <2>1. <<>> \in Seq(S)
        OBVIOUS
    <2> QED BY <2>1, FoldEmpty
<1>2. ASSUME NEW s \in Seq(S), NEW x \in S, s \in T PROVE Append(s, x) \in T
    <2>1. Append(s, x) \in Seq(S) /\ Folded(base, Append(s, x)) = Op(Folded(base, s), x)
        BY FoldAppend
    <2> QED BY <1>2, <2>1
<1>3. \A s \in Seq(S) : s \in T
    <2> HIDE DEF T
    <2> QED BY <1>1, <1>2, SequencesByInduction
<1> QED BY <1>3
================================================================================
