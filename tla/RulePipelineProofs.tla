--------------------------- MODULE RulePipelineProofs ---------------------------
(***************************************************************************)
(* Proofs about RulePipeline for any datasets whose rows are as            *)
(* normalization leaves them, and any root causes, actions and citations   *)
(* of a provider.                                                          *)
(***************************************************************************)
EXTENDS RulePipeline, FiniteSetTheorems, SequenceTheorems, TLAPS

-----------------------------------------------------------------------------
(***************************************************************************)
(* Numbers, sequences and what the recursive functions compute.            *)
(***************************************************************************)

(* A set of numbers has a least one: the strict order of the finite        *)
(* intervals below the numbers is well-founded.                            *)
LEMMA LeastNumber ==
  ASSUME NEW T \in SUBSET Nat, T # {}
  PROVE  \E n \in T : \A m \in T : n <= m
<1> DEFINE Below == {0..(n-1) : n \in T}
<1>1. Below \subseteq FiniteSubsetsOf(Nat)
  <2> SUFFICES ASSUME NEW n \in T PROVE 0..(n-1) \in FiniteSubsetsOf(Nat)
    OBVIOUS
  <2>1. IsFiniteSet(0..(n-1))
    BY FS_Interval
  <2>2. 0..(n-1) \in SUBSET Nat
    OBVIOUS
  <2>. QED BY <2>1, <2>2 DEF FiniteSubsetsOf
<1>2. Below # {}
  OBVIOUS
<1>3. \E x \in Below : \A y \in Below : ~(<<y, x>> \in StrictSubsetOrdering(Nat))
  <2> HIDE DEF Below
  <2>. QED BY <1>1, <1>2, FS_StrictSubsetOrderingWellFounded, WFMin
<1>4. PICK n \in T : \A y \in Below : ~(<<y, 0..(n-1)>> \in StrictSubsetOrdering(Nat))
  BY <1>3
<1>5. ASSUME NEW m \in T, m < n PROVE FALSE
  <2>1. 0..(m-1) \in Below
    OBVIOUS
  <2>2. 0..(m-1) \subseteq 0..(n-1) /\ m \in 0..(n-1) /\ m \notin 0..(m-1)
    BY <1>5
  <2>3. 0..(m-1) \in SUBSET Nat /\ 0..(n-1) \in SUBSET Nat
    OBVIOUS
  <2>4. 0..(m-1) # 0..(n-1)
    BY <2>2
  <2>. HIDE DEF Below
  <2>5. <<0..(m-1), 0..(n-1)>> \in StrictSubsetOrdering(Nat)
    BY <2>2, <2>3, <2>4 DEF StrictSubsetOrdering
  <2>. QED BY <1>4, <2>1, <2>5
<1>. QED BY <1>5

(* Induction over 0..N, for a set of numbers and not for a formula.        *)
LEMMA Induction ==
  ASSUME NEW N \in Nat, NEW T, 0 \in T, \A n \in 0..(N-1) : n \in T => n + 1 \in T
  PROVE  0..N \subseteq T
<1> DEFINE Out == {n \in 0..N : n \notin T}
<1> SUFFICES ASSUME Out # {} PROVE FALSE
  OBVIOUS
<1>1. Out \in SUBSET Nat
  OBVIOUS
<1>2. PICK n \in Out : \A m \in Out : n <= m
  <2> HIDE DEF Out
  <2>. QED BY <1>1, LeastNumber
<1>3. n - 1 \in 0..(N-1) /\ n - 1 \in T
  BY <1>2
<1>. QED BY <1>2, <1>3

(* f holds what N steps of g make of b.                                    *)
Iterates(f, N, S, b, g) ==
  f \in [0..N -> S] /\ f[0] = b /\ \A n \in 1..N : f[n] = g[n][f[n - 1]]

(* Such an f exists: this is what the recursive functions of the model     *)
(* rest on.                                                                *)
LEMMA Iteration ==
  ASSUME NEW N \in Nat, NEW S, NEW b \in S, NEW g \in [1..N -> [S -> S]]
  PROVE  \E f : Iterates(f, N, S, b, g)
<1> DEFINE Upto(k) == {f \in [0..k -> S] : f[0] = b /\ \A n \in 1..k : f[n] = g[n][f[n-1]]}
           T == {k \in 0..N : Upto(k) # {}}
<1>1. 0 \in T
  <2>1. [i \in 0..0 |-> b] \in Upto(0)
    OBVIOUS
  <2>. QED BY <2>1
<1>2. ASSUME NEW k \in 0..(N-1), k \in T PROVE k + 1 \in T
  <2>1. PICK f \in Upto(k) : TRUE
    BY <1>2
  <2> DEFINE h == [i \in 0..(k+1) |-> IF i = k + 1 THEN g[k+1][f[k]] ELSE f[i]]
  <2>2. f \in [0..k -> S] /\ f[0] = b /\ \A n \in 1..k : f[n] = g[n][f[n-1]]
    BY <2>1
  <2>3. k + 1 \in 1..N /\ f[k] \in S
    BY <2>2
  <2>4. g[k+1][f[k]] \in S
    BY <2>3
  <2>5. h \in [0..(k+1) -> S]
    BY <2>2, <2>4
  <2>6. h[0] = b
    BY <2>2
  <2>7. ASSUME NEW n \in 1..(k+1) PROVE h[n] = g[n][h[n-1]]
    BY <2>2
  <2>8. h \in Upto(k+1)
    <3> HIDE DEF h
    <3>. QED BY <2>5, <2>6, <2>7
  <2>. QED BY <2>8
<1>3. 0..N \subseteq T
  <2> HIDE DEF T
  <2>. QED BY <1>1, <1>2, Induction
<1>4. N \in T
  <2> HIDE DEF T
  <2>. QED BY <1>3
<1>5. PICK f : f \in Upto(N)
  BY <1>4
<1>. QED BY <1>5 DEF Iterates

(* A set that has the empty sequence and is closed under Append has every  *)
(* sequence. This replaces the induction theorems of the library, which    *)
(* take an operator.                                                       *)
LEMMA SequenceInduction ==
  ASSUME NEW S, NEW T, <<>> \in T,
         \A s \in Seq(S), e \in S : s \in T => Append(s, e) \in T
  PROVE  Seq(S) \subseteq T
<1> SUFFICES ASSUME NEW s \in Seq(S) PROVE s \in T
  OBVIOUS
<1>0. Len(s) \in Nat /\ DOMAIN s = 1..Len(s) /\ \A i \in 1..Len(s) : s[i] \in S
  OBVIOUS
<1> DEFINE Prefix(n) == [i \in 1..n |-> s[i]]
           Reached == {n \in 0..Len(s) : Prefix(n) \in T}
<1>1. 0 \in Reached
  <2>1. Prefix(0) = <<>>
    OBVIOUS
  <2>. QED BY <1>0, <2>1
<1>2. ASSUME NEW n \in 0..(Len(s) - 1), n \in Reached PROVE n + 1 \in Reached
  <2>1. Prefix(n) \in Seq(S) /\ s[n + 1] \in S /\ Len(Prefix(n)) = n
    BY <1>0
  <2>2. Prefix(n + 1) = Append(Prefix(n), s[n + 1])
    <3>1. Append(Prefix(n), s[n + 1]) \in Seq(S) /\ Len(Append(Prefix(n), s[n + 1])) = n + 1
      BY <2>1
    <3>2. \A i \in 1..(n + 1) : Append(Prefix(n), s[n + 1])[i] = s[i]
      BY <2>1
    <3>3. Append(Prefix(n), s[n + 1]) = [i \in 1..(n + 1) |-> Append(Prefix(n), s[n + 1])[i]]
      <4> HIDE DEF Prefix
      <4>. QED BY <3>1
    <3>. QED BY <3>2, <3>3
  <2>3. Append(Prefix(n), s[n + 1]) \in T
    <3> HIDE DEF Prefix
    <3>. QED BY <1>2, <2>1
  <2>4. n + 1 \in 0..Len(s)
    BY <1>0
  <2> HIDE DEF Prefix
  <2>5. Prefix(n + 1) \in T
    BY <2>2, <2>3
  <2>. QED BY <2>4, <2>5
<1>3. 0..Len(s) \subseteq Reached
  <2> HIDE DEF Reached
  <2>. QED BY <1>0, <1>1, <1>2, Induction
<1>4. Prefix(Len(s)) = s
  BY <1>0
<1>5. Prefix(Len(s)) \in T
  BY <1>0, <1>3
<1>. QED BY <1>4, <1>5

(* The recursive function of Pick is one: it meets its equation at every   *)
(* row.                                                                    *)
LEMMA PickIsDefined ==
  ASSUME NEW S, NEW list \in Seq(S), NEW set
  PROVE  \E f : /\ Pick(list, set) = f[Len(list)] /\ f[0] = <<>>
                /\ \A n \in 1..Len(list) :
                     f[n] = IF list[n] \in set THEN Append(f[n - 1], list[n]) ELSE f[n - 1]
<1> DEFINE N == Len(list)
           g == [n \in 1..N |-> [p \in Seq(S) |-> IF list[n] \in set THEN Append(p, list[n]) ELSE p]]
           Fits(f) == f = [n \in 0..N |->
             IF n = 0 THEN <<>>
             ELSE IF list[n] \in set THEN Append(f[n - 1], list[n]) ELSE f[n - 1]]
           f == CHOOSE f : Fits(f)
<1>0. N \in Nat /\ <<>> \in Seq(S)
  OBVIOUS
<1>1. g \in [1..N -> [Seq(S) -> Seq(S)]]
  OBVIOUS
<1>2. PICK h : Iterates(h, N, Seq(S), <<>>, g)
  <2> HIDE DEF g, N
  <2>. QED BY <1>0, <1>1, Iteration, Zenon
<1>3. Fits(h)
  <2>1. h \in [0..N -> Seq(S)] /\ h[0] = <<>> /\ \A n \in 1..N : h[n] = g[n][h[n - 1]]
    BY <1>2 DEF Iterates
  <2>2. ASSUME NEW n \in 1..N
        PROVE  h[n] = IF list[n] \in set THEN Append(h[n - 1], list[n]) ELSE h[n - 1]
    <3>1. n - 1 \in 0..N
      BY <1>0
    <3>2. h[n - 1] \in Seq(S)
      BY <2>1, <3>1
    <3>3. h[n] = g[n][h[n - 1]]
      BY <2>1
    <3>. QED BY <3>2, <3>3
  <2>3. \A n \in 0..N : h[n] = IF n = 0 THEN <<>>
           ELSE IF list[n] \in set THEN Append(h[n - 1], list[n]) ELSE h[n - 1]
    <3> HIDE DEF g, N
    <3>1. ASSUME NEW n \in 0..N, n # 0 PROVE n \in 1..N
      BY <1>0, <3>1
    <3>. QED BY <2>1, <2>2, <3>1
  <2>4. h = [n \in 0..N |-> h[n]]
    BY <2>1
  <2> HIDE DEF N, g
  <2>. QED BY <2>3, <2>4
<1>4. Fits(f)
  <2> HIDE DEF Fits
  <2>. QED BY <1>3
<1>5. Pick(list, set) = f[N]
  BY DEF Pick
<1> HIDE DEF f, N
<1>6. f = [n \in 0..N |->
             IF n = 0 THEN <<>>
             ELSE IF list[n] \in set THEN Append(f[n - 1], list[n]) ELSE f[n - 1]]
  BY <1>4
<1>7. f[0] = <<>>
  BY <1>0, <1>6
<1>8. ASSUME NEW n \in 1..N
      PROVE  f[n] = IF list[n] \in set THEN Append(f[n - 1], list[n]) ELSE f[n - 1]
  <2>1. n \in 0..N /\ n # 0
    BY <1>0
  <2>. QED BY <1>6, <2>1
<1>. QED BY <1>5, <1>7, <1>8 DEF N

(* Nothing is picked from no rows.                                         *)
LEMMA PickOfEmpty == ASSUME NEW set PROVE Pick(<<>>, set) = <<>>
<1>1. ASSUME NEW S, NEW list \in Seq(S), list = <<>> PROVE Pick(list, set) = <<>>
  <2>1. PICK f : /\ Pick(list, set) = f[Len(list)] /\ f[0] = <<>>
                 /\ \A n \in 1..Len(list) :
                      f[n] = IF list[n] \in set THEN Append(f[n - 1], list[n]) ELSE f[n - 1]
    BY PickIsDefined
  <2>2. Len(list) = 0
    BY <1>1
  <2>. QED BY <2>1, <2>2
<1>2. <<>> \in Seq({})
  OBVIOUS
<1>. QED BY <1>1, <1>2

(* One row more is picked when it is in the set.                           *)
LEMMA PickOfAppend ==
  ASSUME NEW S, NEW list \in Seq(S), NEW row \in S, NEW set
  PROVE  Pick(Append(list, row), set) =
           IF row \in set THEN Append(Pick(list, set), row) ELSE Pick(list, set)
<1> DEFINE longer == Append(list, row)
<1>1. PICK f : /\ Pick(list, set) = f[Len(list)] /\ f[0] = <<>>
               /\ \A n \in 1..Len(list) :
                    f[n] = IF list[n] \in set THEN Append(f[n - 1], list[n]) ELSE f[n - 1]
  BY PickIsDefined
<1>2. PICK g : /\ Pick(longer, set) = g[Len(longer)] /\ g[0] = <<>>
               /\ \A n \in 1..Len(longer) :
                    g[n] = IF longer[n] \in set THEN Append(g[n - 1], longer[n]) ELSE g[n - 1]
  <2>1. longer \in Seq(S)
    OBVIOUS
  <2> HIDE DEF longer
  <2>. QED BY <2>1, PickIsDefined
<1> DEFINE Agreeing == {n \in 0..Len(list) : f[n] = g[n]}
<1>3. /\ Len(longer) = Len(list) + 1 /\ longer[Len(list) + 1] = row
      /\ \A n \in 1..Len(list) : longer[n] = list[n]
      /\ Len(list) \in Nat
  OBVIOUS
<1> HIDE DEF longer
<1>4. 0 \in Agreeing
  BY <1>1, <1>2, <1>3
<1>5. ASSUME NEW n \in 0..(Len(list) - 1), n \in Agreeing PROVE n + 1 \in Agreeing
  <2>1. n + 1 \in 1..Len(list) /\ n + 1 \in 1..Len(longer) /\ (n + 1) - 1 = n
    BY <1>3
  <2>2. f[n + 1] = IF list[n + 1] \in set THEN Append(f[n], list[n + 1]) ELSE f[n]
    BY <1>1, <2>1
  <2>3. g[n + 1] = IF longer[n + 1] \in set THEN Append(g[n], longer[n + 1]) ELSE g[n]
    BY <1>2, <2>1
  <2>4. longer[n + 1] = list[n + 1] /\ f[n] = g[n]
    BY <1>3, <1>5, <2>1
  <2>5. n + 1 \in 0..Len(list)
    BY <2>1, <1>3
  <2>. QED BY <2>2, <2>3, <2>4, <2>5
<1>6. 0..Len(list) \subseteq Agreeing
  <2> HIDE DEF Agreeing
  <2>. QED BY <1>3, <1>4, <1>5, Induction
<1>7. f[Len(list)] = g[Len(list)]
  BY <1>3, <1>6
<1>8. g[Len(list) + 1] = IF row \in set THEN Append(g[Len(list)], row) ELSE g[Len(list)]
  <2>1. Len(list) + 1 \in 1..Len(longer) /\ (Len(list) + 1) - 1 = Len(list)
    BY <1>3
  <2>. QED BY <1>2, <1>3, <2>1
<1>9. Pick(longer, set) = g[Len(list) + 1]
  BY <1>2, <1>3
<1>. QED BY <1>1, <1>7, <1>8, <1>9 DEF longer

(* The empty sequence has no members.                                      *)
LEMMA ToSetOfEmpty == ToSet(<<>>) = {}
BY DEF ToSet

(* An appended element is a member.                                        *)
LEMMA ToSetOfAppend ==
  ASSUME NEW S, NEW s \in Seq(S), NEW e
  PROVE  ToSet(Append(s, e)) = ToSet(s) \cup {e}
<1>1. DOMAIN Append(s, e) = (DOMAIN s) \cup {Len(s) + 1}
  OBVIOUS
<1>2. Append(s, e)[Len(s) + 1] = e /\ \A i \in DOMAIN s : Append(s, e)[i] = s[i]
  OBVIOUS
<1>. QED BY <1>1, <1>2 DEF ToSet

(* The members of two sequences, one after another.                        *)
LEMMA ToSetOfConcat ==
  ASSUME NEW S, NEW s \in Seq(S), NEW t \in Seq(S)
  PROVE  ToSet(s \o t) = ToSet(s) \cup ToSet(t)
<1>1. /\ DOMAIN (s \o t) = 1..(Len(s) + Len(t)) /\ DOMAIN s = 1..Len(s) /\ DOMAIN t = 1..Len(t)
      /\ \A i \in 1..Len(s) : (s \o t)[i] = s[i]
      /\ \A i \in 1..Len(t) : (s \o t)[Len(s) + i] = t[i]
      /\ Len(s) \in Nat /\ Len(t) \in Nat
  OBVIOUS
<1>2. ASSUME NEW i \in 1..(Len(s) + Len(t)) PROVE (s \o t)[i] \in ToSet(s) \cup ToSet(t)
  <2>1. CASE i \in 1..Len(s)
    BY <1>1, <2>1 DEF ToSet
  <2>2. CASE i - Len(s) \in 1..Len(t)
    <3>1. (s \o t)[Len(s) + (i - Len(s))] = t[i - Len(s)]
      BY <1>1, <2>2
    <3>2. Len(s) + (i - Len(s)) = i
      BY <1>1
    <3>. QED BY <1>1, <2>2, <3>1, <3>2 DEF ToSet
  <2>. QED BY <1>1, <2>1, <2>2
<1>3. ASSUME NEW i \in 1..Len(s) PROVE s[i] \in ToSet(s \o t)
  BY <1>1 DEF ToSet
<1>4. ASSUME NEW i \in 1..Len(t) PROVE t[i] \in ToSet(s \o t)
  <2>1. Len(s) + i \in 1..(Len(s) + Len(t))
    BY <1>1
  <2>. QED BY <1>1, <2>1 DEF ToSet
<1>5. ToSet(s \o t) \subseteq ToSet(s) \cup ToSet(t)
  BY <1>1, <1>2 DEF ToSet
<1>6. ToSet(s) \subseteq ToSet(s \o t)
  BY <1>1, <1>3 DEF ToSet
<1>7. ToSet(t) \subseteq ToSet(s \o t)
  BY <1>1, <1>4 DEF ToSet
<1>. QED BY <1>5, <1>6, <1>7

(* Pick, the list comprehensions of the constructor, the rules and the     *)
(* verifier, returns rows of the sequence: those in the set.               *)
LEMMA PickIsPicked ==
  ASSUME NEW S, NEW list \in Seq(S), NEW set
  PROVE  Pick(list, set) \in Seq(S) /\ ToSet(Pick(list, set)) = ToSet(list) \cap set
<1> DEFINE T == {s \in Seq(S) : Pick(s, set) \in Seq(S) /\ ToSet(Pick(s, set)) = ToSet(s) \cap set}
<1>1. <<>> \in T
  <2>1. <<>> \in Seq(S) /\ ToSet(<<>>) = ToSet(<<>>) \cap set
    BY ToSetOfEmpty
  <2>2. Pick(<<>>, set) = <<>>
    BY PickOfEmpty
  <2>. QED BY <2>1, <2>2
<1>2. ASSUME NEW s \in Seq(S), NEW e \in S, s \in T PROVE Append(s, e) \in T
  <2>1. Append(s, e) \in Seq(S) /\ ToSet(Append(s, e)) = ToSet(s) \cup {e}
    BY ToSetOfAppend
  <2>2. Pick(Append(s, e), set) = IF e \in set THEN Append(Pick(s, set), e) ELSE Pick(s, set)
    BY PickOfAppend
  <2>3. CASE e \in set
    <3>1. ToSet(Append(Pick(s, set), e)) = ToSet(Pick(s, set)) \cup {e}
      BY <1>2, ToSetOfAppend
    <3>2. Append(Pick(s, set), e) \in Seq(S)
      BY <1>2
    <3>. QED BY <1>2, <2>1, <2>2, <2>3, <3>1, <3>2
  <2>4. CASE e \notin set
    BY <1>2, <2>1, <2>2, <2>4
  <2>. QED BY <2>3, <2>4
<1>3. Seq(S) \subseteq T
  <2> HIDE DEF T
  <2>. QED BY <1>1, <1>2, SequenceInduction
<1>. QED BY <1>3

(* Picking twice is picking what is in both sets, in the same order: the   *)
(* movements of an order are movements of the dataset.                     *)
LEMMA PickOfPick ==
  ASSUME NEW S, NEW list \in Seq(S), NEW A, NEW B
  PROVE  Pick(Pick(list, A), B) = Pick(list, A \cap B)
<1> DEFINE T == {s \in Seq(S) : Pick(Pick(s, A), B) = Pick(s, A \cap B)}
<1>1. <<>> \in T
  BY PickOfEmpty
<1>2. ASSUME NEW s \in Seq(S), NEW e \in S, s \in T PROVE Append(s, e) \in T
  <2>1. Pick(s, A) \in Seq(S) /\ Append(s, e) \in Seq(S)
    BY PickIsPicked
  <2>2. /\ Pick(Append(s, e), A) = IF e \in A THEN Append(Pick(s, A), e) ELSE Pick(s, A)
        /\ Pick(Append(s, e), A \cap B) =
             IF e \in A \cap B THEN Append(Pick(s, A \cap B), e) ELSE Pick(s, A \cap B)
        /\ Pick(Append(Pick(s, A), e), B) =
             IF e \in B THEN Append(Pick(Pick(s, A), B), e) ELSE Pick(Pick(s, A), B)
    BY <2>1, PickOfAppend
  <2>3. Pick(Pick(s, A), B) = Pick(s, A \cap B)
    BY <1>2
  <2>4. CASE e \in A
    <3>1. Pick(Pick(Append(s, e), A), B) = Pick(Append(Pick(s, A), e), B)
      BY <2>2, <2>4
    <3>. QED BY <2>1, <2>2, <2>3, <2>4, <3>1
  <2>5. CASE e \notin A
    <3>1. Pick(Pick(Append(s, e), A), B) = Pick(Pick(s, A), B)
      BY <2>2, <2>5
    <3>. QED BY <2>1, <2>2, <2>3, <2>5, <3>1
  <2>. QED BY <2>4, <2>5
<1>3. Seq(S) \subseteq T
  <2> HIDE DEF T
  <2>. QED BY <1>1, <1>2, SequenceInduction
<1>. QED BY <1>3

(* A sum of integers is an integer.                                        *)
LEMMA SumIsInteger ==
  ASSUME NEW numbers \in Seq(Int)
  PROVE  SumOf(numbers) \in Int
<1> DEFINE N == Len(numbers)
           g == [n \in 1..N |-> [p \in Int |-> p + numbers[n]]]
           Fits(f) == f = [n \in 0..N |-> IF n = 0 THEN 0 ELSE f[n - 1] + numbers[n]]
           f == CHOOSE f : Fits(f)
<1>0. N \in Nat /\ \A n \in 1..N : numbers[n] \in Int
  OBVIOUS
<1>1. g \in [1..N -> [Int -> Int]]
  OBVIOUS
<1>2. PICK h : Iterates(h, N, Int, 0, g)
  <2> HIDE DEF g, N
  <2>1. 0 \in Int
    OBVIOUS
  <2>. QED BY <1>0, <1>1, <2>1, Iteration, Zenon
<1>3. Fits(h)
  <2>1. h \in [0..N -> Int] /\ h[0] = 0 /\ \A n \in 1..N : h[n] = g[n][h[n - 1]]
    BY <1>2 DEF Iterates
  <2>2. ASSUME NEW n \in 1..N PROVE h[n] = h[n - 1] + numbers[n]
    <3>1. n - 1 \in 0..N
      BY <1>0
    <3>2. h[n - 1] \in Int
      BY <2>1, <3>1
    <3>3. h[n] = g[n][h[n - 1]]
      BY <2>1
    <3>. QED BY <3>2, <3>3
  <2>3. \A n \in 0..N : h[n] = IF n = 0 THEN 0 ELSE h[n - 1] + numbers[n]
    <3> HIDE DEF g, N
    <3>1. ASSUME NEW n \in 0..N, n # 0 PROVE n \in 1..N
      BY <1>0, <3>1
    <3>. QED BY <2>1, <2>2, <3>1
  <2>4. h = [n \in 0..N |-> h[n]]
    BY <2>1
  <2> HIDE DEF N, g
  <2>. QED BY <2>3, <2>4
<1>4. Fits(f)
  <2> HIDE DEF Fits
  <2>. QED BY <1>3
<1>5. SumOf(numbers) = f[N]
  BY DEF SumOf
<1> HIDE DEF f, N
<1>6. f = [n \in 0..N |-> IF n = 0 THEN 0 ELSE f[n - 1] + numbers[n]]
  BY <1>4
<1> DEFINE T == {n \in 0..N : f[n] \in Int}
<1>7. 0 \in T
  BY <1>0, <1>6
<1>8. ASSUME NEW n \in 0..(N - 1), n \in T PROVE n + 1 \in T
  <2>1. n + 1 \in 0..N /\ n + 1 # 0 /\ n + 1 \in 1..N /\ (n + 1) - 1 = n
    BY <1>0
  <2>2. f[n + 1] = f[n] + numbers[n + 1]
    BY <1>6, <2>1
  <2>. QED BY <1>0, <1>8, <2>1, <2>2
<1>9. 0..N \subseteq T
  <2> HIDE DEF T
  <2>. QED BY <1>0, <1>7, <1>8, Induction
<1>. QED BY <1>0, <1>5, <1>9

(* The recursive function of FlattenSeq meets its equation at every        *)
(* sequence.                                                               *)
LEMMA FlattenIsDefined ==
  ASSUME NEW S, NEW seqs \in Seq(Seq(S)), seqs # <<>>
  PROVE  \E f : /\ FlattenSeq(seqs) = f[Len(seqs)]
                /\ \A n \in 1..Len(seqs) : f[n] = IF n = 1 THEN seqs[n] ELSE f[n - 1] \o seqs[n]
<1> DEFINE N == Len(seqs)
           g == [n \in 1..N |-> [p \in Seq(S) |-> p \o seqs[n]]]
           Fits(f) == f = [n \in 1..N |-> IF n = 1 THEN seqs[n] ELSE f[n - 1] \o seqs[n]]
           f == CHOOSE f : Fits(f)
<1>0. N \in Nat /\ <<>> \in Seq(S) /\ DOMAIN seqs = 1..N /\ \A n \in 1..N : seqs[n] \in Seq(S)
  OBVIOUS
<1>1. g \in [1..N -> [Seq(S) -> Seq(S)]]
  OBVIOUS
<1>2. PICK h : Iterates(h, N, Seq(S), <<>>, g)
  <2> HIDE DEF g, N
  <2>. QED BY <1>0, <1>1, Iteration, Zenon
<1> DEFINE k == [n \in 1..N |-> h[n]]
<1>3. Fits(k)
  <2>1. h \in [0..N -> Seq(S)] /\ h[0] = <<>> /\ \A n \in 1..N : h[n] = g[n][h[n - 1]]
    BY <1>2 DEF Iterates
  <2>2. ASSUME NEW n \in 1..N PROVE h[n] = h[n - 1] \o seqs[n]
    <3>1. n - 1 \in 0..N
      BY <1>0
    <3>2. h[n - 1] \in Seq(S)
      BY <2>1, <3>1
    <3>3. h[n] = g[n][h[n - 1]]
      BY <2>1
    <3>. QED BY <3>2, <3>3
  <2>3. ASSUME NEW n \in 1..N PROVE k[n] = IF n = 1 THEN seqs[n] ELSE k[n - 1] \o seqs[n]
    <3> HIDE DEF g, N
    <3>1. CASE n = 1
      <4>1. h[1] = <<>> \o seqs[1]
        <5>1. h[n] = h[n - 1] \o seqs[n]
          BY <2>2, Zenon
        <5>2. n - 1 = 0
          BY <3>1
        <5>. QED BY <2>1, <3>1, <5>1, <5>2
      <4>2. seqs[1] \in Seq(S)
        BY <1>0, <3>1
      <4>3. <<>> \o seqs[1] = seqs[1]
        BY <4>2
      <4>. QED BY <3>1, <4>1, <4>3
    <3>2. CASE n # 1
      <4>1. n - 1 \in 1..N
        BY <1>0, <3>2
      <4>. QED BY <2>2, <3>2, <4>1
    <3>. QED BY <3>1, <3>2
  <2>4. k = [n \in 1..N |-> k[n]]
    OBVIOUS
  <2> HIDE DEF k, N
  <2>. QED BY <2>3, <2>4
<1>4. Fits(f)
  <2> HIDE DEF Fits
  <2>. QED BY <1>3
<1>5. N # 0
  BY <1>0
<1>6. FlattenSeq(seqs) = f[N]
  <2>1. FlattenSeq(seqs) =
          LET flatten[i \in 1..Len(seqs)] ==
                IF i = 1 THEN seqs[i] ELSE flatten[i-1] \o seqs[i]
          IN flatten[Len(seqs)]
    BY <1>5 DEF FlattenSeq
  <2>. QED BY <2>1
<1> HIDE DEF f, N
<1>7. f = [n \in 1..N |-> IF n = 1 THEN seqs[n] ELSE f[n - 1] \o seqs[n]]
  BY <1>4
<1>8. ASSUME NEW n \in 1..N PROVE f[n] = IF n = 1 THEN seqs[n] ELSE f[n - 1] \o seqs[n]
  BY <1>7
<1>. QED BY <1>6, <1>8 DEF N

(* The members of a flattened sequence are those of its sequences.         *)
LEMMA FlattenIsUnion ==
  ASSUME NEW S, NEW seqs \in Seq(Seq(S))
  PROVE  /\ FlattenSeq(seqs) \in Seq(S)
         /\ \A x : x \in ToSet(FlattenSeq(seqs)) <=> \E i \in DOMAIN seqs : x \in ToSet(seqs[i])
<1>1. CASE seqs = <<>>
  <2>1. FlattenSeq(<<>>) = <<>>
    BY DEF FlattenSeq
  <2>2. DOMAIN seqs = {} /\ <<>> \in Seq(S)
    BY <1>1
  <2>. QED BY <1>1, <2>1, <2>2, ToSetOfEmpty
<1>2. CASE seqs # <<>>
  <2>1. PICK f : /\ FlattenSeq(seqs) = f[Len(seqs)]
                 /\ \A n \in 1..Len(seqs) : f[n] = IF n = 1 THEN seqs[n] ELSE f[n - 1] \o seqs[n]
    BY <1>2, FlattenIsDefined
  <2>2. \A n \in 1..Len(seqs) : f[n] = IF n = 1 THEN seqs[n] ELSE f[n - 1] \o seqs[n]
    BY <2>1
  <2>3. Len(seqs) \in Nat \ {0} /\ DOMAIN seqs = 1..Len(seqs)
    BY <1>2
  <2> DEFINE T == {n \in 0..Len(seqs) :
                     n # 0 => /\ f[n] \in Seq(S)
                              /\ \A x : x \in ToSet(f[n]) <=> \E i \in 1..n : x \in ToSet(seqs[i])}
  <2>4. ASSUME NEW n \in 0..(Len(seqs) - 1), n \in T PROVE n + 1 \in T
    <3>1. f[n + 1] = IF n + 1 = 1 THEN seqs[n + 1] ELSE f[n] \o seqs[n + 1]
      BY <2>2, <2>3
    <3>2. seqs[n + 1] \in Seq(S)
      BY <2>3
    <3>3. /\ f[n + 1] \in Seq(S)
          /\ \A x : x \in ToSet(f[n + 1]) <=> \E i \in 1..(n + 1) : x \in ToSet(seqs[i])
      <4>1. CASE n = 0
        BY <3>1, <3>2, <4>1
      <4>2. CASE n # 0
        <5>1. /\ f[n] \in Seq(S)
              /\ \A x : x \in ToSet(f[n]) <=> \E i \in 1..n : x \in ToSet(seqs[i])
          BY <2>4, <4>2
        <5>2. f[n + 1] \in Seq(S) /\ ToSet(f[n + 1]) = ToSet(f[n]) \cup ToSet(seqs[n + 1])
          <6>1. f[n + 1] = f[n] \o seqs[n + 1]
            <7>1. n + 1 # 1
              BY <2>3, <4>2
            <7>. QED BY <3>1, <7>1
          <6>. QED BY <3>2, <5>1, <6>1, ToSetOfConcat
        <5>3. 1..(n + 1) = 1..n \cup {n + 1}
          OBVIOUS
        <5>. QED BY <5>1, <5>2, <5>3
      <4>. QED BY <4>1, <4>2
    <3>. QED BY <2>3, <3>3
  <2>5. 0 \in T
    BY <2>3
  <2>6. 0..Len(seqs) \subseteq T
    <3> HIDE DEF T
    <3>. QED BY <2>3, <2>4, <2>5, Induction
  <2>7. Len(seqs) \in T
    <3> HIDE DEF T
    <3>. QED BY <2>3, <2>6
  <2>8. /\ f[Len(seqs)] \in Seq(S)
        /\ \A x : x \in ToSet(f[Len(seqs)]) <=> \E i \in 1..Len(seqs) : x \in ToSet(seqs[i])
    BY <2>3, <2>7
  <2>. QED BY <2>1, <2>3, <2>8
<1>. QED BY <1>1, <1>2

-----------------------------------------------------------------------------
(***************************************************************************)
(* Sequences of rows and the codes of findings.                            *)
(***************************************************************************)

(* A sequence of whatever it has.                                          *)
IsSequence(s) == s \in Seq(ToSet(s))

(* A sequence over a set is one of its members, which are of the set.      *)
LEMMA SequenceOfMembers ==
  ASSUME NEW S, NEW s \in Seq(S)
  PROVE  IsSequence(s) /\ ToSet(s) \subseteq S
<1>1. DOMAIN s = 1..Len(s) /\ Len(s) \in Nat /\ \A i \in 1..Len(s) : s[i] \in S
  OBVIOUS
<1>2. \A i \in 1..Len(s) : s[i] \in ToSet(s)
  BY <1>1 DEF ToSet
<1>3. s = [i \in 1..Len(s) |-> s[i]]
  OBVIOUS
<1>4. [i \in 1..Len(s) |-> s[i]] \in Seq(ToSet(s))
  BY <1>1, <1>2
<1>5. ToSet(s) \subseteq S
  BY <1>1 DEF ToSet
<1>. QED BY <1>3, <1>4, <1>5 DEF IsSequence

(* The members of a sequence are its elements.                             *)
LEMMA Members ==
  ASSUME NEW s, IsSequence(s)
  PROVE  /\ Len(s) \in Nat /\ DOMAIN s = 1..Len(s)
         /\ \A x : x \in ToSet(s) <=> \E i \in DOMAIN s : x = s[i]
<1>1. Len(s) \in Nat /\ DOMAIN s = 1..Len(s)
  BY DEF IsSequence
<1>2. \A x : x \in ToSet(s) <=> \E i \in DOMAIN s : x = s[i]
  BY DEF ToSet
<1>. QED BY <1>1, <1>2

(* A sequence is one over any set that has its members.                    *)
LEMMA SequenceOver ==
  ASSUME NEW s, IsSequence(s), NEW S, ToSet(s) \subseteq S
  PROVE  s \in Seq(S)
<1>1. Len(s) \in Nat /\ \A i \in 1..Len(s) : s[i] \in S
  BY Members
<1>2. s = [i \in 1..Len(s) |-> s[i]]
  BY DEF IsSequence
<1>3. [i \in 1..Len(s) |-> s[i]] \in Seq(S)
  BY <1>1
<1>. QED BY <1>2, <1>3

(* One sequence after another.                                             *)
LEMMA ConcatIsSequence ==
  ASSUME NEW s, NEW t, IsSequence(s), IsSequence(t)
  PROVE  IsSequence(s \o t) /\ ToSet(s \o t) = ToSet(s) \cup ToSet(t)
<1> DEFINE S == ToSet(s) \cup ToSet(t)
<1>1. s \in Seq(S) /\ t \in Seq(S)
  BY SequenceOver
<1> HIDE DEF S
<1>2. s \o t \in Seq(S)
  BY <1>1
<1>3. IsSequence(s \o t)
  BY <1>2, SequenceOfMembers
<1>4. ToSet(s \o t) = ToSet(s) \cup ToSet(t)
  BY <1>1, ToSetOfConcat
<1>. QED BY <1>3, <1>4

(* A sequence of one element.                                              *)
LEMMA SingletonIsSequence ==
  ASSUME NEW e
  PROVE  IsSequence(<<e>>) /\ ToSet(<<e>>) = {e}
<1>1. <<e>> \in Seq({e})
  OBVIOUS
<1>2. ToSet(<<e>>) = {e}
  BY DEF ToSet
<1>. QED BY <1>1, <1>2 DEF IsSequence

(* A sequence of none.                                                     *)
LEMMA EmptyIsSequence == IsSequence(<<>>) /\ ToSet(<<>>) = {}
<1>1. <<>> \in Seq({})
  OBVIOUS
<1>. QED BY <1>1, ToSetOfEmpty DEF IsSequence

(* The codes of findings.                                                  *)
Codes(findings) == {f.code : f \in ToSet(findings)}

(* The codes of findings, one list after another.                          *)
LEMMA CodesOfConcat ==
  ASSUME NEW s, NEW t, IsSequence(s), IsSequence(t)
  PROVE  IsSequence(s \o t) /\ Codes(s \o t) = Codes(s) \cup Codes(t)
<1>1. IsSequence(s \o t) /\ ToSet(s \o t) = ToSet(s) \cup ToSet(t)
  BY ConcatIsSequence
<1>. QED BY <1>1 DEF Codes

(* The code of one finding.                                                *)
LEMMA CodesOfSingleton ==
  ASSUME NEW code, NEW exposure, NEW category
  PROVE  /\ IsSequence(<<Finding(code, exposure, category)>>)
         /\ Codes(<<Finding(code, exposure, category)>>) = {code}
<1> DEFINE f == Finding(code, exposure, category)
<1>1. f.code = code
  BY DEF Finding
<1> HIDE DEF f
<1>2. IsSequence(<<f>>) /\ ToSet(<<f>>) = {f}
  BY SingletonIsSequence
<1>3. Codes(<<f>>) = {code}
  BY <1>1, <1>2 DEF Codes
<1>. QED BY <1>2, <1>3 DEF f

(* No finding has no code.                                                 *)
LEMMA CodesOfNone == IsSequence(<<>>) /\ Codes(<<>>) = {}
BY EmptyIsSequence DEF Codes

(* The findings of each row, one list after another, have the codes that   *)
(* some row has. (the loops over refunds, settlements and movements)       *)
LEMMA CodesOfEach ==
  ASSUME NEW list, IsSequence(list), NEW each,
         each = [i \in DOMAIN list |-> each[i]],
         \A i \in DOMAIN list : IsSequence(each[i])
  PROVE  /\ IsSequence(FlattenSeq(each))
         /\ \A c : c \in Codes(FlattenSeq(each)) <=> \E i \in DOMAIN list : c \in Codes(each[i])
<1> DEFINE S == UNION {ToSet(each[i]) : i \in DOMAIN list}
<1>1. Len(list) \in Nat /\ DOMAIN list = 1..Len(list)
  BY Members
<1>2. \A i \in 1..Len(list) : each[i] \in Seq(S)
  <2> SUFFICES ASSUME NEW i \in 1..Len(list) PROVE each[i] \in Seq(S)
    OBVIOUS
  <2>1. ToSet(each[i]) \subseteq S /\ IsSequence(each[i])
    BY <1>1
  <2> HIDE DEF S
  <2>. QED BY <2>1, SequenceOver
<1> HIDE DEF S
<1>3. each \in Seq(Seq(S)) /\ DOMAIN each = DOMAIN list
  <2>1. [i \in 1..Len(list) |-> each[i]] \in Seq(Seq(S))
    BY <1>1, <1>2
  <2>2. each = [i \in 1..Len(list) |-> each[i]]
    BY <1>1, Zenon
  <2>3. DOMAIN each = DOMAIN list
    OBVIOUS
  <2>. QED BY <2>1, <2>2, <2>3
<1>4. /\ FlattenSeq(each) \in Seq(S)
      /\ \A x : x \in ToSet(FlattenSeq(each)) <=> \E i \in DOMAIN list : x \in ToSet(each[i])
  BY <1>3, FlattenIsUnion
<1>5. IsSequence(FlattenSeq(each))
  BY <1>4, SequenceOfMembers
<1>. QED BY <1>4, <1>5 DEF Codes

(* What the findings about the first settlement say of it and of the       *)
(* payment. (engine.py, the rules of the settlement)                       *)
LEMMA SettlementCodes ==
  ASSUME NEW l
  PROVE  /\ IsSequence(SettlementFindings(l))
         /\ Codes(SettlementFindings(l)) \subseteq
              Variance \cup {"SETTLEMENT_FEE_MISSING", "PAYMENT_FEE_MISSING"}
         /\ "SETTLEMENT_FEE_MISSING" \in Codes(SettlementFindings(l))
              => ~Present(l.settlements[1], "fees_minor")
         /\ "PAYMENT_FEE_MISSING" \in Codes(SettlementFindings(l))
              => ~Present(l.payments[1], "gateway_fee_minor")
<1> DEFINE settlement == l.settlements[1]
           payment    == l.payments[1]
           fee        == Minor(settlement, "fees_minor")
           gateway    == Minor(payment, "gateway_fee_minor")
           late == When(Present(settlement, "settled_at") /\ Present(payment, "captured_at")
                     /\ Minor(settlement, "settled_at") - Minor(payment, "captured_at") > 2,
                   Finding("SETTLEMENT_OUTSIDE_WINDOW", 0, "TIMING_VARIANCE"))
           nofee == When(~Present(settlement, "fees_minor"),
                      Finding("SETTLEMENT_FEE_MISSING", 0, "DATA_QUALITY"))
           nogateway == When(~Present(payment, "gateway_fee_minor"),
             Finding("PAYMENT_FEE_MISSING", 0, "DATA_QUALITY"))
           other == When(/\ Present(settlement, "fees_minor") /\ Present(payment, "gateway_fee_minor")
             /\ fee # gateway,
             Finding("SETTLEMENT_FEE_VARIANCE", Distance(fee, gateway), "TIMING_VARIANCE"))
<1>1. IsSequence(late) /\ Codes(late) \subseteq {"SETTLEMENT_OUTSIDE_WINDOW"}
  BY CodesOfSingleton, CodesOfNone DEF When
<1>2. IsSequence(nofee) /\ \A c \in Codes(nofee) :
        c = "SETTLEMENT_FEE_MISSING" /\ ~Present(settlement, "fees_minor")
  BY CodesOfSingleton, CodesOfNone DEF When
<1>3. IsSequence(nogateway) /\ \A c \in Codes(nogateway) :
        c = "PAYMENT_FEE_MISSING" /\ ~Present(payment, "gateway_fee_minor")
  BY CodesOfSingleton, CodesOfNone DEF When
<1>4. IsSequence(other) /\ Codes(other) \subseteq {"SETTLEMENT_FEE_VARIANCE"}
  BY CodesOfSingleton, CodesOfNone DEF When
<1>5. SettlementFindings(l) = late \o nofee \o nogateway \o other
  BY DEF SettlementFindings
<1> HIDE DEF late, nofee, nogateway, other
<1>6. IsSequence(late \o nofee) /\ Codes(late \o nofee) = Codes(late) \cup Codes(nofee)
  BY <1>1, <1>2, CodesOfConcat
<1>7. /\ IsSequence(late \o nofee \o nogateway)
      /\ Codes(late \o nofee \o nogateway) = Codes(late \o nofee) \cup Codes(nogateway)
  BY <1>3, <1>6, CodesOfConcat
<1>8. /\ IsSequence(SettlementFindings(l))
      /\ Codes(SettlementFindings(l)) = Codes(late \o nofee \o nogateway) \cup Codes(other)
  BY <1>4, <1>5, <1>7, CodesOfConcat
<1>. QED BY <1>1, <1>2, <1>3, <1>4, <1>6, <1>7, <1>8 DEF Variance

(* What the findings about the first invoice say of it.                    *)
LEMMA InvoiceCodes ==
  ASSUME NEW l
  PROVE  /\ IsSequence(InvoiceFindings(l))
         /\ Codes(InvoiceFindings(l)) \subseteq {"ERP_INVOICE_MISSING", "ERP_AMOUNT_MISMATCH"}
         /\ "ERP_INVOICE_MISSING" \in Codes(InvoiceFindings(l)) <=> l.invoices = <<>>
         /\ "ERP_AMOUNT_MISMATCH" \in Codes(InvoiceFindings(l))
              <=> l.invoices # <<>> /\ Minor(l.invoices[1], "gross_minor") # OrderAmount(l)
<1> DEFINE gross == Minor(l.invoices[1], "gross_minor")
           missing == <<Finding("ERP_INVOICE_MISSING", OrderAmount(l), "POTENTIAL_EXPOSURE")>>
           unequal == When(gross # OrderAmount(l),
                        Finding("ERP_AMOUNT_MISMATCH", Distance(gross, OrderAmount(l)), "DATA_QUALITY"))
<1>1. IsSequence(missing) /\ Codes(missing) = {"ERP_INVOICE_MISSING"}
  BY CodesOfSingleton
<1>2. /\ IsSequence(unequal)
      /\ \A c : c \in Codes(unequal) <=> c = "ERP_AMOUNT_MISMATCH" /\ gross # OrderAmount(l)
  BY CodesOfSingleton, CodesOfNone DEF When
<1>3. InvoiceFindings(l) = IF l.invoices = <<>> THEN missing ELSE unequal
  BY DEF InvoiceFindings
<1> HIDE DEF missing, unequal
<1>. QED BY <1>1, <1>2, <1>3

(* What the findings about the movements say of them.                      *)
LEMMA InventoryCodes ==
  ASSUME NEW l, IsSequence(l.inventory_movements)
  PROVE  /\ IsSequence(InventoryFindings(l))
         /\ Codes(InventoryFindings(l)) \subseteq
              {"INVENTORY_VALUE_CALCULATION_ERROR", "INVENTORY_RESTORED_WITHOUT_REFUND"}
         /\ "INVENTORY_VALUE_CALCULATION_ERROR" \in Codes(InventoryFindings(l))
              => \E i \in DOMAIN l.inventory_movements : Misvalued(l.inventory_movements[i])
         /\ "INVENTORY_RESTORED_WITHOUT_REFUND" \in Codes(InventoryFindings(l))
              <=> Movements(l, "RETURN") # <<>> /\ l.refunds = <<>>
<1> DEFINE returned == Movements(l, "RETURN")
           each == [i \in DOMAIN l.inventory_movements |->
                      MiscalculatedFindings(l.inventory_movements[i])]
           exposure == IF IsKnown(returned, "inventory_value_minor") THEN TotalValue(returned) ELSE 0
           restored == When(returned # <<>> /\ l.refunds = <<>>,
             Finding("INVENTORY_RESTORED_WITHOUT_REFUND", exposure, "CONTROL_RISK"))
<1>1. InventoryFindings(l) = FlattenSeq(each) \o restored
  BY DEF InventoryFindings, ForEach
<1>2. ASSUME NEW i \in DOMAIN l.inventory_movements
      PROVE  IsSequence(each[i]) /\ \A c \in Codes(each[i]) :
               c = "INVENTORY_VALUE_CALCULATION_ERROR" /\ Misvalued(l.inventory_movements[i])
  BY CodesOfSingleton, CodesOfNone DEF MiscalculatedFindings, When
<1>3. each = [i \in DOMAIN l.inventory_movements |-> each[i]]
  OBVIOUS
<1> HIDE DEF each, exposure
<1>4. /\ IsSequence(restored)
      /\ \A c : c \in Codes(restored)
                  <=> c = "INVENTORY_RESTORED_WITHOUT_REFUND" /\ returned # <<>> /\ l.refunds = <<>>
  BY CodesOfSingleton, CodesOfNone DEF When
<1>5. /\ IsSequence(FlattenSeq(each))
      /\ \A c : c \in Codes(FlattenSeq(each)) <=>
           \E i \in DOMAIN l.inventory_movements : c \in Codes(each[i])
  BY <1>2, <1>3, CodesOfEach
<1> HIDE DEF restored
<1>6. /\ IsSequence(InventoryFindings(l))
      /\ Codes(InventoryFindings(l)) = Codes(FlattenSeq(each)) \cup Codes(restored)
  BY <1>1, <1>4, <1>5, CodesOfConcat
<1>7. \A c \in Codes(FlattenSeq(each)) : c = "INVENTORY_VALUE_CALCULATION_ERROR" /\
        \E i \in DOMAIN l.inventory_movements : Misvalued(l.inventory_movements[i])
  BY <1>2, <1>5
<1>. QED BY <1>4, <1>6, <1>7

(* The difference that ReturnFindings computes.                            *)
ValueGap(l) ==
  LET sold     == Movements(l, "SALE")
      returned == Movements(l, "RETURN")
  IN IF IsKnown(sold, "unit_cost_minor") /\ IsKnown(returned, "inventory_value_minor")
     THEN Distance(TotalCost(sold), TotalValue(returned)) ELSE 0

(* What the findings about a return say, and what their absence says.      *)
LEMMA ReturnCodes ==
  ASSUME NEW l, NEW sold, NEW returned, sold = Movements(l, "SALE"), returned = Movements(l, "RETURN")
  PROVE  /\ IsSequence(ReturnFindings(l))
         /\ Codes(ReturnFindings(l)) \subseteq
              {"INVENTORY_RETURN_MISSING", "INVENTORY_QUANTITY_MISMATCH", "INVENTORY_VALUE_MISMATCH"}
         /\ "INVENTORY_RETURN_MISSING" \in Codes(ReturnFindings(l)) <=> returned = <<>>
         /\ "INVENTORY_QUANTITY_MISMATCH" \in Codes(ReturnFindings(l)) <=>
              returned # <<>> /\ sold # <<>> /\ Total(sold, Quantity) # Total(returned, Quantity)
         /\ "INVENTORY_VALUE_MISMATCH" \in Codes(ReturnFindings(l)) <=>
              /\ returned # <<>> /\ sold # <<>> /\ Total(sold, Quantity) = Total(returned, Quantity)
              /\ ValueGap(l) # 0
<1> DEFINE gap      == ValueGap(l)
           unequal  == Total(sold, Quantity) # Total(returned, Quantity)
           exposure == IF IsKnown(sold, "unit_cost_minor") THEN TotalCost(sold) ELSE 0
           missing  == <<Finding("INVENTORY_RETURN_MISSING", exposure, "CONTROL_RISK")>>
           quantity == <<Finding("INVENTORY_QUANTITY_MISMATCH", gap, "CONTROL_RISK")>>
           value    == When(sold # <<>> /\ gap # 0,
                            Finding("INVENTORY_VALUE_MISMATCH", gap, "CONTROL_RISK"))
<1>1. ReturnFindings(l) =
        IF returned = <<>> THEN missing
        ELSE IF sold # <<>> /\ unequal THEN quantity ELSE value
  BY DEF ReturnFindings, ValueGap
<1> HIDE DEF gap, exposure, unequal
<1>2. IsSequence(missing) /\ Codes(missing) = {"INVENTORY_RETURN_MISSING"}
  BY CodesOfSingleton
<1>3. IsSequence(quantity) /\ Codes(quantity) = {"INVENTORY_QUANTITY_MISMATCH"}
  BY CodesOfSingleton
<1>4. /\ IsSequence(value)
      /\ \A c : c \in Codes(value) <=> c = "INVENTORY_VALUE_MISMATCH" /\ sold # <<>> /\ gap # 0
  BY CodesOfSingleton, CodesOfNone DEF When
<1> HIDE DEF missing, quantity, value
<1>5. /\ IsSequence(ReturnFindings(l))
      /\ Codes(ReturnFindings(l)) \subseteq
              {"INVENTORY_RETURN_MISSING", "INVENTORY_QUANTITY_MISMATCH", "INVENTORY_VALUE_MISMATCH"}
  BY <1>1, <1>2, <1>3, <1>4
<1>6. /\ "INVENTORY_RETURN_MISSING" \in Codes(ReturnFindings(l)) <=> returned = <<>>
      /\ "INVENTORY_QUANTITY_MISMATCH" \in Codes(ReturnFindings(l)) <=>
              returned # <<>> /\ sold # <<>> /\ unequal
      /\ "INVENTORY_VALUE_MISMATCH" \in Codes(ReturnFindings(l)) <=>
              returned # <<>> /\ sold # <<>> /\ ~unequal /\ gap # 0
  BY <1>1, <1>2, <1>3, <1>4
<1>. QED BY <1>5, <1>6 DEF unequal, gap

(* What the findings about the first refund say, and what their absence    *)
(* says.                                                                   *)
LEMMA RefundCodes ==
  ASSUME NEW l
  PROVE  /\ IsSequence(RefundFindings(l))
         /\ Codes(RefundFindings(l)) \subseteq
              {"MANUAL_WORKFLOW_ANOMALY", "PARTIAL_REFUND_MISMATCH", "ERP_REVERSAL_MISSING"}
                \cup Codes(ReturnFindings(l))
         /\ l.refunds = <<>> => Codes(RefundFindings(l)) = {}
         /\ l.refunds # <<>> =>
              /\ "PARTIAL_REFUND_MISMATCH" \in Codes(RefundFindings(l))
                   <=> Minor(l.refunds[1], "amount_minor") < OrderAmount(l)
              /\ ~(Minor(l.refunds[1], "amount_minor") < OrderAmount(l)) =>
                   Codes(ReturnFindings(l)) \subseteq Codes(RefundFindings(l))
              /\ "ERP_REVERSAL_MISSING" \in Codes(RefundFindings(l)) <=>
                   /\ l.invoices # <<>> /\ Get(l.invoices[1], "status") = "ACTIVE"
                   /\ ~Some(l.invoices, LAMBDA row : Get(row, "status") = "REVERSED")
<1> DEFINE amount  == Minor(l.refunds[1], "amount_minor")
           anomaly == When(Some(l.employee_actions,
                    LAMBDA row : Get(row, "action") = "MANUAL_REFUND_APPROVED"),
               Finding("MANUAL_WORKFLOW_ANOMALY", 0, "CONTROL_RISK"))
           partial == <<Finding("PARTIAL_REFUND_MISMATCH", amount, "POTENTIAL_EXPOSURE")>>
           return  == ReturnFindings(l)
           complete == IF amount < OrderAmount(l) THEN partial ELSE return
           open    == /\ l.invoices # <<>> /\ Get(l.invoices[1], "status") = "ACTIVE"
                      /\ ~Some(l.invoices, LAMBDA row : Get(row, "status") = "REVERSED")
           reversal == When(open, Finding("ERP_REVERSAL_MISSING", amount, "CONTROL_RISK"))
<1>1. RefundFindings(l) = IF l.refunds = <<>> THEN <<>> ELSE anomaly \o complete \o reversal
  BY DEF RefundFindings
<1>2. IsSequence(anomaly) /\ Codes(anomaly) \subseteq {"MANUAL_WORKFLOW_ANOMALY"}
  BY CodesOfSingleton, CodesOfNone DEF When
<1>3. /\ IsSequence(complete)
      /\ Codes(complete) = IF amount < OrderAmount(l) THEN {"PARTIAL_REFUND_MISMATCH"} ELSE Codes(return)
  <2>1. IsSequence(return)
    BY ReturnCodes
  <2>2. IsSequence(partial) /\ Codes(partial) = {"PARTIAL_REFUND_MISMATCH"}
    BY CodesOfSingleton
  <2> HIDE DEF partial, return, amount
  <2>. QED BY <2>1, <2>2
<1> HIDE DEF open
<1>4. /\ IsSequence(reversal)
      /\ \A c : c \in Codes(reversal) <=> c = "ERP_REVERSAL_MISSING" /\ open
  BY CodesOfSingleton, CodesOfNone DEF When
<1> HIDE DEF anomaly, complete, reversal
<1>5. IsSequence(anomaly \o complete) /\ Codes(anomaly \o complete) = Codes(anomaly) \cup Codes(complete)
  BY <1>2, <1>3, CodesOfConcat
<1>6. /\ IsSequence(anomaly \o complete \o reversal)
      /\ Codes(anomaly \o complete \o reversal) = Codes(anomaly \o complete) \cup Codes(reversal)
  BY <1>4, <1>5, CodesOfConcat
<1>7. Codes(return) \subseteq
        {"INVENTORY_RETURN_MISSING", "INVENTORY_QUANTITY_MISMATCH", "INVENTORY_VALUE_MISMATCH"}
  BY ReturnCodes
<1>8. CASE l.refunds = <<>>
  BY <1>1, <1>8, CodesOfNone
<1>9. CASE l.refunds # <<>>
  <2> DEFINE less == amount < OrderAmount(l)
  <2>1. Codes(RefundFindings(l)) = Codes(anomaly) \cup Codes(complete) \cup Codes(reversal)
    BY <1>1, <1>5, <1>6, <1>9
  <2>2. "ERP_REVERSAL_MISSING" \in Codes(RefundFindings(l)) <=> open
    BY <1>2, <1>3, <1>4, <1>7, <2>1
  <2>3. /\ "PARTIAL_REFUND_MISMATCH" \in Codes(RefundFindings(l)) <=> amount < OrderAmount(l)
        /\ ~(amount < OrderAmount(l)) => Codes(return) \subseteq Codes(RefundFindings(l))
    BY <1>2, <1>3, <1>4, <1>7, <2>1
  <2>4. /\ IsSequence(RefundFindings(l))
        /\ Codes(RefundFindings(l)) \subseteq
              {"MANUAL_WORKFLOW_ANOMALY", "PARTIAL_REFUND_MISMATCH", "ERP_REVERSAL_MISSING"}
                \cup Codes(ReturnFindings(l))
    BY <1>1, <1>2, <1>3, <1>4, <1>6, <1>9, <2>1
  <2>. QED BY <1>9, <2>2, <2>3, <2>4 DEF open
<1>. QED BY <1>8, <1>9

(* What the findings about the payment say, and what their absence says.   *)
LEMMA PaymentCodes ==
  ASSUME NEW l, IsSequence(l.payments), IsSequence(l.refunds), IsSequence(l.settlements)
  PROVE  /\ IsSequence(PaymentFindings(l))
         /\ Codes(PaymentFindings(l)) \subseteq
              {"CURRENCY_MISMATCH", "ORDER_STATUS_MISMATCH", "PAYMENT_STATUS_MISMATCH",
               "PAYMENT_AMOUNT_MISMATCH", "REFUND_STATUS_MISMATCH", "MULTIPLE_SETTLEMENTS_REVIEW",
               "MULTIPLE_REFUNDS_REVIEW", "SETTLEMENT_GROSS_MISMATCH", "SETTLEMENT_NET_MISMATCH"}
         /\ Differs(l.payments[1], "amount_minor", OrderAmount(l))
              => "PAYMENT_AMOUNT_MISMATCH" \in Codes(PaymentFindings(l))
         /\ Len(l.settlements) > 1 => "MULTIPLE_SETTLEMENTS_REVIEW" \in Codes(PaymentFindings(l))
         /\ Len(l.refunds) > 1 => "MULTIPLE_REFUNDS_REVIEW" \in Codes(PaymentFindings(l))
         /\ \A i \in DOMAIN l.settlements :
              /\ Codes(GrossFindings(l.payments[1], l.settlements[i])) \subseteq Codes(PaymentFindings(l))
              /\ Codes(NetFindings(l.settlements[i])) \subseteq Codes(PaymentFindings(l))
<1> DEFINE payment == l.payments[1]
           amount  == OrderAmount(l)
           all     == <<l.order>> \o l.payments \o l.refunds \o l.settlements
           a1 == [i \in DOMAIN all |-> CurrencyFindings(l, all[i])]
           s1 == FlattenSeq(a1)
           s2 == When(Present(l.order, "status") /\ Upper(l.order.status) \in Cancelled,
                   Finding("ORDER_STATUS_MISMATCH", amount, "CONTROL_RISK"))
           s3 == When(StatusOutside(payment, Captured),
                   Finding("PAYMENT_STATUS_MISMATCH", amount, "CONTROL_RISK"))
           s4 == When(Differs(payment, "amount_minor", amount),
                   Finding("PAYMENT_AMOUNT_MISMATCH",
                     Distance(Minor(payment, "amount_minor"), amount), "POTENTIAL_EXPOSURE"))
           a5 == [i \in DOMAIN l.refunds |-> When(StatusOutside(l.refunds[i], Refunded),
                                  Finding("REFUND_STATUS_MISMATCH", 0, "CONTROL_RISK"))]
           s5 == FlattenSeq(a5)
           s6 == When(Len(l.settlements) > 1, Finding("MULTIPLE_SETTLEMENTS_REVIEW", 0, "DATA_QUALITY"))
           s7 == When(Len(l.refunds) > 1, Finding("MULTIPLE_REFUNDS_REVIEW", 0, "DATA_QUALITY"))
           a8 == [i \in DOMAIN l.settlements |->
                    GrossFindings(payment, l.settlements[i]) \o NetFindings(l.settlements[i])]
           s8 == FlattenSeq(a8)
<1>0. PaymentFindings(l) = s1 \o s2 \o s3 \o s4 \o s5 \o s6 \o s7 \o s8
  BY DEF PaymentFindings, ForEach
<1>1. IsSequence(s1) /\ Codes(s1) \subseteq {"CURRENCY_MISMATCH"}
  <2>1. IsSequence(all)
    <3>1. IsSequence(<<l.order>>)
      BY SingletonIsSequence
    <3>2. IsSequence(<<l.order>> \o l.payments)
      BY <3>1, ConcatIsSequence
    <3>3. IsSequence(<<l.order>> \o l.payments \o l.refunds)
      BY <3>2, ConcatIsSequence
    <3>. QED BY <3>3, ConcatIsSequence
  <2> HIDE DEF all
  <2>2. \A i \in DOMAIN all : IsSequence(a1[i]) /\ Codes(a1[i]) \subseteq {"CURRENCY_MISMATCH"}
    BY CodesOfSingleton, CodesOfNone DEF When, CurrencyFindings
  <2>3. a1 = [i \in DOMAIN all |-> a1[i]]
    OBVIOUS
  <2> HIDE DEF a1
  <2>. QED BY <2>1, <2>2, <2>3, CodesOfEach
<1>2. IsSequence(s2) /\ Codes(s2) \subseteq {"ORDER_STATUS_MISMATCH"}
  BY CodesOfSingleton, CodesOfNone DEF When
<1>3. IsSequence(s3) /\ Codes(s3) \subseteq {"PAYMENT_STATUS_MISMATCH"}
  BY CodesOfSingleton, CodesOfNone DEF When
<1>4. /\ IsSequence(s4)
      /\ \A c : c \in Codes(s4)
           <=> c = "PAYMENT_AMOUNT_MISMATCH" /\ Differs(payment, "amount_minor", amount)
  BY CodesOfSingleton, CodesOfNone DEF When
<1>5. IsSequence(s5) /\ Codes(s5) \subseteq {"REFUND_STATUS_MISMATCH"}
  <2>1. \A i \in DOMAIN l.refunds : IsSequence(a5[i]) /\ Codes(a5[i]) \subseteq {"REFUND_STATUS_MISMATCH"}
    BY CodesOfSingleton, CodesOfNone DEF When
  <2>2. a5 = [i \in DOMAIN l.refunds |-> a5[i]]
    OBVIOUS
  <2> HIDE DEF a5
  <2>. QED BY <2>1, <2>2, CodesOfEach
<1>6. /\ IsSequence(s6)
      /\ \A c : c \in Codes(s6) <=> c = "MULTIPLE_SETTLEMENTS_REVIEW" /\ Len(l.settlements) > 1
  BY CodesOfSingleton, CodesOfNone DEF When
<1>7. /\ IsSequence(s7)
      /\ \A c : c \in Codes(s7) <=> c = "MULTIPLE_REFUNDS_REVIEW" /\ Len(l.refunds) > 1
  BY CodesOfSingleton, CodesOfNone DEF When
<1>8. /\ IsSequence(s8)
      /\ Codes(s8) \subseteq {"SETTLEMENT_GROSS_MISMATCH", "SETTLEMENT_NET_MISMATCH"}
      /\ \A i \in DOMAIN l.settlements :
              /\ Codes(GrossFindings(l.payments[1], l.settlements[i])) \subseteq Codes(s8)
              /\ Codes(NetFindings(l.settlements[i])) \subseteq Codes(s8)
  <2>1. ASSUME NEW i \in DOMAIN l.settlements
        PROVE  /\ IsSequence(a8[i])
               /\ Codes(a8[i]) = Codes(GrossFindings(payment, l.settlements[i]))
                                   \cup Codes(NetFindings(l.settlements[i]))
               /\ Codes(a8[i]) \subseteq {"SETTLEMENT_GROSS_MISMATCH", "SETTLEMENT_NET_MISMATCH"}
    <3>1. /\ IsSequence(GrossFindings(payment, l.settlements[i]))
          /\ Codes(GrossFindings(payment, l.settlements[i])) \subseteq {"SETTLEMENT_GROSS_MISMATCH"}
      BY CodesOfSingleton, CodesOfNone DEF When, GrossFindings
    <3>2. /\ IsSequence(NetFindings(l.settlements[i]))
          /\ Codes(NetFindings(l.settlements[i])) \subseteq {"SETTLEMENT_NET_MISMATCH"}
      BY CodesOfSingleton, CodesOfNone DEF When, NetFindings
    <3>3. a8[i] = GrossFindings(payment, l.settlements[i]) \o NetFindings(l.settlements[i])
      OBVIOUS
    <3> HIDE DEF a8
    <3>. QED BY <3>1, <3>2, <3>3, CodesOfConcat
  <2>2. a8 = [i \in DOMAIN l.settlements |-> a8[i]]
    OBVIOUS
  <2> HIDE DEF a8
  <2>3. IsSequence(s8) /\ \A c : c \in Codes(s8) <=> \E i \in DOMAIN l.settlements : c \in Codes(a8[i])
    BY <2>1, <2>2, CodesOfEach
  <2> HIDE DEF s8
  <2>. QED BY <2>1, <2>3
<1> HIDE DEF s1, s2, s3, s4, s5, s6, s7, s8
<1>12. IsSequence(s1 \o s2) /\ Codes(s1 \o s2) = Codes(s1) \cup Codes(s2)
  BY <1>1, <1>2, CodesOfConcat
<1>13. /\ IsSequence(s1 \o s2 \o s3)
       /\ Codes(s1 \o s2 \o s3) = Codes(s1) \cup Codes(s2) \cup Codes(s3)
  BY <1>3, <1>12, CodesOfConcat
<1>14. /\ IsSequence(s1 \o s2 \o s3 \o s4)
       /\ Codes(s1 \o s2 \o s3 \o s4) = Codes(s1) \cup Codes(s2) \cup Codes(s3) \cup Codes(s4)
  BY <1>4, <1>13, CodesOfConcat
<1>15. /\ IsSequence(s1 \o s2 \o s3 \o s4 \o s5)
       /\ Codes(s1 \o s2 \o s3 \o s4 \o s5) = Codes(s1 \o s2 \o s3 \o s4) \cup Codes(s5)
  BY <1>5, <1>14, CodesOfConcat
<1>16. /\ IsSequence(s1 \o s2 \o s3 \o s4 \o s5 \o s6)
       /\ Codes(s1 \o s2 \o s3 \o s4 \o s5 \o s6) = Codes(s1 \o s2 \o s3 \o s4 \o s5) \cup Codes(s6)
  BY <1>6, <1>15, CodesOfConcat
<1>17. /\ IsSequence(s1 \o s2 \o s3 \o s4 \o s5 \o s6 \o s7)
       /\ Codes(s1 \o s2 \o s3 \o s4 \o s5 \o s6 \o s7)
            = Codes(s1 \o s2 \o s3 \o s4 \o s5 \o s6) \cup Codes(s7)
  BY <1>7, <1>16, CodesOfConcat
<1>18. /\ IsSequence(PaymentFindings(l))
       /\ Codes(PaymentFindings(l)) = Codes(s1 \o s2 \o s3 \o s4 \o s5 \o s6 \o s7) \cup Codes(s8)
  BY <1>0, <1>8, <1>17, CodesOfConcat
<1>19. Codes(PaymentFindings(l)) = Codes(s1) \cup Codes(s2) \cup Codes(s3) \cup Codes(s4)
         \cup Codes(s5) \cup Codes(s6) \cup Codes(s7) \cup Codes(s8)
  BY <1>14, <1>15, <1>16, <1>17, <1>18
<1>20. Codes(PaymentFindings(l)) \subseteq
              {"CURRENCY_MISMATCH", "ORDER_STATUS_MISMATCH", "PAYMENT_STATUS_MISMATCH",
               "PAYMENT_AMOUNT_MISMATCH", "REFUND_STATUS_MISMATCH", "MULTIPLE_SETTLEMENTS_REVIEW",
               "MULTIPLE_REFUNDS_REVIEW", "SETTLEMENT_GROSS_MISMATCH", "SETTLEMENT_NET_MISMATCH"}
  BY <1>1, <1>2, <1>3, <1>4, <1>5, <1>6, <1>7, <1>8, <1>19
<1>. QED BY <1>4, <1>6, <1>7, <1>8, <1>18, <1>19, <1>20

(* The findings of a lifecycle are those of its groups of rules.           *)
LEMMA FindingCodes ==
  ASSUME NEW l, IsSequence(l.payments), IsSequence(l.refunds), IsSequence(l.settlements),
         IsSequence(l.inventory_movements)
  PROVE  /\ IsSequence(Findings(l))
         /\ Codes(Findings(l)) = Codes(PaymentFindings(l)) \cup Codes(SettlementFindings(l))
              \cup Codes(InvoiceFindings(l)) \cup Codes(InventoryFindings(l))
              \cup Codes(RefundFindings(l))
<1> DEFINE p == PaymentFindings(l)
           s == SettlementFindings(l)
           i == InvoiceFindings(l)
           m == InventoryFindings(l)
           r == RefundFindings(l)
<1>1. /\ IsSequence(p) /\ IsSequence(s) /\ IsSequence(i) /\ IsSequence(m) /\ IsSequence(r)
      /\ Findings(l) = p \o s \o i \o m \o r
  BY PaymentCodes, SettlementCodes, InvoiceCodes, InventoryCodes, RefundCodes DEF Findings
<1> HIDE DEF p, s, i, m, r
<1>2. IsSequence(p \o s) /\ Codes(p \o s) = Codes(p) \cup Codes(s)
  BY <1>1, CodesOfConcat
<1>3. IsSequence(p \o s \o i) /\ Codes(p \o s \o i) = Codes(p \o s) \cup Codes(i)
  BY <1>1, <1>2, CodesOfConcat
<1>4. IsSequence(p \o s \o i \o m) /\ Codes(p \o s \o i \o m) = Codes(p \o s \o i) \cup Codes(m)
  BY <1>1, <1>3, CodesOfConcat
<1>5. IsSequence(Findings(l)) /\ Codes(Findings(l)) = Codes(p \o s \o i \o m) \cup Codes(r)
  BY <1>1, <1>4, CodesOfConcat
<1>. QED BY <1>2, <1>3, <1>4, <1>5 DEF p, s, i, m, r

(* The rows of the lifecycle are of the set.                               *)
LifecycleOver(l, S) ==
  /\ l.order \in S
  /\ l.payments \in Seq(S) /\ l.settlements \in Seq(S) /\ l.invoices \in Seq(S)
  /\ l.refunds \in Seq(S) /\ l.inventory_movements \in Seq(S) /\ l.employee_actions \in Seq(S)

(* What construct_lifecycles puts together are rows of the dataset.        *)
LEMMA LifecycleIsOverRows ==
  ASSUME NEW data, IsSequence(data), Constructible(data), NEW order \in Orders(data)
  PROVE  LifecycleOver(LifecycleOf(data, order), ToSet(data))
<1> DEFINE S == ToSet(data)
           Of(kind) == OfOrder(data, order, kind)
           keyed == KeyedByPayment(data, order)
           l == LifecycleOf(data, order)
<1>0. data \in Seq(S)
  BY DEF IsSequence
<1> HIDE DEF S
<1>1. \A kind : Of(kind) \in Seq(S)
  BY <1>0, PickIsPicked DEF OfOrder
<1>2. keyed \in Seq(S)
  BY <1>0, PickIsPicked DEF KeyedByPayment
<1>3. \A kind, id : OfPayments(data, order, kind, id) \in Seq(S)
  <2> TAKE kind, id
  <2> DEFINE A == {r \in ToSet(data) : Get(r, "payment_id") \in PaymentIds(data, order)}
             B == {r \in ToSet(data) : Present(r, id)}
  <2>1. OfPayments(data, order, kind, id) = Pick(Of(kind), A) \o Pick(keyed, B)
    BY DEF OfPayments
  <2> HIDE DEF A, B, Of, keyed
  <2>2. Pick(Of(kind), A) \in Seq(S)
    BY <1>1, PickIsPicked
  <2>3. Pick(keyed, B) \in Seq(S)
    BY <1>2, PickIsPicked
  <2>. QED BY <2>1, <2>2, <2>3
<1>4. InvoicesOf(data, order) \in Seq(S)
  <2>1. \A status : Invoices(data, order, status) \in Seq(S)
    <3> TAKE status
    <3> DEFINE A == {r \in ToSet(data) : Get(r, "status") = status}
    <3>1. Invoices(data, order, status) = Pick(Of("invoices"), A)
      BY DEF Invoices
    <3> HIDE DEF A, Of
    <3>. QED BY <1>1, <3>1, PickIsPicked
  <2>. QED BY <1>1, <2>1 DEF InvoicesOf
<1>5. KeyedActions(data, order) \in Seq(S)
  BY <1>0, PickIsPicked DEF KeyedActions
<1>6. Of("orders")[1] \in S
  <2>1. Len(Of("orders")) = 1
    BY DEF Constructible
  <2>2. Of("orders") \in Seq(S)
    BY <1>1
  <2> HIDE DEF Of
  <2>. QED BY <2>1, <2>2
<1>7. Of("employee_actions") \o KeyedActions(data, order) \in Seq(S)
  <2> HIDE DEF Of
  <2>. QED BY <1>1, <1>5
<1>8. /\ l.order = Of("orders")[1] /\ l.payments = Of("payments")
      /\ l.settlements = OfPayments(data, order, "settlements", "settlement_id")
      /\ l.invoices = InvoicesOf(data, order)
      /\ l.refunds = OfPayments(data, order, "refunds", "refund_id")
      /\ l.inventory_movements = Of("inventory_movements")
      /\ l.employee_actions = Of("employee_actions") \o KeyedActions(data, order)
  BY DEF LifecycleOf, Refunds
<1> HIDE DEF l, Of
<1>9. LifecycleOver(l, S)
  BY <1>1, <1>3, <1>4, <1>6, <1>7, <1>8 DEF LifecycleOver
<1>. QED BY <1>9 DEF S, l

(* The collections of a lifecycle are sequences.                           *)
LEMMA LifecycleSequences ==
  ASSUME NEW S, NEW l, LifecycleOver(l, S)
  PROVE  /\ IsSequence(l.payments) /\ IsSequence(l.settlements) /\ IsSequence(l.invoices)
         /\ IsSequence(l.refunds) /\ IsSequence(l.inventory_movements)
         /\ IsSequence(l.employee_actions)
BY SequenceOfMembers DEF LifecycleOver

(* The movements of a kind are movements of the lifecycle.                 *)
LEMMA MovementsAreOver ==
  ASSUME NEW S, NEW l, LifecycleOver(l, S), NEW kind
  PROVE  /\ Movements(l, kind) \in Seq(S)
         /\ ToSet(Movements(l, kind)) = {r \in ToSet(l.inventory_movements) : OfType(r, kind)}
<1>1. l.inventory_movements \in Seq(S)
  BY DEF LifecycleOver
<1>. QED BY <1>1, PickIsPicked DEF Movements

(* The sum of a value over rows is an integer when each value is.          *)
LEMMA TotalIsInteger ==
  ASSUME NEW S, NEW s \in Seq(S), NEW f,
         f = [i \in DOMAIN s |-> f[i]], \A i \in DOMAIN s : f[i] \in Int
  PROVE  SumOf(f) \in Int
<1>1. Len(s) \in Nat /\ DOMAIN s = 1..Len(s)
  OBVIOUS
<1>2. [i \in 1..Len(s) |-> f[i]] \in Seq(Int)
  BY <1>1
<1>. QED BY <1>1, <1>2, SumIsInteger

-----------------------------------------------------------------------------
(***************************************************************************)
(* The facts behind the types of exceptions.                               *)
(***************************************************************************)

(* The table of root causes per type of verifier.py, entry by entry.       *)
LEMMA ExpectedRoots ==
  /\ DOMAIN Expected =
       {"REFUND_WITHOUT_INVENTORY_RETURN", "REFUND_WITHOUT_ERP_REVERSAL", "DUPLICATE_PAYMENT",
        "MISSING_SETTLEMENT", "ERP_INVOICE_MISSING", "ERP_AMOUNT_MISMATCH", "PAYMENT_FEE_MISSING",
        "SETTLEMENT_FEE_MISSING", "INVENTORY_VALUE_MISMATCH", "INVENTORY_QUANTITY_MISMATCH",
        "INVENTORY_RESTORED_WITHOUT_REFUND"}
  /\ Expected["REFUND_WITHOUT_INVENTORY_RETURN"] =
       {"INCOMPLETE_REFUND_WORKFLOW", "INVENTORY_REVERSAL_MISSING"}
  /\ Expected["REFUND_WITHOUT_ERP_REVERSAL"] = {"ERP_REVERSAL_MISSING"}
  /\ Expected["DUPLICATE_PAYMENT"] = {"DUPLICATE_PAYMENT", "AMBIGUOUS_ASSOCIATION"}
  /\ Expected["MISSING_SETTLEMENT"] = {"SETTLEMENT_MISSING"}
  /\ Expected["ERP_INVOICE_MISSING"] = {"ERP_INVOICE_MISSING"}
  /\ Expected["ERP_AMOUNT_MISMATCH"] = {"ERP_AMOUNT_MISMATCH"}
  /\ Expected["PAYMENT_FEE_MISSING"] = {"PAYMENT_FEE_MISSING", "DATA_QUALITY_ERROR"}
  /\ Expected["SETTLEMENT_FEE_MISSING"] = {"SETTLEMENT_FEE_MISSING", "DATA_QUALITY_ERROR"}
  /\ Expected["INVENTORY_VALUE_MISMATCH"] =
       {"INVENTORY_VALUE_MISMATCH", "INVENTORY_VALUE_CALCULATION_ERROR"}
  /\ Expected["INVENTORY_QUANTITY_MISMATCH"] = {"INVENTORY_QUANTITY_MISMATCH"}
  /\ Expected["INVENTORY_RESTORED_WITHOUT_REFUND"] = {"INVENTORY_RESTORED_WITHOUT_REFUND"}
BY DEF Expected

(* The findings that name a root cause, and the root causes they name:     *)
(* themselves, but for the return of goods that is missing.                *)
StatingCodes ==
  {"INVENTORY_RETURN_MISSING", "ERP_REVERSAL_MISSING", "ERP_INVOICE_MISSING",
   "ERP_AMOUNT_MISMATCH", "PAYMENT_FEE_MISSING", "SETTLEMENT_FEE_MISSING",
   "INVENTORY_VALUE_MISMATCH", "INVENTORY_VALUE_CALCULATION_ERROR",
   "INVENTORY_QUANTITY_MISMATCH", "INVENTORY_RESTORED_WITHOUT_REFUND"}

RootsOf(code) ==
  IF code = "INVENTORY_RETURN_MISSING"
  THEN {"INCOMPLETE_REFUND_WORKFLOW", "INVENTORY_REVERSAL_MISSING"} ELSE {code}

(* The root causes that a finding names are facts of the order.            *)
StatesFact(code, l) == \A root \in RootsOf(code) : Fact(root, l)

(* The facts behind a type: those of the root causes it admits, and of the *)
(* type that joins two findings one or the other.                          *)
Grounded(type, l) ==
  /\ type # "INVENTORY_VALUE_MISMATCH" => \A root \in Expected[type] \ Unstated : Fact(root, l)
  /\ type = "INVENTORY_VALUE_MISMATCH" => \E root \in ValueRoots : Fact(root, l)

(* What makes each finding state a fact of the order.                      *)
LEMMA FactsOfCodes ==
  ASSUME NEW l
  PROVE  /\ l.refunds # <<>> /\ Movements(l, "RETURN") = <<>>
              => StatesFact("INVENTORY_RETURN_MISSING", l)
         /\ l.refunds # <<>> /\ ~Some(l.invoices, LAMBDA i : Get(i, "status") = "REVERSED")
              => StatesFact("ERP_REVERSAL_MISSING", l)
         /\ l.invoices = <<>> => StatesFact("ERP_INVOICE_MISSING", l)
         /\ ~Same(l.invoices[1], "gross_minor", l.order, "amount_minor")
              => StatesFact("ERP_AMOUNT_MISMATCH", l)
         /\ Some(l.payments, LAMBDA p : ~Present(p, "gateway_fee_minor"))
              => StatesFact("PAYMENT_FEE_MISSING", l)
         /\ Some(l.settlements, LAMBDA s : ~Present(s, "fees_minor"))
              => StatesFact("SETTLEMENT_FEE_MISSING", l)
         /\ (\E i \in DOMAIN l.inventory_movements : Misvalued(l.inventory_movements[i]))
              => StatesFact("INVENTORY_VALUE_CALCULATION_ERROR", l)
         /\ (/\ IsKnown(Movements(l, "SALE"), "unit_cost_minor")
             /\ IsKnown(Movements(l, "RETURN"), "inventory_value_minor")
             /\ TotalCost(Movements(l, "SALE")) # TotalValue(Movements(l, "RETURN")))
              => StatesFact("INVENTORY_VALUE_MISMATCH", l)
         /\ Total(Movements(l, "SALE"), Quantity) # Total(Movements(l, "RETURN"), Quantity)
              => StatesFact("INVENTORY_QUANTITY_MISMATCH", l)
         /\ Movements(l, "RETURN") # <<>> /\ l.refunds = <<>>
              => StatesFact("INVENTORY_RESTORED_WITHOUT_REFUND", l)
<1>1. l.refunds # <<>> /\ Movements(l, "RETURN") = <<>>
        => StatesFact("INVENTORY_RETURN_MISSING", l)
  BY DEF StatesFact, RootsOf, Fact
<1>2. l.refunds # <<>> /\ ~Some(l.invoices, LAMBDA i : Get(i, "status") = "REVERSED")
        => StatesFact("ERP_REVERSAL_MISSING", l)
  BY DEF StatesFact, RootsOf, Fact
<1>3. l.invoices = <<>> => StatesFact("ERP_INVOICE_MISSING", l)
  BY DEF StatesFact, RootsOf, Fact
<1>4. ~Same(l.invoices[1], "gross_minor", l.order, "amount_minor")
        => StatesFact("ERP_AMOUNT_MISMATCH", l)
  BY DEF StatesFact, RootsOf, Fact
<1>5. Some(l.payments, LAMBDA p : ~Present(p, "gateway_fee_minor"))
        => StatesFact("PAYMENT_FEE_MISSING", l)
  BY DEF StatesFact, RootsOf, Fact
<1>6. Some(l.settlements, LAMBDA s : ~Present(s, "fees_minor"))
        => StatesFact("SETTLEMENT_FEE_MISSING", l)
  BY DEF StatesFact, RootsOf, Fact
<1>7. (\E i \in DOMAIN l.inventory_movements : Misvalued(l.inventory_movements[i]))
        => StatesFact("INVENTORY_VALUE_CALCULATION_ERROR", l)
  BY DEF StatesFact, RootsOf, Fact, Some
<1>8. (/\ IsKnown(Movements(l, "SALE"), "unit_cost_minor")
       /\ IsKnown(Movements(l, "RETURN"), "inventory_value_minor")
       /\ TotalCost(Movements(l, "SALE")) # TotalValue(Movements(l, "RETURN")))
        => StatesFact("INVENTORY_VALUE_MISMATCH", l)
  BY DEF StatesFact, RootsOf, Fact
<1>9. Total(Movements(l, "SALE"), Quantity) # Total(Movements(l, "RETURN"), Quantity)
        => StatesFact("INVENTORY_QUANTITY_MISMATCH", l)
  BY DEF StatesFact, RootsOf, Fact
<1>10. Movements(l, "RETURN") # <<>> /\ l.refunds = <<>>
        => StatesFact("INVENTORY_RESTORED_WITHOUT_REFUND", l)
  BY DEF StatesFact, RootsOf, Fact
<1>. QED BY <1>1, <1>2, <1>3, <1>4, <1>5, <1>6, <1>7, <1>8, <1>9, <1>10

(* A finding that states a fact grounds the type it is renamed to.         *)
LEMMA CodeGroundsType ==
  ASSUME NEW l, NEW code \in StatingCodes, StatesFact(code, l)
  PROVE  Grounded(Renamed(code), l)
<1>1. CASE code = "INVENTORY_RETURN_MISSING"
  <2>1. Renamed(code) = "REFUND_WITHOUT_INVENTORY_RETURN"
    BY <1>1 DEF Renamed
  <2>. QED BY <1>1, <2>1, ExpectedRoots DEF StatesFact, RootsOf, Grounded
<1>2. CASE code = "ERP_REVERSAL_MISSING"
  <2>1. Renamed(code) = "REFUND_WITHOUT_ERP_REVERSAL"
    BY <1>2 DEF Renamed
  <2>. QED BY <1>2, <2>1, ExpectedRoots DEF StatesFact, RootsOf, Grounded
<1>3. CASE code \in ValueRoots
  <2>1. Renamed(code) = "INVENTORY_VALUE_MISMATCH"
    BY <1>3 DEF Renamed, ValueRoots
  <2>2. Fact(code, l)
    BY <1>3 DEF StatesFact, RootsOf, ValueRoots
  <2>. QED BY <1>3, <2>1, <2>2 DEF Grounded
<1>4. CASE code \in {"ERP_INVOICE_MISSING", "ERP_AMOUNT_MISMATCH", "PAYMENT_FEE_MISSING",
                    "SETTLEMENT_FEE_MISSING", "INVENTORY_QUANTITY_MISMATCH",
                    "INVENTORY_RESTORED_WITHOUT_REFUND"}
  <2>1. Renamed(code) = code
    BY <1>4 DEF Renamed
  <2>2. Fact(code, l)
    BY <1>4 DEF StatesFact, RootsOf
  <2>3. Expected[code] \ Unstated = {code}
    BY <1>4, ExpectedRoots DEF Unstated
  <2>. QED BY <1>4, <2>1, <2>2, <2>3 DEF Grounded
<1>. QED BY <1>1, <1>2, <1>3, <1>4 DEF StatingCodes, ValueRoots

(* Money that is present is an integer since normalization.                *)
LEMMA MoneyIsInteger ==
  ASSUME NEW row, Normalized(row), NEW field \in MoneyFields, Present(row, field)
  PROVE  Minor(row, field) \in Int
<1>1. row[field] \in DOMAIN Amount
  BY DEF Normalized
<1>. QED BY <1>1, TextAssumption DEF Minor

(* What the rules read without a test, when they do not raise.             *)
LEMMA ReadWithoutRaising ==
  ASSUME NEW l, ~Raises(l), Len(l.payments) = 1, l.settlements # <<>>
  PROVE  /\ Present(l.order, "amount_minor")
         /\ l.invoices # <<>> => Present(l.invoices[1], "gross_minor")
         /\ l.refunds # <<>> => Present(l.refunds[1], "amount_minor")
         /\ \A i \in DOMAIN l.inventory_movements : Quantity(l.inventory_movements[i]) \in Int
<1>1. /\ Present(l.order, "amount_minor")
      /\ l.invoices # <<>> => Present(l.invoices[1], "gross_minor")
      /\ l.refunds # <<>> => Present(l.refunds[1], "amount_minor")
      /\ \A i \in DOMAIN l.inventory_movements :
           "quantity" \in DOMAIN l.inventory_movements[i] =>
             l.inventory_movements[i].quantity \in DOMAIN Amount
  BY DEF Raises, Some
<1>2. ASSUME NEW i \in DOMAIN l.inventory_movements
      PROVE  Quantity(l.inventory_movements[i]) \in Int
  BY <1>1, TextAssumption DEF Quantity, Minor
<1>. QED BY <1>1, <1>2

(* A gap of zero is an equality of the two sums, and no other: the         *)
(* distance of two integers.                                               *)
LEMMA ValueGapIsDifference ==
  ASSUME NEW S, \A r \in S : Normalized(r), NEW l, LifecycleOver(l, S),
         \A i \in DOMAIN l.inventory_movements : Quantity(l.inventory_movements[i]) \in Int,
         NEW sold, NEW returned, sold = Movements(l, "SALE"), returned = Movements(l, "RETURN"),
         IsKnown(sold, "unit_cost_minor"), IsKnown(returned, "inventory_value_minor")
  PROVE  ValueGap(l) # 0 <=> TotalCost(sold) # TotalValue(returned)
<1>1. /\ sold \in Seq(S) /\ returned \in Seq(S)
      /\ ToSet(sold) \subseteq ToSet(l.inventory_movements)
  BY MovementsAreOver
<1>2. \A i \in DOMAIN sold : sold[i] \in S /\ sold[i] \in ToSet(l.inventory_movements)
  <2>1. \A i \in DOMAIN sold : sold[i] \in S
    BY <1>1
  <2>2. \A i \in DOMAIN sold : sold[i] \in ToSet(sold)
    BY DEF ToSet
  <2>. QED BY <1>1, <2>1, <2>2
<1>3. \A i \in DOMAIN returned : returned[i] \in S
  BY <1>1
<1>4. \A r \in ToSet(l.inventory_movements) : Quantity(r) \in Int
  BY DEF ToSet
<1>5. TotalCost(sold) \in Int
  <2> DEFINE f == [i \in DOMAIN sold |-> Cost(sold[i])]
  <2>1. ASSUME NEW i \in DOMAIN sold PROVE Cost(sold[i]) \in Int
    <3>1. Minor(sold[i], "unit_cost_minor") \in Int
      BY <1>2, MoneyIsInteger DEF IsKnown, MoneyFields
    <3>2. Quantity(sold[i]) \in Int
      BY <1>2, <1>4
    <3>. QED BY <3>1, <3>2 DEF Cost
  <2>2. f = [i \in DOMAIN sold |-> f[i]] /\ \A i \in DOMAIN sold : f[i] \in Int
    BY <2>1
  <2>3. TotalCost(sold) = SumOf(f)
    BY DEF TotalCost, Total
  <2> HIDE DEF f
  <2>. QED BY <1>1, <2>2, <2>3, TotalIsInteger
<1>6. TotalValue(returned) \in Int
  <2> DEFINE f == [i \in DOMAIN returned |-> Minor(returned[i], "inventory_value_minor")]
  <2>1. ASSUME NEW i \in DOMAIN returned PROVE Minor(returned[i], "inventory_value_minor") \in Int
    BY <1>3, MoneyIsInteger DEF IsKnown, MoneyFields
  <2>2. f = [i \in DOMAIN returned |-> f[i]] /\ \A i \in DOMAIN returned : f[i] \in Int
    BY <2>1
  <2>3. TotalValue(returned) = SumOf(f)
    BY DEF TotalValue, Total
  <2> HIDE DEF f
  <2>. QED BY <1>1, <2>2, <2>3, TotalIsInteger
<1>7. ValueGap(l) = Distance(TotalCost(sold), TotalValue(returned))
  BY DEF ValueGap
<1>8. \A m, n \in Int : Distance(m, n) # 0 <=> m # n
  BY DEF Distance
<1>. QED BY <1>5, <1>6, <1>7, <1>8

(* The findings of a single settled payment whose types name root causes   *)
(* are facts of the order: each finding of the root cause of its own.      *)
LEMMA FindingsAreFacts ==
  ASSUME NEW S, \A r \in S : Normalized(r), NEW l, LifecycleOver(l, S), ~Raises(l),
         Len(l.payments) = 1, l.settlements # <<>>,
         NEW code \in Codes(Findings(l)), Renamed(code) \in DOMAIN Expected
  PROVE  code \in StatingCodes /\ StatesFact(code, l)
<1>0. /\ IsSequence(l.payments) /\ IsSequence(l.settlements) /\ IsSequence(l.refunds)
      /\ IsSequence(l.inventory_movements)
  BY LifecycleSequences
<1>1. code \in Codes(PaymentFindings(l)) \cup Codes(SettlementFindings(l))
              \cup Codes(InvoiceFindings(l)) \cup Codes(InventoryFindings(l))
              \cup Codes(RefundFindings(l))
  BY <1>0, FindingCodes
<1>2. /\ Present(l.order, "amount_minor")
      /\ l.invoices # <<>> => Present(l.invoices[1], "gross_minor")
      /\ l.refunds # <<>> => Present(l.refunds[1], "amount_minor")
      /\ \A i \in DOMAIN l.inventory_movements : Quantity(l.inventory_movements[i]) \in Int
  BY ReadWithoutRaising
<1>3. 1 \in DOMAIN l.payments /\ 1 \in DOMAIN l.settlements
  <2>1. l.settlements \in Seq(S) /\ l.payments \in Seq(S)
    BY DEF LifecycleOver
  <2>. QED BY <2>1
<1>4. CASE code \in Codes(PaymentFindings(l))
  <2>1. code \in
              {"CURRENCY_MISMATCH", "ORDER_STATUS_MISMATCH", "PAYMENT_STATUS_MISMATCH",
               "PAYMENT_AMOUNT_MISMATCH", "REFUND_STATUS_MISMATCH", "MULTIPLE_SETTLEMENTS_REVIEW",
               "MULTIPLE_REFUNDS_REVIEW", "SETTLEMENT_GROSS_MISMATCH", "SETTLEMENT_NET_MISMATCH"}
    BY <1>0, <1>4, PaymentCodes
  <2>2. Renamed(code) = code
    BY <2>1 DEF Renamed
  <2>. QED BY <2>1, <2>2, ExpectedRoots
<1>5. CASE code \in Codes(SettlementFindings(l))
  <2>1. code \in Variance \cup {"SETTLEMENT_FEE_MISSING", "PAYMENT_FEE_MISSING"}
    BY <1>5, SettlementCodes
  <2>2. Renamed(code) = code
    BY <2>1 DEF Renamed, Variance
  <2>3. CASE code = "SETTLEMENT_FEE_MISSING"
    <3>1. Some(l.settlements, LAMBDA s : ~Present(s, "fees_minor"))
      BY <1>3, <1>5, <2>3, SettlementCodes DEF Some
    <3>. QED BY <2>2, <2>3, <3>1, FactsOfCodes DEF StatingCodes
  <2>4. CASE code = "PAYMENT_FEE_MISSING"
    <3>1. Some(l.payments, LAMBDA s : ~Present(s, "gateway_fee_minor"))
      BY <1>3, <1>5, <2>4, SettlementCodes DEF Some
    <3>. QED BY <2>2, <2>4, <3>1, FactsOfCodes DEF StatingCodes
  <2>. QED BY <2>1, <2>2, <2>3, <2>4, ExpectedRoots DEF Variance
<1>6. CASE code \in Codes(InvoiceFindings(l))
  <2>1. code \in {"ERP_INVOICE_MISSING", "ERP_AMOUNT_MISMATCH"}
    BY <1>6, InvoiceCodes
  <2>2. CASE code = "ERP_INVOICE_MISSING"
    BY <1>6, <2>2, InvoiceCodes, FactsOfCodes DEF StatingCodes
  <2>3. CASE code = "ERP_AMOUNT_MISMATCH"
    <3>1. ~Same(l.invoices[1], "gross_minor", l.order, "amount_minor")
      BY <1>2, <1>6, <2>3, InvoiceCodes DEF Same, OrderAmount
    <3>. QED BY <2>3, <3>1, FactsOfCodes DEF StatingCodes
  <2>. QED BY <2>1, <2>2, <2>3
<1>7. CASE code \in Codes(InventoryFindings(l))
  <2>1. code \in {"INVENTORY_VALUE_CALCULATION_ERROR", "INVENTORY_RESTORED_WITHOUT_REFUND"}
    BY <1>0, <1>7, InventoryCodes
  <2>2. CASE code = "INVENTORY_VALUE_CALCULATION_ERROR"
    <3>1. \E i \in DOMAIN l.inventory_movements : Misvalued(l.inventory_movements[i])
      BY <1>0, <1>7, <2>2, InventoryCodes
    <3>. QED BY <2>2, <3>1, FactsOfCodes DEF StatingCodes
  <2>3. CASE code = "INVENTORY_RESTORED_WITHOUT_REFUND"
    <3>1. Movements(l, "RETURN") # <<>> /\ l.refunds = <<>>
      BY <1>0, <1>7, <2>3, InventoryCodes
    <3>. QED BY <2>3, <3>1, FactsOfCodes DEF StatingCodes
  <2>. QED BY <2>1, <2>2, <2>3
<1>8. CASE code \in Codes(RefundFindings(l))
  <2>0. l.refunds # <<>>
    BY <1>8, RefundCodes
  <2>1. code \in {"MANUAL_WORKFLOW_ANOMALY", "PARTIAL_REFUND_MISMATCH", "ERP_REVERSAL_MISSING"}
                \cup Codes(ReturnFindings(l))
    BY <1>8, RefundCodes
  <2>2. CASE code = "ERP_REVERSAL_MISSING"
    <3>1. ~Some(l.invoices, LAMBDA i : Get(i, "status") = "REVERSED")
      BY <1>8, <2>0, <2>2, RefundCodes
    <3>. QED BY <2>0, <2>2, <3>1, FactsOfCodes DEF StatingCodes
  <2>3. CASE code \in {"MANUAL_WORKFLOW_ANOMALY", "PARTIAL_REFUND_MISMATCH"}
    <3>1. Renamed(code) = code
      BY <2>3 DEF Renamed
    <3>. QED BY <2>3, <3>1, ExpectedRoots
  <2>4. CASE code \in Codes(ReturnFindings(l))
    <3> DEFINE sold     == Movements(l, "SALE")
               returned == Movements(l, "RETURN")
    <3>0. /\ Codes(ReturnFindings(l)) \subseteq
              {"INVENTORY_RETURN_MISSING", "INVENTORY_QUANTITY_MISMATCH", "INVENTORY_VALUE_MISMATCH"}
          /\ "INVENTORY_RETURN_MISSING" \in Codes(ReturnFindings(l)) => returned = <<>>
          /\ "INVENTORY_QUANTITY_MISMATCH" \in Codes(ReturnFindings(l)) =>
               Total(sold, Quantity) # Total(returned, Quantity)
          /\ "INVENTORY_VALUE_MISMATCH" \in Codes(ReturnFindings(l)) => ValueGap(l) # 0
      BY ReturnCodes
    <3>1. CASE code = "INVENTORY_RETURN_MISSING"
      BY <2>0, <2>4, <3>0, <3>1, FactsOfCodes DEF StatingCodes
    <3>2. CASE code = "INVENTORY_QUANTITY_MISMATCH"
      BY <2>4, <3>0, <3>2, FactsOfCodes DEF StatingCodes
    <3>3. CASE code = "INVENTORY_VALUE_MISMATCH"
      <4>1. ValueGap(l) # 0
        BY <2>4, <3>0, <3>3
      <4>2. IsKnown(sold, "unit_cost_minor") /\ IsKnown(returned, "inventory_value_minor")
        BY <4>1 DEF ValueGap
      <4>3. TotalCost(sold) # TotalValue(returned)
        BY <1>2, <4>1, <4>2, ValueGapIsDifference
      <4>. QED BY <3>3, <4>2, <4>3, FactsOfCodes DEF StatingCodes
    <3>. QED BY <2>4, <3>0, <3>1, <3>2, <3>3
  <2>. QED BY <2>1, <2>2, <2>3, <2>4
<1>. QED BY <1>1, <1>4, <1>5, <1>6, <1>7, <1>8

-----------------------------------------------------------------------------
(***************************************************************************)
(* The invariant of the pipeline.                                          *)
(***************************************************************************)

(* _exception_type invents no type with root causes of its own.            *)
LEMMA TypeIsOfResult ==
  ASSUME NEW result, TypeFor(result) \in DOMAIN Expected
  PROVE  TypeFor(result) = result.type /\ result.type \in ExceptionType
BY ExpectedRoots DEF TypeFor

(* The type that an order is investigated under says something true of its *)
(* rows: the first finding of the rules, renamed, or the result of an      *)
(* early return.                                                           *)
LEMMA ReconciledTypeIsGrounded ==
  ASSUME NEW S, \A r \in S : Normalized(r), NEW l, LifecycleOver(l, S), ~Raises(l),
         TypeFor(Reconcile(l)) \in DOMAIN Expected
  PROVE  Grounded(TypeFor(Reconcile(l)), l)
<1> DEFINE type == Reconcile(l).type
<1>1. TypeFor(Reconcile(l)) = type /\ type \in DOMAIN Expected /\ type \in ExceptionType
  BY TypeIsOfResult
<1>2. Len(l.payments) \in Nat
  BY DEF LifecycleOver
<1>. \A n \in Nat : (n > 1 \/ n = 0 \/ n = 1) /\ (n > 1 => n # 0 /\ n # 1)
  OBVIOUS
<1>3. CASE Len(l.payments) > 1
  <2> DEFINE Early(status, kind) == Single(status, kind, kind, "HIGH", l, "POTENTIAL_EXPOSURE")
  <2>0. \A status, kind : Early(status, kind).type = kind
    BY DEF Single, Result
  <2> HIDE DEF Early
  <2>1. \/ Reconcile(l) = Early("EXCEPTION", "DUPLICATE_PAYMENT")
        \/ Reconcile(l) = Early("AMBIGUOUS", "AMBIGUOUS_ASSOCIATION")
    <3>0. Len(l.payments) # 0 /\ Len(l.payments) # 1
      BY <1>2, <1>3, Zenon
    <3>1. CASE IsDuplicate(l)
      BY <1>3, <3>0, <3>1 DEF Reconcile, Early
    <3>2. CASE ~IsDuplicate(l)
      BY <1>3, <3>0, <3>2 DEF Reconcile, Early
    <3>. QED BY <3>1, <3>2
  <2>2. type \in {"DUPLICATE_PAYMENT", "AMBIGUOUS_ASSOCIATION"}
    BY <2>0, <2>1
  <2>3. type = "DUPLICATE_PAYMENT"
    BY <1>1, <2>2, ExpectedRoots
  <2>4. Fact("DUPLICATE_PAYMENT", l)
    BY <1>3 DEF Fact
  <2> HIDE DEF type
  <2>. QED BY <1>1, <2>3, <2>4, ExpectedRoots DEF Grounded, Unstated
<1>4. CASE Len(l.payments) = 0
  <2>1. type = "PAYMENT_MISSING"
    BY <1>4 DEF Reconcile, Single, Result
  <2>. QED BY <1>1, <2>1, ExpectedRoots
<1>5. CASE Len(l.payments) = 1 /\ l.settlements = <<>>
  <2>1. type = "MISSING_SETTLEMENT"
    BY <1>5 DEF Reconcile, Single, Result
  <2>2. Fact("SETTLEMENT_MISSING", l)
    BY <1>5 DEF Fact
  <2> HIDE DEF type
  <2>. QED BY <1>1, <2>1, <2>2, ExpectedRoots DEF Grounded
<1>6. CASE Len(l.payments) = 1 /\ l.settlements # <<>>
  <2> DEFINE findings == Findings(l)
  <2>1. Reconcile(l) = Concluded(findings)
    BY <1>6 DEF Reconcile
  <2>2. IsSequence(findings)
    <3>1. /\ IsSequence(l.payments) /\ IsSequence(l.settlements) /\ IsSequence(l.refunds)
          /\ IsSequence(l.inventory_movements)
      BY LifecycleSequences
    <3>. QED BY <3>1, FindingCodes
  <2> HIDE DEF findings
  <2>3. CASE findings = <<>>
    <3>1. type = None
      BY <2>1, <2>3 DEF Concluded, Result
    <3>. QED BY <1>1, <3>1, TextAssumption DEF Words
  <2>4. CASE findings # <<>> /\ \A i \in DOMAIN findings : findings[i].code \in Variance
    <3>1. type \in {"SETTLEMENT_FEE_VARIANCE", "SETTLEMENT_TIMING"}
      BY <2>1, <2>4 DEF Concluded, Result
    <3>. QED BY <1>1, <3>1, ExpectedRoots
  <2>5. CASE findings # <<>> /\ ~(\A i \in DOMAIN findings : findings[i].code \in Variance)
    <3>1. type = Renamed(findings[1].code)
      BY <2>1, <2>5 DEF Concluded, Result
    <3>2. findings[1].code \in Codes(findings)
      <4>1. 1 \in DOMAIN findings
        BY <2>2, <2>5 DEF IsSequence
      <4>. QED BY <4>1, Members, <2>2 DEF Codes
    <3>. QED BY <1>1, <1>6, <3>1, <3>2, FindingsAreFacts, CodeGroundsType DEF findings
  <2>. QED BY <2>3, <2>4, <2>5
<1>7. Len(l.payments) > 1 \/ Len(l.payments) = 0 \/ Len(l.payments) = 1
  BY <1>2, Zenon
<1>. QED BY <1>3, <1>4, <1>5, <1>6, <1>7

(* A calculation error is answered on a citation of the tools.             *)
Substantiates(root, items) ==
  root = "INVENTORY_VALUE_CALCULATION_ERROR" =>
    \E item \in items : /\ item.source = "inventory"
                        /\ item.operator = "not_equals"

(* What an answer says of the run that it belongs to.                      *)
Answered ==
  /\ run.status = "COMPLETED" /\ answer.order \in DOMAIN run.results
  /\ answer.type = TypeFor(run.results[answer.order])
  /\ answer.status = "SUPPORTED" /\ answer.type \in DOMAIN Expected =>
       answer.root \in Expected[answer.type]
  /\ answer.own => Substantiates(answer.root, Evidence(LifecycleFor(answer.order)))

(* The inductive invariant: the rows are a dataset, a run is what the rows *)
(* determine, and an answer, once given, is about an order of a completed  *)
(* run, has the type of its result and, when it stays SUPPORTED, a root    *)
(* cause of that type, which the tools substantiate if only they are cited.*)
PipelineInv ==
  /\ rows \in Datasets
  /\ run \in {NoRun, Outcome}
  /\ answer # NoAnswer => Answered

(* What an investigation answers to one candidate.                         *)
AnswerTo(order, root, action, supporting) ==
  LET type     == TypeFor(run.results[order])
      l        == LifecycleFor(order)
      verified == Verification(Candidate(root, action, supporting), type, l)
  IN [order |-> order, type |-> type, root |-> root,
      status |-> verified.candidate.status,
      own |-> verified.clean /\ supporting \subseteq Evidence(l)]

LEMMA AnswerIsToCandidate ==
  ASSUME NEW order, NEW result \in Answers(order)
  PROVE  \E root \in Roots, action \in Actions, supporting \in Cited(LifecycleFor(order)) :
           result = AnswerTo(order, root, action, supporting)
BY SMT DEF Answers, AnswerTo

(* Every reachable state satisfies the invariant: runs and investigations  *)
(* leave nothing else behind. (ReconciliationService.run and investigate)  *)
THEOREM InvHolds == Spec => []PipelineInv
<1>1. Init => PipelineInv
  BY DEF Init, PipelineInv
<1>2. ASSUME PipelineInv, [Next]_vars PROVE PipelineInv'
  <2>1. CASE Run
    <3>1. Outcome' = Outcome
      BY <2>1 DEF Run, Outcome, LifecycleFor
    <3>2. run' = Outcome /\ rows' = rows /\ answer' = answer /\ run = NoRun
      BY <2>1 DEF Run
    <3>3. answer = NoAnswer
      <4>1. run.status # "COMPLETED"
        BY <3>2 DEF NoRun
      <4>. QED BY <1>2, <4>1 DEF PipelineInv, Answered
    <3>4. NoAnswer' = NoAnswer
      BY DEF NoAnswer
    <3>. QED BY <1>2, <3>1, <3>2, <3>3, <3>4 DEF PipelineInv
  <2>2. ASSUME NEW order \in Orders(rows), Investigate(order) PROVE PipelineInv'
    <3> DEFINE l == LifecycleFor(order)
               type == TypeFor(run.results[order])
    <3>1. PICK root \in Roots, action \in Actions, supporting \in Cited(l) :
             answer' = [order |-> order, type |-> type, root |-> root,
                        status |-> Verification(Candidate(root, action, supporting), type, l)
                                     .candidate.status,
                        own |-> /\ Verification(Candidate(root, action, supporting), type, l).clean
                                /\ supporting \subseteq Evidence(l)]
      <4>1. answer' \in Answers(order)
        BY <2>2 DEF Investigate
      <4>2. PICK root \in Roots, action \in Actions, supporting \in Cited(l) :
               answer' = AnswerTo(order, root, action, supporting)
        BY <4>1, AnswerIsToCandidate
      <4>. QED BY <4>2 DEF AnswerTo
    <3>2. /\ run.status = "COMPLETED" /\ order \in DOMAIN run.results
          /\ rows' = rows /\ run' = run
      BY <2>2 DEF Investigate
    <3>3. Outcome' = Outcome /\ NoRun' = NoRun /\ NoAnswer' = NoAnswer
      BY <3>2 DEF Outcome, LifecycleFor, NoRun, NoAnswer
    <3> DEFINE candidate == Candidate(root, action, supporting)
               verified == Verification(candidate, type, l).candidate
    <3>4. verified.status = "SUPPORTED" /\ type \in DOMAIN Expected => root \in Expected[type]
      BY DEF Verification, Candidate, Compatible
    <3> DEFINE clean == Verification(candidate, type, l).clean
    <3>5. /\ answer'.order = order /\ answer'.type = type /\ answer'.root = root
          /\ answer'.status = verified.status
          /\ answer'.own => clean /\ supporting \subseteq Evidence(l)
      BY <3>1
    <3>7. clean => Substantiates(root, supporting)
      <4>1. clean => Substantiated(root, supporting)
        BY TextAssumption DEF Verification, Candidate, Compatible, Words
      <4>. QED BY <4>1 DEF Substantiated, Substantiates
    <3>8. Evidence(LifecycleFor(order))' = Evidence(l)
      BY <3>2 DEF LifecycleFor
    <3>6. Answered'
      <4> HIDE DEF type, verified, clean
      <4>1. type = TypeFor(run'.results[answer'.order])
        BY <3>2, <3>5 DEF type
      <4>2. /\ run'.status = "COMPLETED" /\ answer'.order \in DOMAIN run'.results
        BY <3>2, <3>5
      <4>3. answer'.status = "SUPPORTED" /\ answer'.type \in DOMAIN Expected =>
              answer'.root \in Expected[answer'.type]
        BY <3>4, <3>5
      <4>4. answer'.own => Substantiates(answer'.root, Evidence(l))
        BY <3>5, <3>7 DEF Substantiates
      <4>5. Evidence(LifecycleFor(answer.order))' = Evidence(l)
        BY <3>2, <3>5 DEF LifecycleFor
      <4>. QED BY <3>5, <4>1, <4>2, <4>3, <4>4, <4>5 DEF Answered, Substantiates
    <3>. QED BY <1>2, <3>2, <3>3, <3>6 DEF PipelineInv
  <2>3. CASE UNCHANGED vars
    <3>1. Outcome' = Outcome /\ NoRun' = NoRun /\ NoAnswer' = NoAnswer /\ (Answered' <=> Answered)
      BY <2>3 DEF Outcome, LifecycleFor, NoRun, NoAnswer, Answered, vars
    <3>. QED BY <1>2, <2>3, <3>1 DEF PipelineInv, vars
  <2>. QED BY <1>2, <2>1, <2>2, <2>3 DEF Next
<1>. QED BY <1>1, <1>2, PTL DEF Spec

(* What is assumed of the datasets, said of their members.                 *)
LEMMA DatasetRows ==
  ASSUME NEW data \in Datasets
  PROVE  /\ IsSequence(data) /\ \A r \in ToSet(data) : Normalized(r)
         /\ \A i, j \in DOMAIN data : data[i].row = data[j].row => i = j
<1>1. \A i \in DOMAIN data : Normalized(data[i])
  BY DatasetsAssumption
<1>2. \A r \in ToSet(data) : Normalized(r)
  BY <1>1 DEF ToSet
<1>. QED BY <1>2, DatasetsAssumption DEF IsSequence

(* What a completed run says of an order.                                  *)
LEMMA CompletedRun ==
  ASSUME PipelineInv, run.status = "COMPLETED", NEW order \in DOMAIN run.results
  PROVE  /\ Constructible(rows) /\ ConsumedCount(Lifecycles(rows)) = Len(rows)
         /\ order \in Orders(rows)
         /\ ~Raises(LifecycleFor(order))
         /\ LifecycleOver(LifecycleFor(order), ToSet(rows))
         /\ run.results[order] = Reconcile(LifecycleFor(order))
<1>1. run = Outcome
  BY DEF PipelineInv, NoRun
<1>2. /\ Constructible(rows) /\ ConsumedCount(Lifecycles(rows)) = Len(rows)
      /\ \A l \in Lifecycles(rows) : ~Raises(l)
      /\ run.results = [o \in Orders(rows) |-> Reconcile(LifecycleFor(o))]
  BY <1>1 DEF Outcome, Failed, Raised
<1>3. order \in Orders(rows) /\ run.results[order] = Reconcile(LifecycleFor(order))
  BY <1>2
<1>4. LifecycleFor(order) \in Lifecycles(rows)
  BY <1>3 DEF Lifecycles, LifecycleFor
<1>5. LifecycleOver(LifecycleFor(order), ToSet(rows))
  BY <1>2, <1>3, DatasetRows, LifecycleIsOverRows DEF LifecycleFor, PipelineInv
<1>. QED BY <1>2, <1>3, <1>4, <1>5

-----------------------------------------------------------------------------
(***************************************************************************)
(* The tools and the verifier read the rows alike.                         *)
(***************************************************************************)

(* The records of a source are a collection of the lifecycle, or its       *)
(* order.                                                                  *)
LEMMA RowsForSource ==
  ASSUME NEW S, NEW l, LifecycleOver(l, S), NEW source \in Source
  PROVE  RowsFor(l, source) \in Seq(S)
<1>1. l.order \in S /\ <<l.order>> \in Seq(S)
  BY DEF LifecycleOver
<1>2. CASE source = "order"
  BY <1>1, <1>2 DEF RowsFor
<1>3. CASE source = "payment"
  BY <1>3 DEF RowsFor, LifecycleOver
<1>4. CASE source = "settlement"
  BY <1>4 DEF RowsFor, LifecycleOver
<1>5. CASE source = "invoice"
  BY <1>5 DEF RowsFor, LifecycleOver
<1>6. CASE source = "refund"
  BY <1>6 DEF RowsFor, LifecycleOver
<1>7. CASE source = "inventory"
  BY <1>7 DEF RowsFor, LifecycleOver
<1>8. CASE source = "employee_action"
  BY <1>8 DEF RowsFor, LifecycleOver
<1>. QED BY <1>2, <1>3, <1>4, <1>5, <1>6, <1>7, <1>8 DEF Source

(* What is cited is a field of the row, or the value it should have.       *)
LEMMA FactsOfRow ==
  ASSUME NEW source, NEW row, NEW id, NEW item \in RecordFacts(source, row, id),
         \E field \in FieldsOf[source] : Present(row, field)
  PROVE  /\ item.source = source /\ item.record = id
         /\ \/ /\ item.field \in FieldsOf[source] /\ Present(row, item.field)
               /\ item.operator = "equals" /\ item.expected = row[item.field]
            \/ /\ source = "inventory" /\ Miscalculated(row)
               /\ item.field = "inventory_value_minor" /\ item.operator = "not_equals"
               /\ item.expected = TextOf(Minor(row, "unit_cost_minor") * Minor(row, "quantity"))
<1> DEFINE stated == {Citation(source, id, field, "equals", row[field]) :
                        field \in {f \in FieldsOf[source] : Present(row, f)}}
           product == TextOf(Minor(row, "unit_cost_minor") * Minor(row, "quantity"))
           error == Citation(source, id, "inventory_value_minor", "not_equals", product)
           wrong == IF source = "inventory" /\ Miscalculated(row) THEN {error} ELSE {}
<1>1. RecordFacts(source, row, id) = IF stated \cup wrong = {}
                                     THEN {Citation(source, id, None, "exists", None)}
                                     ELSE stated \cup wrong
  BY DEF RecordFacts
<1>2. stated # {}
  OBVIOUS
<1>3. item \in stated \cup wrong
  BY <1>1, <1>2
<1>4. CASE item \in stated
  <2>1. PICK field \in FieldsOf[source] :
          Present(row, field) /\ item = Citation(source, id, field, "equals", row[field])
    BY <1>4
  <2>. QED BY <2>1 DEF Citation
<1>5. CASE item \in wrong
  <2>1. source = "inventory" /\ Miscalculated(row) /\ item = error
    BY <1>5
  <2> HIDE DEF product
  <2>2. /\ error.source = source /\ error.record = id /\ error.field = "inventory_value_minor"
        /\ error.operator = "not_equals" /\ error.expected = product
    BY DEF Citation
  <2>. QED BY <2>1, <2>2 DEF product
<1>. QED BY <1>3, <1>4, <1>5

(* A fact of a row that can be cited is found again by the verifier.       *)
LEMMA FactsVerify ==
  ASSUME NEW S, \A r \in S : Normalized(r), NEW l, LifecycleOver(l, S),
         NEW source \in Source, Citable(l, source),
         source = "inventory" => ~Refuses("get_inventory_movements", l),
         NEW item \in Facts(l, source)
  PROVE  Verified(item, l)
<1> DEFINE records == RowsFor(l, source)
           id == IdOf[source]
<1>1. records \in Seq(S)
  BY RowsForSource
<1>2. PICK i \in DOMAIN records : item \in RecordFacts(source, records[i], records[i][id])
  BY DEF Facts
<1> DEFINE row == records[i]
           same == {r \in ToSet(records) : Get(r, id) = item.record}
           cited == Pick(records, same)
<1>3. /\ Given(row, id) /\ \E field \in FieldsOf[source] : Present(row, field)
      /\ \A j \in DOMAIN records : Get(records[j], id) = Get(row, id) => j = i
  BY DEF Citable
<1>4. row \in S
  <2> HIDE DEF records
  <2>. QED BY <1>1
<1>5. Get(row, id) = row[id] /\ row[id] # None
  BY <1>3 DEF Given, Get
<1>6. /\ item.source = source /\ item.record = row[id]
      /\ \/ /\ item.field \in FieldsOf[source] /\ Present(row, item.field)
            /\ item.operator = "equals" /\ item.expected = row[item.field]
         \/ /\ source = "inventory" /\ Miscalculated(row)
            /\ item.field = "inventory_value_minor" /\ item.operator = "not_equals"
            /\ item.expected = TextOf(Minor(row, "unit_cost_minor") * Minor(row, "quantity"))
  BY <1>2, <1>3, FactsOfRow
<1>7. cited # <<>> /\ cited[1] = row
  <2>1. row \in same
    BY <1>5, <1>6 DEF ToSet
  <2> HIDE DEF records, same, row
  <2>2. cited \in Seq(S) /\ ToSet(cited) = ToSet(records) \cap same
    BY <1>1, PickIsPicked
  <2>3. row \in ToSet(cited)
    BY <2>1, <2>2 DEF same
  <2>4. cited # <<>>
    BY <2>3, ToSetOfEmpty
  <2>5. cited[1] \in ToSet(cited)
    <3> HIDE DEF cited
    <3>1. 1 \in DOMAIN cited
      BY <2>2, <2>4
    <3>. QED BY <3>1 DEF ToSet
  <2>6. cited[1] \in ToSet(records) /\ Get(cited[1], id) = row[id]
    BY <1>6, <2>2, <2>5 DEF same
  <2>7. PICK j \in DOMAIN records : cited[1] = records[j]
    BY <2>6 DEF ToSet
  <2>8. j = i
    BY <1>3, <1>5, <2>6, <2>7
  <2>. QED BY <2>4, <2>7, <2>8 DEF row
<1> HIDE DEF row, cited
<1>8. CASE /\ item.field \in FieldsOf[source] /\ Present(row, item.field)
           /\ item.operator = "equals" /\ item.expected = row[item.field]
  <2>1. item.field # None
    BY <1>8, TextAssumption DEF Words
  <2>2. Get(row, item.field) = row[item.field] /\ row[item.field] # None
    BY <1>8 DEF Present, Given, Get
  <2>3. Get(row, item.field) \notin NotANumber
    <3>1. \A field \in FieldsOf[source] : Get(records[i], field) \notin NotANumber
      BY DEF Citable
    <3>. QED BY <1>8, <3>1 DEF row
  <2>5. Compare(Get(row, item.field), item.operator, item.expected)
    BY <1>8, <2>2, <2>3 DEF Compare, Alike
  <2>4. OfRecord(item, l)
    BY <1>6, <1>7, <2>1, <2>5 DEF OfRecord, cited
  <2>. QED BY <1>5, <1>6, <2>4 DEF Verified
<1>9. CASE /\ source = "inventory" /\ Miscalculated(row)
           /\ item.field = "inventory_value_minor" /\ item.operator = "not_equals"
           /\ item.expected = TextOf(Minor(row, "unit_cost_minor") * Minor(row, "quantity"))
  <2> DEFINE product == Minor(row, "unit_cost_minor") * Minor(row, "quantity")
             value == row["inventory_value_minor"]
  <2>1. /\ Priced(row) /\ Minor(row, "inventory_value_minor") # product
        /\ Present(row, "unit_cost_minor") /\ Present(row, "quantity")
        /\ Present(row, "inventory_value_minor")
    BY <1>9 DEF Miscalculated, Priced
  <2>2. row \in ToSet(l.inventory_movements)
    BY <1>9 DEF row, RowsFor, ToSet
  <2>3. row["quantity"] \in DOMAIN Amount
    <3>1. \A j \in DOMAIN l.inventory_movements :
            Priced(l.inventory_movements[j]) => l.inventory_movements[j].quantity \in DOMAIN Amount
      BY <1>9 DEF Refuses, Some
    <3>. QED BY <2>1, <2>2, <3>1 DEF ToSet
  <2>4. row["unit_cost_minor"] \in DOMAIN Amount /\ value \in DOMAIN Amount
    BY <1>4, <2>1 DEF Normalized, MoneyFields
  <2>5. /\ Get(row, "unit_cost_minor") = row["unit_cost_minor"]
        /\ Get(row, "quantity") = row["quantity"]
        /\ Get(row, "inventory_value_minor") = value /\ value # None
    BY <2>1 DEF Present, Given, Get
  <2>6. \E text \in DOMAIN Amount : Amount[text] = product
    BY <1>4, <2>3, <2>4, <2>5 DEF Normalized
  <2> HIDE DEF product
  <2>7. item.expected \in DOMAIN Amount /\ Amount[item.expected] = product
    BY <1>9, <2>6 DEF TextOf, product
  <2>8. Amount[value] # product
    BY <2>1 DEF Minor
  <2> HIDE DEF value
  <2>9. Normal(value) # Normal(item.expected)
    BY <2>4, <2>7, <2>8 DEF Normal, IsNumber, Number
  <2>10. Compare(Get(row, item.field), item.operator, item.expected)
    BY <1>9, <2>5, <2>9 DEF Compare, Alike
  <2>11. item.field # None
    BY <1>9, TextAssumption DEF Words, FieldsOf, Source
  <2>12. OfRecord(item, l)
    BY <1>6, <1>7, <2>10, <2>11 DEF OfRecord, cited
  <2>. QED BY <1>5, <1>6, <2>12 DEF Verified
<1>. QED BY <1>6, <1>8, <1>9

(* So is the claim that a source has no records.                           *)
LEMMA AbsenceVerifies ==
  ASSUME NEW l, NEW source \in Source, RowsFor(l, source) = <<>>,
         NEW item \in Absence(source, IdOf[source], None)
  PROVE  Verified(item, l)
<1>1. /\ item.source = source /\ item.record = None /\ item.field = IdOf[source]
      /\ item.operator = "missing" /\ item.expected = None
  BY DEF Absence, Citation
<1>2. IdOf[source] # None
  BY TextAssumption DEF Words
<1>3. DOMAIN RowsFor(l, source) = {}
  OBVIOUS
<1>4. NoneSuch(item, l)
  BY <1>1, <1>2, <1>3 DEF NoneSuch, Some
<1>. QED BY <1>1, <1>4 DEF Verified

(* So is the claim that no goods came back, when returns are written in    *)
(* upper case.                                                             *)
LEMMA NoReturnVerifies ==
  ASSUME NEW l, ReturnsInUpperCase(l),
         \A i \in DOMAIN l.inventory_movements :
           Get(l.inventory_movements[i], "movement_type") # "RETURN",
         NEW item \in Absence("inventory", "movement_type", "RETURN")
  PROVE  Verified(item, l)
<1>1. /\ item.source = "inventory" /\ item.record = None /\ item.field = "movement_type"
      /\ item.operator = "missing" /\ item.expected = "RETURN"
  BY DEF Absence, Citation
<1>2. "movement_type" # None /\ "RETURN" # None
  BY TextAssumption DEF Words, FieldsOf, Source
<1>3. Normal("RETURN") = <<"text", "RETURN">>
  BY TextAssumption DEF Normal, IsNumber, Number, Upper
<1>4. ASSUME NEW i \in DOMAIN l.inventory_movements
      PROVE  Normal(Get(l.inventory_movements[i], "movement_type")) # Normal("RETURN")
  <2> DEFINE type == Get(l.inventory_movements[i], "movement_type")
  <2>1. Upper(type) # "RETURN"
    BY DEF ReturnsInUpperCase, OfType
  <2> HIDE DEF type
  <2>2. Normal(type) # <<"text", "RETURN">>
    BY <2>1 DEF Normal
  <2>. QED BY <1>3, <2>2 DEF type
<1>5. RowsFor(l, "inventory") = l.inventory_movements
  BY DEF RowsFor
<1>6. NoneSuch(item, l)
  BY <1>1, <1>2, <1>4, <1>5 DEF NoneSuch, Some, Alike
<1>. QED BY <1>1, <1>6 DEF Verified

(* What a tool returns is a fact of a source or an absence.                *)
LEMMA InvokeIsOfSource ==
  ASSUME NEW l, NEW tool \in Tools, NEW item \in Invoke(tool, l)
  PROVE  \/ \E source \in Source :
              \/ /\ item \in Facts(l, source)
                 /\ source = "inventory" => tool = "get_inventory_movements"
              \/ RowsFor(l, source) = <<>> /\ item \in Absence(source, IdOf[source], None)
         \/ /\ \A i \in DOMAIN l.inventory_movements :
                 Get(l.inventory_movements[i], "movement_type") # "RETURN"
            /\ item \in Absence("inventory", "movement_type", "RETURN")
<1> DEFINE Reported(source) ==
             \/ item \in Facts(l, source)
             \/ RowsFor(l, source) = <<>> /\ item \in Absence(source, IdOf[source], None)
<1>0. \A source : item \in FactsOrAbsence(l, source) => Reported(source)
  BY DEF FactsOrAbsence
<1>1. CASE tool = "get_order"
  <2>1. item \in Facts(l, "order")
    BY <1>1 DEF Invoke
  <2>. QED BY <2>1 DEF Source
<1>2. CASE tool \in {"get_payment", "get_payments_for_order"}
  <2>1. item \in Facts(l, "payment")
    BY <1>2 DEF Invoke
  <2>. QED BY <2>1 DEF Source
<1>3. CASE tool = "get_settlement"
  <2>1. item \in Facts(l, "settlement")
    BY <1>3 DEF Invoke
  <2>. QED BY <2>1 DEF Source
<1>4. CASE tool \in {"get_settlements_for_payment", "get_settlements_for_order"}
  <2>1. item \in FactsOrAbsence(l, "settlement")
    BY <1>4 DEF Invoke
  <2>. QED BY <1>0, <2>1 DEF Source
<1>5. CASE tool = "get_refunds_for_payment"
  <2>1. item \in Facts(l, "refund")
    BY <1>5 DEF Invoke
  <2>. QED BY <2>1 DEF Source
<1>6. CASE tool = "get_refunds_for_order"
  <2>1. item \in FactsOrAbsence(l, "refund")
    BY <1>6 DEF Invoke
  <2>. QED BY <1>0, <2>1 DEF Source
<1>7. CASE tool = "get_invoice_for_order"
  <2>1. item \in FactsOrAbsence(l, "invoice")
    BY <1>7 DEF Invoke
  <2>. QED BY <1>0, <2>1 DEF Source
<1>8. CASE tool = "get_inventory_movements"
  <2> DEFINE listed == Some(l.inventory_movements, LAMBDA row : Get(row, "movement_type") = "RETURN")
  <2>1. item \in Facts(l, "inventory")
                   \cup IF listed THEN {} ELSE Absence("inventory", "movement_type", "RETURN")
    BY <1>8 DEF Invoke
  <2>2. CASE item \in Facts(l, "inventory")
    BY <1>8, <2>2 DEF Source
  <2>3. CASE ~listed /\ item \in Absence("inventory", "movement_type", "RETURN")
    BY <2>3 DEF Some
  <2>. QED BY <2>1, <2>2, <2>3
<1>9. CASE tool = "get_employee_action_logs"
  <2>1. item \in Facts(l, "employee_action")
    BY <1>9 DEF Invoke
  <2>. QED BY <2>1 DEF Source
<1>. QED BY <1>1, <1>2, <1>3, <1>4, <1>5, <1>6, <1>7, <1>8, <1>9 DEF Tools

(* The tools say that a value is not the product only of a movement whose  *)
(* value the rules find wrong too.                                         *)
LEMMA MiscalculatedIsMisvalued ==
  ASSUME NEW l, NEW item \in Evidence(l), item.operator = "not_equals"
  PROVE  Fact("INVENTORY_VALUE_CALCULATION_ERROR", l)
<1>1. PICK tool \in Tools : item \in Invoke(tool, l)
  BY DEF Evidence
<1>2. \A source, field, expected : item \notin Absence(source, field, expected)
  BY DEF Absence, Citation
<1>3. PICK source \in Source : item \in Facts(l, source)
  BY <1>1, <1>2, InvokeIsOfSource
<1> DEFINE records == RowsFor(l, source)
<1>4. PICK i \in DOMAIN records : item \in RecordFacts(source, records[i], records[i][IdOf[source]])
  BY <1>3 DEF Facts
<1> DEFINE row == records[i]
           id == records[i][IdOf[source]]
<1>5. source = "inventory" /\ Miscalculated(row)
  <2> HIDE DEF row, id
  <2>1. item \in RecordFacts(source, row, id)
    BY <1>4 DEF row, id
  <2>. QED BY <2>1 DEF RecordFacts, Citation
<1>6. records = l.inventory_movements
  BY <1>5 DEF RowsFor
<1>7. Misvalued(row)
  <2> HIDE DEF row
  <2>1. Priced(row) /\ "quantity" \in DOMAIN row
    BY <1>5 DEF Miscalculated, Priced, Present, Given, Get
  <2>2. Cost(row) = Minor(row, "unit_cost_minor") * Minor(row, "quantity")
    BY <2>1 DEF Cost, Quantity
  <2>. QED BY <1>5, <2>1, <2>2 DEF Miscalculated, Priced, Misvalued, Differs
<1>. QED BY <1>4, <1>6, <1>7 DEF Fact, Some

(* An answer that stays SUPPORTED after verification states a fact of the  *)
(* rows of its order, for every dataset, root cause and action: of the two *)
(* root causes of an inventory value one or the other, and the calculation *)
(* error itself when it rests on the tools' evidence alone.                *)
(* (reconcile_lifecycle, _exception_type and verify_candidate together)    *)
THEOREM SupportedFacts == Spec => []SupportedIsFact
<1>1. PipelineInv => SupportedIsFact
  <2> SUFFICES ASSUME PipelineInv, IsStated PROVE SupportedIsFact
    BY DEF SupportedIsFact
  <2> DEFINE l == LifecycleFor(answer.order)
  <2>0. answer.status = "SUPPORTED" /\ answer.type \in DOMAIN Expected /\ answer.root \notin Unstated
    BY DEF IsStated
  <2>1. answer # NoAnswer
    BY <2>0, TextAssumption DEF NoAnswer, Words
  <2>2. /\ run.status = "COMPLETED" /\ answer.order \in DOMAIN run.results
        /\ answer.type = TypeFor(run.results[answer.order])
        /\ answer.root \in Expected[answer.type]
        /\ answer.own => Substantiates(answer.root, Evidence(l))
    BY <2>0, <2>1 DEF PipelineInv, Answered
  <2>3. answer.type = TypeFor(Reconcile(l))
    BY <2>2, CompletedRun
  <2>4. LifecycleOver(l, ToSet(rows)) /\ ~Raises(l) /\ \A r \in ToSet(rows) : Normalized(r)
    BY <2>2, CompletedRun, DatasetRows DEF PipelineInv
  <2> HIDE DEF l
  <2>5. Grounded(answer.type, l)
    BY <2>0, <2>3, <2>4, ReconciledTypeIsGrounded
  <2>6. answer.root \in ValueRoots <=> answer.type = "INVENTORY_VALUE_MISMATCH"
    BY <2>0, <2>2, ExpectedRoots DEF ValueRoots
  <2>7. answer.root \notin ValueRoots => Fact(answer.root, l)
    BY <2>0, <2>2, <2>5, <2>6 DEF Grounded
  <2>8. answer.root \in ValueRoots => \E root \in ValueRoots : Fact(root, l)
    BY <2>5, <2>6 DEF Grounded
  <2>9. answer.root = "INVENTORY_VALUE_CALCULATION_ERROR" /\ answer.own => Fact(answer.root, l)
    BY <2>2, MiscalculatedIsMisvalued DEF Substantiates
  <2>. QED BY <2>7, <2>8, <2>9 DEF SupportedIsFact, l
<1>. QED BY <1>1, InvHolds, PTL

(* Whatever the tools report of an order whose records can be cited, the   *)
(* verifier accepts, for every dataset. (tools.py against verifier.py)     *)
THEOREM ToolEvidence == Spec => []ToolEvidenceVerifies
<1>1. PipelineInv => ToolEvidenceVerifies
  <2> SUFFICES ASSUME PipelineInv, run.status = "COMPLETED", NEW order \in DOMAIN run.results,
                      \A source \in Source : Citable(LifecycleFor(order), source),
                      ReturnsInUpperCase(LifecycleFor(order)),
                      NEW item \in Evidence(LifecycleFor(order))
               PROVE  Verified(item, LifecycleFor(order))
    BY DEF ToolEvidenceVerifies
  <2> DEFINE l == LifecycleFor(order)
  <2>1. LifecycleOver(l, ToSet(rows)) /\ \A r \in ToSet(rows) : Normalized(r)
    BY CompletedRun, DatasetRows DEF PipelineInv
  <2>2. PICK tool \in Tools : ~Refuses(tool, l) /\ item \in Invoke(tool, l)
    BY DEF Evidence
  <2> HIDE DEF l
  <2>3. ASSUME NEW source \in Source, item \in Facts(l, source),
               source = "inventory" => tool = "get_inventory_movements"
        PROVE  Verified(item, l)
    BY <2>1, <2>2, <2>3, FactsVerify DEF l
  <2>4. ASSUME NEW source \in Source, RowsFor(l, source) = <<>>,
               item \in Absence(source, IdOf[source], None)
        PROVE  Verified(item, l)
    BY <2>4, AbsenceVerifies
  <2>5. ASSUME \A i \in DOMAIN l.inventory_movements :
                 Get(l.inventory_movements[i], "movement_type") # "RETURN",
               item \in Absence("inventory", "movement_type", "RETURN")
        PROVE  Verified(item, l)
    BY <2>5, NoReturnVerifies DEF l
  <2>6. Verified(item, l)
    BY <2>2, <2>3, <2>4, <2>5, InvokeIsOfSource
  <2>. QED BY <2>6 DEF l
<1>. QED BY <1>1, InvHolds, PTL

-----------------------------------------------------------------------------
(***************************************************************************)
(* What is left of an order that is reconciled.                            *)
(***************************************************************************)

(* An order is called reconciled only after every rule has run on one      *)
(* payment and a settlement, and found at most a variance.                 *)
LEMMA ReconciledHasOnlyVariances ==
  ASSUME NEW S, NEW l, LifecycleOver(l, S),
         Reconcile(l).status \in {"RECONCILED", "RECONCILED_WITH_VARIANCE"}
  PROVE  /\ Len(l.payments) = 1 /\ l.settlements # <<>>
         /\ Codes(Findings(l)) \subseteq Variance
<1> DEFINE status == Reconcile(l).status
           Early(kind, type, code, severity, category) == Single(kind, type, code, severity, l, category)
<1>0. Len(l.payments) \in Nat
  BY DEF LifecycleOver
<1>1. \A n \in Nat : (n > 1 \/ n = 0 \/ n = 1) /\ (n > 1 => n # 0 /\ n # 1)
  OBVIOUS
<1>2. \A kind, type, code, severity, category :
        Early(kind, type, code, severity, category).status = kind
  BY DEF Single, Result
<1> HIDE DEF Early
<1>3. ASSUME Len(l.payments) > 1 PROVE FALSE
  <2>1. Len(l.payments) # 0 /\ Len(l.payments) # 1
    BY <1>0, <1>1, <1>3, Zenon
  <2>2. CASE IsDuplicate(l)
    <3>1. Reconcile(l) = Early("EXCEPTION", "DUPLICATE_PAYMENT", "DUPLICATE_PAYMENT", "HIGH",
                               "POTENTIAL_EXPOSURE")
      BY <1>3, <2>1, <2>2 DEF Reconcile, Early
    <3>. QED BY <1>2, <3>1
  <2>3. CASE ~IsDuplicate(l)
    <3>1. Reconcile(l) = Early("AMBIGUOUS", "AMBIGUOUS_ASSOCIATION", "AMBIGUOUS_ASSOCIATION", "HIGH",
                               "POTENTIAL_EXPOSURE")
      BY <1>3, <2>1, <2>3 DEF Reconcile, Early
    <3>. QED BY <1>2, <3>1
  <2>. QED BY <2>2, <2>3
<1>4. ASSUME Len(l.payments) = 0 PROVE FALSE
  <2>1. Reconcile(l) = Early("EXCEPTION", "PAYMENT_MISSING", "PAYMENT_MISSING", "HIGH", "DATA_QUALITY")
    BY <1>4 DEF Reconcile, Early
  <2>. QED BY <1>2, <2>1
<1>5. Len(l.payments) = 1
  BY <1>0, <1>1, <1>3, <1>4, Zenon
<1>6. ASSUME l.settlements = <<>> PROVE FALSE
  <2>1. Reconcile(l) = Early("EXCEPTION", "MISSING_SETTLEMENT", "SETTLEMENT_MISSING", "MEDIUM",
                             "DATA_QUALITY")
    BY <1>5, <1>6 DEF Reconcile, Early
  <2>. QED BY <1>2, <2>1
<1> DEFINE findings == Findings(l)
<1>7. status = Concluded(findings).status
  BY <1>5, <1>6 DEF Reconcile
<1> HIDE DEF findings
<1>8. CASE findings = <<>>
  <2>1. Codes(findings) = {}
    BY <1>8, CodesOfNone
  <2>. QED BY <1>5, <1>6, <2>1 DEF findings
<1>9. CASE findings # <<>>
  <2>1. \A i \in DOMAIN findings : findings[i].code \in Variance
    BY <1>7, <1>9 DEF Concluded, Result
  <2>2. Codes(findings) \subseteq Variance
    BY <2>1 DEF Codes, ToSet
  <2>. QED BY <1>5, <1>6, <2>2 DEF findings
<1>. QED BY <1>8, <1>9

(* What the absence of every other finding says of the lifecycle.          *)
LEMMA WithoutExceptions ==
  ASSUME NEW S, NEW l, LifecycleOver(l, S), Codes(Findings(l)) \subseteq Variance,
         NEW sold, NEW returned, sold = Movements(l, "SALE"), returned = Movements(l, "RETURN")
  PROVE  /\ ~Differs(l.payments[1], "amount_minor", OrderAmount(l))
         /\ ~(Len(l.settlements) > 1) /\ ~(Len(l.refunds) > 1)
         /\ \A i \in DOMAIN l.settlements :
              /\ ~(/\ Present(l.payments[1], "amount_minor")
                   /\ Differs(l.settlements[i], "gross_minor", Minor(l.payments[1], "amount_minor")))
              /\ (\A field \in NetFields : Present(l.settlements[i], field)) =>
                   Minor(l.settlements[i], "net_minor") =
                     Minor(l.settlements[i], "gross_minor") - Minor(l.settlements[i], "fees_minor")
                       - Minor(l.settlements[i], "tax_minor")
         /\ l.invoices # <<>> /\ Minor(l.invoices[1], "gross_minor") = OrderAmount(l)
         /\ l.refunds = <<>> => returned = <<>>
         /\ l.refunds # <<>> =>
              /\ ~(Minor(l.refunds[1], "amount_minor") < OrderAmount(l))
              /\ returned # <<>>
              /\ sold # <<>> => Total(sold, Quantity) = Total(returned, Quantity) /\ ValueGap(l) = 0
              /\ \/ Get(l.invoices[1], "status") # "ACTIVE"
                 \/ \E i \in DOMAIN l.invoices : Get(l.invoices[i], "status") = "REVERSED"
<1>0. /\ IsSequence(l.payments) /\ IsSequence(l.settlements) /\ IsSequence(l.refunds)
      /\ IsSequence(l.inventory_movements)
  BY LifecycleSequences
<1>1. /\ Codes(PaymentFindings(l)) \subseteq Variance /\ Codes(InvoiceFindings(l)) \subseteq Variance
      /\ Codes(InventoryFindings(l)) \subseteq Variance /\ Codes(RefundFindings(l)) \subseteq Variance
  BY <1>0, FindingCodes
<1>2. /\ "PAYMENT_AMOUNT_MISMATCH" \notin Variance /\ "MULTIPLE_SETTLEMENTS_REVIEW" \notin Variance
      /\ "MULTIPLE_REFUNDS_REVIEW" \notin Variance /\ "SETTLEMENT_GROSS_MISMATCH" \notin Variance
      /\ "SETTLEMENT_NET_MISMATCH" \notin Variance /\ "ERP_INVOICE_MISSING" \notin Variance
      /\ "ERP_AMOUNT_MISMATCH" \notin Variance /\ "INVENTORY_RESTORED_WITHOUT_REFUND" \notin Variance
      /\ "PARTIAL_REFUND_MISMATCH" \notin Variance /\ "INVENTORY_RETURN_MISSING" \notin Variance
      /\ "INVENTORY_QUANTITY_MISMATCH" \notin Variance /\ "INVENTORY_VALUE_MISMATCH" \notin Variance
      /\ "ERP_REVERSAL_MISSING" \notin Variance
  BY DEF Variance
<1>3. /\ ~Differs(l.payments[1], "amount_minor", OrderAmount(l))
      /\ ~(Len(l.settlements) > 1) /\ ~(Len(l.refunds) > 1)
  BY <1>0, <1>1, <1>2, PaymentCodes
<1>4. ASSUME NEW i \in DOMAIN l.settlements
      PROVE  /\ ~(/\ Present(l.payments[1], "amount_minor")
                  /\ Differs(l.settlements[i], "gross_minor", Minor(l.payments[1], "amount_minor")))
             /\ (\A field \in NetFields : Present(l.settlements[i], field)) =>
                   Minor(l.settlements[i], "net_minor") =
                     Minor(l.settlements[i], "gross_minor") - Minor(l.settlements[i], "fees_minor")
                       - Minor(l.settlements[i], "tax_minor")
  <2> DEFINE row == l.settlements[i]
             payment == l.payments[1]
  <2>1. Codes(GrossFindings(payment, row)) \subseteq Variance /\ Codes(NetFindings(row)) \subseteq Variance
    BY <1>0, <1>1, PaymentCodes
  <2> HIDE DEF row, payment
  <2>2. /\ Present(payment, "amount_minor")
        /\ Differs(row, "gross_minor", Minor(payment, "amount_minor"))
        => "SETTLEMENT_GROSS_MISMATCH" \in Codes(GrossFindings(payment, row))
    BY CodesOfSingleton DEF GrossFindings, When
  <2> DEFINE expected == Minor(row, "gross_minor") - Minor(row, "fees_minor") - Minor(row, "tax_minor")
             wrong == /\ \A field \in NetFields : Present(row, field)
                      /\ expected # Minor(row, "net_minor")
             exposure == Distance(expected, Minor(row, "net_minor"))
  <2>3. NetFindings(row) = When(wrong, Finding("SETTLEMENT_NET_MISMATCH", exposure, "POTENTIAL_EXPOSURE"))
    BY DEF NetFindings
  <2>4. wrong => "SETTLEMENT_NET_MISMATCH" \in Codes(NetFindings(row))
    <3> HIDE DEF wrong, exposure
    <3>. QED BY <2>3, CodesOfSingleton DEF When
  <2>5. ~wrong
    <3> HIDE DEF wrong
    <3>. QED BY <1>2, <2>1, <2>4
  <2>. QED BY <1>2, <2>1, <2>2, <2>5 DEF row, payment
<1>5. l.invoices # <<>> /\ Minor(l.invoices[1], "gross_minor") = OrderAmount(l)
  BY <1>1, <1>2, InvoiceCodes
<1>6. l.refunds = <<>> => returned = <<>>
  BY <1>0, <1>1, <1>2, InventoryCodes
<1>7. ASSUME l.refunds # <<>>
      PROVE  /\ ~(Minor(l.refunds[1], "amount_minor") < OrderAmount(l))
             /\ returned # <<>>
             /\ sold # <<>> => Total(sold, Quantity) = Total(returned, Quantity) /\ ValueGap(l) = 0
             /\ \/ Get(l.invoices[1], "status") # "ACTIVE"
                \/ \E i \in DOMAIN l.invoices : Get(l.invoices[i], "status") = "REVERSED"
  <2>1. ~(Minor(l.refunds[1], "amount_minor") < OrderAmount(l))
    BY <1>1, <1>2, <1>7, RefundCodes
  <2>2. Codes(ReturnFindings(l)) \subseteq Variance
    BY <1>1, <1>7, <2>1, RefundCodes
  <2>3. /\ returned # <<>>
        /\ sold # <<>> => Total(sold, Quantity) = Total(returned, Quantity) /\ ValueGap(l) = 0
    BY <1>2, <2>2, ReturnCodes
  <2>4. \/ Get(l.invoices[1], "status") # "ACTIVE"
        \/ \E i \in DOMAIN l.invoices : Get(l.invoices[i], "status") = "REVERSED"
    BY <1>1, <1>2, <1>5, <1>7, RefundCodes DEF Some
  <2>. QED BY <2>1, <2>3, <2>4
<1>. QED BY <1>3, <1>4, <1>5, <1>6, <1>7

-----------------------------------------------------------------------------
(***************************************************************************)
(* What a lifecycle has of the dataset.                                    *)
(***************************************************************************)

(* _records_for_order takes the rows of a kind that name the order.        *)
LEMMA OfOrderIsOfRows ==
  ASSUME NEW data, IsSequence(data), NEW order, NEW kind
  PROVE  /\ OfOrder(data, order, kind) \in Seq(ToSet(data))
         /\ ToSet(OfOrder(data, order, kind)) =
              {r \in ToSet(data) : r.kind = kind /\ Get(r, "order_id") = order}
<1>1. data \in Seq(ToSet(data))
  BY DEF IsSequence
<1>. QED BY <1>1, PickIsPicked DEF OfOrder

(* Settlements and refunds are the rows of the order that name a payment   *)
(* of it, and the rows without an order that are keyed by one.             *)
LEMMA OfPaymentsIsOfRows ==
  ASSUME NEW data, IsSequence(data), NEW order, NEW kind, NEW id
  PROVE  /\ OfPayments(data, order, kind, id) \in Seq(ToSet(data))
         /\ ToSet(OfPayments(data, order, kind, id)) =
              {r \in ToSet(data) : /\ r.kind = kind /\ Get(r, "order_id") = order
                                   /\ Get(r, "payment_id") \in PaymentIds(data, order)}
                \cup {r \in ToSet(data) : /\ ByPayment(r) /\ r.payment_id \in PaymentIds(data, order)
                                          /\ Present(r, id)}
<1> DEFINE S == ToSet(data)
           of == OfOrder(data, order, kind)
           keyed == KeyedByPayment(data, order)
           paying == {r \in S : Get(r, "payment_id") \in PaymentIds(data, order)}
           identified == {r \in S : Present(r, id)}
<1>1. data \in Seq(S) /\ of \in Seq(S)
      /\ ToSet(of) = {r \in S : r.kind = kind /\ Get(r, "order_id") = order}
  BY OfOrderIsOfRows DEF IsSequence
<1>2. /\ keyed \in Seq(S)
      /\ ToSet(keyed) = {r \in S : ByPayment(r) /\ r.payment_id \in PaymentIds(data, order)}
  <2> HIDE DEF S
  <2>1. data \in Seq(S)
    BY <1>1
  <2>. QED BY <2>1, PickIsPicked DEF KeyedByPayment, S
<1>3. OfPayments(data, order, kind, id) = Pick(of, paying) \o Pick(keyed, identified)
  BY DEF OfPayments
<1> HIDE DEF of, keyed, S
<1>4. Pick(of, paying) \in Seq(S) /\ ToSet(Pick(of, paying)) = ToSet(of) \cap paying
  BY <1>1, PickIsPicked
<1>5. Pick(keyed, identified) \in Seq(S) /\ ToSet(Pick(keyed, identified)) = ToSet(keyed) \cap identified
  BY <1>2, PickIsPicked
<1> HIDE DEF paying, identified
<1>6. /\ OfPayments(data, order, kind, id) \in Seq(S)
      /\ ToSet(OfPayments(data, order, kind, id)) =
           (ToSet(of) \cap paying) \cup (ToSet(keyed) \cap identified)
  BY <1>3, <1>4, <1>5, ToSetOfConcat
<1>. QED BY <1>1, <1>2, <1>6 DEF S, paying, identified

(* The movements of a kind, read from the dataset.                         *)
LEMMA MovementsOfRows ==
  ASSUME NEW data, IsSequence(data), NEW order, NEW kind
  PROVE  Movements(LifecycleOf(data, order), kind) =
           Pick(data, {r \in {r \in ToSet(data) : /\ r.kind = "inventory_movements"
                                                  /\ Get(r, "order_id") = order} :
                         OfType(r, kind)})
<1> DEFINE S == ToSet(data)
           A == {r \in S : r.kind = "inventory_movements" /\ Get(r, "order_id") = order}
           B == {r \in A : OfType(r, kind)}
<1>1. LifecycleOf(data, order).inventory_movements = Pick(data, A)
  BY DEF LifecycleOf, OfOrder
<1>2. data \in Seq(S)
  BY DEF IsSequence
<1> HIDE DEF S
<1>3. ToSet(Pick(data, A)) = A
  <2>1. ToSet(Pick(data, A)) = ToSet(data) \cap A
    BY <1>2, PickIsPicked
  <2>. QED BY <2>1 DEF S
<1>4. Movements(LifecycleOf(data, order), kind) = Pick(Pick(data, A), B)
  BY <1>1, <1>3 DEF Movements
<1>5. Pick(Pick(data, A), B) = Pick(data, A \cap B)
  <2> HIDE DEF A, B
  <2>. QED BY <1>2, PickOfPick
<1>6. A \cap B = B
  OBVIOUS
<1>. QED BY <1>4, <1>5, <1>6 DEF S

(* Invoices: the one there is, or the active one first.                    *)
LEMMA InvoicesOfRows ==
  ASSUME NEW data, IsSequence(data), NEW order
  PROVE  /\ InvoicesOf(data, order) \in Seq(ToSet(data))
         /\ ToSet(InvoicesOf(data, order)) \subseteq
              {r \in ToSet(data) : r.kind = "invoices" /\ Get(r, "order_id") = order}
         /\ SingleInvoice(data, order) =>
              ToSet(InvoicesOf(data, order)) =
                {r \in ToSet(data) : r.kind = "invoices" /\ Get(r, "order_id") = order}
         /\ ~SingleInvoice(data, order) /\ InvoicesFit(data, order) =>
              Get(InvoicesOf(data, order)[1], "status") = "ACTIVE"
<1> DEFINE S == ToSet(data)
           of == OfOrder(data, order, "invoices")
           Stated(status) == {r \in S : Get(r, "status") = status}
           With(status) == Invoices(data, order, status)
<1>1. of \in Seq(S) /\ ToSet(of) = {r \in S : r.kind = "invoices" /\ Get(r, "order_id") = order}
  BY OfOrderIsOfRows
<1>2. \A status : With(status) = Pick(of, Stated(status))
  BY DEF Invoices
<1>3. InvoicesOf(data, order) = IF SingleInvoice(data, order) THEN of
                                ELSE With("ACTIVE") \o With("REVERSED")
  BY DEF InvoicesOf
<1>4. InvoicesFit(data, order) /\ ~SingleInvoice(data, order) => Len(With("ACTIVE")) = 1
  BY DEF InvoicesFit
<1> HIDE DEF S, of, With
<1>5. \A status : With(status) \in Seq(S) /\ ToSet(With(status)) = ToSet(of) \cap Stated(status)
  <2> TAKE status
  <2> HIDE DEF Stated
  <2>. QED BY <1>1, <1>2, PickIsPicked
<1>6. /\ With("ACTIVE") \o With("REVERSED") \in Seq(S)
      /\ ToSet(With("ACTIVE") \o With("REVERSED")) = ToSet(With("ACTIVE")) \cup ToSet(With("REVERSED"))
  BY <1>5, ToSetOfConcat
<1>7. ASSUME Len(With("ACTIVE")) = 1
      PROVE  Get((With("ACTIVE") \o With("REVERSED"))[1], "status") = "ACTIVE"
  <2>1. With("ACTIVE") \in Seq(S) /\ With("REVERSED") \in Seq(S)
    BY <1>5
  <2>2. (With("ACTIVE") \o With("REVERSED"))[1] = With("ACTIVE")[1] /\ 1 \in DOMAIN With("ACTIVE")
    BY <1>7, <2>1
  <2>3. With("ACTIVE")[1] \in ToSet(With("ACTIVE"))
    BY <2>2 DEF ToSet
  <2>. QED BY <1>5, <2>2, <2>3
<1>8. /\ InvoicesOf(data, order) \in Seq(S)
      /\ ToSet(InvoicesOf(data, order)) \subseteq ToSet(of)
      /\ SingleInvoice(data, order) => ToSet(InvoicesOf(data, order)) = ToSet(of)
  <2> HIDE DEF Stated
  <2>. QED BY <1>1, <1>3, <1>5, <1>6
<1>9. ~SingleInvoice(data, order) /\ InvoicesFit(data, order) =>
        Get(InvoicesOf(data, order)[1], "status") = "ACTIVE"
  BY <1>3, <1>4, <1>7
<1>. QED BY <1>1, <1>8, <1>9 DEF S

(* Employee actions without an order are keyed by an entity.               *)
LEMMA KeyedActionsOfRows ==
  ASSUME NEW data, IsSequence(data), NEW order
  PROVE  /\ KeyedActions(data, order) \in Seq(ToSet(data))
         /\ \A r \in ToSet(KeyedActions(data, order)) : ByEntity(r)
<1> DEFINE S == ToSet(data)
           refunds == {Get(r, "refund_id") : r \in ToSet(Refunds(data, order))} \ {None}
           actions == {r \in S : ByEntity(r)}
           A == {r \in actions : ~IsRefundAction(r) /\ r.entity_id = order}
           B == {r \in actions : IsRefundAction(r) /\ r.entity_id \in refunds}
<1>1. KeyedActions(data, order) = Pick(data, A) \o Pick(data, B)
  BY DEF KeyedActions
<1>2. A \subseteq actions /\ B \subseteq actions
  OBVIOUS
<1>3. data \in Seq(S)
  BY DEF IsSequence
<1> HIDE DEF A, B, S
<1>4. /\ Pick(data, A) \in Seq(S) /\ Pick(data, B) \in Seq(S)
      /\ ToSet(Pick(data, A)) = ToSet(data) \cap A /\ ToSet(Pick(data, B)) = ToSet(data) \cap B
  BY <1>3, PickIsPicked
<1>5. /\ KeyedActions(data, order) \in Seq(S)
      /\ ToSet(KeyedActions(data, order)) = ToSet(Pick(data, A)) \cup ToSet(Pick(data, B))
  BY <1>1, <1>4, ToSetOfConcat
<1>. QED BY <1>2, <1>4, <1>5 DEF S

(* The rows of a lifecycle, by collection.                                 *)
LEMMA RowsOfLifecycle ==
  ASSUME NEW l, NEW r \in RowsOf(l)
  PROVE  \/ r = l.order
         \/ r \in ToSet(l.payments) \/ r \in ToSet(l.settlements) \/ r \in ToSet(l.invoices)
         \/ r \in ToSet(l.refunds) \/ r \in ToSet(l.inventory_movements)
         \/ r \in ToSet(l.employee_actions)
<1>1. CASE r = l.order
  BY <1>1
<1>2. CASE \E collection \in Collection : r \in ToSet(l[collection])
  BY <1>2 DEF Collection
<1>. QED BY <1>1, <1>2 DEF RowsOf

(* A lifecycle takes a settlement or refund of no order by its id only.    *)
LEMMA UnidentifiedIsLeftOut ==
  ASSUME NEW data, IsSequence(data), Constructible(data), NEW order \in Orders(data),
         NEW r \in ToSet(data), r.kind \in {"settlements", "refunds"}, ~Present(r, "order_id"),
         ~Present(r, "settlement_id"), ~Present(r, "refund_id")
  PROVE  r \notin RowsOf(LifecycleOf(data, order))
<1> DEFINE l == LifecycleOf(data, order)
<1>1. Get(r, "order_id") # order
  <2>1. PICK x \in ToSet(data) : Present(x, "order_id") /\ order = x.order_id
    BY DEF Orders
  <2>2. order # None /\ order # ""
    BY <2>1 DEF Present, Given, Get
  <2>. QED BY <2>2 DEF Present, Given, Get
<1>2. \A kind : r \notin ToSet(OfOrder(data, order, kind))
  BY <1>1, OfOrderIsOfRows
<1>3. r \notin ToSet(l.settlements) /\ r \notin ToSet(l.refunds)
  <2>1. \A kind : \A id \in {"settlement_id", "refund_id"} : r \notin ToSet(OfPayments(data, order, kind, id))
    BY <1>1, OfPaymentsIsOfRows
  <2>. QED BY <2>1 DEF LifecycleOf, Refunds
<1>4. r \notin ToSet(l.invoices)
  <2>1. l.invoices = InvoicesOf(data, order)
    BY DEF LifecycleOf
  <2>. QED BY <1>1, <2>1, InvoicesOfRows
<1>5. r \notin ToSet(l.payments) /\ r \notin ToSet(l.inventory_movements)
  BY <1>2 DEF LifecycleOf
<1>6. r \notin ToSet(l.employee_actions)
  <2> DEFINE named == OfOrder(data, order, "employee_actions")
             keyed == KeyedActions(data, order)
  <2>1. l.employee_actions = named \o keyed
    BY DEF LifecycleOf
  <2>2. named \in Seq(ToSet(data)) /\ keyed \in Seq(ToSet(data))
    BY OfOrderIsOfRows, KeyedActionsOfRows
  <2>3. r \notin ToSet(named) /\ r \notin ToSet(keyed)
    BY <1>2, KeyedActionsOfRows DEF ByEntity
  <2> HIDE DEF named, keyed
  <2>. QED BY <2>1, <2>2, <2>3, ToSetOfConcat
<1>7. r # l.order
  <2> DEFINE orders == OfOrder(data, order, "orders")
  <2>1. Len(orders) = 1 /\ orders \in Seq(ToSet(data)) /\ l.order = orders[1]
    BY OfOrderIsOfRows DEF Constructible, LifecycleOf
  <2>2. r \notin ToSet(orders)
    BY <1>2
  <2> HIDE DEF orders
  <2>3. orders[1] \in ToSet(orders)
    BY <2>1 DEF ToSet
  <2>. QED BY <2>1, <2>2, <2>3
<1> HIDE DEF l
<1>8. r \notin RowsOf(l)
  BY <1>3, <1>4, <1>5, <1>6, <1>7, RowsOfLifecycle
<1>. QED BY <1>8 DEF l

(* When as many rows are consumed as there are, each one is: the count of  *)
(* ReconciliationService.run loses no row, since every row has a marker of *)
(* its own.                                                                *)
LEMMA EveryRowIsConsumed ==
  ASSUME NEW data \in Datasets, Constructible(data), ConsumedCount(Lifecycles(data)) = Len(data),
         NEW r \in ToSet(data)
  PROVE  \E order \in Orders(data) : r \in RowsOf(LifecycleOf(data, order))
<1> DEFINE consumed == UNION {RowsOf(l) : l \in Lifecycles(data)}
           markers == {x.row : x \in consumed}
           all == {data[i].row : i \in DOMAIN data}
           marker == [i \in 1..Len(data) |-> data[i].row]
<1>0. /\ IsSequence(data) /\ Len(data) \in Nat /\ DOMAIN data = 1..Len(data)
      /\ \A i, j \in DOMAIN data : data[i].row = data[j].row => i = j
  BY DatasetRows, Members
<1>1. \A order \in Orders(data) : \A x \in RowsOf(LifecycleOf(data, order)) : x \in ToSet(data)
  <2> SUFFICES ASSUME NEW order \in Orders(data), NEW x \in RowsOf(LifecycleOf(data, order))
               PROVE  x \in ToSet(data)
    OBVIOUS
  <2> DEFINE l == LifecycleOf(data, order)
  <2>1. LifecycleOver(l, ToSet(data))
    BY <1>0, LifecycleIsOverRows
  <2> HIDE DEF l
  <2>2. /\ l.order \in ToSet(data) /\ ToSet(l.payments) \subseteq ToSet(data)
        /\ ToSet(l.settlements) \subseteq ToSet(data) /\ ToSet(l.invoices) \subseteq ToSet(data)
        /\ ToSet(l.refunds) \subseteq ToSet(data) /\ ToSet(l.inventory_movements) \subseteq ToSet(data)
        /\ ToSet(l.employee_actions) \subseteq ToSet(data)
    BY <2>1, SequenceOfMembers DEF LifecycleOver
  <2>. QED BY <2>2, RowsOfLifecycle DEF l
<1>2. \A x \in consumed : \E order \in Orders(data) : x \in RowsOf(LifecycleOf(data, order))
  BY DEF Lifecycles
<1>3. markers \subseteq all
  <2>1. ASSUME NEW x \in consumed PROVE x.row \in all
    <3>1. x \in ToSet(data)
      BY <1>1, <1>2
    <3>. QED BY <3>1 DEF ToSet
  <2> HIDE DEF consumed, all
  <2>. QED BY <2>1
<1>4. IsFiniteSet(all) /\ Cardinality(all) <= Len(data)
  <2>1. marker \in Surjection(1..Len(data), all)
    BY <1>0 DEF Surjection
  <2>2. IsFiniteSet(1..Len(data)) /\ Cardinality(1..Len(data)) = Len(data)
    <3>1. \A n \in Nat : IsFiniteSet(1..n) /\ Cardinality(1..n) = n
      BY FS_Interval
    <3>. QED BY <1>0, <3>1
  <2> HIDE DEF marker, all
  <2>. QED BY <2>1, <2>2, FS_Surjection
<1>5. Cardinality(markers) = Len(data)
  BY DEF ConsumedCount
<1>6. markers = all
  <2> HIDE DEF markers, all
  <2>1. Cardinality(markers) <= Cardinality(all) /\ (Cardinality(all) = Cardinality(markers) => all = markers)
    BY <1>3, <1>4, FS_Subset
  <2>2. Cardinality(all) \in Nat
    BY <1>4, FS_CardinalityType
  <2>. QED BY <1>0, <1>4, <1>5, <2>1, <2>2
<1>7. r.row \in markers
  BY <1>6 DEF ToSet
<1>8. PICK x \in consumed : x.row = r.row
  BY <1>7
<1>9. x \in ToSet(data)
  BY <1>1, <1>2
<1>10. x = r
  BY <1>0, <1>8, <1>9 DEF ToSet
<1>. QED BY <1>2, <1>8, <1>10

-----------------------------------------------------------------------------
(***************************************************************************)
(* Reconciled orders balance.                                              *)
(***************************************************************************)

(* In a dataset whose rows are all consumed, the settlements and refunds   *)
(* of an order are all the rows that name one of its payments, and no      *)
(* order or this one.                                                      *)
LEMMA PayingIsOfPayments ==
  ASSUME NEW data \in Datasets, Constructible(data), ConsumedCount(Lifecycles(data)) = Len(data),
         NEW order \in Orders(data), NEW kind, NEW id,
         \/ kind = "settlements" /\ id = "settlement_id"
         \/ kind = "refunds" /\ id = "refund_id"
  PROVE  ToSet(OfPayments(data, order, kind, id)) =
           {r \in ToSet(data) :
              /\ r.kind = kind
              /\ Get(r, "order_id") = order \/ ~Present(r, "order_id")
              /\ \E p \in {x \in ToSet(data) : x.kind = "payments" /\ Get(x, "order_id") = order} :
                   Get(r, "payment_id") = Get(p, "payment_id")}
<1> DEFINE ids == PaymentIds(data, order)
           paid == ToSet(OfPayments(data, order, kind, id))
           payments == {x \in ToSet(data) : x.kind = "payments" /\ Get(x, "order_id") = order}
<1>1. IsSequence(data) /\ \A r \in ToSet(data) : Normalized(r)
  BY DatasetRows
<1>2. \A x : x \in ids <=> \E p \in payments : x = Get(p, "payment_id")
  BY <1>1, OfOrderIsOfRows DEF PaymentIds
<1>3. \A r : r \in paid <=>
        /\ r \in ToSet(data)
        /\ \/ r.kind = kind /\ Get(r, "order_id") = order /\ Get(r, "payment_id") \in ids
           \/ ByPayment(r) /\ r.payment_id \in ids /\ Present(r, id)
  BY <1>1, OfPaymentsIsOfRows
<1> HIDE DEF ids, paid, payments
<1>4. ASSUME NEW r \in paid
      PROVE  /\ r \in ToSet(data) /\ r.kind = kind
             /\ Get(r, "order_id") = order \/ ~Present(r, "order_id")
             /\ Get(r, "payment_id") \in ids
  <2>1. CASE r.kind = kind /\ Get(r, "order_id") = order /\ Get(r, "payment_id") \in ids
    BY <1>3, <2>1
  <2>2. CASE ByPayment(r) /\ r.payment_id \in ids /\ Present(r, id)
    <3>1. ~Present(r, "order_id") /\ r.kind \in {"settlements", "refunds"} /\ Present(r, "payment_id")
      BY <2>2 DEF ByPayment
    <3>2. Get(r, "payment_id") \in ids
      BY <2>2, <3>1 DEF Present, Given, Get
    <3>3. r.kind = kind
      BY <1>1, <1>3, <2>2, <3>1 DEF Normalized
    <3>. QED BY <1>3, <3>1, <3>2, <3>3
  <2>. QED BY <1>3, <2>1, <2>2
<1>5. ASSUME NEW r \in ToSet(data), r.kind = kind, Get(r, "payment_id") \in ids,
             Get(r, "order_id") = order \/ ~Present(r, "order_id")
      PROVE  r \in paid
  <2>1. CASE Get(r, "order_id") = order
    BY <1>3, <1>5, <2>1
  <2>2. CASE ~Present(r, "order_id")
    <3>1. ByPayment(r)
      <4>1. Keyed(r)
        BY <2>2 DEF Constructible
      <4>. QED BY <1>5, <4>1 DEF Keyed, ByEntity
    <3>2. r.payment_id \in ids
      BY <1>5, <3>1 DEF ByPayment, Present, Given, Get
    <3>3. Present(r, id)
      <4>1. PICK o \in Orders(data) : r \in RowsOf(LifecycleOf(data, o))
        BY EveryRowIsConsumed
      <4>2. Present(r, "settlement_id") \/ Present(r, "refund_id")
        BY <1>1, <1>5, <2>2, <4>1, UnidentifiedIsLeftOut
      <4>. QED BY <1>1, <1>5, <4>2 DEF Normalized
    <3>. QED BY <1>3, <3>1, <3>2, <3>3
  <2>. QED BY <1>5, <2>1, <2>2
<1>6. \A r : r \in paid <=> /\ r \in ToSet(data) /\ r.kind = kind
                            /\ Get(r, "order_id") = order \/ ~Present(r, "order_id")
                            /\ \E p \in payments : Get(r, "payment_id") = Get(p, "payment_id")
  BY <1>2, <1>4, <1>5
<1>. QED BY <1>6 DEF paid, payments

(* A sequence of one element.                                              *)
LEMMA OnlyMember ==
  ASSUME NEW S, NEW s \in Seq(S), Len(s) = 1
  PROVE  ToSet(s) = {s[1]} /\ Cardinality(ToSet(s)) = 1
<1>1. DOMAIN s = {1}
  BY Len(s) = 1
<1>2. ToSet(s) = {s[1]}
  BY <1>1 DEF ToSet
<1>. QED BY <1>2, FS_Singleton

(* An order that a completed run calls reconciled balances in the rows of  *)
(* the dataset, for every dataset: nothing of the order is left out of its *)
(* lifecycle, and no rule is skipped. (construct_lifecycles,               *)
(* _consumed_record_count and reconcile_lifecycle together)                *)
THEOREM ReconciledBalance == Spec => []ReconciledIsBalanced
<1>1. PipelineInv => ReconciledIsBalanced
  <2> SUFFICES ASSUME PipelineInv, run.status = "COMPLETED", NEW order \in DOMAIN run.results,
                      run.results[order].status \in {"RECONCILED", "RECONCILED_WITH_VARIANCE"}
               PROVE  Balanced(order)
    BY DEF ReconciledIsBalanced
  <2> DEFINE l == LifecycleFor(order)
             S == ToSet(rows)
             Of(kind) == {r \in S : r.kind = kind /\ Get(r, "order_id") = order}
             Paying(kind) == {r \in S :
                               /\ r.kind = kind
                               /\ Get(r, "order_id") = order \/ ~Present(r, "order_id")
                               /\ \E p \in Of("payments") : Get(r, "payment_id") = Get(p, "payment_id")}
             sold     == Movements(l, "SALE")
             returned == Movements(l, "RETURN")
             sale     == CHOOSE r \in Of("orders") : TRUE
  <2>1. /\ Constructible(rows) /\ ConsumedCount(Lifecycles(rows)) = Len(rows) /\ order \in Orders(rows)
        /\ ~Raises(l) /\ LifecycleOver(l, S)
        /\ Reconcile(l).status \in {"RECONCILED", "RECONCILED_WITH_VARIANCE"}
    BY CompletedRun
  <2>2. rows \in Datasets /\ IsSequence(rows) /\ \A r \in S : Normalized(r)
    BY DatasetRows DEF PipelineInv
  <2>3. /\ l.payments = OfOrder(rows, order, "payments")
        /\ l.settlements = OfPayments(rows, order, "settlements", "settlement_id")
        /\ l.refunds = OfPayments(rows, order, "refunds", "refund_id")
        /\ l.invoices = InvoicesOf(rows, order)
        /\ l.order = OfOrder(rows, order, "orders")[1]
    BY DEF LifecycleFor, LifecycleOf, Refunds
  <2>4. /\ sold = Pick(rows, {r \in Of("inventory_movements") : OfType(r, "SALE")})
        /\ returned = Pick(rows, {r \in Of("inventory_movements") : OfType(r, "RETURN")})
    BY <2>2, MovementsOfRows DEF LifecycleFor
  <2>5. /\ ToSet(l.payments) = Of("payments")
        /\ ToSet(l.settlements) = Paying("settlements") /\ ToSet(l.refunds) = Paying("refunds")
    <3>1. ToSet(l.payments) = Of("payments")
      BY <2>2, <2>3, OfOrderIsOfRows
    <3>2. ToSet(l.settlements) = Paying("settlements")
      BY <2>1, <2>2, <2>3, PayingIsOfPayments
    <3>3. ToSet(l.refunds) = Paying("refunds")
      BY <2>1, <2>2, <2>3, PayingIsOfPayments
    <3>. QED BY <3>1, <3>2, <3>3
  <2>6. /\ Len(l.payments) = 1 /\ l.settlements # <<>> /\ Codes(Findings(l)) \subseteq Variance
    BY <2>1, ReconciledHasOnlyVariances
  <2>7. /\ ~Differs(l.payments[1], "amount_minor", OrderAmount(l))
        /\ ~(Len(l.settlements) > 1) /\ ~(Len(l.refunds) > 1)
        /\ \A i \in DOMAIN l.settlements :
             /\ ~(/\ Present(l.payments[1], "amount_minor")
                  /\ Differs(l.settlements[i], "gross_minor", Minor(l.payments[1], "amount_minor")))
             /\ (\A field \in NetFields : Present(l.settlements[i], field)) =>
                  Minor(l.settlements[i], "net_minor") =
                    Minor(l.settlements[i], "gross_minor") - Minor(l.settlements[i], "fees_minor")
                      - Minor(l.settlements[i], "tax_minor")
        /\ l.invoices # <<>> /\ Minor(l.invoices[1], "gross_minor") = OrderAmount(l)
        /\ l.refunds = <<>> => returned = <<>>
        /\ l.refunds # <<>> =>
             /\ ~(Minor(l.refunds[1], "amount_minor") < OrderAmount(l))
             /\ returned # <<>>
             /\ sold # <<>> => Total(sold, Quantity) = Total(returned, Quantity) /\ ValueGap(l) = 0
             /\ \/ Get(l.invoices[1], "status") # "ACTIVE"
                \/ \E i \in DOMAIN l.invoices : Get(l.invoices[i], "status") = "REVERSED"
    <3> HIDE DEF l, S
    <3>. QED BY <2>1, <2>6, WithoutExceptions
  <2>8. /\ l.payments \in Seq(S) /\ l.settlements \in Seq(S) /\ l.invoices \in Seq(S)
        /\ l.refunds \in Seq(S)
    BY <2>1 DEF LifecycleOver
  <2>9. /\ Present(l.order, "amount_minor")
        /\ Present(l.invoices[1], "gross_minor")
        /\ l.refunds # <<>> => Present(l.refunds[1], "amount_minor")
        /\ \A i \in DOMAIN l.inventory_movements : Quantity(l.inventory_movements[i]) \in Int
    BY <2>1, <2>6, <2>7, ReadWithoutRaising
  <2>10. Of("orders") = {l.order} /\ sale = l.order
    <3>1. /\ Len(OfOrder(rows, order, "orders")) = 1 /\ OfOrder(rows, order, "orders") \in Seq(S)
          /\ ToSet(OfOrder(rows, order, "orders")) = Of("orders")
      BY <2>1, <2>2, OfOrderIsOfRows DEF Constructible
    <3>2. Of("orders") = {l.order}
      BY <2>3, <3>1, OnlyMember
    <3>. QED BY <3>2
  <2>11. Of("payments") = {l.payments[1]} /\ Cardinality(Of("payments")) = 1
    BY <2>5, <2>6, <2>8, OnlyMember
  <2>12. /\ Paying("settlements") = {l.settlements[1]} /\ Cardinality(Paying("settlements")) = 1
         /\ 1 \in DOMAIN l.settlements
    <3>1. \A n \in Nat : n = 0 \/ n = 1 \/ n > 1
      OBVIOUS
    <3>2. Len(l.settlements) \in Nat /\ (Len(l.settlements) = 0 => l.settlements = <<>>)
      BY <2>8
    <3>3. Len(l.settlements) = 1
      BY <2>6, <2>7, <3>1, <3>2
    <3>4. 1 \in DOMAIN l.settlements
      BY <2>8, <3>3
    <3>. QED BY <2>5, <2>8, <3>3, <3>4, OnlyMember
  <2>13. \/ l.refunds = <<>> /\ Paying("refunds") = {}
         \/ /\ l.refunds # <<>> /\ Paying("refunds") = {l.refunds[1]}
            /\ Cardinality(Paying("refunds")) = 1
    <3>1. \A n \in Nat : n = 0 \/ n = 1 \/ n > 1
      OBVIOUS
    <3>2. Len(l.refunds) \in Nat /\ (Len(l.refunds) = 0 <=> l.refunds = <<>>)
      BY <2>8
    <3>3. CASE l.refunds = <<>>
      BY <2>5, <3>3, ToSetOfEmpty
    <3>4. CASE l.refunds # <<>>
      <4>1. Len(l.refunds) = 1
        BY <2>7, <3>1, <3>2, <3>4
      <4>. QED BY <2>5, <2>8, <3>4, <4>1, OnlyMember
    <3>. QED BY <3>3, <3>4
  <2>14. /\ ToSet(l.invoices) \subseteq Of("invoices")
         /\ SingleInvoice(rows, order) => ToSet(l.invoices) = Of("invoices")
         /\ ~SingleInvoice(rows, order) => Get(l.invoices[1], "status") = "ACTIVE"
    BY <2>1, <2>2, <2>3, InvoicesOfRows DEF Constructible
  <2>15. l.invoices[1] \in Of("invoices")
    <3> HIDE DEF l, S, Of
    <3>1. 1 \in DOMAIN l.invoices
      BY <2>7, <2>8
    <3>. QED BY <2>14, <3>1 DEF ToSet
  <2>16. \A p \in Of("payments"), s \in Paying("settlements") :
           /\ Same(p, "amount_minor", sale, "amount_minor")
           /\ Same(s, "gross_minor", p, "amount_minor")
           /\ (\A field \in NetFields : Present(s, field)) =>
                Minor(s, "net_minor")
                  = Minor(s, "gross_minor") - Minor(s, "fees_minor") - Minor(s, "tax_minor")
    <3> HIDE DEF l, S, Of, Paying, sale
    <3>. QED BY <2>7, <2>10, <2>11, <2>12 DEF Same, Differs, OrderAmount
  <2>17. \E i \in Of("invoices") : Same(i, "gross_minor", sale, "amount_minor")
    <3> HIDE DEF l, S, Of, sale
    <3>. QED BY <2>7, <2>10, <2>15 DEF Same, OrderAmount
  <2>18. ASSUME l.refunds # <<>>
         PROVE  /\ \A r \in Paying("refunds") : Minor(r, "amount_minor") >= Minor(sale, "amount_minor")
                /\ returned # <<>>
                /\ sold # <<>> =>
                     /\ Total(sold, Quantity) = Total(returned, Quantity)
                     /\ IsKnown(sold, "unit_cost_minor") /\ IsKnown(returned, "inventory_value_minor")
                          => TotalCost(sold) = TotalValue(returned)
                /\ \/ \A i \in Of("invoices") : Get(i, "status") # "ACTIVE"
                   \/ \E i \in Of("invoices") : Get(i, "status") = "REVERSED"
    <3>1. \A r \in Paying("refunds") : Minor(r, "amount_minor") >= Minor(sale, "amount_minor")
      <4>1. Paying("refunds") = {l.refunds[1]} /\ l.refunds[1] \in S /\ l.order \in S
        BY <2>10, <2>13, <2>18
      <4> HIDE DEF l, S, Of, Paying, sale
      <4>2. Minor(l.refunds[1], "amount_minor") \in Int /\ Minor(l.order, "amount_minor") \in Int
        BY <2>2, <2>9, <2>18, <4>1, MoneyIsInteger DEF MoneyFields
      <4>3. \A m, n \in Int : ~(m < n) => m >= n
        OBVIOUS
      <4>4. ~(Minor(l.refunds[1], "amount_minor") < Minor(l.order, "amount_minor"))
        BY <2>7, <2>18 DEF OrderAmount
      <4>. QED BY <2>10, <4>1, <4>2, <4>3, <4>4
    <3>2. ASSUME sold # <<>>, IsKnown(sold, "unit_cost_minor"), IsKnown(returned, "inventory_value_minor")
          PROVE  TotalCost(sold) = TotalValue(returned)
      <4>1. ValueGap(l) = 0
        BY <2>7, <2>18, <3>2
      <4> HIDE DEF l, S
      <4>. QED BY <2>1, <2>2, <2>9, <3>2, <4>1, ValueGapIsDifference
    <3>3. \/ \A i \in Of("invoices") : Get(i, "status") # "ACTIVE"
          \/ \E i \in Of("invoices") : Get(i, "status") = "REVERSED"
      <4> HIDE DEF l, S, Of
      <4>1. CASE \E i \in DOMAIN l.invoices : Get(l.invoices[i], "status") = "REVERSED"
        BY <2>14, <4>1 DEF ToSet
      <4>2. CASE Get(l.invoices[1], "status") # "ACTIVE"
        <5>1. Len(l.invoices) \in Nat /\ DOMAIN l.invoices = 1..Len(l.invoices)
          BY <2>8
        <5>2. ToSet(l.invoices) = Of("invoices") /\ SingleInvoice(rows, order)
          BY <2>14, <4>2
        <5>3. DOMAIN l.invoices \subseteq {1}
          <6>1. l.invoices = OfOrder(rows, order, "invoices")
            BY <2>3, <5>2 DEF InvoicesOf
          <6>2. Len(l.invoices) <= 1
            BY <5>2, <6>1 DEF SingleInvoice
          <6>. QED BY <5>1, <6>2
        <5>. QED BY <4>2, <5>2, <5>3 DEF ToSet
      <4>. QED BY <2>7, <2>18, <4>1, <4>2
    <3> HIDE DEF l, S, Of, Paying, sale, sold, returned
    <3>. QED BY <2>7, <2>18, <3>1, <3>2, <3>3
  <2> DEFINE sells == Pick(rows, {r \in Of("inventory_movements") : OfType(r, "SALE")})
             returns == Pick(rows, {r \in Of("inventory_movements") : OfType(r, "RETURN")})
  <2>19. sold = sells /\ returned = returns
    BY <2>4
  <2>20. \/ Paying("refunds") = {} /\ returns = <<>>
         \/ /\ Cardinality(Paying("refunds")) = 1
            /\ \A r \in Paying("refunds") : Minor(r, "amount_minor") >= Minor(sale, "amount_minor")
            /\ returns # <<>>
            /\ sells # <<>> =>
                 /\ Total(sells, Quantity) = Total(returns, Quantity)
                 /\ IsKnown(sells, "unit_cost_minor") /\ IsKnown(returns, "inventory_value_minor")
                      => TotalCost(sells) = TotalValue(returns)
            /\ \/ \A i \in Of("invoices") : Get(i, "status") # "ACTIVE"
               \/ \E i \in Of("invoices") : Get(i, "status") = "REVERSED"
    <3> HIDE DEF l, S, Of, Paying, sale, sold, returned, sells, returns
    <3>. QED BY <2>7, <2>13, <2>18, <2>19
  <2>21. Cardinality(Of("payments")) = 1 /\ Cardinality(Paying("settlements")) = 1
    BY <2>11, <2>12
  <2>. QED BY <2>16, <2>17, <2>20, <2>21 DEF Balanced
<1>. QED BY <1>1, InvHolds, PTL

-----------------------------------------------------------------------------
(***************************************************************************)
(* Every row is in one lifecycle.                                          *)
(***************************************************************************)

(* No two orders have payments of one id, and no two refunds have one id:  *)
(* normalization sees to it within one source file only                    *)
(* (normalization/service.py:194-200), and the constructor relies on it.   *)
KeysAreUnique(data) ==
  /\ \A p, q \in {r \in ToSet(data) : r.kind = "payments" /\ Present(r, "payment_id")} :
       p.payment_id = q.payment_id => Get(p, "order_id") = Get(q, "order_id")
  /\ \A f, g \in {r \in ToSet(data) : r.kind = "refunds" /\ Present(r, "refund_id")} :
       f.refund_id = g.refund_id => f = g

(* A completed run of such a dataset has every row in the lifecycle of     *)
(* exactly one order. (lifecycle_construction/service.py:51)               *)
EveryRowHasItsOrder ==
  run.status = "COMPLETED" /\ KeysAreUnique(rows) =>
    \A r \in ToSet(rows) : \E order \in Orders(rows) :
      /\ r \in RowsOf(LifecycleFor(order))
      /\ \A other \in Orders(rows) : r \in RowsOf(LifecycleFor(other)) => other = order

(* Why a settlement or a refund is in the lifecycle of an order.           *)
PaidFor(data, r, order) ==
  \/ Get(r, "order_id") = order
  \/ ~Present(r, "order_id") /\ ByPayment(r) /\ r.payment_id \in PaymentIds(data, order)

(* Why a row is.                                                           *)
Belongs(data, r, order) ==
  \/ PaidFor(data, r, order)
  \/ /\ ~Present(r, "order_id") /\ ByEntity(r)
     /\ \/ ~IsRefundAction(r) /\ r.entity_id = order
        \/ /\ IsRefundAction(r)
           /\ \E f \in ToSet(Refunds(data, order)) : Get(f, "refund_id") = r.entity_id

(* A lifecycle has no rows without such a reason.                          *)
LEMMA RowBelongs ==
  ASSUME NEW data, IsSequence(data), Constructible(data), NEW order \in Orders(data),
         NEW r \in RowsOf(LifecycleOf(data, order))
  PROVE  Belongs(data, r, order)
<1> DEFINE l == LifecycleOf(data, order)
<1>1. \A kind : \A x \in ToSet(OfOrder(data, order, kind)) : Get(x, "order_id") = order
  BY OfOrderIsOfRows
<1>2. \A kind, id : \A x \in ToSet(OfPayments(data, order, kind, id)) : PaidFor(data, x, order)
  BY OfPaymentsIsOfRows DEF PaidFor, ByPayment
<1>3. CASE r = l.order
  <2>1. /\ OfOrder(data, order, "orders") \in Seq(ToSet(data))
        /\ Len(OfOrder(data, order, "orders")) = 1
    BY OfOrderIsOfRows DEF Constructible
  <2>2. r = OfOrder(data, order, "orders")[1]
    BY <1>3 DEF LifecycleOf
  <2>3. r \in ToSet(OfOrder(data, order, "orders"))
    BY <2>1, <2>2 DEF ToSet
  <2>. QED BY <1>1, <2>3 DEF Belongs, PaidFor
<1>4. CASE r \in ToSet(l.payments) \/ r \in ToSet(l.inventory_movements)
  BY <1>1, <1>4 DEF LifecycleOf, Belongs, PaidFor
<1>5. CASE r \in ToSet(l.settlements) \/ r \in ToSet(l.refunds)
  BY <1>2, <1>5 DEF LifecycleOf, Refunds, Belongs
<1>6. CASE r \in ToSet(l.invoices)
  <2>1. l.invoices = InvoicesOf(data, order)
    BY DEF LifecycleOf
  <2>. QED BY <1>6, <2>1, InvoicesOfRows DEF Belongs, PaidFor
<1>7. CASE r \in ToSet(l.employee_actions)
  <2> DEFINE S == ToSet(data)
             refunds == {Get(f, "refund_id") : f \in ToSet(Refunds(data, order))} \ {None}
             actions == {x \in S : ByEntity(x)}
             A == {x \in actions : ~IsRefundAction(x) /\ x.entity_id = order}
             B == {x \in actions : IsRefundAction(x) /\ x.entity_id \in refunds}
             of == OfOrder(data, order, "employee_actions")
             keyed == KeyedActions(data, order)
  <2>1. l.employee_actions = of \o keyed /\ keyed = Pick(data, A) \o Pick(data, B)
    BY DEF LifecycleOf, KeyedActions
  <2>2. data \in Seq(S) /\ of \in Seq(S)
    BY OfOrderIsOfRows DEF IsSequence
  <2>3. A \subseteq S /\ B \subseteq S
    OBVIOUS
  <2>4. Get(r, "order_id") = order \/ r \in A \/ r \in B
    <3> HIDE DEF S, A, B, of, keyed, l
    <3>1. /\ Pick(data, A) \in Seq(S) /\ ToSet(Pick(data, A)) = S \cap A
          /\ Pick(data, B) \in Seq(S) /\ ToSet(Pick(data, B)) = S \cap B
      BY <2>2, PickIsPicked DEF S
    <3>2. keyed \in Seq(S) /\ ToSet(keyed) = (S \cap A) \cup (S \cap B)
      BY <2>1, <3>1, ToSetOfConcat
    <3>3. r \in ToSet(of) \/ r \in ToSet(keyed)
      <4>1. r \in ToSet(of \o keyed)
        BY <1>7, <2>1, Zenon
      <4>2. ToSet(of \o keyed) = ToSet(of) \cup ToSet(keyed)
        BY <2>2, <3>2, ToSetOfConcat
      <4>. QED BY <4>1, <4>2
    <3>. QED BY <1>1, <3>2, <3>3 DEF of
  <2>5. CASE Get(r, "order_id") = order
    BY <2>5 DEF Belongs, PaidFor
  <2>6. CASE r \in A
    BY <2>6 DEF Belongs, ByEntity
  <2>7. CASE r \in B
    <3>1. IsRefundAction(r) /\ ByEntity(r) /\ r.entity_id \in refunds
      BY <2>7
    <3>2. PICK f \in ToSet(Refunds(data, order)) : Get(f, "refund_id") = r.entity_id
      BY <3>1
    <3>. QED BY <3>1, <3>2 DEF Belongs, ByEntity
  <2>. QED BY <2>4, <2>5, <2>6, <2>7
<1>. QED BY <1>3, <1>4, <1>5, <1>6, <1>7, RowsOfLifecycle

(* The reason of a settlement or a refund names one order.                 *)
LEMMA OnePayer ==
  ASSUME NEW data, IsSequence(data), KeysAreUnique(data),
         NEW order \in Orders(data), NEW other \in Orders(data), NEW r,
         PaidFor(data, r, order), PaidFor(data, r, other)
  PROVE  order = other
<1>1. \A o \in Orders(data) : o # None /\ o # ""
  BY DEF Orders, Present, Given, Get
<1>2. CASE Present(r, "order_id")
  BY <1>2 DEF PaidFor
<1>3. CASE ~Present(r, "order_id")
  <2>1. Get(r, "order_id") # order /\ Get(r, "order_id") # other
    BY <1>1, <1>3 DEF Present, Given, Get
  <2>2. /\ Present(r, "payment_id")
        /\ r.payment_id \in PaymentIds(data, order) /\ r.payment_id \in PaymentIds(data, other)
    BY <2>1 DEF PaidFor, ByPayment
  <2>3. PICK p \in ToSet(OfOrder(data, order, "payments")) : r.payment_id = Get(p, "payment_id")
    BY <2>2 DEF PaymentIds
  <2>4. PICK q \in ToSet(OfOrder(data, other, "payments")) : r.payment_id = Get(q, "payment_id")
    BY <2>2 DEF PaymentIds
  <2>5. /\ p \in ToSet(data) /\ p.kind = "payments" /\ Get(p, "order_id") = order
        /\ q \in ToSet(data) /\ q.kind = "payments" /\ Get(q, "order_id") = other
    BY <2>3, <2>4, OfOrderIsOfRows
  <2>6. /\ Present(p, "payment_id") /\ Present(q, "payment_id") /\ p.payment_id = q.payment_id
    BY <2>2, <2>3, <2>4 DEF Present, Given, Get
  <2>. QED BY <2>5, <2>6 DEF KeysAreUnique
<1>. QED BY <1>2, <1>3

(* The reason of a row names one order.                                    *)
LEMMA OneOwner ==
  ASSUME NEW data, IsSequence(data), \A r \in ToSet(data) : Normalized(r), KeysAreUnique(data),
         NEW order \in Orders(data), NEW other \in Orders(data), NEW r,
         Belongs(data, r, order), Belongs(data, r, other)
  PROVE  order = other
<1>1. \A o \in Orders(data) : o # None /\ o # ""
  BY DEF Orders, Present, Given, Get
<1>2. CASE ByEntity(r)
  <2>1. ~Present(r, "order_id") /\ r.kind = "employee_actions" /\ Present(r, "entity_id")
    BY <1>2 DEF ByEntity
  <2>2. ~PaidFor(data, r, order) /\ ~PaidFor(data, r, other)
    <3>1. Get(r, "order_id") # order /\ Get(r, "order_id") # other
      BY <1>1, <2>1 DEF Present, Given, Get
    <3>2. ~ByPayment(r)
      BY <2>1 DEF ByPayment
    <3>. QED BY <3>1, <3>2 DEF PaidFor
  <2>3. CASE ~IsRefundAction(r)
    BY <2>2, <2>3 DEF Belongs
  <2>4. CASE IsRefundAction(r)
    <3>1. PICK f \in ToSet(Refunds(data, order)) : Get(f, "refund_id") = r.entity_id
      BY <2>2, <2>4 DEF Belongs
    <3>2. PICK g \in ToSet(Refunds(data, other)) : Get(g, "refund_id") = r.entity_id
      BY <2>2, <2>4 DEF Belongs
    <3>3. Present(f, "refund_id") /\ Present(g, "refund_id") /\ f.refund_id = g.refund_id
      BY <2>1, <3>1, <3>2 DEF Present, Given, Get
    <3>4. /\ f \in ToSet(data) /\ PaidFor(data, f, order)
          /\ g \in ToSet(data) /\ PaidFor(data, g, other)
          /\ f.kind = "refunds" \/ ByPayment(f)
          /\ g.kind = "refunds" \/ ByPayment(g)
      BY <3>1, <3>2, OfPaymentsIsOfRows DEF Refunds, PaidFor, ByPayment
    <3>5. f.kind = "refunds" /\ g.kind = "refunds"
      BY <3>3, <3>4 DEF Normalized, ByPayment
    <3>6. f = g
      BY <3>3, <3>4, <3>5 DEF KeysAreUnique
    <3>. QED BY <3>4, <3>6, OnePayer
  <2>. QED BY <2>3, <2>4
<1>3. CASE ~ByEntity(r)
  <2>1. PaidFor(data, r, order) /\ PaidFor(data, r, other)
    BY <1>3 DEF Belongs
  <2>. QED BY <2>1, OnePayer
<1>. QED BY <1>2, <1>3

(* When keys are unique, the lifecycles of a completed run divide the rows *)
(* of the dataset among the orders: none is lost and none is in two, which *)
(* is what OneLifecyclePerRecord says and what does not hold without the   *)
(* condition. (construct_lifecycles and _consumed_record_count together)   *)
THEOREM RowsArePartitioned == Spec => []EveryRowHasItsOrder
<1>1. PipelineInv => EveryRowHasItsOrder
  <2> SUFFICES ASSUME PipelineInv, run.status = "COMPLETED", KeysAreUnique(rows),
                      NEW r \in ToSet(rows)
               PROVE  \E order \in Orders(rows) :
                        /\ r \in RowsOf(LifecycleFor(order))
                        /\ \A other \in Orders(rows) :
                             r \in RowsOf(LifecycleFor(other)) => other = order
    BY DEF EveryRowHasItsOrder
  <2>1. Constructible(rows) /\ ConsumedCount(Lifecycles(rows)) = Len(rows)
    <3>1. run = Outcome
      BY DEF PipelineInv, NoRun
    <3>. QED BY <3>1 DEF Outcome, Failed
  <2>2. rows \in Datasets /\ IsSequence(rows) /\ \A x \in ToSet(rows) : Normalized(x)
    BY DatasetRows DEF PipelineInv
  <2>3. PICK order \in Orders(rows) : r \in RowsOf(LifecycleOf(rows, order))
    BY <2>1, <2>2, EveryRowIsConsumed
  <2>4. ASSUME NEW other \in Orders(rows), r \in RowsOf(LifecycleOf(rows, other))
        PROVE  other = order
    <3>1. Belongs(rows, r, order) /\ Belongs(rows, r, other)
      BY <2>1, <2>2, <2>3, <2>4, RowBelongs
    <3>. QED BY <2>2, <3>1, OneOwner
  <2>. QED BY <2>3, <2>4 DEF LifecycleFor
<1>. QED BY <1>1, InvHolds, PTL

-----------------------------------------------------------------------------
(***************************************************************************)
(* When the rules do not raise.                                            *)
(***************************************************************************)

(* What the rules read without a test is there, and no cell of money is    *)
(* blank.                                                                  *)
FilledIn(data) ==
  \A r \in ToSet(data) :
    /\ \A field \in MoneyFields : ~Blank(r, field)
    /\ r.kind \in {"orders", "refunds"} => Given(r, "amount_minor")
    /\ r.kind = "invoices" => Given(r, "gross_minor")
    /\ "quantity" \in DOMAIN r => r.quantity \in DOMAIN Amount
    /\ \A field \in {"settled_at", "captured_at"} : Present(r, field) => r[field] \in DOMAIN Amount

(* The rules do not raise on such a dataset.                               *)
(* (reconciliation/engine.py:39-42 and the int() calls around it)          *)
FilledInIsReconciled == FilledIn(rows) => run.status # "RAISED"

(* The lifecycles of such a dataset have such rows where the rules look    *)
(* for them.                                                               *)
LEMMA FilledInDoesNotRaise ==
  ASSUME NEW data \in Datasets, Constructible(data), FilledIn(data), NEW order \in Orders(data)
  PROVE  ~Raises(LifecycleOf(data, order))
<1> DEFINE S == ToSet(data)
           l == LifecycleOf(data, order)
           payment == l.payments[1]
<1>1. IsSequence(data) /\ \A r \in S : Normalized(r)
  BY DatasetRows
<1>2. LifecycleOver(l, S)
  BY <1>1, LifecycleIsOverRows
<1>3. \A r \in S : \A field \in MoneyFields : Given(r, field) => Present(r, field)
  BY DEF FilledIn, Blank, Present
<1>4. l.order \in S /\ Present(l.order, "amount_minor")
  <2>1. /\ OfOrder(data, order, "orders") \in Seq(S)
        /\ Len(OfOrder(data, order, "orders")) = 1
        /\ ToSet(OfOrder(data, order, "orders")) = {r \in S : r.kind = "orders" /\ Get(r, "order_id") = order}
    BY <1>1, OfOrderIsOfRows DEF Constructible
  <2>2. l.order \in {r \in S : r.kind = "orders" /\ Get(r, "order_id") = order}
    BY <2>1, OnlyMember DEF LifecycleOf
  <2>. QED BY <1>3, <2>2 DEF FilledIn, MoneyFields
<1>5. ASSUME l.invoices # <<>> PROVE Present(l.invoices[1], "gross_minor")
  <2>1. l.invoices = InvoicesOf(data, order)
    BY DEF LifecycleOf
  <2> HIDE DEF l
  <2>2. l.invoices \in Seq(S) /\ \A r \in ToSet(l.invoices) : r \in S /\ r.kind = "invoices"
    BY <1>1, <2>1, InvoicesOfRows
  <2>3. 1 \in DOMAIN l.invoices
    BY <1>5, <2>2
  <2>4. l.invoices[1] \in S /\ l.invoices[1].kind = "invoices"
    BY <2>2, <2>3 DEF ToSet
  <2>. QED BY <1>3, <2>4 DEF FilledIn, MoneyFields
<1>6. ASSUME l.refunds # <<>> PROVE Present(l.refunds[1], "amount_minor")
  <2>1. l.refunds = OfPayments(data, order, "refunds", "refund_id")
    BY DEF LifecycleOf, Refunds
  <2> HIDE DEF l
  <2>2. /\ l.refunds \in Seq(S)
        /\ \A r \in ToSet(l.refunds) :
             r \in S /\ (r.kind = "refunds" \/ (ByPayment(r) /\ Present(r, "refund_id")))
    <3> DEFINE refunds == OfPayments(data, order, "refunds", "refund_id")
    <3>1. refunds \in Seq(S) /\
          ToSet(refunds) =
            {r \in S : /\ r.kind = "refunds" /\ Get(r, "order_id") = order
                      /\ Get(r, "payment_id") \in PaymentIds(data, order)}
              \cup {r \in S : /\ ByPayment(r) /\ r.payment_id \in PaymentIds(data, order)
                             /\ Present(r, "refund_id")}
      BY <1>1, OfPaymentsIsOfRows
    <3> HIDE DEF refunds, S
    <3>2. \A r \in ToSet(refunds) :
            r \in S /\ (r.kind = "refunds" \/ (ByPayment(r) /\ Present(r, "refund_id")))
      BY <3>1
    <3>3. l.refunds = refunds
      BY <2>1 DEF refunds
    <3>. QED BY <3>1, <3>2, <3>3
  <2>3. 1 \in DOMAIN l.refunds
    BY <1>6, <2>2
  <2>4. l.refunds[1] \in S /\ l.refunds[1].kind = "refunds"
    <3>1. l.refunds[1] \in ToSet(l.refunds)
      BY <2>3 DEF ToSet
    <3>2. \A r \in ToSet(l.refunds) : r.kind = "refunds"
      BY <1>1, <2>2 DEF ByPayment, Normalized
    <3>. QED BY <2>2, <3>1, <3>2
  <2>. QED BY <1>3, <2>4 DEF FilledIn, MoneyFields
<1>7. /\ l.payments \in Seq(S) /\ l.settlements \in Seq(S) /\ l.inventory_movements \in Seq(S)
  BY <1>2 DEF LifecycleOver
<1> HIDE DEF l, S
<1>8. /\ \A i \in DOMAIN l.settlements : l.settlements[i] \in S
      /\ \A i \in DOMAIN l.inventory_movements : l.inventory_movements[i] \in S
      /\ Len(l.payments) = 1 => payment \in S
      /\ l.settlements # <<>> => l.settlements[1] \in S
  BY <1>7
<1> HIDE DEF payment
<1>9. ASSUME NEW r \in S, NEW field \in MoneyFields PROVE ~Blank(r, field)
  BY DEF S, FilledIn
<1>10. /\ \A r \in S : "quantity" \in DOMAIN r => r.quantity \in DOMAIN Amount
       /\ \A r \in S : Present(r, "settled_at") => r.settled_at \in DOMAIN Amount
       /\ \A r \in S : Present(r, "captured_at") => r.captured_at \in DOMAIN Amount
  BY DEF S, FilledIn
<1>11. /\ {"amount_minor", "gross_minor", "fees_minor"} \subseteq MoneyFields
       /\ NetFields \subseteq MoneyFields
  BY DEF MoneyFields, NetFields
<1>12. ~Some(l.settlements, LAMBDA s : Given(payment, "amount_minor") /\ Blank(s, "gross_minor"))
  BY <1>8, <1>9, <1>11 DEF Some
<1>13. ~Some(l.settlements, LAMBDA s : /\ \A field \in NetFields : Given(s, field)
                                       /\ \E field \in NetFields : Blank(s, field))
  BY <1>8, <1>9, <1>11 DEF Some
<1>14. ~Some(l.inventory_movements,
             LAMBDA m : "quantity" \in DOMAIN m /\ m.quantity \notin DOMAIN Amount)
  BY <1>8, <1>10 DEF Some
<1>15. ASSUME Len(l.payments) = 1
       PROVE  ~Blank(payment, "amount_minor")
  BY <1>8, <1>9, <1>11, <1>15
<1>16. ASSUME Len(l.payments) = 1, l.settlements # <<>>
       PROVE  /\ ~Blank(l.settlements[1], "fees_minor")
              /\ Present(l.settlements[1], "settled_at") /\ Present(payment, "captured_at") =>
                   {l.settlements[1].settled_at, payment.captured_at} \subseteq DOMAIN Amount
  BY <1>8, <1>9, <1>10, <1>11, <1>16
<1>. QED BY <1>4, <1>5, <1>6, <1>12, <1>13, <1>14, <1>15, <1>16 DEF Raises, l, payment

(* The run of a dataset without blank money cells, whose orders, refunds   *)
(* and invoices state their amounts, ends: the positive counterpart of     *)
(* ReconcileIsTotal, which blank cells refute. (ReconciliationService.run  *)
(* and reconcile_lifecycle)                                                *)
THEOREM FilledInNeverRaises == Spec => []FilledInIsReconciled
<1>1. PipelineInv => FilledInIsReconciled
  <2> SUFFICES ASSUME PipelineInv, FilledIn(rows), run.status = "RAISED"
               PROVE  FALSE
    BY DEF FilledInIsReconciled
  <2>1. run = Outcome
    BY DEF PipelineInv, NoRun
  <2>2. Constructible(rows) /\ \E l \in Lifecycles(rows) : Raises(l)
    BY <2>1 DEF Outcome, Failed, Raised
  <2>3. PICK order \in Orders(rows) : Raises(LifecycleOf(rows, order))
    BY <2>2 DEF Lifecycles
  <2>. QED BY <2>2, <2>3, FilledInDoesNotRaise DEF PipelineInv
<1>. QED BY <1>1, InvHolds, PTL

=============================================================================
