------------------------------ MODULE Induction ------------------------------
(***************************************************************************)
(* Induction and recursion over the natural numbers and over finite sets,  *)
(* stated for sets and functions, so that a proof can cite them, and what  *)
(* follows for the recursive function of Selection.                        *)
(***************************************************************************)
EXTENDS Selection, FiniteSetTheorems, WellFoundedInduction, TLAPS

LEMMA LeastNat == ASSUME NEW T \in SUBSET Nat, T # {}
                  PROVE  \E n \in T : \A m \in T : n <= m
<1>1. PICK n \in T : \A m \in T : ~(<<m, n>> \in OpToRel(<, Nat))
  BY NatLessThanWellFounded, WFMin
<1>2. \A m \in T : ~(m < n)
  BY <1>1 DEF OpToRel
<1> QED BY <1>2

(* A set with 0 and with the successor of each of its members below n has    *)
(* every number up to n.                                                     *)
LEMMA UpTo ==
  ASSUME NEW n \in Nat, NEW T, 0 \in T, \A i \in 0..(n - 1) : i \in T => i + 1 \in T
  PROVE  \A i \in 0..n : i \in T
<1> DEFINE Out == {i \in 0..n : i \notin T}
<1> SUFFICES ASSUME Out # {} PROVE FALSE
  OBVIOUS
<1>1. PICK i \in Out : \A j \in Out : i <= j
  <2>1. Out \in SUBSET Nat
    OBVIOUS
  <2> HIDE DEF Out
  <2> QED BY <2>1, LeastNat
<1>2. i \in 1..n /\ i - 1 \in 0..(n - 1) /\ i - 1 \notin Out
  BY <1>1
<1>3. i - 1 \in T
  BY <1>2
<1>4. (i - 1) + 1 \in T
  BY <1>2, <1>3
<1> QED BY <1>1, <1>2, <1>4

(* A bounded set of integers has a greatest member. *)
LEMMA Greatest == ASSUME NEW T \in SUBSET Int, T # {}, NEW b \in Int, \A x \in T : x <= b
                  PROVE  \E n \in T : \A m \in T : m <= n
<1> DEFINE D == {b - x : x \in T}
<1>1. D \in SUBSET Nat /\ D # {}
  <2>1. \A x \in T : b - x \in Nat
    OBVIOUS
  <2>2. \A d \in D : d \in Nat
    BY <2>1
  <2>3. \E x \in T : b - x \in D
    OBVIOUS
  <2> QED BY <2>2, <2>3
<1>2. PICK d \in D : \A e \in D : d <= e
  <2> HIDE DEF D
  <2> QED BY <1>1, LeastNat
<1>3. PICK n \in T : d = b - n
  OBVIOUS
<1>4. ASSUME NEW m \in T PROVE m <= n
  BY <1>2, <1>3
<1> QED BY <1>4

(* A function exists that begins with a and goes on by a step. *)
Iterates(n, V, a, step) ==
  \E f \in [0..n -> V] : f[0] = a /\ \A i \in 1..n : f[i] = step[<<i, f[i - 1]>>]

LEMMA Recursion ==
  ASSUME NEW n \in Nat, NEW V, NEW a \in V, NEW step \in [(1..n) \X V -> V]
  PROVE  Iterates(n, V, a, step)
<1> DEFINE Goes(f, m) == f[0] = a /\ \A i \in 1..m : f[i] = step[<<i, f[i - 1]>>]
           T == {m \in 0..n : \E f \in [0..m -> V] : Goes(f, m)}
<1>1. 0 \in T
  <2> DEFINE f == [i \in 0..0 |-> a]
  <2>1. f \in [0..0 -> V] /\ Goes(f, 0)
    OBVIOUS
  <2> HIDE DEF f
  <2>2. 0 \in 0..n
    OBVIOUS
  <2> QED BY <2>1, <2>2
<1>2. ASSUME NEW m \in 0..(n - 1), m \in T PROVE m + 1 \in T
  <2>1. PICK f \in [0..m -> V] : Goes(f, m)
    BY <1>2
  <2> DEFINE v == step[<<m + 1, f[m]>>]
             g == [i \in 0..(m + 1) |-> IF i = m + 1 THEN v ELSE f[i]]
  <2>2. m \in Nat /\ m + 1 \in 1..n /\ m + 1 \in 0..n /\ f[m] \in V
    OBVIOUS
  <2>3. v \in V
    BY <2>2
  <2>4. g \in [0..(m + 1) -> V]
    BY <2>2, <2>3
  <2>5. g[0] = a
    BY <2>1, <2>2
  <2>6. ASSUME NEW i \in 1..(m + 1) PROVE g[i] = step[<<i, g[i - 1]>>]
    <3>1. i - 1 \in 0..m /\ g[i - 1] = f[i - 1]
      BY <2>2
    <3>2. CASE i = m + 1
      <4>1. g[m + 1] = v /\ i - 1 = m
        BY <2>2, <3>2
      <4> QED BY <3>1, <3>2, <4>1
    <3>3. CASE i \in 1..m
      BY <2>1, <2>2, <3>1, <3>3
    <3> QED BY <2>2, <3>2, <3>3
  <2> HIDE DEF g, v
  <2> QED BY <2>2, <2>4, <2>5, <2>6
<1>3. n \in T
  <2> HIDE DEF T
  <2> QED BY <1>1, <1>2, UpTo
<1> QED BY <1>3 DEF Iterates

-----------------------------------------------------------------------------
(* The recursion of Selected, unfolded. *)
SelectsStepwise(V, s, I) ==
  \E g \in [0..Len(s) -> Seq(V)] :
    /\ g[0] = <<>> /\ Selected(s, I) = g[Len(s)]
    /\ \A m \in 1..Len(s) : g[m] = IF m \in I THEN Append(g[m - 1], s[m]) ELSE g[m - 1]

LEMMA SelectedSteps == ASSUME NEW V, NEW s \in Seq(V), NEW I PROVE SelectsStepwise(V, s, I)
<1> DEFINE W == Seq(V)
           n == Len(s)
           Goes(f) == f = [m \in 0..n |-> IF m = 0 THEN <<>>
                                          ELSE IF m \in I THEN Append(f[m - 1], s[m]) ELSE f[m - 1]]
           g == CHOOSE f : Goes(f)
           step == [x \in (1..n) \X W |-> IF x[1] \in I THEN Append(x[2], s[x[1]]) ELSE x[2]]
<1>1. n \in Nat /\ \A i \in 1..n : s[i] \in V
  OBVIOUS
<1>2. Selected(s, I) = g[n]
  BY DEF Selected
<1>3. <<>> \in W /\ \A t \in W, i \in 1..n : Append(t, s[i]) \in W
  BY <1>1
<1> HIDE DEF W
<1>4. step \in [(1..n) \X W -> W]
  BY <1>3
<1>5. \E f \in [0..n -> W] : f[0] = <<>> /\ \A i \in 1..n : f[i] = step[<<i, f[i - 1]>>]
  <2>1. Iterates(n, W, <<>>, step)
    <3> HIDE DEF step, n
    <3> QED BY <1>1, <1>3, <1>4, Recursion
  <2> QED BY <2>1 DEF Iterates
<1>6. PICK f \in [0..n -> W] : f[0] = <<>> /\ \A i \in 1..n : f[i] = step[<<i, f[i - 1]>>]
  BY <1>5
<1> HIDE DEF n
<1>7. ASSUME NEW i \in 1..n PROVE f[i] = IF i \in I THEN Append(f[i - 1], s[i]) ELSE f[i - 1]
  <2>1. <<i, f[i - 1]>> \in (1..n) \X W
    BY <1>1
  <2> QED BY <1>6, <2>1
<1> HIDE DEF step
<1>8. Goes(f)
  <2>1. f = [m \in 0..n |-> f[m]]
    OBVIOUS
  <2>2. \A m \in 0..n : f[m] = IF m = 0 THEN <<>> ELSE IF m \in I THEN Append(f[m - 1], s[m]) ELSE f[m - 1]
    BY <1>1, <1>6, <1>7
  <2> QED BY <2>1, <2>2
<1>9. Goes(g)
  BY <1>8
<1> HIDE DEF g
<1>10. g[0] = <<>> /\ \A m \in 1..n : g[m] = IF m \in I THEN Append(g[m - 1], s[m]) ELSE g[m - 1]
  <2>1. \A m \in 0..n : g[m] = IF m = 0 THEN <<>> ELSE IF m \in I THEN Append(g[m - 1], s[m]) ELSE g[m - 1]
    BY <1>9
  <2>2. 0 \in 0..n /\ \A m \in 1..n : m \in 0..n /\ m # 0
    BY <1>1
  <2> QED BY <2>1, <2>2
<1>11. g = f
  <2> DEFINE T == {m \in 0..n : g[m] = f[m]}
  <2>1. 0 \in T
    BY <1>1, <1>6, <1>10
  <2>2. \A m \in 0..(n - 1) : m \in T => m + 1 \in T
    <3> TAKE m \in 0..(n - 1)
    <3> HAVE m \in T
    <3>1. m + 1 \in 1..n /\ (m + 1) - 1 = m /\ m + 1 \in 0..n
      BY <1>1
    <3> QED BY <1>7, <1>10, <3>1
  <2>3. \A m \in 0..n : m \in T
    <3> HIDE DEF T
    <3> QED BY <1>1, <2>1, <2>2, UpTo
  <2>4. g = [m \in 0..n |-> g[m]]
    BY <1>9
  <2> QED BY <2>3, <2>4
<1> QED BY <1>2, <1>10, <1>11 DEF W, n, SelectsStepwise

(* What is selected: members of s, all those at I, in their order. *)
Picks(t, s, I, m) ==
  /\ \A j \in DOMAIN t : \E i \in 1..m : i \in I /\ t[j] = s[i]
  /\ \A i \in 1..m : i \in I => \E j \in DOMAIN t : t[j] = s[i]
  /\ \A j, k \in DOMAIN t : j < k => \E i, l \in 1..m : i < l /\ t[j] = s[i] /\ t[k] = s[l]

LEMMA PicksOneMore ==
  ASSUME NEW V, NEW s \in Seq(V), NEW I, NEW m \in Nat, m + 1 \in 1..Len(s),
         NEW t \in Seq(V), Picks(t, s, I, m)
  PROVE  Picks(IF m + 1 \in I THEN Append(t, s[m + 1]) ELSE t, s, I, m + 1)
<1>1. \A i \in 1..m : i \in 1..(m + 1) /\ i < m + 1
  OBVIOUS
<1>2. \A i \in 1..(m + 1) : i \in 1..m \/ i = m + 1
  OBVIOUS
<1>3. CASE m + 1 \notin I
  <2>1. \A j \in DOMAIN t : \E i \in 1..(m + 1) : i \in I /\ t[j] = s[i]
    BY <1>1 DEF Picks
  <2>2. \A i \in 1..(m + 1) : i \in I => \E j \in DOMAIN t : t[j] = s[i]
    BY <1>2, <1>3 DEF Picks
  <2>3. \A j, k \in DOMAIN t : j < k => \E i, l \in 1..(m + 1) : i < l /\ t[j] = s[i] /\ t[k] = s[l]
    BY <1>1 DEF Picks
  <2> QED BY <1>3, <2>1, <2>2, <2>3 DEF Picks
<1>4. CASE m + 1 \in I
  <2> DEFINE u == Append(t, s[m + 1])
             n == Len(t) + 1
  <2>1. /\ DOMAIN u = 1..n /\ DOMAIN t = 1..Len(t) /\ Len(t) \in Nat
        /\ u[n] = s[m + 1] /\ \A j \in DOMAIN t : u[j] = t[j]
    OBVIOUS
  <2>2. \A j \in DOMAIN u : j \in DOMAIN t \/ j = n
    BY <2>1
  <2>3. n \in DOMAIN u /\ \A j \in DOMAIN t : j \in DOMAIN u /\ j < n
    BY <2>1
  <2>4. m + 1 \in 1..(m + 1)
    OBVIOUS
  <2>5. \A j, k \in DOMAIN u : j < k => j \in DOMAIN t
    BY <2>1, <2>2
  <2> HIDE DEF u, n
  <2>6. \A j \in DOMAIN u : \E i \in 1..(m + 1) : i \in I /\ u[j] = s[i]
    <3> TAKE j \in DOMAIN u
    <3>1. CASE j = n
      BY <1>4, <2>1, <2>4, <3>1
    <3>2. CASE j \in DOMAIN t
      <4>1. PICK i \in 1..m : i \in I /\ t[j] = s[i]
        BY <3>2 DEF Picks
      <4> QED BY <1>1, <2>1, <3>2, <4>1
    <3> QED BY <2>2, <3>1, <3>2
  <2>7. \A i \in 1..(m + 1) : i \in I => \E j \in DOMAIN u : u[j] = s[i]
    <3> TAKE i \in 1..(m + 1)
    <3> HAVE i \in I
    <3>1. CASE i = m + 1
      BY <2>1, <2>3, <3>1
    <3>2. CASE i \in 1..m
      <4>1. PICK j \in DOMAIN t : t[j] = s[i]
        BY <3>2 DEF Picks
      <4> QED BY <2>1, <2>3, <4>1
    <3> QED BY <1>2, <3>1, <3>2
  <2>8. \A j, k \in DOMAIN u : j < k => \E i, l \in 1..(m + 1) : i < l /\ u[j] = s[i] /\ u[k] = s[l]
    <3> TAKE j, k \in DOMAIN u
    <3> HAVE j < k
    <3>1. j \in DOMAIN t
      BY <2>5
    <3>2. CASE k = n
      <4>1. PICK i \in 1..m : t[j] = s[i]
        BY <3>1 DEF Picks
      <4> QED BY <1>1, <2>1, <2>4, <3>1, <3>2, <4>1
    <3>3. CASE k \in DOMAIN t
      <4>1. PICK i \in 1..m, l \in 1..m : i < l /\ t[j] = s[i] /\ t[k] = s[l]
        BY <3>1, <3>3 DEF Picks
      <4> QED BY <1>1, <2>1, <3>1, <3>3, <4>1
    <3> QED BY <2>2, <3>2, <3>3
  <2>9. Picks(u, s, I, m + 1)
    BY <2>6, <2>7, <2>8 DEF Picks
  <2> QED BY <1>4, <2>9 DEF u
<1> QED BY <1>3, <1>4

LEMMA Selecting ==
  ASSUME NEW V, NEW s \in Seq(V), NEW I
  PROVE  Selected(s, I) \in Seq(V) /\ Picks(Selected(s, I), s, I, Len(s))
<1> DEFINE n == Len(s)
<1>1. PICK g \in [0..n -> Seq(V)] :
        /\ g[0] = <<>> /\ Selected(s, I) = g[n]
        /\ \A m \in 1..n : g[m] = IF m \in I THEN Append(g[m - 1], s[m]) ELSE g[m - 1]
  <2>1. SelectsStepwise(V, s, I)
    BY SelectedSteps
  <2> QED BY <2>1 DEF SelectsStepwise
<1>2. n \in Nat
  OBVIOUS
<1> DEFINE T == {m \in 0..n : Picks(g[m], s, I, m)}
<1>3. 0 \in T
  BY <1>1, <1>2 DEF Picks
<1>4. \A m \in 0..(n - 1) : m \in T => m + 1 \in T
  <2> TAKE m \in 0..(n - 1)
  <2> HAVE m \in T
  <2>1. m \in Nat /\ m + 1 \in 1..n /\ (m + 1) - 1 = m /\ m + 1 \in 0..n /\ g[m] \in Seq(V)
    BY <1>1, <1>2
  <2>2. g[m + 1] = IF m + 1 \in I THEN Append(g[m], s[m + 1]) ELSE g[m]
    BY <1>1, <2>1
  <2>3. Picks(g[m + 1], s, I, m + 1)
    BY <2>1, <2>2, PicksOneMore
  <2> QED BY <2>1, <2>3
<1>5. \A m \in 0..n : m \in T
  <2> HIDE DEF T, n
  <2> QED BY <1>2, <1>3, <1>4, UpTo
<1>6. n \in 0..n
  BY <1>2
<1> QED BY <1>1, <1>5, <1>6

-----------------------------------------------------------------------------
(* Over finite sets. *)
LEMMA SmallerSet ==
  ASSUME NEW S, IsFiniteSet(S), NEW s \in SUBSET S, NEW x \in s
  PROVE  /\ s \ {x} \in SUBSET S
         /\ Cardinality(s) \in Nat /\ Cardinality(s \ {x}) \in Nat
         /\ Cardinality(s \ {x}) = Cardinality(s) - 1
<1>1. IsFiniteSet(s) /\ s \ {x} \in SUBSET S
  BY FS_Subset
<1>2. Cardinality(s \ {x}) = Cardinality(s) - 1 /\ IsFiniteSet(s \ {x})
  BY <1>1, FS_RemoveElement
<1> QED BY <1>1, <1>2, FS_CardinalityType

(* Induction over the subsets of a finite set: pick names the member that is
   taken out. *)
LEMMA SetInduction ==
  ASSUME NEW S, IsFiniteSet(S), NEW pick, \A s \in SUBSET S : s # {} => pick[s] \in s,
         NEW T, {} \in T, \A s \in SUBSET S : s # {} /\ s \ {pick[s]} \in T => s \in T
  PROVE  \A s \in SUBSET S : s \in T
<1> SUFFICES ASSUME NEW out \in SUBSET S, out \notin T PROVE FALSE
  OBVIOUS
<1> DEFINE D == {Cardinality(s) : s \in {r \in SUBSET S : r \notin T}}
<1>1. \A s \in SUBSET S : Cardinality(s) \in Nat
  BY FS_Subset, FS_CardinalityType
<1>2. PICK n \in D : \A m \in D : n <= m
  <2>1. \A d \in D : d \in Nat
    BY <1>1
  <2>2. Cardinality(out) \in D
    OBVIOUS
  <2> HIDE DEF D
  <2>3. D \in SUBSET Nat /\ D # {}
    BY <2>1, <2>2
  <2> QED BY <2>3, LeastNat
<1>3. PICK s \in SUBSET S : s \notin T /\ n = Cardinality(s)
  OBVIOUS
<1>4. s # {} /\ pick[s] \in s /\ s \ {pick[s]} \notin T
  BY <1>3
<1>5. /\ s \ {pick[s]} \in SUBSET S /\ Cardinality(s \ {pick[s]}) = n - 1 /\ n \in Nat
  BY <1>3, <1>4, SmallerSet
<1>6. n - 1 \in D
  BY <1>4, <1>5
<1> HIDE DEF D
<1> QED BY <1>2, <1>5, <1>6

(* A function on the subsets of a finite set exists that goes on by a step
   for each member that is taken out. *)
Unfolds(S, V, a, pick, step) ==
  \E f \in [SUBSET S -> V] :
    f[{}] = a /\ \A s \in SUBSET S : s # {} => f[s] = step[<<pick[s], f[s \ {pick[s]}]>>]

LEMMA SetRecursion ==
  ASSUME NEW S, IsFiniteSet(S), NEW pick, \A s \in SUBSET S : s # {} => pick[s] \in s,
         NEW V, NEW a \in V, NEW step \in [S \X V -> V]
  PROVE  Unfolds(S, V, a, pick, step)
<1> DEFINE N == Cardinality(S)
           Sets(k) == {s \in SUBSET S : Cardinality(s) <= k}
           Goes(h, k) == \A s \in Sets(k) : h[s] = IF s = {} THEN a ELSE step[<<pick[s], h[s \ {pick[s]}]>>]
           T == {k \in 0..N : \E h \in [Sets(k) -> V] : Goes(h, k)}
<1>1. N \in Nat /\ \A s \in SUBSET S : Cardinality(s) \in Nat /\ Cardinality(s) <= N
  BY FS_Subset, FS_CardinalityType
<1>2. \A s \in SUBSET S : s # {} =>
        /\ pick[s] \in S /\ s \ {pick[s]} \in SUBSET S
        /\ Cardinality(s \ {pick[s]}) = Cardinality(s) - 1 /\ Cardinality(s \ {pick[s]}) \in Nat
  BY SmallerSet
<1>3. \A s \in Sets(0) : s = {}
  <2> TAKE s \in Sets(0)
  <2>1. s \in SUBSET S /\ Cardinality(s) \in Nat /\ Cardinality(s) <= 0
    BY <1>1
  <2>2. s # {} => Cardinality(s) - 1 \in Nat
    <3> HIDE DEF Sets
    <3> HAVE s # {}
    <3>1. /\ Cardinality(s \ {pick[s]}) = Cardinality(s) - 1
          /\ Cardinality(s \ {pick[s]}) \in Nat
      BY <1>2, <2>1
    <3> QED BY <3>1
  <2> QED BY <2>1, <2>2
<1> HIDE DEF N
<1>4. 0 \in T
  <2> DEFINE h == [s \in Sets(0) |-> a]
  <2>1. h \in [Sets(0) -> V] /\ Goes(h, 0)
    BY <1>3
  <2>2. 0 \in 0..N
    BY <1>1
  <2> HIDE DEF h, Goes, Sets
  <2> QED BY <2>1, <2>2
<1>5. ASSUME NEW k \in 0..(N - 1), k \in T PROVE k + 1 \in T
  <2>1. PICK h \in [Sets(k) -> V] : Goes(h, k)
    BY <1>5
  <2> DEFINE Next(s) == IF s = {} THEN a ELSE step[<<pick[s], h[s \ {pick[s]}]>>]
             e == [s \in Sets(k + 1) |-> Next(s)]
  <2>2. k \in Nat /\ k + 1 \in 0..N
    BY <1>1
  <2>3. \A s \in Sets(k + 1) : s # {} => s \ {pick[s]} \in Sets(k) /\ pick[s] \in S
    BY <1>1, <1>2, <2>2
  <2>4. \A s \in Sets(k) : s \in Sets(k + 1)
    BY <1>1, <2>2
  <2>5. \A s \in Sets(k) : h[s] = Next(s)
    BY <2>1
  <2> HIDE DEF Sets
  <2>6. \A s \in Sets(k + 1) : Next(s) \in V
    <3> TAKE s \in Sets(k + 1)
    <3>1. CASE s = {}
      BY <3>1
    <3>2. CASE s # {}
      <4>1. <<pick[s], h[s \ {pick[s]}]>> \in S \X V
        BY <2>1, <2>3, <3>2
      <4> QED BY <3>2, <4>1
    <3> QED BY <3>1, <3>2
  <2>7. e \in [Sets(k + 1) -> V]
    <3> HIDE DEF Next
    <3> QED BY <2>6
  <2>8. \A s \in Sets(k + 1) : s # {} => e[s \ {pick[s]}] = h[s \ {pick[s]}]
    <3> HIDE DEF Next
    <3> QED BY <2>3, <2>4, <2>5
  <2>9. Goes(e, k + 1)
    <3>1. \A s \in Sets(k + 1) : e[s] = Next(s)
      <4> HIDE DEF Next
      <4> QED OBVIOUS
    <3> HIDE DEF e
    <3> QED BY <2>8, <3>1
  <2> HIDE DEF e, Goes, Next
  <2> QED BY <2>2, <2>7, <2>9
<1>6. N \in T
  <2>1. \A k \in 0..N : k \in T
    <3> HIDE DEF T
    <3> QED BY <1>1, <1>4, <1>5, UpTo
  <2>2. N \in 0..N
    BY <1>1
  <2> HIDE DEF T
  <2> QED BY <2>1, <2>2
<1>7. PICK h \in [Sets(N) -> V] : Goes(h, N)
  BY <1>6
<1>8. Sets(N) = SUBSET S
  BY <1>1
<1> HIDE DEF Sets
<1>9. h[{}] = a /\ \A s \in SUBSET S : s # {} => h[s] = step[<<pick[s], h[s \ {pick[s]}]>>]
  BY <1>7, <1>8
<1> QED BY <1>7, <1>8, <1>9 DEF Unfolds

(* A set that grows in each of as many rounds as there are members is closed
   after the last. *)
LEMMA RoundsClose ==
  ASSUME NEW S, IsFiniteSet(S), NEW step \in [SUBSET S -> SUBSET S],
         \A s \in SUBSET S : s \subseteq step[s],
         NEW f \in [0..Cardinality(S) -> SUBSET S],
         \A i \in 1..Cardinality(S) : f[i] = step[f[i - 1]]
  PROVE  step[f[Cardinality(S)]] = f[Cardinality(S)]
<1> DEFINE N == Cardinality(S)
           T == {i \in 0..N : step[f[i]] = f[i] \/ Cardinality(f[i]) >= i}
<1>1. N \in Nat /\ \A s \in SUBSET S : IsFiniteSet(s) /\ Cardinality(s) \in Nat
  BY FS_Subset, FS_CardinalityType
<1>2. ASSUME NEW s \in SUBSET S, step[s] # s
      PROVE  Cardinality(step[s]) >= Cardinality(s) + 1
  <2>1. step[s] \in SUBSET S /\ s \subseteq step[s] /\ IsFiniteSet(step[s])
    BY <1>1
  <2>2. Cardinality(s) <= Cardinality(step[s])
    BY <2>1, FS_Subset
  <2>3. Cardinality(s) # Cardinality(step[s])
    BY <1>2, <2>1, FS_Subset
  <2> QED BY <1>1, <2>1, <2>2, <2>3
<1>3. 0 \in T
  <2>1. 0 \in 0..N /\ f[0] \in SUBSET S
    BY <1>1
  <2>2. Cardinality(f[0]) >= 0
    BY <1>1, <2>1
  <2> QED BY <2>1, <2>2
<1>4. \A i \in 0..(N - 1) : i \in T => i + 1 \in T
  <2> TAKE i \in 0..(N - 1)
  <2> HAVE i \in T
  <2>1. i + 1 \in 1..N /\ i + 1 \in 0..N /\ (i + 1) - 1 = i /\ i \in 0..N
    BY <1>1
  <2>2. f[i] \in SUBSET S /\ f[i + 1] = step[f[i]]
    BY <2>1
  <2>3. CASE step[f[i]] = f[i]
    BY <2>1, <2>2, <2>3
  <2>4. CASE step[f[i]] # f[i]
    <3>1. Cardinality(f[i]) >= i
      BY <2>4
    <3>2. Cardinality(f[i + 1]) >= Cardinality(f[i]) + 1
      BY <1>2, <2>2, <2>4
    <3>3. Cardinality(f[i + 1]) >= i + 1
      <4>1. Cardinality(f[i]) \in Nat /\ Cardinality(f[i + 1]) \in Nat
        BY <1>1, <2>1, <2>2
      <4> QED BY <2>1, <3>1, <3>2, <4>1
    <3> QED BY <2>1, <3>3
  <2> QED BY <2>3, <2>4
<1>5. N \in T
  <2>1. N \in 0..N
    BY <1>1
  <2> HIDE DEF T, N
  <2> QED BY <1>1, <1>3, <1>4, <2>1, UpTo
<1>6. f[N] \in SUBSET S
  BY <1>1
<1>7. CASE Cardinality(f[N]) >= N
  <2>1. f[N] = S
    <3>1. Cardinality(f[N]) <= Cardinality(S)
      BY <1>6, FS_Subset
    <3>2. Cardinality(f[N]) = Cardinality(S)
      BY <1>1, <1>6, <1>7, <3>1
    <3> HIDE DEF N
    <3> QED BY <1>6, <3>2, FS_Subset
  <2>2. step[S] \in SUBSET S /\ S \subseteq step[S]
    OBVIOUS
  <2> QED BY <2>1, <2>2
<1> QED BY <1>5, <1>7

LEMMA GreatestOfFinite ==
  ASSUME NEW S, IsFiniteSet(S), S # {}, \A x \in S : x \in Int
  PROVE  \E n \in S : \A m \in S : m <= n
<1> DEFINE pick == [s \in SUBSET S |-> CHOOSE x \in s : TRUE]
           Has(s) == \E n \in s : \A m \in s : m <= n
           T == {s \in SUBSET S : s # {} => Has(s)}
<1>1. \A s \in SUBSET S : s # {} => pick[s] \in s
  OBVIOUS
<1>2. {} \in T
  OBVIOUS
<1>3. \A s \in SUBSET S : s # {} /\ s \ {pick[s]} \in T => s \in T
  <2> TAKE s \in SUBSET S
  <2> HAVE s # {} /\ s \ {pick[s]} \in T
  <2> DEFINE x == pick[s]
             r == s \ {x}
  <2>1. x \in s /\ x \in Int /\ s = r \cup {x} /\ \A m \in s : m \in Int
    BY <1>1
  <2>2. r # {} => Has(r)
    OBVIOUS
  <2> HIDE DEF x, r
  <2>3. CASE r = {}
    BY <2>1, <2>3
  <2>4. CASE r # {}
    <3>1. PICK n \in r : \A m \in r : m <= n
      BY <2>2, <2>4
    <3>2. n \in s /\ n \in Int
      BY <2>1, <3>1
    <3>3. CASE x <= n
      BY <2>1, <3>1, <3>2, <3>3
    <3>4. CASE n < x
      <4>1. \A m \in r : m <= x
        BY <2>1, <3>1, <3>2, <3>4
      <4> QED BY <2>1, <4>1
    <3> QED BY <2>1, <3>2, <3>3, <3>4
  <2> QED BY <2>3, <2>4
<1>4. \A s \in SUBSET S : s \in T
  <2> HIDE DEF T, pick
  <2> QED BY <1>1, <1>2, <1>3, SetInduction
<1> QED BY <1>4

-----------------------------------------------------------------------------
(* A recursion whose step is one only while what I says of the rounds and the
   values holds, and which keeps it. *)
RecursIn(N, V, I, v0, each) ==
  \E f \in [0..N -> V] :
    /\ f[0] = v0 /\ \A i \in 1..N : f[i] = each[<<i, f[i - 1]>>]
    /\ \A i \in 0..N : <<i, f[i]>> \in I

LEMMA GuardedRecursion ==
  ASSUME NEW N \in Nat, NEW V, NEW I \in SUBSET ((0..N) \X V), NEW v0, <<0, v0>> \in I, NEW each,
         \A i \in 1..N : \A v \in V : <<i - 1, v>> \in I => <<i, each[<<i, v>>]>> \in I
  PROVE  RecursIn(N, V, I, v0, each)
<1> DEFINE safe == [x \in (1..N) \X V |-> IF <<x[1] - 1, x[2]>> \in I THEN each[x] ELSE x[2]]
<1>1. v0 \in V /\ safe \in [(1..N) \X V -> V]
  <2>1. ASSUME NEW i \in 1..N, NEW v \in V PROVE safe[<<i, v>>] \in V
    <3>1. <<i, v>> \in (1..N) \X V
      OBVIOUS
    <3>2. safe[<<i, v>>] = IF <<i - 1, v>> \in I THEN each[<<i, v>>] ELSE v
      BY <3>1
    <3>3. <<i - 1, v>> \in I => <<i, each[<<i, v>>]>> \in (0..N) \X V
      OBVIOUS
    <3>4. <<i - 1, v>> \in I => each[<<i, v>>] \in V
      BY <3>3
    <3> HIDE DEF safe
    <3> QED BY <3>2, <3>4
  <2>2. safe = [x \in (1..N) \X V |-> safe[x]]
    OBVIOUS
  <2>3. \A x \in (1..N) \X V : \E i \in 1..N, v \in V : x = <<i, v>>
    OBVIOUS
  <2>4. v0 \in V
    OBVIOUS
  <2> HIDE DEF safe
  <2>5. \A x \in (1..N) \X V : safe[x] \in V
    BY <2>1, <2>3
  <2> QED BY <2>2, <2>4, <2>5
<1>2. PICK f \in [0..N -> V] : f[0] = v0 /\ \A i \in 1..N : f[i] = safe[<<i, f[i - 1]>>]
  <2>1. Iterates(N, V, v0, safe)
    <3> HIDE DEF safe
    <3> QED BY <1>1, Recursion
  <2> QED BY <2>1 DEF Iterates
<1>3. ASSUME NEW i \in 1..N, <<i - 1, f[i - 1]>> \in I
      PROVE  f[i] = each[<<i, f[i - 1]>>] /\ <<i, f[i]>> \in I
  <2>1. f[i - 1] \in V /\ <<i, f[i - 1]>> \in (1..N) \X V
    OBVIOUS
  <2>2. f[i] = each[<<i, f[i - 1]>>]
    BY <1>2, <1>3, <2>1
  <2> QED BY <1>3, <2>1, <2>2
<1> HIDE DEF safe
<1> DEFINE D == {i \in 0..N : \A j \in 0..i : <<j, f[j]>> \in I}
<1>4. N \in D
  <2>1. 0 \in D
    BY <1>2
  <2>2. \A i \in 0..(N - 1) : i \in D => i + 1 \in D
    <3> TAKE i \in 0..(N - 1)
    <3> HAVE i \in D
    <3>1. i + 1 \in 1..N /\ (i + 1) - 1 = i /\ i + 1 \in 0..N
      OBVIOUS
    <3>2. <<i + 1, f[i + 1]>> \in I
      <4>1. <<(i + 1) - 1, f[(i + 1) - 1]>> \in I
        BY <3>1
      <4> QED BY <1>3, <3>1, <4>1
    <3>3. \A j \in 0..(i + 1) : j \in 0..i \/ j = i + 1
      OBVIOUS
    <3> QED BY <3>1, <3>2, <3>3
  <2>3. N \in 0..N
    OBVIOUS
  <2> HIDE DEF D
  <2> QED BY <2>1, <2>2, <2>3, UpTo
<1>5. \A i \in 1..N : i - 1 \in 0..N /\ <<i - 1, f[i - 1]>> \in I
  BY <1>4
<1> QED BY <1>2, <1>3, <1>4, <1>5 DEF RecursIn

(* The same for a function that is given. *)
LEMMA StaysIn ==
  ASSUME NEW N \in Nat, NEW I, NEW f, <<0, f[0]>> \in I,
         \A i \in 1..N : <<i - 1, f[i - 1]>> \in I => <<i, f[i]>> \in I
  PROVE  <<N, f[N]>> \in I
<1> DEFINE D == {i \in 0..N : <<i, f[i]>> \in I}
<1>1. 0 \in D
  OBVIOUS
<1>2. \A i \in 0..(N - 1) : i \in D => i + 1 \in D
  <2> TAKE i \in 0..(N - 1)
  <2> HAVE i \in D
  <2>1. i + 1 \in 1..N /\ (i + 1) - 1 = i /\ i + 1 \in 0..N
    OBVIOUS
  <2> QED BY <2>1
<1>3. N \in 0..N
  OBVIOUS
<1> HIDE DEF D
<1>4. N \in D
  BY <1>1, <1>2, <1>3, UpTo
<1> QED BY <1>4 DEF D
=============================================================================
