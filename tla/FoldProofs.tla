----------------------------- MODULE FoldProofs -----------------------------
(***************************************************************************)
(* What the folds and sums of the community modules compute, for the       *)
(* proofs about the modules that use them.  A fold is the value of a       *)
(* recursive function on the subsets of a finite set, chosen as the one    *)
(* that satisfies its equation.  That there is one, and only one, is shown *)
(* by the least counterexample: the strict subsets of a finite set are     *)
(* well founded (FiniteSetTheorems), and so are the numbers, as intervals. *)
(***************************************************************************)
EXTENDS Integers, SequencesExt, FiniteSetTheorems, SequenceTheorems,
        WellFoundedInduction, TLAPS

-----------------------------------------------------------------------------
(* Folds over the subsets of a finite set.                                 *)

\* A nonempty set of subsets of a finite set has a least one.
LEMMA SmallestSet ==
  ASSUME NEW S, IsFiniteSet(S), NEW T, T \subseteq SUBSET S, T # {}
  PROVE  \E U \in T : \A W \in SUBSET U : W \in T => W = U
<1>1. IsWellFoundedOn(StrictSubsetOrdering(S), SUBSET S)
  BY FS_StrictSubsetOrderingWellFounded, FS_FiniteSubsetsOfFinite
<1>2. PICK U \in T : \A W \in T : ~ (<<W, U>> \in StrictSubsetOrdering(S))
  BY <1>1, WFMin
<1>3. \A W \in SUBSET U : W \in T => W = U
  BY <1>2 DEF StrictSubsetOrdering
<1> QED
  BY <1>3

\* f folds every subset of A: pick[s] is what is added last to s, by step.
Folds(f, A, base, step, pick) ==
  \A s \in SUBSET A : f[s] = IF s = {} THEN base ELSE step[pick[s]][f[s \ {pick[s]}]]

\* Two functions that fold the subsets of a set agree on them.
LEMMA FoldUnique ==
  ASSUME NEW S, IsFiniteSet(S), NEW base, NEW step, NEW pick,
         \A s \in SUBSET S : s # {} => pick[s] \in s,
         NEW A \in SUBSET S, NEW g, NEW h,
         Folds(g, A, base, step, pick), Folds(h, A, base, step, pick)
  PROVE  \A s \in SUBSET A : g[s] = h[s]
<1> DEFINE T == {s \in SUBSET A : g[s] # h[s]}
<1> SUFFICES ASSUME T # {} PROVE FALSE
  OBVIOUS
<1>1. PICK U \in T : \A W \in SUBSET U : W \in T => W = U
  <2>1. T \subseteq SUBSET S
    OBVIOUS
  <2> HIDE DEF T
  <2> QED BY <2>1, SmallestSet
<1>2. U # {}
  <2>1. g[{}] = base /\ h[{}] = base
    BY DEF Folds
  <2> QED BY <2>1
<1>3. U \ {pick[U]} \in SUBSET A /\ pick[U] \in U
  BY <1>1, <1>2
<1>4. g[U \ {pick[U]}] = h[U \ {pick[U]}]
  BY <1>1, <1>3
<1>5. /\ g[U] = step[pick[U]][g[U \ {pick[U]}]]
      /\ h[U] = step[pick[U]][h[U \ {pick[U]}]]
  BY <1>2 DEF Folds
<1> QED
  BY <1>4, <1>5

\* There is a function that folds the subsets of a finite set.
LEMMA FoldExists ==
  ASSUME NEW S, IsFiniteSet(S), NEW base, NEW step, NEW pick,
         \A s \in SUBSET S : s # {} => pick[s] \in s
  PROVE  \E f : f = [s \in SUBSET S |-> f[s]] /\ Folds(f, S, base, step, pick)
<1> DEFINE part(A) == CHOOSE g : Folds(g, A, base, step, pick)
           T == {A \in SUBSET S : ~ \E g : Folds(g, A, base, step, pick)}
<1>1. ASSUME NEW A \in SUBSET S,
             \A B \in SUBSET A : B = A \/ Folds(part(B), B, base, step, pick)
      PROVE  \E g : Folds(g, A, base, step, pick)
  <2> DEFINE v == IF A = {} THEN base ELSE step[pick[A]][part(A \ {pick[A]})[A \ {pick[A]}]]
             g == [s \in SUBSET A |-> IF s = A THEN v ELSE part(s)[s]]
  <2> HIDE DEF part
  <2>1. ASSUME NEW s \in SUBSET A, s # A
        PROVE  g[s] = IF s = {} THEN base ELSE step[pick[s]][g[s \ {pick[s]}]]
    <3> DEFINE t == s \ {pick[s]}
    <3>0. g[s] = part(s)[s]
      BY <2>1
    <3>1. Folds(part(s), s, base, step, pick)
      BY <2>1, <1>1
    <3>2. CASE s = {}
      BY <3>0, <3>1, <3>2 DEF Folds
    <3>3. CASE s # {}
      <4>1. t \in SUBSET s /\ t # s /\ t # A /\ t \in SUBSET A
        BY <3>3, <2>1
      <4>2. Folds(part(t), t, base, step, pick)
        BY <4>1, <1>1
      <4>3. part(s)[t] = part(t)[t]
        <5>1. t \in SUBSET S /\ t \in SUBSET t
          BY <4>1
        <5>2. Folds(part(s), t, base, step, pick)
          BY <3>1, <4>1 DEF Folds
        <5> HIDE DEF t
        <5> QED  BY <4>2, <5>1, <5>2, FoldUnique
      <4>4. g[t] = part(t)[t]
        BY <4>1
      <4>5. part(s)[s] = step[pick[s]][part(s)[t]]
        BY <3>1, <3>3 DEF Folds
      <4> HIDE DEF g
      <4> QED
        BY <4>3, <4>4, <4>5, <3>0, <3>3
    <3> QED BY <3>2, <3>3
  <2>2. g[A] = v
    OBVIOUS
  <2>3. A # {} => A \ {pick[A]} # A /\ A \ {pick[A]} \in SUBSET A
    OBVIOUS
  <2>4. A # {} => g[A \ {pick[A]}] = part(A \ {pick[A]})[A \ {pick[A]}]
    BY <2>3
  <2>5. g[A] = IF A = {} THEN base ELSE step[pick[A]][g[A \ {pick[A]}]]
    <3> HIDE DEF g
    <3> QED BY <2>2, <2>4
  <2>6. Folds(g, A, base, step, pick)
    <3> HIDE DEF g
    <3> QED BY <2>1, <2>5 DEF Folds
  <2> HIDE DEF g
  <2> QED
    BY <2>6
<1>2. T = {}
  <2> SUFFICES ASSUME T # {} PROVE FALSE
    OBVIOUS
  <2>1. T \subseteq SUBSET S
    OBVIOUS
  <2>2. PICK A \in T : \A B \in SUBSET A : B \in T => B = A
    <3> HIDE DEF T
    <3> QED BY <2>1, SmallestSet
  <2>3. \A B \in SUBSET A : B = A \/ Folds(part(B), B, base, step, pick)
    <3> SUFFICES ASSUME NEW B \in SUBSET A, B # A PROVE Folds(part(B), B, base, step, pick)
      OBVIOUS
    <3>1. \E g : Folds(g, B, base, step, pick)
      BY <2>2
    <3> QED BY <3>1
  <2>4. \E g : Folds(g, A, base, step, pick)
    <3> HIDE DEF part
    <3> QED BY <1>1, <2>3
  <2> QED BY <2>4
<1>3. PICK g : Folds(g, S, base, step, pick)
  BY <1>2
<1> DEFINE f == [s \in SUBSET S |-> g[s]]
<1>5. Folds(f, S, base, step, pick)
  BY <1>3 DEF Folds
<1>6. f = [s \in SUBSET S |-> f[s]]
  OBVIOUS
<1> HIDE DEF f
<1> QED BY <1>5, <1>6

\* A fold stays within a set that no step leaves.
LEMMA FoldWithin ==
  ASSUME NEW S, IsFiniteSet(S), NEW V, NEW base \in V, NEW step, NEW pick,
         \A s \in SUBSET S : s # {} => pick[s] \in s,
         \A x \in S : \A v \in V : step[x][v] \in V
  PROVE  \E f : /\ f = [s \in SUBSET S |-> f[s]]
                /\ Folds(f, S, base, step, pick)
                /\ \A s \in SUBSET S : f[s] \in V
<1>1. PICK f : f = [s \in SUBSET S |-> f[s]] /\ Folds(f, S, base, step, pick)
  BY FoldExists
<1> DEFINE T == {s \in SUBSET S : f[s] \notin V}
<1>2. T = {}
  <2> SUFFICES ASSUME T # {} PROVE FALSE
    OBVIOUS
  <2>1. T \subseteq SUBSET S
    OBVIOUS
  <2>2. PICK U \in T : \A W \in SUBSET U : W \in T => W = U
    <3> HIDE DEF T
    <3> QED BY <2>1, SmallestSet
  <2>3. U \in SUBSET S /\ f[U] \notin V
    OBVIOUS
  <2>4. f[U] = IF U = {} THEN base ELSE step[pick[U]][f[U \ {pick[U]}]]
    BY <1>1, <2>3 DEF Folds
  <2>5. U # {}
    BY <2>3, <2>4
  <2> DEFINE x == pick[U]
             W == U \ {x}
  <2>6. x \in U /\ x \in S /\ W \in SUBSET U /\ W \in SUBSET S /\ W # U
    BY <2>3, <2>5
  <2>7. f[W] \in V
    BY <2>2, <2>6
  <2>8. f[U] = step[x][f[W]]
    BY <2>4, <2>5
  <2> HIDE DEF x, W, T
  <2> QED BY <2>3, <2>6, <2>7, <2>8
<1>3. \A s \in SUBSET S : f[s] \in V
  BY <1>2
<1> QED BY <1>1, <1>3

-----------------------------------------------------------------------------
(* Folds over a sequence.                                                  *)

\* A nonempty set of naturals has a least element.
LEMMA LeastNumber ==
  ASSUME NEW T \in SUBSET Nat, T # {}
  PROVE  \E n \in T : \A m \in T : n =< m
<1>1. PICK t \in T : TRUE
  OBVIOUS
<1> DEFINE C == {n \in T : n =< t}
           U == {1 .. n : n \in C}
<1>2. IsFiniteSet(1 .. t)
  BY FS_Interval
<1>3. U \subseteq SUBSET (1 .. t) /\ U # {}
  OBVIOUS
<1>4. PICK I \in U : \A W \in SUBSET I : W \in U => W = I
  <2> DEFINE D == 1 .. t
  <2>1. IsFiniteSet(D) /\ U \subseteq SUBSET D /\ U # {}
    BY <1>2, <1>3
  <2> HIDE DEF U, D
  <2> QED BY <2>1, SmallestSet
<1>5. PICK n \in C : I = 1 .. n
  OBVIOUS
<1>6. ASSUME NEW m \in T, m < n PROVE FALSE
  <2>1. m \in C /\ 1 .. m \in U
    BY <1>6
  <2>2. 1 .. m \in SUBSET I /\ n \in I /\ n \notin 1 .. m
    BY <1>5, <1>6
  <2> QED BY <1>4, <2>1, <2>2
<1> QED
  BY <1>6

\* Max of some indexes is one of them and no less than any.
LEMMA GreatestIndex ==
  ASSUME NEW n \in Nat, NEW s \in SUBSET (1 .. n), s # {}
  PROVE  Max(s) \in s /\ \A k \in s : k =< Max(s)
<1> DEFINE T == {n - k : k \in s}
<1>1. T \in SUBSET Nat /\ T # {}
  <2>1. ASSUME NEW k \in s PROVE n - k \in Nat
    OBVIOUS
  <2> QED BY <2>1
<1>2. PICK d \in T : \A e \in T : d =< e
  <2> HIDE DEF T
  <2> QED BY <1>1, LeastNumber
<1>3. PICK m \in s : d = n - m
  OBVIOUS
<1>4. \A k \in s : m >= k
  <2> SUFFICES ASSUME NEW k \in s PROVE m >= k
    OBVIOUS
  <2>1. n - k \in T
    OBVIOUS
  <2> QED BY <1>2, <1>3, <2>1
<1>5. \E x \in s : \A y \in s : x >= y
  BY <1>4
<1>6. Max(s) \in s /\ \A y \in s : Max(s) >= y
  BY <1>5 DEF Max
<1> QED
  BY <1>6

\* The last of the first n indexes is n, and before it are the first n - 1.
LEMMA LastIndex ==
  ASSUME NEW n \in Nat, n > 0
  PROVE  /\ Max(1 .. n) = n
         /\ (1 .. n) \ {Max(1 .. n)} = 1 .. (n - 1)
<1>1. Max(1 .. n) \in 1 .. n /\ \A k \in 1 .. n : k =< Max(1 .. n)
  <2> DEFINE s == 1 .. n
  <2>1. s \in SUBSET (1 .. n) /\ s # {}
    OBVIOUS
  <2>2. Max(s) \in s /\ \A k \in s : k =< Max(s)
    <3> HIDE DEF s
    <3> QED BY <2>1, GreatestIndex
  <2> QED BY <2>2
<1>2. Max(1 .. n) = n
  BY <1>1
<1> QED
  BY <1>2

\* f[1 .. k] is what FoldLeft makes of the first k elements of a sequence of
\* length n, when step[k][v] is what it makes of v and the k-th.
LeftFolds(f, n, base, step) ==
  f = [s \in SUBSET (1 .. n) |->
         IF s = {} THEN base ELSE step[Max(s)][f[s \ {Max(s)}]]]

\* There is such a function, and it stays within a set that no step leaves.
LEMMA FoldLeftExists ==
  ASSUME NEW n \in Nat, NEW V, NEW base \in V,
         NEW step, \A k \in 1 .. n : \A v \in V : step[k][v] \in V
  PROVE  \E f : LeftFolds(f, n, base, step) /\ \A s \in SUBSET (1 .. n) : f[s] \in V
<1> DEFINE pick == [s \in SUBSET (1 .. n) |-> Max(s)]
<1>1. \A s \in SUBSET (1 .. n) : s # {} => pick[s] \in s
  BY GreatestIndex
<1>2. IsFiniteSet(1 .. n)
  BY FS_Interval
<1>3. PICK f : f = [s \in SUBSET (1 .. n) |-> f[s]] /\ Folds(f, 1 .. n, base, step, pick)
  <2> DEFINE D == 1 .. n
  <2>1. IsFiniteSet(D) /\ \A s \in SUBSET D : s # {} => pick[s] \in s
    BY <1>1, <1>2
  <2>2. \E f : f = [s \in SUBSET D |-> f[s]] /\ Folds(f, D, base, step, pick)
    <3> HIDE DEF pick, D
    <3> QED BY <2>1, FoldExists
  <2> QED BY <2>2
<1>4. f = [s \in SUBSET (1 .. n) |->
             IF s = {} THEN base ELSE step[Max(s)][f[s \ {Max(s)}]]]
  <2>1. \A s \in SUBSET (1 .. n) :
          f[s] = IF s = {} THEN base ELSE step[pick[s]][f[s \ {pick[s]}]]
    <3> HIDE DEF pick
    <3> QED BY <1>3 DEF Folds
  <2>2. \A s \in SUBSET (1 .. n) :
          f[s] = IF s = {} THEN base ELSE step[Max(s)][f[s \ {Max(s)}]]
    BY <2>1
  <2> QED BY <1>3, <2>2
<1> DEFINE T == {s \in SUBSET (1 .. n) : f[s] \notin V}
<1>5. T = {}
  <2> SUFFICES ASSUME T # {} PROVE FALSE
    OBVIOUS
  <2>1. T \subseteq SUBSET (1 .. n)
    OBVIOUS
  <2>2. PICK U \in T : \A W \in SUBSET U : W \in T => W = U
    <3> DEFINE D == 1 .. n
    <3>1. IsFiniteSet(D) /\ T \subseteq SUBSET D
      BY <1>2, <2>1
    <3> HIDE DEF T, D
    <3> QED BY <3>1, SmallestSet
  <2>3. f[{}] = base
    BY <1>4
  <2>4. U # {}
    BY <2>3
  <2> DEFINE x == Max(U)
             W == U \ {x}
  <2>5. x \in U /\ x \in 1 .. n
    BY <2>4, GreatestIndex
  <2>6. W \in SUBSET U /\ W # U
    BY <2>5
  <2>7. f[W] \in V
    BY <2>2, <2>6
  <2>8. f[U] = step[x][f[W]]
    BY <1>4, <2>4
  <2>9. f[U] \in V
    <3> HIDE DEF W, x
    <3> QED BY <2>5, <2>7, <2>8
  <2> QED BY <2>9
<1>6. \A s \in SUBSET (1 .. n) : f[s] \in V
  BY <1>5
<1> QED
  BY <1>4, <1>6 DEF LeftFolds

\* c folds like f wherever it agrees with it so far.
Follows(c, f, n, base, step) ==
  /\ c[{}] = base
  /\ \A s \in SUBSET (1 .. n) :
       s # {} /\ c[s \ {Max(s)}] = f[s \ {Max(s)}]
         => c[s] = step[Max(s)][f[s \ {Max(s)}]]

\* Then it is f, and the values it goes through are known: run[k] is what it has
\* after k elements.
LEMMA LeftRuns ==
  ASSUME NEW n \in Nat, NEW V, NEW base \in V, NEW step,
         NEW f, LeftFolds(f, n, base, step), \A s \in SUBSET (1 .. n) : f[s] \in V,
         NEW c, Follows(c, f, n, base, step)
  PROVE  \E run \in [0 .. n -> V] :
           /\ run[0] = base
           /\ \A k \in 1 .. n : run[k] = step[k][run[k - 1]]
           /\ run[n] = c[1 .. n]
<1> DEFINE run == [k \in 0 .. n |-> f[1 .. k]]
<1>1. run \in [0 .. n -> V]
  <2>1. ASSUME NEW k \in 0 .. n PROVE f[1 .. k] \in V
    <3>1. 1 .. k \in SUBSET (1 .. n)
      OBVIOUS
    <3> QED BY <3>1
  <2> QED BY <2>1
<1>2. run[0] = base
  <2>1. 1 .. 0 = {} /\ {} \in SUBSET (1 .. n)
    OBVIOUS
  <2>2. f[{}] = base
    BY DEF LeftFolds
  <2> QED BY <2>1, <2>2
<1>3. ASSUME NEW k \in 1 .. n PROVE run[k] = step[k][run[k - 1]]
  <2>1. /\ 1 .. k \in SUBSET (1 .. n) /\ 1 .. k # {}
        /\ Max(1 .. k) = k /\ (1 .. k) \ {Max(1 .. k)} = 1 .. (k - 1)
    BY LastIndex
  <2>2. f[1 .. k] = step[k][f[1 .. (k - 1)]]
    <3> HIDE DEF run
    <3> QED BY <2>1 DEF LeftFolds
  <2>3. run[k] = f[1 .. k] /\ run[k - 1] = f[1 .. (k - 1)]
    OBVIOUS
  <2> QED BY <2>2, <2>3
<1>4. \A s \in SUBSET (1 .. n) : c[s] = f[s]
  <2> DEFINE T == {s \in SUBSET (1 .. n) : c[s] # f[s]}
  <2> SUFFICES ASSUME T # {} PROVE FALSE
    OBVIOUS
  <2>1. T \subseteq SUBSET (1 .. n)
    OBVIOUS
  <2>2. PICK U \in T : \A W \in SUBSET U : W \in T => W = U
    <3> DEFINE D == 1 .. n
    <3>1. IsFiniteSet(D) /\ T \subseteq SUBSET D
      BY <2>1, FS_Interval
    <3> HIDE DEF T, D
    <3> QED BY <3>1, SmallestSet
  <2>3. U # {} /\ U \in SUBSET (1 .. n)
    BY DEF Follows, LeftFolds
  <2> DEFINE x == Max(U)
  <2>4. x \in U
    BY <2>3, GreatestIndex
  <2>5. c[U \ {x}] = f[U \ {x}]
    <3> HIDE DEF x
    <3> QED BY <2>2, <2>4
  <2>6. c[U] = step[x][f[U \ {x}]] /\ f[U] = step[x][f[U \ {x}]]
    BY <2>3, <2>5 DEF Follows, LeftFolds
  <2> QED BY <2>6
<1>5. run[n] = c[1 .. n]
  BY <1>4
<1> HIDE DEF run
<1> QED
  BY <1>1, <1>2, <1>3, <1>5

-----------------------------------------------------------------------------
(* Sums over a finite set.                                                 *)

\* f[s] is the sum of w over s, for the subsets s of A, added up in some order.
SetSums(f, A, w) ==
  \A s \in SUBSET A :
    f[s] = IF s = {} THEN 0
           ELSE w[CHOOSE x \in s : TRUE] + f[s \ {CHOOSE x \in s : TRUE}]

\* SumFunctionOnSet is the last of such sums, all of which are integers.
LEMMA SumIsFold ==
  ASSUME NEW S, IsFiniteSet(S), NEW w, \A x \in S : w[x] \in Int
  PROVE  \E f : /\ SetSums(f, S, w)
                /\ \A s \in SUBSET S : f[s] \in Int
                /\ SumFunctionOnSet(w, S) = f[S]
<1> DEFINE pick == [s \in SUBSET S |-> CHOOSE x \in s : TRUE]
           step == [x \in S |-> [v \in Int |-> w[x] + v]]
           Eqn(f) == f = [s \in SUBSET S |->
                            IF s = {} THEN 0
                            ELSE w[CHOOSE x \in s : TRUE] + f[s \ {CHOOSE x \in s : TRUE}]]
           c == CHOOSE f : Eqn(f)
<1>1. \A s \in SUBSET S : s # {} => pick[s] \in s
  OBVIOUS
<1>2. PICK f : f = [s \in SUBSET S |-> f[s]] /\ Folds(f, S, 0, step, pick)
  <2> HIDE DEF pick, step
  <2> QED BY <1>1, FoldExists
<1>3. \A s \in SUBSET S : f[s] \in Int
  <2> DEFINE T == {s \in SUBSET S : f[s] \notin Int}
  <2> SUFFICES ASSUME T # {} PROVE FALSE
    OBVIOUS
  <2>1. T \subseteq SUBSET S
    OBVIOUS
  <2>2. PICK U \in T : \A W \in SUBSET U : W \in T => W = U
    <3> HIDE DEF T
    <3> QED BY <2>1, SmallestSet
  <2>3. f[{}] = 0
    BY <1>2 DEF Folds
  <2>4. U # {}
    BY <2>3
  <2> DEFINE x == pick[U]
             W == U \ {x}
  <2>10. pick[U] \in U
    BY <1>1, <2>4
  <2>5. x \in U /\ W \in SUBSET U /\ W # U /\ f[W] \in Int
    <3> HIDE DEF pick
    <3> QED BY <2>2, <2>10
  <2>6. f[U] = step[x][f[W]]
    BY <1>2, <2>4 DEF Folds
  <2>7. x \in S /\ w[x] \in Int
    BY <2>5
  <2>8. step[x][f[W]] = w[x] + f[W]
    <3> HIDE DEF x, W
    <3> QED BY <2>5, <2>7
  <2>9. f[U] \in Int
    <3> HIDE DEF x, W, step
    <3> QED BY <2>5, <2>6, <2>7, <2>8
  <2> QED BY <2>9
<1>4. SetSums(f, S, w)
  <2> SUFFICES ASSUME NEW s \in SUBSET S
               PROVE  f[s] = IF s = {} THEN 0
                             ELSE w[CHOOSE x \in s : TRUE] + f[s \ {CHOOSE x \in s : TRUE}]
    BY DEF SetSums
  <2>1. f[s] = IF s = {} THEN 0 ELSE step[pick[s]][f[s \ {pick[s]}]]
    BY <1>2 DEF Folds
  <2>2. pick[s] = CHOOSE x \in s : TRUE
    OBVIOUS
  <2>3. s # {} => pick[s] \in S /\ f[s \ {pick[s]}] \in Int
    BY <1>1, <1>3
  <2> HIDE DEF pick
  <2>4. s # {} => step[pick[s]][f[s \ {pick[s]}]] = w[pick[s]] + f[s \ {pick[s]}]
    BY <2>3
  <2> HIDE DEF step
  <2> QED BY <2>1, <2>2, <2>4
<1>5. Eqn(f)
  <2>1. \A s \in SUBSET S :
          f[s] = IF s = {} THEN 0
                 ELSE w[CHOOSE x \in s : TRUE] + f[s \ {CHOOSE x \in s : TRUE}]
    BY <1>4 DEF SetSums
  <2> QED BY <1>2, <2>1
<1>6. SumFunctionOnSet(w, S) = c[S]
  BY DEF SumFunctionOnSet, FoldFunctionOnSet, MapThenFoldSet
<1>7. Eqn(c)
  <2> HIDE DEF Eqn
  <2> QED BY <1>5
<1> HIDE DEF c
<1>8. SetSums(c, S, w) /\ c = [s \in SUBSET S |-> c[s]]
  BY <1>7 DEF SetSums
<1>9. \A s \in SUBSET S : c[s] = f[s]
  <2> DEFINE T == {s \in SUBSET S : c[s] # f[s]}
  <2> SUFFICES ASSUME T # {} PROVE FALSE
    OBVIOUS
  <2>1. T \subseteq SUBSET S
    OBVIOUS
  <2>2. PICK U \in T : \A W \in SUBSET U : W \in T => W = U
    <3> HIDE DEF T
    <3> QED BY <2>1, SmallestSet
  <2>3. c[{}] = 0 /\ f[{}] = 0
    BY <1>4, <1>8 DEF SetSums
  <2>4. U # {} /\ U \in SUBSET S
    BY <2>3
  <2> DEFINE x == CHOOSE y \in U : TRUE
  <2>5. c[U] = w[x] + c[U \ {x}] /\ f[U] = w[x] + f[U \ {x}]
    BY <1>4, <1>8, <2>4 DEF SetSums
  <2>6. x \in U
    BY <2>4
  <2>7. c[U \ {x}] = f[U \ {x}]
    BY <2>2, <2>6
  <2> QED BY <2>5, <2>7
<1>10. SumFunctionOnSet(w, S) = f[S]
  BY <1>6, <1>9
<1> QED
  BY <1>3, <1>4, <1>10

\* Any element can be taken out of such a sum, not only the one that was added.
LEMMA SumTakesOut ==
  ASSUME NEW S, IsFiniteSet(S), NEW w, \A x \in S : w[x] \in Int,
         NEW f, SetSums(f, S, w), \A s \in SUBSET S : f[s] \in Int
  PROVE  \A s \in SUBSET S : \A x \in s : f[s] = w[x] + f[s \ {x}]
<1> DEFINE T == {s \in SUBSET S : \E x \in s : f[s] # w[x] + f[s \ {x}]}
<1> SUFFICES ASSUME T # {} PROVE FALSE
  OBVIOUS
<1>1. T \subseteq SUBSET S
  OBVIOUS
<1>2. PICK U \in T : \A W \in SUBSET U : W \in T => W = U
  <2> HIDE DEF T
  <2> QED BY <1>1, SmallestSet
<1>3. PICK x \in U : f[U] # w[x] + f[U \ {x}]
  OBVIOUS
<1> DEFINE p == CHOOSE y \in U : TRUE
<1>4. p \in U /\ f[U] = w[p] + f[U \ {p}]
  BY <1>3 DEF SetSums
<1> HIDE DEF p
<1>5. p # x
  BY <1>3, <1>4
<1> DEFINE A == U \ {p}
           B == U \ {x}
           C == (U \ {p}) \ {x}
<1>6. /\ A \in SUBSET U /\ A # U /\ x \in A /\ A \in SUBSET S
      /\ B \in SUBSET U /\ B # U /\ p \in B /\ B \in SUBSET S
      /\ A \ {x} = C /\ B \ {p} = C /\ C \in SUBSET S
  BY <1>4, <1>5
<1>7. A \notin T /\ B \notin T
  <2> HIDE DEF T, A, B
  <2> QED BY <1>2, <1>6
<1>8. f[A] = w[x] + f[A \ {x}] /\ f[B] = w[p] + f[B \ {p}]
  <2> HIDE DEF A, B
  <2> QED BY <1>6, <1>7
<1>9. w[x] \in Int /\ w[p] \in Int /\ f[C] \in Int
  BY <1>4, <1>6
<1>10. f[A] = w[x] + f[C] /\ f[B] = w[p] + f[C]
  BY <1>6, <1>8
<1>11. f[U] = w[p] + f[A]
  BY <1>4
<1>12. f[U] # w[x] + f[B]
  BY <1>3
<1> HIDE DEF A, B, C
<1> QED
  BY <1>9, <1>10, <1>11, <1>12

\* A sum of integers is an integer.
LEMMA SumType ==
  ASSUME NEW S, IsFiniteSet(S), NEW w, \A x \in S : w[x] \in Int
  PROVE  SumFunctionOnSet(w, S) \in Int
<1>1. PICK f : (\A s \in SUBSET S : f[s] \in Int) /\ SumFunctionOnSet(w, S) = f[S]
  BY SumIsFold
<1> QED
  BY <1>1

\* Nothing adds up to 0.
LEMMA SumOfNone ==
  ASSUME NEW w
  PROVE  SumFunctionOnSet(w, {}) = 0
<1>1. IsFiniteSet({}) /\ \A x \in {} : w[x] \in Int
  BY FS_EmptySet
<1>2. PICK f : SetSums(f, {}, w) /\ SumFunctionOnSet(w, {}) = f[{}]
  <2> DEFINE S == {}
  <2>1. IsFiniteSet(S) /\ \A x \in S : w[x] \in Int
    BY <1>1
  <2>2. \E f : SetSums(f, S, w) /\ SumFunctionOnSet(w, S) = f[S]
    <3> HIDE DEF S
    <3> QED BY <2>1, SumIsFold
  <2> QED BY <2>2
<1> QED
  BY <1>2 DEF SetSums

\* The sum over a set is that over the set without an element, and the element's.
LEMMA SumWithout ==
  ASSUME NEW S, IsFiniteSet(S), NEW w, \A x \in S : w[x] \in Int, NEW x \in S
  PROVE  SumFunctionOnSet(w, S) = w[x] + SumFunctionOnSet(w, S \ {x})
<1> DEFINE R == S \ {x}
<1>1. IsFiniteSet(R) /\ R \in SUBSET S /\ \A y \in R : w[y] \in Int
  BY FS_Subset
<1> HIDE DEF R
<1>2. PICK f : /\ SetSums(f, S, w) /\ \A s \in SUBSET S : f[s] \in Int
               /\ SumFunctionOnSet(w, S) = f[S]
  BY SumIsFold
<1>3. PICK g : /\ SetSums(g, R, w) /\ \A s \in SUBSET R : g[s] \in Int
               /\ SumFunctionOnSet(w, R) = g[R]
  BY <1>1, SumIsFold
<1>4. f[S] = w[x] + f[R]
  BY <1>2, SumTakesOut DEF R
<1>5. f[R] = g[R]
  <2> DEFINE T == {s \in SUBSET R : f[s] # g[s]}
  <2> SUFFICES ASSUME T # {} PROVE FALSE
    OBVIOUS
  <2>1. T \subseteq SUBSET R
    OBVIOUS
  <2>2. PICK U \in T : \A W \in SUBSET U : W \in T => W = U
    <3> HIDE DEF T
    <3> QED BY <1>1, <2>1, SmallestSet
  <2>3. f[{}] = 0 /\ g[{}] = 0
    BY <1>2, <1>3 DEF SetSums
  <2>4. U # {} /\ U \in SUBSET R /\ U \in SUBSET S
    BY <1>1, <2>3
  <2> DEFINE y == CHOOSE z \in U : TRUE
  <2>5. f[U] = w[y] + f[U \ {y}] /\ g[U] = w[y] + g[U \ {y}]
    BY <1>2, <1>3, <2>4 DEF SetSums
  <2>6. y \in U
    BY <2>4
  <2>7. f[U \ {y}] = g[U \ {y}]
    BY <2>2, <2>6
  <2> QED BY <2>5, <2>7
<1> QED
  BY <1>2, <1>3, <1>4, <1>5 DEF R

\* What is alike on a set has the same sum over it.
SameOn(v, w, S) == \A x \in S : v[x] = w[x]

LEMMA SumSame ==
  ASSUME NEW S, IsFiniteSet(S), NEW w, \A x \in S : w[x] \in Int,
         NEW v, SameOn(v, w, S)
  PROVE  SumFunctionOnSet(v, S) = SumFunctionOnSet(w, S)
<1>0. \A x \in S : v[x] \in Int
  BY DEF SameOn
<1>1. PICK f : SetSums(f, S, w) /\ SumFunctionOnSet(w, S) = f[S]
  BY SumIsFold
<1>2. PICK g : SetSums(g, S, v) /\ SumFunctionOnSet(v, S) = g[S]
  BY <1>0, SumIsFold
<1> DEFINE T == {s \in SUBSET S : f[s] # g[s]}
<1>3. T = {}
  <2> SUFFICES ASSUME T # {} PROVE FALSE
    OBVIOUS
  <2>1. T \subseteq SUBSET S
    OBVIOUS
  <2>2. PICK U \in T : \A W \in SUBSET U : W \in T => W = U
    <3> HIDE DEF T
    <3> QED BY <2>1, SmallestSet
  <2>3. f[{}] = 0 /\ g[{}] = 0
    BY <1>1, <1>2 DEF SetSums
  <2>4. U # {} /\ U \in SUBSET S
    BY <2>3
  <2> DEFINE y == CHOOSE z \in U : TRUE
  <2>5. f[U] = w[y] + f[U \ {y}] /\ g[U] = v[y] + g[U \ {y}]
    BY <1>1, <1>2, <2>4 DEF SetSums
  <2>6. y \in U /\ y \in S
    BY <2>4
  <2>7. f[U \ {y}] = g[U \ {y}]
    BY <2>2, <2>6
  <2>8. v[y] = w[y]
    BY <2>6 DEF SameOn
  <2> QED BY <2>5, <2>7, <2>8
<1> QED
  BY <1>1, <1>2, <1>3

\* One element that changes changes the sum by as much.
ChangedAt(v, w, S, x) == \A y \in S : y # x => v[y] = w[y]

LEMMA SumChange ==
  ASSUME NEW S, IsFiniteSet(S), NEW w, \A x \in S : w[x] \in Int,
         NEW x \in S, NEW v, ChangedAt(v, w, S, x), v[x] \in Int
  PROVE  SumFunctionOnSet(v, S) = SumFunctionOnSet(w, S) - w[x] + v[x]
<1> DEFINE R == S \ {x}
<1>1. IsFiniteSet(R) /\ (\A y \in R : w[y] \in Int) /\ SameOn(v, w, R)
  BY FS_Subset DEF SameOn, ChangedAt
<1>2. \A y \in S : v[y] \in Int
  BY DEF ChangedAt
<1> HIDE DEF R
<1>3. SumFunctionOnSet(v, R) = SumFunctionOnSet(w, R)
  BY <1>1, SumSame
<1>4. SumFunctionOnSet(w, R) \in Int
  BY <1>1, SumType
<1>5. SumFunctionOnSet(w, S) = w[x] + SumFunctionOnSet(w, R)
  BY SumWithout DEF R
<1>6. SumFunctionOnSet(v, S) = v[x] + SumFunctionOnSet(v, R)
  BY <1>2, SumWithout DEF R
<1>7. w[x] \in Int
  OBVIOUS
<1> QED
  BY <1>3, <1>4, <1>5, <1>6, <1>7

\* Numbers not above 0 add up to one that is not.
LEMMA SumNotAbove ==
  ASSUME NEW S, IsFiniteSet(S), NEW w, \A x \in S : w[x] \in Int /\ w[x] =< 0
  PROVE  SumFunctionOnSet(w, S) =< 0
<1>1. PICK f : /\ SetSums(f, S, w) /\ \A s \in SUBSET S : f[s] \in Int
               /\ SumFunctionOnSet(w, S) = f[S]
  BY SumIsFold
<1> DEFINE T == {s \in SUBSET S : ~(f[s] =< 0)}
<1>2. T = {}
  <2> SUFFICES ASSUME T # {} PROVE FALSE
    OBVIOUS
  <2>1. T \subseteq SUBSET S
    OBVIOUS
  <2>2. PICK U \in T : \A W \in SUBSET U : W \in T => W = U
    <3> HIDE DEF T
    <3> QED BY <2>1, SmallestSet
  <2>3. f[{}] = 0
    BY <1>1 DEF SetSums
  <2>4. U # {} /\ U \in SUBSET S
    BY <2>3
  <2> DEFINE y == CHOOSE z \in U : TRUE
  <2>5. f[U] = w[y] + f[U \ {y}]
    BY <1>1, <2>4 DEF SetSums
  <2>6. y \in U /\ y \in S
    BY <2>4
  <2>7. f[U \ {y}] =< 0 /\ f[U \ {y}] \in Int
    BY <1>1, <2>2, <2>4, <2>6
  <2>8. w[y] \in Int /\ w[y] =< 0
    BY <2>6
  <2>9. f[U] =< 0
    <3> HIDE DEF y
    <3> QED BY <2>5, <2>7, <2>8
  <2> QED BY <2>9
<1> QED
  BY <1>1, <1>2

\* Numbers not below 0 add up to one that is not.
LEMMA SumNotBelow ==
  ASSUME NEW S, IsFiniteSet(S), NEW w, \A x \in S : w[x] \in Int /\ w[x] >= 0
  PROVE  SumFunctionOnSet(w, S) >= 0
<1>1. PICK f : /\ SetSums(f, S, w) /\ \A s \in SUBSET S : f[s] \in Int
               /\ SumFunctionOnSet(w, S) = f[S]
  BY SumIsFold
<1> DEFINE T == {s \in SUBSET S : ~(f[s] >= 0)}
<1>2. T = {}
  <2> SUFFICES ASSUME T # {} PROVE FALSE
    OBVIOUS
  <2>1. T \subseteq SUBSET S
    OBVIOUS
  <2>2. PICK U \in T : \A W \in SUBSET U : W \in T => W = U
    <3> HIDE DEF T
    <3> QED BY <2>1, SmallestSet
  <2>3. f[{}] = 0
    BY <1>1 DEF SetSums
  <2>4. U # {} /\ U \in SUBSET S
    BY <2>3
  <2> DEFINE y == CHOOSE z \in U : TRUE
  <2>5. f[U] = w[y] + f[U \ {y}]
    BY <1>1, <2>4 DEF SetSums
  <2>6. y \in U /\ y \in S
    BY <2>4
  <2>7. f[U \ {y}] >= 0 /\ f[U \ {y}] \in Int
    BY <1>1, <2>2, <2>4, <2>6
  <2>8. w[y] \in Int /\ w[y] >= 0
    BY <2>6
  <2>9. f[U] >= 0
    <3> HIDE DEF y
    <3> QED BY <2>5, <2>7, <2>8
  <2> QED BY <2>9
<1> QED
  BY <1>1, <1>2

\* Zeros add up to 0.
LEMMA SumOfZeros ==
  ASSUME NEW S, IsFiniteSet(S), NEW w, \A x \in S : w[x] = 0
  PROVE  SumFunctionOnSet(w, S) = 0
<1>1. \A x \in S : w[x] \in Int /\ w[x] =< 0 /\ w[x] >= 0
  OBVIOUS
<1>2. SumFunctionOnSet(w, S) =< 0 /\ SumFunctionOnSet(w, S) >= 0
  BY <1>1, SumNotAbove, SumNotBelow
<1>3. SumFunctionOnSet(w, S) \in Int
  BY <1>1, SumType
<1> QED
  BY <1>2, <1>3

\* The sum of a pointwise sum.
Adds(u, v, w, S) == \A x \in S : u[x] = v[x] + w[x]

LEMMA SumAdds ==
  ASSUME NEW S, IsFiniteSet(S),
         NEW v, \A x \in S : v[x] \in Int, NEW w, \A x \in S : w[x] \in Int,
         NEW u, Adds(u, v, w, S)
  PROVE  SumFunctionOnSet(u, S) = SumFunctionOnSet(v, S) + SumFunctionOnSet(w, S)
<1> DEFINE P(U) == SumFunctionOnSet(u, U) = SumFunctionOnSet(v, U) + SumFunctionOnSet(w, U)
           T == {U \in SUBSET S : ~P(U)}
<1>1. T = {}
  <2> SUFFICES ASSUME T # {} PROVE FALSE
    OBVIOUS
  <2>1. PICK U \in T : \A W \in SUBSET U : W \in T => W = U
    <3>1. T \subseteq SUBSET S
      OBVIOUS
    <3> HIDE DEF T
    <3> QED BY <3>1, SmallestSet
  <2>2. U \in SUBSET S /\ IsFiniteSet(U)
    BY FS_Subset
  <2>3. \A x \in U : u[x] \in Int /\ v[x] \in Int /\ w[x] \in Int /\ u[x] = v[x] + w[x]
    BY <2>2 DEF Adds
  <2>4. U # {}
    <3>1. P({})
      BY SumOfNone
    <3> QED BY <3>1
  <2>5. PICK x \in U : TRUE
    BY <2>4
  <2>6. U \ {x} \in SUBSET U /\ U \ {x} # U /\ U \ {x} \in SUBSET S
    BY <2>2, <2>5
  <2>7. P(U \ {x})
    BY <2>1, <2>6
  <2>8. /\ SumFunctionOnSet(u, U) = u[x] + SumFunctionOnSet(u, U \ {x})
        /\ SumFunctionOnSet(v, U) = v[x] + SumFunctionOnSet(v, U \ {x})
        /\ SumFunctionOnSet(w, U) = w[x] + SumFunctionOnSet(w, U \ {x})
    BY <2>2, <2>3, <2>5, SumWithout
  <2>9. /\ SumFunctionOnSet(v, U \ {x}) \in Int
        /\ SumFunctionOnSet(w, U \ {x}) \in Int
    <3>1. IsFiniteSet(U \ {x}) /\ \A y \in U \ {x} : v[y] \in Int /\ w[y] \in Int
      BY <2>2, <2>3, <2>6, FS_Subset
    <3> QED BY <3>1, SumType
  <2>10. P(U)
    BY <2>3, <2>5, <2>7, <2>8, <2>9
  <2> QED BY <2>1, <2>10
<1> QED BY <1>1

\* Pointwise less is less in sum.
NotAbove(u, w, S) == \A x \in S : u[x] =< w[x]

LEMMA SumNotMore ==
  ASSUME NEW S, IsFiniteSet(S),
         NEW u, \A x \in S : u[x] \in Int, NEW w, \A x \in S : w[x] \in Int,
         NotAbove(u, w, S)
  PROVE  SumFunctionOnSet(u, S) =< SumFunctionOnSet(w, S)
<1> DEFINE d == [x \in S |-> w[x] - u[x]]
<1>1. \A x \in S : d[x] \in Int /\ d[x] >= 0
  BY DEF NotAbove
<1>2. Adds(w, u, d, S)
  BY DEF Adds
<1> HIDE DEF d
<1>3. SumFunctionOnSet(w, S) = SumFunctionOnSet(u, S) + SumFunctionOnSet(d, S)
  BY <1>1, <1>2, SumAdds
<1>4. SumFunctionOnSet(d, S) >= 0
  BY <1>1, SumNotBelow
<1>5. SumFunctionOnSet(u, S) \in Int /\ SumFunctionOnSet(d, S) \in Int
  BY <1>1, SumType
<1> QED BY <1>3, <1>4, <1>5

\* u is w on T and nothing elsewhere on S.
MaskOf(u, w, T, S) == \A x \in S : u[x] = IF x \in T THEN w[x] ELSE 0

\* A sum over a part of a set is one over the whole set.
LEMMA SumMasked ==
  ASSUME NEW S, IsFiniteSet(S), NEW T \in SUBSET S,
         NEW w, \A x \in T : w[x] \in Int, NEW u, MaskOf(u, w, T, S)
  PROVE  SumFunctionOnSet(w, T) = SumFunctionOnSet(u, S)
<1>1. IsFiniteSet(T) /\ SameOn(u, w, T)
  BY FS_Subset DEF MaskOf, SameOn
<1>2. SumFunctionOnSet(u, T) = SumFunctionOnSet(w, T)
  BY <1>1, SumSame
<1>3. \A x \in S : u[x] \in Int /\ (x \notin T => u[x] = 0)
  BY DEF MaskOf
<1> DEFINE C == {U \in SUBSET S : T \subseteq U /\ SumFunctionOnSet(u, U) # SumFunctionOnSet(u, T)}
<1>4. C = {}
  <2> SUFFICES ASSUME C # {} PROVE FALSE
    OBVIOUS
  <2>1. PICK U \in C : \A W \in SUBSET U : W \in C => W = U
    <3>1. C \subseteq SUBSET S
      OBVIOUS
    <3> HIDE DEF C
    <3> QED BY <3>1, SmallestSet
  <2>2. U \in SUBSET S /\ IsFiniteSet(U) /\ T \subseteq U /\ U # T
    BY FS_Subset
  <2>3. PICK x \in U : x \notin T
    BY <2>2
  <2>4. U \ {x} \in SUBSET U /\ U \ {x} # U /\ U \ {x} \in SUBSET S /\ T \subseteq U \ {x}
    BY <2>2, <2>3
  <2>5. SumFunctionOnSet(u, U \ {x}) = SumFunctionOnSet(u, T)
    BY <2>1, <2>4
  <2>6. SumFunctionOnSet(u, U) = u[x] + SumFunctionOnSet(u, U \ {x})
    BY <2>2, <2>3, <1>3, SumWithout
  <2>7. SumFunctionOnSet(u, T) \in Int /\ u[x] = 0
    BY <1>1, <1>3, <2>2, <2>3, SumType
  <2> QED BY <2>5, <2>6, <2>7
<1> QED BY <1>2, <1>4

-----------------------------------------------------------------------------
(* Sums over a sequence, by its partial sums.                              *)

\* p[k] is the sum of the weights of the first k elements of q.
PartialSums(p, w, q) ==
  /\ p \in [0 .. Len(q) -> Int]
  /\ p[0] = 0
  /\ \A k \in 1 .. Len(q) : p[k] = p[k - 1] + w[q[k]]

\* The sum of the weights of a sequence.
SeqSum(w, q) == (CHOOSE p : PartialSums(p, w, q))[Len(q)]

\* Every sequence has its partial sums.
LEMMA PartialSumsExist ==
  ASSUME NEW S, NEW w \in [S -> Int], NEW q \in Seq(S)
  PROVE  \E p : PartialSums(p, w, q)
<1> DEFINE n == Len(q)
           step == [k \in 1 .. n |-> [v \in Int |-> v + w[q[k]]]]
<1>1. n \in Nat /\ \A k \in 1 .. n : w[q[k]] \in Int
  OBVIOUS
<1>2. \A k \in 1 .. n : \A v \in Int : step[k][v] = v + w[q[k]] /\ step[k][v] \in Int
  BY <1>1
<1>0. 0 \in Int
  OBVIOUS
<1>3. PICK f : LeftFolds(f, n, 0, step) /\ \A s \in SUBSET (1 .. n) : f[s] \in Int
  <2> HIDE DEF step, n
  <2> QED BY <1>0, <1>1, <1>2, FoldLeftExists
<1> DEFINE p == [k \in 0 .. n |-> f[1 .. k]]
<1>4. p \in [0 .. n -> Int] /\ p[0] = 0
  <2>1. 1 .. 0 = {} /\ {} \in SUBSET (1 .. n)
    OBVIOUS
  <2>2. f[{}] = 0
    BY <1>3 DEF LeftFolds
  <2>3. ASSUME NEW k \in 0 .. n PROVE f[1 .. k] \in Int
    <3>1. 1 .. k \in SUBSET (1 .. n)
      OBVIOUS
    <3> QED BY <1>3, <3>1
  <2> QED BY <2>1, <2>2, <2>3
<1>5. ASSUME NEW k \in 1 .. n
      PROVE  p[k] = p[k - 1] + w[q[k]]
  <2>1. /\ 1 .. k \in SUBSET (1 .. n) /\ 1 .. k # {}
        /\ Max(1 .. k) = k /\ (1 .. k) \ {Max(1 .. k)} = 1 .. (k - 1)
    BY LastIndex
  <2>2. f[1 .. k] = step[k][f[1 .. (k - 1)]]
    <3> HIDE DEF step, p
    <3> QED BY <1>3, <2>1 DEF LeftFolds
  <2>3. f[1 .. (k - 1)] \in Int
    <3>1. 1 .. (k - 1) \in SUBSET (1 .. n)
      OBVIOUS
    <3> QED BY <1>3, <3>1
  <2>4. p[k] = f[1 .. k] /\ p[k - 1] = f[1 .. (k - 1)]
    OBVIOUS
  <2> HIDE DEF step, p
  <2> QED BY <1>2, <2>2, <2>3, <2>4
<1> HIDE DEF p
<1> QED
  BY <1>4, <1>5 DEF PartialSums

\* The first n elements of q weigh in v what those of r weigh in w.
Alike(v, q, w, r, n) ==
  /\ n \in Nat /\ Len(q) \in Nat /\ Len(r) \in Nat /\ n =< Len(q) /\ n =< Len(r)
  /\ \A k \in 1 .. n : v[q[k]] = w[r[k]]

\* What weighs the same has the same partial sums.
LEMMA PartialSumsAgree ==
  ASSUME NEW v, NEW w, NEW q, NEW r, NEW n, Alike(v, q, w, r, n),
         NEW f, PartialSums(f, v, q), NEW g, PartialSums(g, w, r)
  PROVE  f[n] = g[n]
<1>0. /\ n \in Nat /\ Len(q) \in Nat /\ Len(r) \in Nat /\ n =< Len(q) /\ n =< Len(r)
      /\ \A k \in 1 .. n : v[q[k]] = w[r[k]]
  BY DEF Alike
<1> DEFINE T == {k \in 0 .. n : f[k] # g[k]}
<1> SUFFICES ASSUME T # {} PROVE FALSE
  BY <1>0
<1>1. PICK k \in T : \A j \in T : k =< j
  <2>1. T \in SUBSET Nat
    BY <1>0
  <2> HIDE DEF T
  <2> QED BY <2>1, LeastNumber
<1>2. k # 0
  BY DEF PartialSums
<1>3. f[k - 1] = g[k - 1]
  BY <1>0, <1>1, <1>2
<1> QED
  BY <1>0, <1>2, <1>3 DEF PartialSums

\* The sum of a sequence is the last of its partial sums, and an integer.
LEMMA SeqSumIs ==
  ASSUME NEW S, NEW w \in [S -> Int], NEW q \in Seq(S),
         NEW p, PartialSums(p, w, q)
  PROVE  SeqSum(w, q) = p[Len(q)] /\ SeqSum(w, q) \in Int
<1> DEFINE c == CHOOSE f : PartialSums(f, w, q)
<1>1. PartialSums(c, w, q)
  BY PartialSumsExist
<1>2. SeqSum(w, q) = c[Len(q)]
  BY DEF SeqSum
<1> HIDE DEF c
<1>3. Len(q) \in Nat /\ Len(q) =< Len(q) /\ Len(q) \in 0 .. Len(q)
  OBVIOUS
<1>4. \A k \in 1 .. Len(q) : w[q[k]] = w[q[k]]
  OBVIOUS
<1>5. c[Len(q)] = p[Len(q)]
  <2>1. Alike(w, q, w, q, Len(q))
    BY <1>3, <1>4 DEF Alike
  <2> QED BY <1>1, <2>1, PartialSumsAgree
<1>6. p[Len(q)] \in Int
  BY <1>3 DEF PartialSums
<1> QED
  BY <1>2, <1>5, <1>6

\* Nothing weighs nothing.
LEMMA SeqSumEmpty ==
  ASSUME NEW S, NEW w \in [S -> Int]
  PROVE  SeqSum(w, <<>>) = 0
<1>0. <<>> \in Seq(S) /\ Len(<<>>) = 0
  OBVIOUS
<1>1. PICK p : PartialSums(p, w, <<>>)
  BY <1>0, PartialSumsExist
<1>2. SeqSum(w, <<>>) = p[Len(<<>>)]
  BY <1>0, <1>1, SeqSumIs
<1>3. p[0] = 0
  BY <1>1 DEF PartialSums
<1> QED
  BY <1>0, <1>2, <1>3

\* Sequences that weigh the same element by element have the same sum.
LEMMA SeqSumSame ==
  ASSUME NEW R, NEW S, NEW v \in [R -> Int], NEW w \in [S -> Int],
         NEW q \in Seq(R), NEW r \in Seq(S), Len(q) = Len(r),
         Alike(v, q, w, r, Len(q))
  PROVE  SeqSum(v, q) = SeqSum(w, r)
<1>1. PICK f : PartialSums(f, v, q)
  BY PartialSumsExist
<1>2. PICK g : PartialSums(g, w, r)
  BY PartialSumsExist
<1>4. f[Len(q)] = g[Len(q)]
  BY <1>1, <1>2, PartialSumsAgree
<1>5. SeqSum(v, q) = f[Len(q)]
  BY <1>1, SeqSumIs
<1>6. SeqSum(w, r) = g[Len(r)]
  BY <1>2, SeqSumIs
<1> QED
  BY <1>4, <1>5, <1>6

\* An element at the end adds its weight to the sum.
LEMMA SeqSumAppend ==
  ASSUME NEW S, NEW w \in [S -> Int], NEW q \in Seq(S), NEW x \in S
  PROVE  SeqSum(w, Append(q, x)) = SeqSum(w, q) + w[x]
<1> DEFINE r == Append(q, x)
           n == Len(q)
<1>1. r \in Seq(S) /\ Len(r) = n + 1 /\ n \in Nat /\ n =< Len(q) /\ n =< Len(r)
  OBVIOUS
<1>2. r[n + 1] = x /\ \A k \in 1 .. n : r[k] = q[k]
  OBVIOUS
<1> HIDE DEF r
<1>3. PICK f : PartialSums(f, w, q)
  BY PartialSumsExist
<1>4. PICK g : PartialSums(g, w, r)
  BY <1>1, PartialSumsExist
<1>5. f[n] = g[n]
  <2>1. Len(q) \in Nat /\ Len(r) \in Nat
    BY <1>1
  <2>2. \A k \in 1 .. n : w[q[k]] = w[r[k]]
    BY <1>2
  <2>3. Alike(w, q, w, r, n)
    BY <1>1, <2>1, <2>2 DEF Alike
  <2> HIDE DEF n
  <2> QED BY <2>3, <1>3, <1>4, PartialSumsAgree
<1>6. g[n + 1] = g[n] + w[x]
  <2>1. n + 1 \in 1 .. Len(r) /\ (n + 1) - 1 = n
    BY <1>1
  <2> QED BY <1>2, <1>4, <2>1 DEF PartialSums
<1>7. SeqSum(w, q) = f[n] /\ SeqSum(w, r) = g[Len(r)]
  BY <1>1, <1>3, <1>4, SeqSumIs
<1> QED
  BY <1>1, <1>5, <1>6, <1>7 DEF r

\* r is q without its k-th element.
Drops(q, r, k) ==
  /\ k \in 1 .. Len(q)
  /\ Len(r) = Len(q) - 1
  /\ \A j \in 1 .. Len(r) : r[j] = IF j < k THEN q[j] ELSE q[j + 1]

\* An element that is removed takes its weight out of the sum.
LEMMA SeqSumRemove ==
  ASSUME NEW S, NEW w \in [S -> Int], NEW q \in Seq(S), NEW r \in Seq(S),
         NEW k, Drops(q, r, k)
  PROVE  SeqSum(w, r) = SeqSum(w, q) - w[q[k]]
<1> DEFINE n == Len(q)
           m == Len(r)
<1>0. n \in Nat /\ m \in Nat /\ m = n - 1 /\ k \in 1 .. n
  BY DEF Drops
<1>00. /\ \A j \in 1 .. n : w[q[j]] \in Int
       /\ \A j \in 1 .. m : w[r[j]] = IF j < k THEN w[q[j]] ELSE w[q[j + 1]]
  BY SMTT(20) DEF Drops
<1>1. PICK f : PartialSums(f, w, q)
  BY PartialSumsExist
<1>2. PICK g : PartialSums(g, w, r)
  BY PartialSumsExist
<1> HIDE DEF n, m
<1>11. /\ \A j \in 0 .. n : f[j] \in Int
       /\ \A j \in 1 .. n : f[j] = f[j - 1] + w[q[j]]
       /\ \A j \in 0 .. m : g[j] \in Int
       /\ \A j \in 1 .. m : g[j] = g[j - 1] + w[r[j]]
  BY <1>1, <1>2 DEF PartialSums, m, n
<1>3. f[k - 1] = g[k - 1]
  <2> DEFINE h == k - 1
  <2>1. h \in Nat /\ h =< Len(q) /\ h =< Len(r) /\ Len(q) \in Nat /\ Len(r) \in Nat
    BY <1>0 DEF m, n
  <2>2. \A j \in 1 .. h : w[q[j]] = w[r[j]]
    BY <1>0, <1>00
  <2>4. Alike(w, q, w, r, h)
    BY <2>1, <2>2 DEF Alike
  <2> HIDE DEF h
  <2>3. f[h] = g[h]
    BY <1>1, <1>2, <2>4, PartialSumsAgree
  <2> QED BY <2>3 DEF h
<1> DEFINE T == {j \in k - 1 .. m : g[j] # f[j + 1] - w[q[k]]}
<1>4. T = {}
  <2> SUFFICES ASSUME T # {} PROVE FALSE
    OBVIOUS
  <2>1. PICK j \in T : \A i \in T : j =< i
    <3>1. T \in SUBSET Nat
      BY <1>0
    <3> HIDE DEF T
    <3> QED BY <3>1, LeastNumber
  <2>0. j \in k - 1 .. m /\ j \in Int
    BY <1>0
  <2>2. j # k - 1
    <3>1. f[k] = f[k - 1] + w[q[k]]
      BY <1>0, <1>11
    <3>2. f[k - 1] \in Int /\ w[q[k]] \in Int
      BY <1>0, <1>11, <1>00
    <3>3. g[k - 1] = f[(k - 1) + 1] - w[q[k]]
      BY <1>0, <1>3, <3>1, <3>2
    <3> QED BY <3>3
  <2>3. g[j - 1] = f[j] - w[q[k]]
    <3>1. j - 1 \notin T
      BY <2>0, <2>1
    <3>2. j - 1 \in k - 1 .. m /\ (j - 1) + 1 = j
      BY <1>0, <2>0, <2>2
    <3> QED BY <3>1, <3>2
  <2>4. g[j] = g[j - 1] + w[q[j + 1]] /\ f[j + 1] = f[j] + w[q[j + 1]]
    <3>1. j \in 1 .. m /\ j + 1 \in 1 .. n /\ ~(j < k) /\ (j + 1) - 1 = j
      BY <1>0, <2>0, <2>2
    <3> QED BY <1>00, <1>11, <3>1
  <2>5. f[j] \in Int /\ w[q[k]] \in Int /\ w[q[j + 1]] \in Int
    <3>1. j \in 0 .. n /\ j + 1 \in 1 .. n
      BY <1>0, <2>0
    <3> QED BY <1>0, <1>00, <1>11, <3>1
  <2>6. g[j] = f[j + 1] - w[q[k]]
    BY <2>3, <2>4, <2>5
  <2> QED BY <2>6
<1>5. g[m] = f[n] - w[q[k]]
  <2>1. m \in k - 1 .. m /\ m + 1 = n
    BY <1>0
  <2> QED BY <1>4, <2>1
<1>6. SeqSum(w, r) = g[Len(r)] /\ SeqSum(w, q) = f[Len(q)]
  BY <1>1, <1>2, SeqSumIs
<1> QED
  BY <1>5, <1>6 DEF m, n

\* v and w weigh all elements of q alike but the k-th.
Differs(v, w, q, k) ==
  /\ k \in 1 .. Len(q)
  /\ \A j \in 1 .. Len(q) : j # k => v[q[j]] = w[q[j]]

\* The sum changes by what the weight of that element changes.
LEMMA SeqSumChange ==
  ASSUME NEW S, NEW w \in [S -> Int], NEW q \in Seq(S),
         NEW T, NEW v \in [T -> Int], q \in Seq(T),
         NEW k, Differs(v, w, q, k)
  PROVE  SeqSum(v, q) = SeqSum(w, q) - w[q[k]] + v[q[k]]
<1> DEFINE n == Len(q)
           r == [j \in 1 .. n - 1 |-> IF j < k THEN q[j] ELSE q[j + 1]]
<1>1. n \in Nat /\ k \in 1 .. n
  BY DEF Differs
<1>2. /\ r \in Seq(S) /\ r \in Seq(T) /\ Len(r) = n - 1
      /\ \A j \in 1 .. Len(r) : r[j] = IF j < k THEN q[j] ELSE q[j + 1]
  <2>1. n - 1 \in Nat
    BY <1>1
  <2>2. \A j \in 1 .. n - 1 : r[j] \in S /\ r[j] \in T
    BY <1>1
  <2> QED BY <2>1, <2>2
<1> HIDE DEF r
<1>3. Drops(q, r, k)
  BY <1>1, <1>2 DEF Drops
<1>8. r \in Seq(S) /\ r \in Seq(T)
  BY <1>2
<1>41. SeqSum(w, r) = SeqSum(w, q) - w[q[k]]
  BY <1>8, <1>3, SeqSumRemove
<1>42. SeqSum(v, r) = SeqSum(v, q) - v[q[k]]
  BY <1>8, <1>3, SeqSumRemove
<1>5. Alike(v, r, w, r, Len(r))
  <2>1. /\ Len(r) \in Nat /\ Len(r) = n - 1
        /\ \A j \in 1 .. n : j # k => v[q[j]] = w[q[j]]
    BY <1>1, <1>2 DEF Differs
  <2>2. \A j \in 1 .. Len(r) : r[j] = IF j < k THEN q[j] ELSE q[j + 1]
    BY <1>2
  <2> HIDE DEF n
  <2>3. ASSUME NEW j \in 1 .. Len(r) PROVE v[r[j]] = w[r[j]]
    <3>1. j \in 1 .. n /\ j + 1 \in 1 .. n
      BY <1>1, <2>1
    <3>2. CASE j < k
      BY SMTT(20), <1>1, <2>1, <2>2, <3>1, <3>2
    <3>3. CASE ~(j < k)
      <4>1. j + 1 # k
        BY <1>1, <3>1, <3>3
      <4> QED BY <2>1, <2>2, <3>1, <3>3, <4>1
    <3> QED BY <3>2, <3>3
  <2> QED BY <2>1, <2>3 DEF Alike
<1>6. SeqSum(v, r) = SeqSum(w, r)
  BY <1>8, <1>5, SeqSumSame
<1>7. /\ SeqSum(v, q) \in Int /\ SeqSum(w, q) \in Int
      /\ v[q[k]] \in Int /\ w[q[k]] \in Int
  <2>1. PICK f : PartialSums(f, w, q)
    BY PartialSumsExist
  <2>2. PICK g : PartialSums(g, v, q)
    BY PartialSumsExist
  <2>3. SeqSum(v, q) \in Int /\ SeqSum(w, q) \in Int
    BY <2>1, <2>2, SeqSumIs
  <2>4. q[k] \in S /\ q[k] \in T
    BY <1>1
  <2> QED BY <2>3, <2>4
<1> QED
  BY <1>41, <1>42, <1>6, <1>7

\* Weights that are not negative do not add up to something that is.
LEMMA SeqSumNotBelow ==
  ASSUME NEW S, NEW w \in [S -> Int], NEW q \in Seq(S),
         \A k \in 1 .. Len(q) : w[q[k]] >= 0
  PROVE  SeqSum(w, q) \in Int /\ SeqSum(w, q) >= 0
<1>1. PICK p : PartialSums(p, w, q)
  BY PartialSumsExist
<1> DEFINE n == Len(q)
           T == {k \in 0 .. n : ~(p[k] >= 0)}
<1>2. n \in Nat /\ \A k \in 1 .. n : w[q[k]] \in Int /\ w[q[k]] >= 0
  OBVIOUS
<1>3. /\ \A k \in 0 .. n : p[k] \in Int
      /\ p[0] = 0 /\ \A k \in 1 .. n : p[k] = p[k - 1] + w[q[k]]
  BY <1>1 DEF PartialSums
<1> HIDE DEF n
<1>4. T = {}
  <2> SUFFICES ASSUME T # {} PROVE FALSE
    OBVIOUS
  <2>1. T \in SUBSET Nat
    BY <1>2
  <2>2. PICK k \in T : \A j \in T : k =< j
    <3> HIDE DEF T
    <3> QED BY <2>1, LeastNumber
  <2>3. k # 0
    BY <1>3
  <2>4. k \in 1 .. n /\ k - 1 \in 0 .. n /\ k - 1 \notin T
    BY <1>2, <2>2, <2>3
  <2>5. p[k - 1] >= 0 /\ ~(p[k] >= 0)
    BY <2>4
  <2> HIDE DEF T
  <2> QED BY <1>2, <1>3, <2>4, <2>5
<1>5. p[n] >= 0
  <2>1. n \in 0 .. n
    BY <1>2
  <2> QED BY <1>4, <2>1
<1>6. SeqSum(w, q) = p[Len(q)] /\ SeqSum(w, q) \in Int
  BY <1>1, SeqSumIs
<1> QED BY <1>5, <1>6 DEF n

\* The elements of q are different members of S, and weigh no more there.
Within(q, w, S, u) ==
  /\ \A k \in 1 .. Len(q) : q[k] \in S /\ w[q[k]] =< u[q[k]]
  /\ \A k, m \in 1 .. Len(q) : q[k] = q[m] => k = m

\* Then the sequence weighs no more than the set.
LEMMA SeqSumWithin ==
  ASSUME NEW S, IsFiniteSet(S), NEW u, \A x \in S : u[x] \in Int /\ u[x] >= 0,
         NEW T, NEW w \in [T -> Int], NEW q \in Seq(T), Within(q, w, S, u)
  PROVE  SeqSum(w, q) =< SumFunctionOnSet(u, S)
<1> DEFINE n == Len(q)
           mask(k) == [x \in S |-> IF \E j \in 1 .. k : q[j] = x THEN u[x] ELSE 0]
           sum(k) == SumFunctionOnSet(mask(k), S)
<1>1. PICK p : PartialSums(p, w, q)
  BY PartialSumsExist
<1>2. /\ n \in Nat /\ p[0] = 0 /\ \A k \in 0 .. n : p[k] \in Int
      /\ \A k \in 1 .. n : p[k] = p[k - 1] + w[q[k]] /\ w[q[k]] \in Int
  <2>1. n \in Nat /\ \A k \in 1 .. n : w[q[k]] \in Int
    OBVIOUS
  <2>2. /\ p \in [0 .. n -> Int] /\ p[0] = 0
        /\ \A k \in 1 .. n : p[k] = p[k - 1] + w[q[k]]
    BY <1>1 DEF PartialSums
  <2> HIDE DEF n
  <2> QED BY <2>1, <2>2
<1>3. ASSUME NEW k \in 0 .. n
      PROVE  /\ \A x \in S : mask(k)[x] \in Int /\ mask(k)[x] >= 0
             /\ NotAbove(mask(k), u, S) /\ sum(k) \in Int
  <2>1. \A x \in S : mask(k)[x] \in Int /\ mask(k)[x] >= 0 /\ mask(k)[x] =< u[x]
    OBVIOUS
  <2> HIDE DEF mask
  <2> QED BY <2>1, SumType DEF NotAbove
<1>4. ASSUME NEW k \in 1 .. n
      PROVE  sum(k) = sum(k - 1) + u[q[k]]
  <2>1. k \in 0 .. n /\ k - 1 \in 0 .. n /\ k \in Nat /\ q[k] \in S /\ u[q[k]] \in Int
    BY <1>2 DEF Within
  <2>2. mask(k)[q[k]] = u[q[k]]
    BY <2>1
  <2>3. mask(k - 1)[q[k]] = 0
    <3>1. ~ \E j \in 1 .. (k - 1) : q[j] = q[k]
      BY <1>2, <2>1 DEF Within
    <3> QED BY <2>1, <3>1
  <2>4. ASSUME NEW x \in S, x # q[k]
        PROVE  mask(k)[x] = mask(k - 1)[x]
    <3>1. (\E j \in 1 .. k : q[j] = x) <=> (\E j \in 1 .. (k - 1) : q[j] = x)
      BY <2>1, <2>4
    <3> QED BY <3>1
  <2>5. \A x \in S : mask(k - 1)[x] \in Int
    BY <1>3, <2>1
  <2>6. ChangedAt(mask(k), mask(k - 1), S, q[k])
    <3> HIDE DEF mask
    <3> QED BY <2>4 DEF ChangedAt
  <2>7. sum(k) = sum(k - 1) - mask(k - 1)[q[k]] + mask(k)[q[k]]
    <3>1. mask(k)[q[k]] \in Int
      BY <2>1, <2>2
    <3> HIDE DEF mask
    <3> QED BY <2>1, <2>5, <2>6, <3>1, SumChange
  <2>8. sum(k - 1) \in Int
    BY <1>3, <2>1
  <2> HIDE DEF sum, mask
  <2> QED BY <2>1, <2>2, <2>3, <2>7, <2>8
<1> DEFINE C == {k \in 0 .. n : ~(p[k] =< sum(k))}
<1>5. C = {}
  <2> SUFFICES ASSUME C # {} PROVE FALSE
    OBVIOUS
  <2>1. PICK k \in C : \A j \in C : k =< j
    <3>1. C \in SUBSET Nat
      BY <1>2
    <3> HIDE DEF C
    <3> QED BY <3>1, LeastNumber
  <2>2. k \in 0 .. n /\ ~(p[k] =< sum(k))
    OBVIOUS
  <2>3. k # 0
    <3>1. sum(0) >= 0
      <4>1. 0 \in 0 .. n
        BY <1>2
      <4>2. \A x \in S : mask(0)[x] \in Int /\ mask(0)[x] >= 0
        BY <1>3, <4>1
      <4> HIDE DEF mask
      <4> QED BY <4>2, SumNotBelow
    <3>2. sum(0) \in Int
      BY <1>2, <1>3
    <3> HIDE DEF sum, mask
    <3> QED BY <1>2, <2>2, <3>1, <3>2
  <2>4. k \in 1 .. n /\ k - 1 \in 0 .. n /\ k - 1 < k
    BY <1>2, <2>2, <2>3
  <2>5. p[k - 1] =< sum(k - 1)
    <3>1. k - 1 \notin C
      <4> HIDE DEF C
      <4> QED BY <1>2, <2>1, <2>4
    <3> QED BY <2>4, <3>1
  <2>6. /\ p[k] = p[k - 1] + w[q[k]] /\ w[q[k]] =< u[q[k]]
        /\ w[q[k]] \in Int /\ u[q[k]] \in Int
    BY <1>2, <2>4 DEF Within
  <2>7. sum(k) = sum(k - 1) + u[q[k]] /\ sum(k - 1) \in Int
    BY <1>3, <1>4, <2>4
  <2>8. p[k - 1] \in Int
    BY <1>2, <2>4
  <2> HIDE DEF sum, mask, C
  <2> QED BY <2>2, <2>5, <2>6, <2>7, <2>8
<1>6. n \in 0 .. n /\ p[n] =< sum(n)
  <2>1. n \in 0 .. n
    BY <1>2
  <2>2. n \notin C
    <3> HIDE DEF C
    <3> QED BY <1>5
  <2> HIDE DEF n, sum
  <2> QED BY <2>1, <2>2
<1>7. sum(n) =< SumFunctionOnSet(u, S)
  <2>2. (\A x \in S : mask(n)[x] \in Int) /\ NotAbove(mask(n), u, S)
    BY <1>3, <1>6
  <2> HIDE DEF mask, n
  <2> QED BY <2>2, SumNotMore
<1>8. SeqSum(w, q) = p[n]
  BY <1>1, SeqSumIs
<1>9. sum(n) \in Int /\ p[n] \in Int
  <2>1. sum(n) \in Int
    BY <1>3, <1>6
  <2> HIDE DEF sum, n
  <2> QED BY <1>2, <1>6, <2>1
<1>10. SumFunctionOnSet(u, S) \in Int
  BY SumType
<1> HIDE DEF sum, n, mask
<1> QED BY <1>6, <1>7, <1>8, <1>9, <1>10

-----------------------------------------------------------------------------
(* Remainders.                                                             *)

\* The remainder of a multiple plus something below the modulus.
LEMMA Remainder ==
  ASSUME NEW m \in Nat \ {0}, NEW q \in Int, NEW r \in 0 .. m - 1
  PROVE  (m * q + r) % m = r
<1> DEFINE n == m * q + r
<1>0. n \in Int
  OBVIOUS
<1>1. n = m * (n \div m) + (n % m) /\ n % m \in 0 .. m - 1 /\ n \div m \in Int
  BY <1>0
<1> DEFINE d == (n \div m) - q
<1>2. m * d = r - (n % m) /\ d \in Int
  BY <1>1
<1> QED
  OBVIOUS

\* A remainder is no more than the number.
LEMMA RemainderNotMore ==
  ASSUME NEW m \in Nat \ {0}, NEW x \in Nat
  PROVE  x % m =< x /\ x % m \in Nat
<1>1. x % m \in 0 .. m - 1
  OBVIOUS
<1>2. CASE x < m
  <2>1. 0 \in Int /\ x \in 0 .. m - 1
    BY <1>2
  <2>2. (m * 0 + x) % m = x
    BY <2>1, Remainder
  <2>3. m * 0 + x = x
    OBVIOUS
  <2> QED BY <2>2, <2>3
<1>3. CASE ~(x < m)
  BY <1>1, <1>3
<1> QED BY <1>1, <1>2, <1>3

\* Minus zero is zero.
LEMMA MinusNothing ==
  ASSUME NEW x \in Int, x =< 0, x >= 0
  PROVE  -x = 0
OBVIOUS

\* Removing one element of a sequence leaves a sequence of its other elements.
LEMMA RemoveAtShape ==
  ASSUME NEW S, NEW q \in Seq(S), NEW n \in 1 .. Len(q)
  PROVE  /\ RemoveAt(q, n) \in Seq(S)
         /\ Len(RemoveAt(q, n)) = Len(q) - 1
         /\ \A k \in 1 .. Len(q) - 1 :
              RemoveAt(q, n)[k] = IF k < n THEN q[k] ELSE q[k + 1]
<1> DEFINE front == SubSeq(q, 1, n - 1)
           back == SubSeq(q, n + 1, Len(q))
           u == front \o back
<1>1. /\ front \in Seq(S) /\ Len(front) = n - 1
      /\ \A k \in 1 .. n - 1 : front[k] = q[k]
  <2>1. \A k \in 1 .. n - 1 : q[k] \in S
    OBVIOUS
  <2> QED BY <2>1, SubSeqProperties
<1>2. /\ back \in Seq(S) /\ Len(back) = Len(q) - n
      /\ \A k \in 1 .. Len(q) - n : back[k] = q[k + n]
  <2>1. \A k \in n + 1 .. Len(q) : q[k] \in S
    OBVIOUS
  <2> QED BY <2>1, SubSeqProperties
<1> HIDE DEF front, back
<1>3. /\ u \in Seq(S)
      /\ Len(u) = Len(front) + Len(back)
      /\ \A k \in 1 .. Len(front) + Len(back) :
           u[k] = IF k <= Len(front) THEN front[k] ELSE back[k - Len(front)]
  BY <1>1, <1>2, ConcatProperties
<1> HIDE DEF u
<1>4. ASSUME NEW k \in 1 .. Len(q) - 1
      PROVE  u[k] = IF k < n THEN q[k] ELSE q[k + 1]
  <2>1. Len(front) = n - 1 /\ k \in 1 .. Len(front) + Len(back)
    BY <1>1, <1>2
  <2>2. u[k] = IF k <= n - 1 THEN front[k] ELSE back[k - (n - 1)]
    BY <1>3, <2>1
  <2>3. CASE k <= n - 1
    BY <2>2, <2>3, <1>1
  <2>4. CASE ~(k <= n - 1)
    <3>1. k - (n - 1) \in 1 .. Len(q) - n /\ (k - (n - 1)) + n = k + 1
      BY <2>4
    <3>2. back[k - (n - 1)] = q[(k - (n - 1)) + n]
      BY <3>1, <1>2
    <3> QED BY <2>2, <2>4, <3>1, <3>2
  <2> QED BY <2>3, <2>4
<1>5. RemoveAt(q, n) = u
  BY DEF RemoveAt, u, front, back
<1>6. Len(u) = Len(q) - 1
  BY <1>1, <1>2, <1>3
<1> QED BY <1>3, <1>4, <1>5, <1>6

=============================================================================
