------------------------------ MODULE FoldFacts ------------------------------
(***************************************************************************)
(* What folds and sums over finite sets compute.  The prover cannot use    *)
(* the library's induction theorems, whose hypothesis is an operator; it   *)
(* can use that a set of finite sets, or of numbers, has a minimal member. *)
(* A statement about every finite set is proved from a minimal             *)
(* counterexample, and that a recursive function exists, from a minimal    *)
(* set on which it does not.                                               *)
(***************************************************************************)
EXTENDS Integers, FiniteSetsExt, FiniteSetTheorems, WellFoundedInduction, TLAPS

(* Minimal members.                                                        *)

\* Of the subsets of a finite set with some property, one has no smaller one.
LEMMA MinimalSubset ==
  ASSUME NEW S, IsFiniteSet(S), NEW T \in SUBSET SUBSET S, T # {}
  PROVE  \E X \in T : \A Y \in T : Y \subseteq X => Y = X
<1>1. IsWellFoundedOn(StrictSubsetOrdering(S), SUBSET S)
  BY FS_FiniteSubsetsOfFinite, FS_StrictSubsetOrderingWellFounded, Zenon
<1>2. \E X \in T : \A Y \in T : <<Y, X>> \notin StrictSubsetOrdering(S)
  BY <1>1, WFMin, Zenon
<1>. QED BY <1>2 DEF StrictSubsetOrdering

\* A set of natural numbers has a least one.
LEMMA LeastNat ==
  ASSUME NEW T \in SUBSET Nat, T # {}
  PROVE  \E x \in T : \A y \in T : x <= y
<1>. PICK m \in T : TRUE
  OBVIOUS
<1>. SUFFICES ASSUME NEW S, S = 0 .. m, NEW U, U = {0 .. n : n \in {k \in T : k <= m}}
              PROVE  \E x \in T : \A y \in T : x <= y
  OBVIOUS
<1>1. IsFiniteSet(S)
  BY FS_Interval
<1>2. U \in SUBSET SUBSET S /\ U # {}
  OBVIOUS
<1>3. PICK X \in U : \A Y \in U : Y \subseteq X => Y = X
  BY ONLY <1>1, <1>2, MinimalSubset
<1>4. PICK x \in T : x <= m /\ X = 0 .. x
  OBVIOUS
<1>5. ASSUME NEW y \in T, y < x PROVE FALSE
  <2>1. 0 .. y \in U /\ 0 .. y \subseteq X
    BY <1>4, <1>5
  <2>2. x \in X /\ x \notin 0 .. y
    BY <1>4, <1>5
  <2>. QED BY <1>3, <2>1, <2>2
<1>. QED BY <1>5

\* The maximum of a set of bounded numbers is a member of it, and a bound.
LEMMA MaxFacts ==
  ASSUME NEW n \in Nat, NEW T \in SUBSET (0 .. n), T # {}
  PROVE  Max(T) \in T /\ \A y \in T : Max(T) >= y
<1>a. \A y \in T : n - y \in Nat
  OBVIOUS
<1>b. PICK y0 \in T : TRUE
  OBVIOUS
<1>1. {n - y : y \in T} \in SUBSET Nat /\ {n - y : y \in T} # {}
  <2>1. {n - y : y \in T} \subseteq Nat
    BY ONLY <1>a
  <2>2. n - y0 \in {n - y : y \in T}
    BY <1>b
  <2>. QED BY <2>1, <2>2
<1>2. PICK d \in {n - y : y \in T} : \A e \in {n - y : y \in T} : d <= e
  BY <1>1, LeastNat
<1>3. PICK x \in T : d = n - x
  BY <1>2
<1>4. ASSUME NEW y \in T PROVE x >= y
  <2>1. d <= n - y
    BY <1>2
  <2>. QED BY <1>3, <2>1
<1>. QED BY <1>4 DEF Max
----------------------------------------------------------------------------
(* Recursion over the subsets of a finite set.                             *)

\* it folds F over every subset of S, starting from b and taking elements as c
\* chooses them.
FoldsTo(it, S, c, F, b) ==
    it = [s \in SUBSET S |-> IF s = {} THEN b ELSE F[<<c[s], it[s \ {c[s]}]>>]]

Chooses(c, S) == \A s \in SUBSET S : s # {} => c[s] \in s

\* Two folds agree wherever both are defined.
LEMMA FoldsAgree ==
  ASSUME NEW S, IsFiniteSet(S), NEW U \in SUBSET S, NEW c, Chooses(c, S), NEW F, NEW b,
         NEW g, FoldsTo(g, S, c, F, b), NEW h, FoldsTo(h, U, c, F, b)
  PROVE  \A s \in SUBSET U : g[s] = h[s]
<1>. DEFINE T == {s \in SUBSET U : g[s] # h[s]}
<1>. SUFFICES ASSUME T # {} PROVE FALSE
  OBVIOUS
<1>0. IsFiniteSet(U)
  BY FS_Subset
<1>1. PICK X \in T : \A Y \in T : Y \subseteq X => Y = X
  <2>1. T \in SUBSET SUBSET U
    OBVIOUS
  <2>. HIDE DEF T
  <2>. QED BY <1>0, <2>1, MinimalSubset
<1>2. /\ g[X] = IF X = {} THEN b ELSE F[<<c[X], g[X \ {c[X]}]>>]
      /\ h[X] = IF X = {} THEN b ELSE F[<<c[X], h[X \ {c[X]}]>>]
  BY DEF FoldsTo
<1>3. X # {} => c[X] \in X
  BY DEF Chooses
<1>4. X # {} => g[X \ {c[X]}] = h[X \ {c[X]}]
  BY <1>1, <1>3
<1>. QED BY <1>2, <1>4

\* A fold over a finite set exists.
LEMMA FoldExists ==
  ASSUME NEW S, IsFiniteSet(S), NEW c, Chooses(c, S), NEW F, NEW b
  PROVE  \E it : FoldsTo(it, S, c, F, b)
<1>. DEFINE Ex(s) == \E it : FoldsTo(it, s, c, F, b)
            T == {s \in SUBSET S : ~Ex(s)}
            G(s) == (CHOOSE it : FoldsTo(it, s, c, F, b))[s]
<1>. SUFFICES ASSUME T # {} PROVE FALSE
  OBVIOUS
<1>1. PICK X \in T : \A Y \in T : Y \subseteq X => Y = X
  <2>1. T \in SUBSET SUBSET S
    OBVIOUS
  <2>. HIDE DEF T
  <2>. QED BY <2>1, MinimalSubset
<1>2. \A Y \in SUBSET X : Y # X => Ex(Y)
  <2>. HIDE DEF Ex
  <2>. QED BY <1>1
<1>3. ASSUME NEW Y \in SUBSET X, Y # X, Y # {}
      PROVE  G(Y) = F[<<c[Y], G(Y \ {c[Y]})>>]
  <2>. DEFINE Z == Y \ {c[Y]}
              it == CHOOSE u : FoldsTo(u, Y, c, F, b)
              iu == CHOOSE u : FoldsTo(u, Z, c, F, b)
  <2>1. Z \in SUBSET Y /\ Z # X /\ c[Y] \in Y
    BY <1>3 DEF Chooses
  <2>2. Ex(Y) /\ Ex(Z)
    <3>. HIDE DEF Ex, Z
    <3>. QED BY <1>2, <1>3, <2>1
  <2>3. FoldsTo(it, Y, c, F, b) /\ FoldsTo(iu, Z, c, F, b)
    BY <2>2, Zenon
  <2>4. IsFiniteSet(Y) /\ Chooses(c, Y)
    BY FS_Subset DEF Chooses
  <2>. HIDE DEF it, iu, Z
  <2>5. it[Z] = iu[Z]
    BY <2>1, <2>3, <2>4, FoldsAgree
  <2>6. it[Y] = F[<<c[Y], it[Z]>>]
    BY <1>3, <2>3 DEF FoldsTo, Z
  <2>. QED BY <2>5, <2>6 DEF it, iu, Z
<1>4. G({}) = b
  <2>. DEFINE e == CHOOSE it : FoldsTo(it, {}, c, F, b)
  <2>1. FoldsTo([s \in SUBSET {} |-> b], {}, c, F, b)
    <3>1. \A s \in SUBSET {} : s = {}
      OBVIOUS
    <3>. QED BY <3>1 DEF FoldsTo
  <2>2. FoldsTo(e, {}, c, F, b)
    BY <2>1, Zenon
  <2>. HIDE DEF e
  <2>3. e[{}] = b
    BY <2>2 DEF FoldsTo
  <2>. QED BY <2>3 DEF e
<1>5. Ex(X)
  <2>. HIDE DEF G
  <2>. DEFINE it == [s \in SUBSET X |-> IF s = {} THEN b ELSE F[<<c[s], G(s \ {c[s]})>>]]
  <2>1. ASSUME NEW s \in SUBSET X, s # X PROVE it[s] = G(s)
    BY <1>3, <1>4, <2>1
  <2>2. ASSUME NEW s \in SUBSET X, s # {} PROVE it[s \ {c[s]}] = G(s \ {c[s]})
    <3>1. c[s] \in s
      BY <2>2 DEF Chooses
    <3>2. s \ {c[s]} \in SUBSET X /\ s \ {c[s]} # X
      BY <3>1
    <3>. HIDE DEF it
    <3>. QED BY <2>1, <3>2
  <2>3. it = [s \in SUBSET X |-> IF s = {} THEN b ELSE F[<<c[s], it[s \ {c[s]}]>>]]
    <3>. DEFINE H(s) == IF s = {} THEN b ELSE F[<<c[s], it[s \ {c[s]}]>>]
    <3>1. \A s \in SUBSET X : it[s] = H(s)
      BY <2>2
    <3>. QED BY <3>1
  <2>. QED BY <2>3 DEF FoldsTo
<1>. QED BY <1>5

\* Its values are what F yields.
LEMMA FoldType ==
  ASSUME NEW S, IsFiniteSet(S), NEW c, Chooses(c, S), NEW V, NEW F \in [S \X V -> V], NEW b \in V,
         NEW it, FoldsTo(it, S, c, F, b)
  PROVE  it \in [SUBSET S -> V]
<1>. DEFINE T == {s \in SUBSET S : it[s] \notin V}
<1>1. T = {}
  <2>. SUFFICES ASSUME T # {} PROVE FALSE
    OBVIOUS
  <2>1. T \in SUBSET SUBSET S
    OBVIOUS
  <2>2. PICK X \in T : \A Y \in T : Y \subseteq X => Y = X
    <3>. HIDE DEF T
    <3>. QED BY <2>1, MinimalSubset
  <2>3. it[X] = IF X = {} THEN b ELSE F[<<c[X], it[X \ {c[X]}]>>]
    BY DEF FoldsTo
  <2>4. CASE X = {}
    BY <2>3, <2>4
  <2>5. CASE X # {}
    <3>1. c[X] \in X
      BY <2>5 DEF Chooses
    <3>2. it[X \ {c[X]}] \in V
      BY <2>2, <3>1
    <3>3. <<c[X], it[X \ {c[X]}]>> \in S \X V
      BY <3>1, <3>2
    <3>. QED BY <2>3, <2>5, <3>3
  <2>. QED BY <2>4, <2>5
<1>2. it = [s \in SUBSET S |-> it[s]]
  BY DEF FoldsTo
<1>. QED BY <1>1, <1>2
----------------------------------------------------------------------------
(* Sums.                                                                   *)

SumOver(f, K) == MapThenSumSet(LAMBDA i : f[i], K)

\* What MapThenSumSet chooses a function for.
SumsTo(it, f, S) ==
    it = [s \in SUBSET S |-> IF s = {} THEN 0
                             ELSE f[CHOOSE x \in s : TRUE] + it[s \ {CHOOSE x \in s : TRUE}]]

\* The function that a sum is computed by exists.
LEMMA SumExists ==
  ASSUME NEW S, IsFiniteSet(S), NEW f, \A x \in S : f[x] \in Nat
  PROVE  /\ \E it \in [SUBSET S -> Nat] : SumsTo(it, f, S)
         /\ SumOver(f, S) = (CHOOSE it : SumsTo(it, f, S))[S]
         /\ SumsTo(CHOOSE it : SumsTo(it, f, S), f, S)
<1>. DEFINE c == [s \in SUBSET S |-> CHOOSE x \in s : TRUE]
            F == [p \in S \X Nat |-> f[p[1]] + p[2]]
<1>1. Chooses(c, S)
  BY DEF Chooses
<1>2. F \in [S \X Nat -> Nat] /\ \A x \in S, n \in Nat : F[<<x, n>>] = f[x] + n
  OBVIOUS
<1>3. \A s \in SUBSET S : c[s] = CHOOSE x \in s : TRUE
  OBVIOUS
<1>. HIDE DEF c, F
<1>4. PICK it : FoldsTo(it, S, c, F, 0)
  BY <1>1, FoldExists
<1>5. it \in [SUBSET S -> Nat]
  BY <1>1, <1>2, <1>4, FoldType
<1>6. SumsTo(it, f, S)
  <2>. DEFINE H(s) == IF s = {} THEN 0
                      ELSE f[CHOOSE x \in s : TRUE] + it[s \ {CHOOSE x \in s : TRUE}]
  <2>1. ASSUME NEW s \in SUBSET S PROVE it[s] = H(s)
    <3>1. it[s] = IF s = {} THEN 0 ELSE F[<<c[s], it[s \ {c[s]}]>>]
      BY <1>4 DEF FoldsTo
    <3>2. CASE s # {}
      <4>1. c[s] \in S /\ s \ {c[s]} \in SUBSET S
        BY <3>2, <1>1 DEF Chooses
      <4>2. it[s] = f[c[s]] + it[s \ {c[s]}]
        BY <3>1, <3>2, <4>1, <1>2, <1>5
      <4>. QED BY <3>2, <4>2, <1>3
    <3>. QED BY <3>1, <3>2
  <2>2. it = [s \in SUBSET S |-> it[s]]
    BY <1>5
  <2>3. it = [s \in SUBSET S |-> H(s)]
    <3>. HIDE DEF H
    <3>. QED BY <2>1, <2>2
  <2>. QED BY <2>3 DEF SumsTo
<1>7. SumOver(f, S) = (CHOOSE u : SumsTo(u, f, S))[S]
  BY DEF SumOver, MapThenSumSet, MapThenFoldSet, SumsTo
<1>8. SumsTo(CHOOSE u : SumsTo(u, f, S), f, S)
  BY <1>6, Zenon
<1>. QED BY <1>5, <1>6, <1>7, <1>8

\* Functions that sum up the same terms agree.
LEMMA SumsAgree ==
  ASSUME NEW S, IsFiniteSet(S), NEW U \in SUBSET S, NEW f, NEW g, \A x \in U : f[x] = g[x],
         NEW it, SumsTo(it, f, S), NEW iu, SumsTo(iu, g, U)
  PROVE  \A s \in SUBSET U : it[s] = iu[s]
<1>. DEFINE T == {s \in SUBSET U : it[s] # iu[s]}
<1>. SUFFICES ASSUME T # {} PROVE FALSE
  OBVIOUS
<1>0. IsFiniteSet(U)
  BY FS_Subset
<1>1. PICK X \in T : \A Y \in T : Y \subseteq X => Y = X
  <2>1. T \in SUBSET SUBSET U
    OBVIOUS
  <2>. HIDE DEF T
  <2>. QED BY <1>0, <2>1, MinimalSubset
<1>. DEFINE x == CHOOSE x \in X : TRUE
<1>2. /\ it[X] = IF X = {} THEN 0 ELSE f[x] + it[X \ {x}]
      /\ iu[X] = IF X = {} THEN 0 ELSE g[x] + iu[X \ {x}]
  BY DEF SumsTo
<1>3. X # {} => x \in X
  OBVIOUS
<1>. HIDE DEF x
<1>4. X # {} => it[X \ {x}] = iu[X \ {x}]
  BY <1>1, <1>3
<1>. QED BY <1>2, <1>3, <1>4

\* The sum of no terms, its type, and one term more.
LEMMA SumStep ==
  ASSUME NEW S, IsFiniteSet(S), NEW f, \A x \in S : f[x] \in Nat
  PROVE  /\ SumOver(f, S) \in Nat
         /\ S = {} => SumOver(f, S) = 0
         /\ S # {} => /\ (CHOOSE x \in S : TRUE) \in S
                      /\ SumOver(f, S) = f[CHOOSE x \in S : TRUE] + SumOver(f, S \ {CHOOSE x \in S : TRUE})
<1>. DEFINE it == CHOOSE u : SumsTo(u, f, S)
<1>1. SumOver(f, S) = it[S] /\ SumsTo(it, f, S)
  BY SumExists
<1>2. PICK in \in [SUBSET S -> Nat] : SumsTo(in, f, S)
  BY SumExists
<1>. HIDE DEF it
<1>3. it[S] = in[S]
  BY <1>1, <1>2, SumsAgree
<1>4. S = {} => it[S] = 0
  BY <1>1 DEF SumsTo
<1>5. ASSUME S # {}
      PROVE  /\ (CHOOSE x \in S : TRUE) \in S
             /\ SumOver(f, S) = f[CHOOSE x \in S : TRUE] + SumOver(f, S \ {CHOOSE x \in S : TRUE})
  <2>. DEFINE x == CHOOSE x \in S : TRUE
              U == S \ {x}
              iu == CHOOSE u : SumsTo(u, f, U)
  <2>1. x \in S
    BY <1>5
  <2>2. it[S] = f[x] + it[U]
    BY <1>1, <1>5 DEF SumsTo
  <2>. HIDE DEF x
  <2>3. IsFiniteSet(U) /\ U \in SUBSET S
    BY FS_Subset
  <2>4. SumOver(f, U) = iu[U] /\ SumsTo(iu, f, U)
    <3>. HIDE DEF U
    <3>. QED BY <2>3, SumExists
  <2>. HIDE DEF iu, U
  <2>5. it[U] = iu[U]
    BY <1>1, <2>3, <2>4, SumsAgree
  <2>6. SumOver(f, S) = f[x] + SumOver(f, U)
    BY <1>1, <2>2, <2>4, <2>5
  <2>. QED BY <2>1, <2>6 DEF x, U
<1>. QED BY <1>1, <1>2, <1>3, <1>4, <1>5

\* Any term may be taken out.
LEMMA SumRemove ==
  ASSUME NEW S, IsFiniteSet(S), NEW f, \A x \in S : f[x] \in Nat, NEW y \in S
  PROVE  SumOver(f, S) = f[y] + SumOver(f, S \ {y})
<1>. DEFINE P(s) == \A z \in s : SumOver(f, s) = f[z] + SumOver(f, s \ {z})
            T == {s \in SUBSET S : ~P(s)}
<1>1. T = {}
  <2>. SUFFICES ASSUME T # {} PROVE FALSE
    OBVIOUS
  <2>1. T \in SUBSET SUBSET S
    OBVIOUS
  <2>2. PICK X \in T : \A Y \in T : Y \subseteq X => Y = X
    <3>. HIDE DEF T
    <3>. QED BY <2>1, MinimalSubset
  <2>3. PICK z \in X : SumOver(f, X) # f[z] + SumOver(f, X \ {z})
    BY <2>2
  <2>. DEFINE c(s) == CHOOSE x \in s : TRUE
  <2>4. ASSUME NEW s \in SUBSET S
        PROVE  /\ SumOver(f, s) \in Nat
               /\ s # {} => c(s) \in s /\ SumOver(f, s) = f[c(s)] + SumOver(f, s \ {c(s)})
    <3>1. IsFiniteSet(s) /\ \A x \in s : f[x] \in Nat
      BY FS_Subset
    <3>. QED BY <3>1, SumStep
  <2>. HIDE DEF c
  <2>5. c(X) \in X /\ SumOver(f, X) = f[c(X)] + SumOver(f, X \ {c(X)}) /\ X \in SUBSET S
    BY <2>3, <2>4
  <2>6. c(X) # z
    BY <2>3, <2>5
  <2>7. P(X \ {c(X)}) /\ P(X \ {z})
    <3>. HIDE DEF P
    <3>. QED BY <2>2, <2>3, <2>5
  <2>. DEFINE W == (X \ {c(X)}) \ {z}
  <2>8. W = (X \ {z}) \ {c(X)} /\ W \in SUBSET S
    BY <2>5
  <2>9. SumOver(f, X \ {c(X)}) = f[z] + SumOver(f, W)
    BY <2>3, <2>6, <2>7
  <2>10. SumOver(f, X \ {z}) = f[c(X)] + SumOver(f, W)
    <3>. HIDE DEF W
    <3>. QED BY <2>5, <2>6, <2>7, <2>8
  <2>. HIDE DEF W
  <2>11. SumOver(f, W) \in Nat /\ f[z] \in Nat /\ f[c(X)] \in Nat
    BY <2>3, <2>4, <2>5, <2>8
  <2>. QED BY <2>3, <2>5, <2>9, <2>10, <2>11
<1>2. P(S)
  <2>. HIDE DEF P
  <2>. QED BY <1>1
<1>. QED BY <1>2

\* Sums of the same terms are equal.
LEMMA SumEqual ==
  ASSUME NEW S, IsFiniteSet(S), NEW f, \A x \in S : f[x] \in Nat, NEW g, \A x \in S : f[x] = g[x]
  PROVE  SumOver(f, S) = SumOver(g, S)
<1>. DEFINE it == CHOOSE u : SumsTo(u, f, S)
            iu == CHOOSE u : SumsTo(u, g, S)
<1>1. SumOver(f, S) = it[S] /\ SumsTo(it, f, S) /\ SumOver(g, S) = iu[S] /\ SumsTo(iu, g, S)
  BY SumExists
<1>. HIDE DEF it, iu
<1>2. it[S] = iu[S]
  BY <1>1, SumsAgree
<1>. QED BY <1>1, <1>2

\* Terms that are zero do not count.
LEMMA SumNonzero ==
  ASSUME NEW S, IsFiniteSet(S), NEW f, \A x \in S : f[x] \in Nat
  PROVE  SumOver(f, S) = SumOver(f, {x \in S : f[x] > 0})
<1>. DEFINE P(s) == SumOver(f, s) = SumOver(f, {x \in s : f[x] > 0})
            T == {s \in SUBSET S : ~P(s)}
<1>1. T = {}
  <2>. SUFFICES ASSUME T # {} PROVE FALSE
    OBVIOUS
  <2>1. T \in SUBSET SUBSET S
    OBVIOUS
  <2>2. PICK X \in T : \A Y \in T : Y \subseteq X => Y = X
    <3>. HIDE DEF T
    <3>. QED BY <2>1, MinimalSubset
  <2>3. PICK z \in X : f[z] = 0
    <3>1. X # {x \in X : f[x] > 0}
      BY <2>2
    <3>. QED BY <3>1
  <2>4. P(X \ {z})
    <3>. HIDE DEF P
    <3>. QED BY <2>2
  <2>5. {x \in X \ {z} : f[x] > 0} = {x \in X : f[x] > 0}
    BY <2>3
  <2>6. IsFiniteSet(X) /\ IsFiniteSet(X \ {z})
    BY FS_Subset
  <2>7. \A x \in X : f[x] \in Nat
    BY <2>2
  <2>8. SumOver(f, X) = f[z] + SumOver(f, X \ {z})
    BY <2>6, <2>7, SumRemove
  <2>9. SumOver(f, X \ {z}) \in Nat
    BY <2>6, <2>7, SumStep
  <2>. QED BY <2>2, <2>3, <2>4, <2>5, <2>8, <2>9
<1>2. P(S)
  <2>. HIDE DEF P
  <2>. QED BY <1>1
<1>. QED BY <1>2

\* A sum does not depend on what its terms are numbered by.
LEMMA SumReindex ==
  ASSUME NEW S, IsFiniteSet(S), NEW b, \A x, y \in S : b[x] = b[y] => x = y,
         NEW f, \A x \in S : f[b[x]] \in Nat, NEW g, \A x \in S : g[x] = f[b[x]]
  PROVE  SumOver(g, S) = SumOver(f, {b[x] : x \in S})
<1>. DEFINE Image(s) == {b[x] : x \in s}
            P(s) == SumOver(g, s) = SumOver(f, Image(s))
            T == {s \in SUBSET S : ~P(s)}
<1>1. ASSUME NEW s \in SUBSET S
      PROVE  IsFiniteSet(s) /\ IsFiniteSet(Image(s)) /\ \A y \in Image(s) : f[y] \in Nat
  <2>1. IsFiniteSet(s)
    BY FS_Subset
  <2>2. [x \in s |-> b[x]] \in Surjection(s, Image(s))
    BY DEF Surjection
  <2>3. IsFiniteSet(Image(s))
    <3>. HIDE DEF Image
    <3>. QED BY <2>1, <2>2, FS_Surjection
  <2>. QED BY <2>1, <2>3
<1>2. T = {}
  <2>. SUFFICES ASSUME T # {} PROVE FALSE
    OBVIOUS
  <2>1. T \in SUBSET SUBSET S
    OBVIOUS
  <2>2. PICK X \in T : \A Y \in T : Y \subseteq X => Y = X
    <3>. HIDE DEF T
    <3>. QED BY <2>1, MinimalSubset
  <2>3. X \in SUBSET S /\ IsFiniteSet(X) /\ \A x \in X : g[x] \in Nat
    BY <1>1, <2>2
  <2>4. X # {}
    <3>1. SumOver(g, {}) = 0 /\ SumOver(f, {}) = 0
      BY FS_EmptySet, SumStep
    <3>2. Image({}) = {}
      OBVIOUS
    <3>3. P({})
      <4>. HIDE DEF Image
      <4>. QED BY <3>1, <3>2
    <3>. QED BY <2>2, <3>3
  <2>5. PICK z \in X : TRUE
    BY <2>4
  <2>6. Image(X \ {z}) = Image(X) \ {b[z]} /\ b[z] \in Image(X)
    BY <2>3
  <2>7. P(X \ {z})
    <3>. HIDE DEF P
    <3>. QED BY <2>2
  <2>8. IsFiniteSet(Image(X)) /\ \A y \in Image(X) : f[y] \in Nat
    BY <1>1, <2>3
  <2>. HIDE DEF Image
  <2>9. SumOver(g, X) = g[z] + SumOver(g, X \ {z})
    BY <2>3, SumRemove
  <2>10. SumOver(f, Image(X)) = f[b[z]] + SumOver(f, Image(X) \ {b[z]})
    BY <2>6, <2>8, SumRemove
  <2>11. P(X)
    BY <2>3, <2>6, <2>7, <2>9, <2>10
  <2>. QED BY <2>2, <2>11
<1>3. P(S)
  <2>. HIDE DEF P
  <2>. QED BY <1>2
<1>. QED BY <1>3
=============================================================================
