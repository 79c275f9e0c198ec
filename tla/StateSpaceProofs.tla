-------------------------- MODULE StateSpaceProofs --------------------------
(***************************************************************************)
(* Proofs about StateSpace and HDelta, and so about Kripke, Update and     *)
(* Symmetry below them, for every finite task: any agents, atoms, formulas,*)
(* initial model and actions.                                              *)
(*                                                                         *)
(* StateSpace: an update maps bisimilar models to bisimilar ones, and the  *)
(* contraction of two bisimilar models is the same model, because the keys *)
(* it sorts by are totally ordered and depend on the situation alone.  So  *)
(* the state a search holds is at every step the contraction of the        *)
(* uncontracted path (PathInv).  A swap that fixes a state makes of its    *)
(* successor by an action the successor by the action's image, and the     *)
(* first name among the images of an action is kept (SymmetrySound).  The  *)
(* validator replays each step of AO* to the same outcomes (StepReplays).  *)
(*                                                                         *)
(* HDelta: if a layer stands for a state, its next step stands for every   *)
(* update of it (CoveredKept), because every fact of the frame the layers  *)
(* rely on survives updates (DescendsKept).  So the goal holds no earlier  *)
(* than in a layer that reaches it (EstimateInv).                          *)
(*                                                                         *)
(* The loops of the code are recursive functions of the model; Iteration   *)
(* and Recursion give them their values from the measure that makes them   *)
(* end.                                                                    *)
(***************************************************************************)
EXTENDS StateSpace, Validator, HDelta, FiniteSetTheorems, WellFoundedInduction, TLAPS

-----------------------------------------------------------------------------
\* Recursion on a measure, and loops

\* A set of naturals that is not empty has a least member.
LEMMA LeastNatural ==
  ASSUME NEW X \in SUBSET Nat, X # {}
  PROVE  \E n \in X : \A m \in X : n <= m
<1> DEFINE R == {p \in Nat \X Nat : p[1] < p[2]}
<1>1. IsWellFoundedOn(R, Nat)
  BY NatLessThanWellFounded DEF OpToRel
<1>2. \E x \in X : \A y \in X : ~(<<y, x>> \in R)
  <2> HIDE DEF R
  <2> QED BY <1>1, WFMin
<1>3. PICK x \in X : \A y \in X : ~(<<y, x>> \in R)
  BY <1>2
<1>4. ASSUME NEW y \in X
      PROVE  x <= y
  <2>1. x \in Nat /\ y \in Nat /\ ~(<<y, x>> \in R)
    BY <1>3
  <2>2. ~(y < x)
    BY <2>1
  <2> QED BY <2>1, <2>2
<1> QED BY <1>4

(***************************************************************************)
(* Definition by recursion on a measure.  F says what the value at x is,   *)
(* given the values elsewhere, and looks only at values of smaller         *)
(* measure.  An approximation is right wherever the measure is below n.    *)
(***************************************************************************)
Approximation(S, V, m, F, n, g) ==
  g \in [S -> V] /\ \A x \in S : m[x] < n => g[x] = F[x][g]

\* An equation g[x] = F[x][g] over S in which F at x looks only at points of
\* smaller measure m: the form of Sat, and of every loop of the model that ends.
Recursion(S, V, m, F) ==
  /\ V # {} /\ m \in [S -> Nat] /\ F \in [S -> [[S -> V] -> V]]
  /\ \A x \in S, g, b \in [S -> V] :
        (\A y \in S : m[y] < m[x] => g[y] = b[y]) => F[x][g] = F[x][b]

\* Two partial solutions of a recursive equation agree where both are defined.
LEMMA ApproximationsAgree ==
  ASSUME NEW S, NEW V, NEW m, NEW F, Recursion(S, V, m, F),
         NEW n \in Nat, NEW k \in Nat, NEW g, NEW b,
         Approximation(S, V, m, F, n, g), Approximation(S, V, m, F, k, b)
  PROVE  \A x \in S : m[x] < n /\ m[x] < k => g[x] = b[x]
<1> m \in [S -> Nat] /\ F \in [S -> [[S -> V] -> V]] /\ V # {}
  BY DEF Recursion
<1> DEFINE Bad == {j \in Nat : \E x \in S : m[x] = j /\ j < n /\ j < k /\ g[x] # b[x]}
<1>1. CASE Bad # {}
  <2>1. PICK j \in Nat : j \in Bad /\ \A i \in Bad : j <= i
    <3> Bad \in SUBSET Nat
      OBVIOUS
    <3> HIDE DEF Bad
    <3> QED BY <1>1, LeastNatural
  <2>2. PICK x \in S : m[x] = j /\ j < n /\ j < k /\ g[x] # b[x]
    BY <2>1
  <2>3. ASSUME NEW y \in S, m[y] < m[x]
        PROVE  g[y] = b[y]
    <3>1. m[y] \in Nat /\ m[y] < j /\ m[y] < n /\ m[y] < k
      BY <2>2, <2>3
    <3>2. m[y] \notin Bad
      <4> HIDE DEF Bad
      <4> QED BY <2>1, <3>1
    <3> QED BY <3>1, <3>2
  <2>4. F[x][g] = F[x][b]
    BY <2>3 DEF Recursion, Approximation
  <2> QED BY <2>2, <2>4 DEF Approximation
<1>2. CASE Bad = {}
  BY <1>2
<1> QED BY <1>1, <1>2

\* A recursive equation has a solution up to every measure.
LEMMA ApproximationsExist ==
  ASSUME NEW S, NEW V, NEW m, NEW F, Recursion(S, V, m, F)
  PROVE  \A n \in Nat : \E g : Approximation(S, V, m, F, n, g)
<1> m \in [S -> Nat] /\ F \in [S -> [[S -> V] -> V]] /\ V # {}
  BY DEF Recursion
<1> DEFINE Bad == {n \in Nat : ~\E g : Approximation(S, V, m, F, n, g)}
<1>1. CASE Bad # {}
  <2>1. PICK n \in Nat : n \in Bad /\ \A i \in Bad : n <= i
    <3> Bad \in SUBSET Nat
      OBVIOUS
    <3> HIDE DEF Bad
    <3> QED BY <1>1, LeastNatural
  <2>2. n # 0
    <3>1. PICK v \in V : TRUE
      OBVIOUS
    <3>2. Approximation(S, V, m, F, 0, [x \in S |-> v])
      BY <3>1 DEF Approximation
    <3> QED BY <2>1, <3>2
  <2>3. n - 1 \in Nat /\ n - 1 \notin Bad
    <3> HIDE DEF Bad
    <3> QED BY <2>1, <2>2
  <2>4. PICK g : Approximation(S, V, m, F, n - 1, g)
    BY <2>3
  <2> DEFINE b == [x \in S |-> F[x][g]]
  <2>5. g \in [S -> V] /\ b \in [S -> V]
    BY <2>4 DEF Approximation
  <2>6. ASSUME NEW x \in S, m[x] < n
        PROVE  b[x] = F[x][b]
    <3>1. ASSUME NEW y \in S, m[y] < m[x]
          PROVE  g[y] = b[y]
      <4>1. m[y] < n - 1
        BY <2>3, <2>6, <3>1
      <4> QED BY <2>4, <4>1 DEF Approximation
    <3>2. F[x][g] = F[x][b]
      <4> HIDE DEF b
      <4> QED BY <2>5, <3>1 DEF Recursion
    <3> QED BY <3>2
  <2>7. Approximation(S, V, m, F, n, b)
    <3> HIDE DEF b
    <3> QED BY <2>5, <2>6 DEF Approximation
  <2> QED BY <2>1, <2>7
<1>2. CASE Bad = {}
  BY <1>2
<1> QED BY <1>1, <1>2

\* A recursive equation has a solution: the CHOOSE that stands for a recursive
\* function of the model finds one.
LEMMA RecursionExists ==
  ASSUME NEW S, NEW V, NEW m, NEW F, Recursion(S, V, m, F)
  PROVE  \E g \in [S -> V] : \A x \in S : g[x] = F[x][g]
<1> m \in [S -> Nat] /\ F \in [S -> [[S -> V] -> V]] /\ V # {}
  BY DEF Recursion
<1> DEFINE G == [n \in Nat |-> CHOOSE g : Approximation(S, V, m, F, n, g)]
           f == [x \in S |-> G[m[x] + 1][x]]
<1>1. \A n \in Nat : Approximation(S, V, m, F, n, G[n])
  <2>1. TAKE n \in Nat
  <2>2. \E g : Approximation(S, V, m, F, n, g)
    BY ApproximationsExist
  <2> QED BY <2>2
<1> HIDE DEF G
<1>2. \A x \in S : m[x] + 1 \in Nat /\ G[m[x] + 1] \in [S -> V]
  BY <1>1 DEF Approximation
<1>3. f \in [S -> V]
  BY <1>2
<1>4. ASSUME NEW x \in S
      PROVE  f[x] = F[x][f]
  <2>1. PICK n \in Nat : n = m[x] + 1 /\ Approximation(S, V, m, F, n, G[n])
    BY <1>1
  <2>2. ASSUME NEW y \in S, m[y] < m[x]
        PROVE  G[n][y] = f[y]
    <3>1. PICK k \in Nat : k = m[y] + 1 /\ Approximation(S, V, m, F, k, G[k])
      BY <1>1
    <3>2. \A z \in S : m[z] < n /\ m[z] < k => G[n][z] = G[k][z]
      <4> HIDE DEF f
      <4> QED BY <2>1, <3>1, ApproximationsAgree
    <3>3. m[y] < n /\ m[y] < k
      BY <2>1, <2>2, <3>1
    <3> QED BY <3>1, <3>2, <3>3
  <2>3. F[x][G[n]] = F[x][f]
    <3> HIDE DEF f
    <3> QED BY <1>2, <1>3, <2>1, <2>2 DEF Recursion, Approximation
  <2>4. G[n][x] = F[x][G[n]]
    BY <2>1 DEF Approximation
  <2> QED BY <2>1, <2>3, <2>4
<1> QED BY <1>3, <1>4

(***************************************************************************)
(* Iteration until a stop, which a measure forces.                         *)
(***************************************************************************)
Iteration(S, stop, next, m) ==
  /\ next \in [S -> S] /\ m \in [S -> Nat]
  /\ \A x \in S : x \notin stop => m[next[x]] < m[x]
\* g is the state the loop stops in, from every state.
Iterates(S, stop, next, g) == g = [x \in S |-> IF x \in stop THEN x ELSE g[next[x]]]

\* A loop whose measure falls at every round has a function that runs it.
LEMMA IterationExists ==
  ASSUME NEW S, NEW stop, NEW next, NEW m, Iteration(S, stop, next, m)
  PROVE  \E g : Iterates(S, stop, next, g)
<1> DEFINE F == [x \in S |-> [g \in [S -> S] |-> IF x \in stop THEN x ELSE g[next[x]]]]
<1> next \in [S -> S] /\ m \in [S -> Nat]
  BY DEF Iteration
<1>1. F \in [S -> [[S -> S] -> S]]
  OBVIOUS
<1>3. \A x \in S, g \in [S -> S] : F[x][g] = IF x \in stop THEN x ELSE g[next[x]]
  OBVIOUS
<1> HIDE DEF F
<1>4. CASE S # {}
  <2>1. ASSUME NEW x \in S, NEW g \in [S -> S], NEW b \in [S -> S],
               \A y \in S : m[y] < m[x] => g[y] = b[y]
        PROVE  F[x][g] = F[x][b]
    <3>1. x \notin stop => next[x] \in S /\ g[next[x]] = b[next[x]]
      BY <2>1 DEF Iteration
    <3> QED BY <1>3, <3>1
  <2>2. Recursion(S, S, m, F)
    BY <1>1, <1>4, <2>1 DEF Recursion
  <2>3. \E g \in [S -> S] : \A x \in S : g[x] = F[x][g]
    BY <2>2, RecursionExists
  <2> QED BY <1>3, <2>3 DEF Iterates
<1>5. CASE S = {}
  <2>1. Iterates(S, stop, next, [x \in S |-> x])
    BY <1>5 DEF Iterates
  <2> QED BY <2>1
<1> QED BY <1>4, <1>5

(***************************************************************************)
(* What two iterations keep, step by step, holds of their results.         *)
(***************************************************************************)
KeptByBoth(Q, S1, stop1, next1, S2, stop2, next2) ==
  \A x \in S1, y \in S2 :
     <<x, y>> \in Q => /\ (x \in stop1 <=> y \in stop2)
                      /\ (x \notin stop1 => <<next1[x], next2[y]>> \in Q)

\* Two loops whose rounds keep a relation between their states end in related
\* states: how two runs of one algorithm of the planner are compared.
LEMMA IterationsRelate ==
  ASSUME NEW S1, NEW stop1, NEW next1, NEW m1, Iteration(S1, stop1, next1, m1),
         NEW S2, NEW stop2, NEW next2, NEW m2, Iteration(S2, stop2, next2, m2),
         NEW g1, Iterates(S1, stop1, next1, g1), NEW g2, Iterates(S2, stop2, next2, g2),
         NEW Q, KeptByBoth(Q, S1, stop1, next1, S2, stop2, next2)
  PROVE  \A x \in S1, y \in S2 :
            <<x, y>> \in Q => <<g1[x], g2[y]>> \in Q /\ g1[x] \in stop1 /\ g2[y] \in stop2
<1> next1 \in [S1 -> S1] /\ next2 \in [S2 -> S2] /\ m1 \in [S1 -> Nat]
  BY DEF Iteration
<1> DEFINE Fine(x, y) == <<g1[x], g2[y]>> \in Q /\ g1[x] \in stop1 /\ g2[y] \in stop2
           Bad == {n \in Nat : \E x \in S1, y \in S2 : m1[x] = n /\ <<x, y>> \in Q /\ ~Fine(x, y)}
<1>1. CASE Bad # {}
  <2>1. PICK n \in Nat : n \in Bad /\ \A i \in Bad : n <= i
    <3> Bad \in SUBSET Nat
      OBVIOUS
    <3> HIDE DEF Bad
    <3> QED BY <1>1, LeastNatural
  <2>2. PICK x \in S1, y \in S2 : m1[x] = n /\ <<x, y>> \in Q /\ ~Fine(x, y)
    <3> HIDE DEF Fine
    <3> QED BY <2>1
  <2>3. CASE x \in stop1
    BY <2>2, <2>3 DEF Iterates, KeptByBoth
  <2>4. CASE x \notin stop1
    <3>1. y \notin stop2 /\ <<next1[x], next2[y]>> \in Q /\ m1[next1[x]] < n
      BY <2>2, <2>4 DEF KeptByBoth, Iteration
    <3>2. g1[x] = g1[next1[x]] /\ g2[y] = g2[next2[y]]
      BY <2>4, <3>1 DEF Iterates
    <3>3. next1[x] \in S1 /\ next2[y] \in S2 /\ m1[next1[x]] \in Nat
      OBVIOUS
    <3>4. ~Fine(next1[x], next2[y])
      BY <2>2, <3>2
    <3>5. m1[next1[x]] \in Bad
      <4> HIDE DEF Fine
      <4> QED BY <3>1, <3>3, <3>4
    <3> HIDE DEF Bad
    <3> QED BY <2>1, <3>1, <3>3, <3>5
  <2> QED BY <2>3, <2>4
<1>2. CASE Bad = {}
  BY <1>2
<1> QED BY <1>1, <1>2

(***************************************************************************)
(* What one iteration keeps holds of its result, where it stops.           *)
(***************************************************************************)
LEMMA IterationKeeps ==
  ASSUME NEW S, NEW stop, NEW next, NEW m, Iteration(S, stop, next, m),
         NEW g, Iterates(S, stop, next, g),
         NEW P \in SUBSET S, \A x \in P : x \notin stop => next[x] \in P
  PROVE  \A x \in P : g[x] \in P /\ g[x] \in stop
<1> DEFINE Q == {<<x, x>> : x \in P}
<1>1. \A x, y : <<x, y>> \in Q <=> x = y /\ x \in P
  OBVIOUS
<1> HIDE DEF Q
<1>2. KeptByBoth(Q, S, stop, next, S, stop, next)
  BY <1>1 DEF KeptByBoth, Iteration
<1>3. \A x \in S, y \in S : <<x, y>> \in Q => <<g[x], g[y]>> \in Q /\ g[x] \in stop /\ g[y] \in stop
  BY <1>2, IterationsRelate
<1> QED BY <1>1, <1>3

-----------------------------------------------------------------------------
\* Least and greatest sets of worlds

\* A Kripke model with finitely many worlds.
FiniteState(s) == IsState(s) /\ IsFiniteSet(s.W)

\* Subsets of a finite set are finite, and smaller ones have fewer members.
LEMMA Subsets ==
  ASSUME NEW W, IsFiniteSet(W), NEW X \in SUBSET W
  PROVE  /\ IsFiniteSet(X) /\ Cardinality(X) \in Nat /\ Cardinality(W) \in Nat
         /\ Cardinality(X) <= Cardinality(W)
         /\ \A Y \in SUBSET X : Y # X => Cardinality(Y) < Cardinality(X)
<1>1. IsFiniteSet(X) /\ Cardinality(X) <= Cardinality(W)
  BY FS_Subset
<1>2. Cardinality(X) \in Nat /\ Cardinality(W) \in Nat
  BY <1>1, FS_CardinalityType
<1>3. ASSUME NEW Y \in SUBSET X, Y # X
      PROVE  Cardinality(Y) < Cardinality(X)
  BY <1>1, <1>3, FS_Subset, FS_CardinalityType
<1> QED BY <1>1, <1>2, <1>3

\* One round of the search for reachable worlds
\* (bisimulation.cpp, restrict_to_reachable).
Forward(s, X) == X \cup UNION {s.R[i][w] : i \in Agents, w \in X}

\* No edge leaves X.
Closed(s, X) == \A i \in Agents, w \in X : s.R[i][w] \subseteq X

\* The worlds the search reaches are the least set that holds the designated
\* worlds and that no edge leaves (bisimulation.cpp, restrict_to_reachable).
LEMMA ReachableIsLeast ==
  ASSUME NEW s, FiniteState(s)
  PROVE  /\ Reachable(s) \in SUBSET s.W
         /\ s.D \subseteq Reachable(s)
         /\ Closed(s, Reachable(s))
         /\ \A X \in SUBSET s.W : s.D \subseteq X /\ Closed(s, X) => Reachable(s) \subseteq X
<1> DEFINE S == SUBSET s.W
           stop == {X \in S : Forward(s, X) = X}
           next == [X \in S |-> Forward(s, X)]
           m == [X \in S |-> Cardinality(s.W) - Cardinality(X)]
<1>1. IsFiniteSet(s.W) /\ IsState(s)
  BY DEF FiniteState
<1>2. \A X \in S : Forward(s, X) \in S /\ X \subseteq Forward(s, X)
  BY <1>1 DEF Forward, IsState
<1>3. Iteration(S, stop, next, m)
  <2>1. ASSUME NEW X \in S, X \notin stop
        PROVE  m[next[X]] < m[X]
    <3>1. Forward(s, X) \in S /\ X \subseteq Forward(s, X) /\ X # Forward(s, X)
      BY <1>2, <2>1
    <3>2. Cardinality(X) < Cardinality(Forward(s, X)) /\ Cardinality(X) \in Nat
      /\ Cardinality(Forward(s, X)) \in Nat /\ Cardinality(s.W) \in Nat
      BY <1>1, <3>1, Subsets
    <3> QED BY <3>1, <3>2
  <2>2. m \in [S -> Nat]
    BY <1>1, Subsets
  <2>3. next \in [S -> S]
    BY <1>2
  <2> QED BY <2>1, <2>2, <2>3 DEF Iteration
<1> DEFINE Computes(g) == g = [X \in SUBSET s.W |->
              IF Forward(s, X) = X THEN X ELSE g[Forward(s, X)]]
<1>4. \A g : Iterates(S, stop, next, g) <=> Computes(g)
  <2>1. TAKE g
  <2>2. [X \in S |-> IF X \in stop THEN X ELSE g[next[X]]]
      = [X \in S |-> IF Forward(s, X) = X THEN X ELSE g[Forward(s, X)]]
    OBVIOUS
  <2> QED BY <2>2 DEF Iterates
<1>5. \E g : Computes(g)
  <2> HIDE DEF Computes, S, stop, next, m
  <2> QED BY <1>3, <1>4, IterationExists
<1>6. Reachable(s) = (CHOOSE g : Computes(g))[s.D]
  BY DEF Reachable, Forward
<1>7. PICK g : g = CHOOSE f : Computes(f)
  OBVIOUS
<1>8. Iterates(S, stop, next, g) /\ Reachable(s) = g[s.D]
  <2> HIDE DEF Computes
  <2> QED BY <1>4, <1>5, <1>6, <1>7
<1>9. s.D \in S
  BY <1>1 DEF IsState
<1> DEFINE Above == {X \in S : s.D \subseteq X}
<1>10. g[s.D] \in Above /\ g[s.D] \in stop
  <2>1. \A X \in Above : X \notin stop => next[X] \in Above
    BY <1>2
  <2>2. Above \in SUBSET S /\ s.D \in Above
    BY <1>9
  <2> HIDE DEF Computes, S, stop, next, m, Above
  <2> QED BY <1>3, <1>8, <2>1, <2>2, IterationKeeps
<1>11. ASSUME NEW X \in SUBSET s.W, s.D \subseteq X, Closed(s, X)
       PROVE  g[s.D] \subseteq X
  <2> DEFINE Below == {Y \in S : Y \subseteq X}
  <2>1. \A Y \in Below : Y \notin stop => next[Y] \in Below
    BY <1>2, <1>11 DEF Forward, Closed
  <2>2. Below \in SUBSET S /\ s.D \in Below
    BY <1>9, <1>11
  <2>3. g[s.D] \in Below
    <3> HIDE DEF Computes, S, stop, next, m, Below
    <3> QED BY <1>3, <1>8, <2>1, <2>2, IterationKeeps
  <2> QED BY <2>3
<1>12. Closed(s, g[s.D])
  BY <1>10 DEF Closed, Forward
<1> QED BY <1>8, <1>10, <1>11, <1>12

\* One round of the common-knowledge worklist (state.cpp, common_into).
Backward(s, G, X) == X \cup {w \in s.W : \E i \in G : s.R[i][w] \cap X # {}}
\* Every world with an edge of the group into X is in X.
ClosedBackward(s, G, X) ==
  \A i \in G, w \in s.W : s.R[i][w] \cap X # {} => w \in X

\* The common-knowledge worklist computes the least set that holds the worlds
\* outside Z and every world with an edge of the group into the set
\* (state.cpp, common_into).
LEMMA LeavingIsLeast ==
  ASSUME NEW s, FiniteState(s), NEW G, NEW Z \in SUBSET s.W
  PROVE  /\ Leaving(s, G, Z) \in SUBSET s.W
         /\ s.W \ Z \subseteq Leaving(s, G, Z)
         /\ ClosedBackward(s, G, Leaving(s, G, Z))
         /\ \A X \in SUBSET s.W :
               s.W \ Z \subseteq X /\ ClosedBackward(s, G, X) => Leaving(s, G, Z) \subseteq X
<1> DEFINE S == SUBSET s.W
           stop == {X \in S : Backward(s, G, X) = X}
           next == [X \in S |-> Backward(s, G, X)]
           m == [X \in S |-> Cardinality(s.W) - Cardinality(X)]
           x0 == s.W \ Z
<1>1. IsFiniteSet(s.W)
  BY DEF FiniteState
<1>2. \A X \in S : Backward(s, G, X) \in S /\ X \subseteq Backward(s, G, X)
  BY DEF Backward
<1>3. Iteration(S, stop, next, m)
  <2>1. ASSUME NEW X \in S, X \notin stop
        PROVE  m[next[X]] < m[X]
    <3>1. Backward(s, G, X) \in S /\ X \subseteq Backward(s, G, X) /\ X # Backward(s, G, X)
      BY <1>2, <2>1
    <3>2. Cardinality(X) < Cardinality(Backward(s, G, X)) /\ Cardinality(X) \in Nat
      /\ Cardinality(Backward(s, G, X)) \in Nat /\ Cardinality(s.W) \in Nat
      BY <1>1, <3>1, Subsets
    <3> QED BY <3>1, <3>2
  <2>2. m \in [S -> Nat]
    BY <1>1, Subsets
  <2>3. next \in [S -> S]
    BY <1>2
  <2> QED BY <2>1, <2>2, <2>3 DEF Iteration
<1> DEFINE Computes(g) == g = [X \in SUBSET s.W |->
              IF Backward(s, G, X) = X THEN X ELSE g[Backward(s, G, X)]]
<1>4. \A g : Iterates(S, stop, next, g) <=> Computes(g)
  <2>1. TAKE g
  <2>2. [X \in S |-> IF X \in stop THEN X ELSE g[next[X]]]
      = [X \in S |-> IF Backward(s, G, X) = X THEN X ELSE g[Backward(s, G, X)]]
    OBVIOUS
  <2> QED BY <2>2 DEF Iterates
<1>5. \E g : Computes(g)
  <2> HIDE DEF Computes, S, stop, next, m
  <2> QED BY <1>3, <1>4, IterationExists
<1>6. Leaving(s, G, Z) = (CHOOSE g : Computes(g))[x0]
  BY DEF Leaving, Backward
<1>7. PICK g : g = CHOOSE f : Computes(f)
  OBVIOUS
<1>8. Iterates(S, stop, next, g) /\ Leaving(s, G, Z) = g[x0]
  <2> HIDE DEF Computes
  <2> QED BY <1>4, <1>5, <1>6, <1>7
<1>9. x0 \in S
  OBVIOUS
<1> DEFINE Above == {X \in S : x0 \subseteq X}
<1>10. g[x0] \in Above /\ g[x0] \in stop
  <2>1. \A X \in Above : X \notin stop => next[X] \in Above
    BY <1>2
  <2>2. Above \in SUBSET S /\ x0 \in Above
    BY <1>9
  <2> HIDE DEF Computes, S, stop, next, m, Above
  <2> QED BY <1>3, <1>8, <2>1, <2>2, IterationKeeps
<1>11. ASSUME NEW X \in SUBSET s.W, x0 \subseteq X, ClosedBackward(s, G, X)
       PROVE  g[x0] \subseteq X
  <2> DEFINE Below == {Y \in S : Y \subseteq X}
  <2>1. \A Y \in Below : Y \notin stop => next[Y] \in Below
    BY <1>2, <1>11 DEF Backward, ClosedBackward
  <2>2. Below \in SUBSET S /\ x0 \in Below
    BY <1>9, <1>11
  <2>3. g[x0] \in Below
    <3> HIDE DEF Computes, S, stop, next, m, Below
    <3> QED BY <1>3, <1>8, <2>1, <2>2, IterationKeeps
  <2> QED BY <2>3
<1>12. ClosedBackward(s, G, g[x0])
  <2>1. PICK Y : Y = g[x0] /\ Backward(s, G, Y) = Y
    BY <1>10
  <2>2. ASSUME NEW i \in G, NEW w \in s.W, s.R[i][w] \cap Y # {}
        PROVE  w \in Y
    <3>1. w \in Backward(s, G, Y)
      BY <2>2 DEF Backward
    <3> QED BY <2>1, <3>1
  <2>3. ClosedBackward(s, G, Y)
    BY <2>2 DEF ClosedBackward
  <2> QED BY <2>1, <2>3
<1> QED BY <1>8, <1>10, <1>11, <1>12

\* One round of the repair: worlds that still have a successor for each agent.
Alive(s, X) == {w \in X : \A i \in Agents : s.R[i][w] \cap X # {}}
\* Every agent considers a world of X possible everywhere in X.
Serial(s, X) == \A i \in Agents, w \in X : s.R[i][w] \cap X # {}

\* The repair keeps the largest set of worlds in which every agent considers
\* some world possible everywhere (product_update.cpp, serial_core).
LEMMA SerialCoreIsGreatest ==
  ASSUME NEW s, FiniteState(s)
  PROVE  /\ SerialCore(s) \in SUBSET s.W
         /\ Serial(s, SerialCore(s))
         /\ \A X \in SUBSET s.W : Serial(s, X) => X \subseteq SerialCore(s)
<1> DEFINE S == SUBSET s.W
           stop == {X \in S : Alive(s, X) = X}
           next == [X \in S |-> Alive(s, X)]
           m == [X \in S |-> Cardinality(X)]
<1>1. IsFiniteSet(s.W)
  BY DEF FiniteState
<1>2. \A X \in S : Alive(s, X) \in S /\ Alive(s, X) \subseteq X
  BY DEF Alive
<1>3. Iteration(S, stop, next, m)
  <2>1. ASSUME NEW X \in S, X \notin stop
        PROVE  m[next[X]] < m[X]
    <3>1. Alive(s, X) \in S /\ Alive(s, X) \in SUBSET X /\ X # Alive(s, X)
      BY <1>2, <2>1
    <3>2. Cardinality(Alive(s, X)) < Cardinality(X)
      BY <1>1, <3>1, Subsets
    <3> QED BY <3>1, <3>2
  <2>2. m \in [S -> Nat]
    BY <1>1, Subsets
  <2>3. next \in [S -> S]
    BY <1>2
  <2> QED BY <2>1, <2>2, <2>3 DEF Iteration
<1> DEFINE Computes(g) == g = [X \in SUBSET s.W |->
              IF Alive(s, X) = X THEN X ELSE g[Alive(s, X)]]
<1>4. \A g : Iterates(S, stop, next, g) <=> Computes(g)
  <2>1. TAKE g
  <2>2. [X \in S |-> IF X \in stop THEN X ELSE g[next[X]]]
      = [X \in S |-> IF Alive(s, X) = X THEN X ELSE g[Alive(s, X)]]
    OBVIOUS
  <2> QED BY <2>2 DEF Iterates
<1>5. \E g : Computes(g)
  <2> HIDE DEF Computes, S, stop, next, m
  <2> QED BY <1>3, <1>4, IterationExists
<1>6. SerialCore(s) = (CHOOSE g : Computes(g))[s.W]
  BY DEF SerialCore, Alive
<1>7. PICK g : g = CHOOSE f : Computes(f)
  OBVIOUS
<1>8. Iterates(S, stop, next, g) /\ SerialCore(s) = g[s.W]
  <2> HIDE DEF Computes
  <2> QED BY <1>4, <1>5, <1>6, <1>7
<1>9. s.W \in S
  OBVIOUS
<1>10. g[s.W] \in S /\ g[s.W] \in stop
  <2>1. \A X \in S : X \notin stop => next[X] \in S
    BY <1>2
  <2> HIDE DEF Computes, S, stop, next, m
  <2> QED BY <1>3, <1>8, <1>9, <2>1, IterationKeeps
<1>11. ASSUME NEW X \in SUBSET s.W, Serial(s, X)
       PROVE  X \subseteq g[s.W]
  <2> DEFINE Above == {Y \in S : X \subseteq Y}
  <2>1. \A Y \in Above : Y \notin stop => next[Y] \in Above
    BY <1>2, <1>11 DEF Alive, Serial
  <2>2. Above \in SUBSET S /\ s.W \in Above
    BY <1>9, <1>11
  <2>3. g[s.W] \in Above
    <3> HIDE DEF Computes, S, stop, next, m, Above
    <3> QED BY <1>3, <1>8, <2>1, <2>2, IterationKeeps
  <2> QED BY <2>3
<1>12. Serial(s, g[s.W])
  BY <1>10 DEF Serial, Alive
<1> QED BY <1>8, <1>10, <1>11, <1>12

-----------------------------------------------------------------------------
\* The truth of formulas

\* A tabulated function is the function.
LEMMA TableIs == \A f : Table(f) = f
BY DEF Table

(***************************************************************************)
(* The value of a clause is a set of worlds, and only the subformulas      *)
(* matter to it.                                                           *)
(***************************************************************************)
LEMMA ClauseIsLocal ==
  ASSUME NEW s, FiniteState(s), NEW f \in Formulas, NEW g,
         \A c \in Subformulas(f) : g[c] \in SUBSET s.W
  PROVE  /\ Clause(s, g, f) \in SUBSET s.W
         /\ \A b : (\A c \in Subformulas(f) : g[c] = b[c]) => Clause(s, g, f) = Clause(s, b, f)
<1>1. CASE f[1] \in {"Top", "Bot", "Atom"}
  BY <1>1 DEF Clause
<1>2. CASE f[1] = "Not"
  <2>1. f[2] \in Subformulas(f)
    BY <1>2 DEF Subformulas
  <2> QED BY <1>2, <2>1 DEF Clause
<1>3. CASE f[1] = "And"
  <2>1. Range(f[2]) = Subformulas(f)
    BY <1>3 DEF Subformulas
  <2>2. \A b : Clause(s, b, f) = s.W \ UNION {s.W \ b[c] : c \in Subformulas(f)}
    <3>1. \A b : Clause(s, b, f) = s.W \ UNION {s.W \ b[c] : c \in Range(f[2])}
      BY <1>3 DEF Clause
    <3> QED BY <2>1, <3>1
  <2>3. ASSUME NEW b, \A c \in Subformulas(f) : g[c] = b[c]
        PROVE  Clause(s, g, f) = Clause(s, b, f)
    <3>1. {s.W \ g[c] : c \in Subformulas(f)} = {s.W \ b[c] : c \in Subformulas(f)}
      BY <2>3
    <3> QED BY <2>2, <3>1
  <2>4. \A b : (\A c \in Subformulas(f) : g[c] = b[c]) => Clause(s, g, f) = Clause(s, b, f)
    BY <2>3
  <2>5. Clause(s, g, f) \in SUBSET s.W
    BY <2>2
  <2> QED BY <2>4, <2>5
<1>4. CASE f[1] = "Or"
  <2>1. Range(f[2]) = Subformulas(f)
    BY <1>4 DEF Subformulas
  <2>2. \A b : Clause(s, b, f) = UNION {b[c] : c \in Subformulas(f)}
    BY <1>4, <2>1 DEF Clause
  <2>3. ASSUME NEW b, \A c \in Subformulas(f) : g[c] = b[c]
        PROVE  Clause(s, g, f) = Clause(s, b, f)
    <3>1. {g[c] : c \in Subformulas(f)} = {b[c] : c \in Subformulas(f)}
      BY <2>3
    <3> QED BY <2>2, <3>1
  <2>4. \A b : (\A c \in Subformulas(f) : g[c] = b[c]) => Clause(s, g, f) = Clause(s, b, f)
    BY <2>3
  <2>5. Clause(s, g, f) \in SUBSET s.W
    BY <2>2
  <2> QED BY <2>4, <2>5
<1>5. CASE f[1] = "Belief"
  <2>1. f[3] \in Subformulas(f)
    BY <1>5 DEF Subformulas
  <2>2. \A b : Clause(s, b, f) = IF f[2] \in Agents THEN Box(s, f[2], b[f[3]]) ELSE {}
    BY <1>5 DEF Clause
  <2> QED BY <2>1, <2>2 DEF Box
<1>6. CASE f[1] = "Kw"
  <2>1. f[3] \in Subformulas(f)
    BY <1>6 DEF Subformulas
  <2>2. \A b : Clause(s, b, f) = IF f[2] \in Agents THEN KnowsWhether(s, f[2], b[f[3]]) ELSE {}
    BY <1>6 DEF Clause
  <2> QED BY <2>1, <2>2 DEF KnowsWhether
<1>7. CASE f[1] = "Common"
  <2>1. f[3] \in Subformulas(f)
    BY <1>7 DEF Subformulas
  <2>2. \A b : Clause(s, b, f) = s.W \ Leaving(s, f[2] \cap Agents, b[f[3]])
    BY <1>7 DEF Clause
  <2> QED BY <2>1, <2>2
<1> QED BY <1>1, <1>2, <1>3, <1>4, <1>5, <1>6, <1>7, FormulasAssumption

\* The extension cache holds, for each formula, the set of worlds its clause
\* asks for, given the extensions of its subformulas (state.cpp, compute).
LEMMA SatEquations ==
  ASSUME NEW s, FiniteState(s)
  PROVE  /\ Sat(s) \in [Formulas -> SUBSET s.W]
         /\ \A f \in Formulas : Sat(s)[f] = Clause(s, Sat(s), f)
<1> DEFINE V == SUBSET s.W
           F == [f \in Formulas |-> [g \in [Formulas -> V] |-> Clause(s, g, f)]]
           Computes(g) == g = [f \in Formulas |-> Clause(s, g, f)]
           m == [f \in Formulas |-> Height[f]]
<1>1. \A f \in Formulas : /\ \A c \in Subformulas(f) : c \in Formulas /\ m[c] < m[f]
                          /\ m[f] \in Nat
  BY FormulasAssumption
<1>2. \A f \in Formulas, g \in [Formulas -> V] : Clause(s, g, f) \in V
  BY <1>1, ClauseIsLocal
<1>3. F \in [Formulas -> [[Formulas -> V] -> V]]
  BY <1>2
<1>4. \A f \in Formulas, g \in [Formulas -> V] : F[f][g] = Clause(s, g, f)
  OBVIOUS
<1>5. m \in [Formulas -> Nat]
  BY <1>1
<1> HIDE DEF F
<1>6. ASSUME NEW f \in Formulas, NEW g \in [Formulas -> V], NEW b \in [Formulas -> V],
             \A c \in Formulas : m[c] < m[f] => g[c] = b[c]
      PROVE  F[f][g] = F[f][b]
  <2>1. \A c \in Subformulas(f) : g[c] = b[c] /\ g[c] \in SUBSET s.W
    BY <1>1, <1>6
  <2>2. Clause(s, g, f) = Clause(s, b, f)
    BY <2>1, ClauseIsLocal
  <2> QED BY <1>4, <2>2
<1>7. Recursion(Formulas, V, m, F)
  <2> HIDE DEF m
  <2> QED BY <1>3, <1>5, <1>6 DEF Recursion
<1>8. \E g : Computes(g)
  <2>1. PICK g \in [Formulas -> V] : \A f \in Formulas : g[f] = F[f][g]
    <3> HIDE DEF V, m
    <3> QED BY <1>7, RecursionExists
  <2>2. g = [f \in Formulas |-> Clause(s, g, f)]
    <3>1. \A f \in Formulas : g[f] = Clause(s, g, f)
      BY <1>4, <2>1
    <3> QED BY <3>1
  <2> QED BY <2>2
<1>9. Sat(s) = CHOOSE g : Computes(g)
  <2>1. Sat(s) = Table(CHOOSE g : Computes(g))
    BY DEF Sat
  <2> QED BY <2>1, TableIs
<1>10. PICK g : g = Sat(s) /\ Computes(g)
  <2> HIDE DEF Computes
  <2> QED BY <1>8, <1>9
<1>11. \A f \in Formulas : g[f] = Clause(s, g, f)
  <2>1. g = [f \in Formulas |-> Clause(s, g, f)]
    BY <1>10
  <2> QED BY <2>1
<1> DEFINE Bad == {n \in Nat : \E f \in Formulas : m[f] = n /\ g[f] \notin V}
<1>12. Bad = {}
  <2>1. SUFFICES ASSUME Bad # {}
                 PROVE  FALSE
    OBVIOUS
  <2>2. PICK n \in Nat : n \in Bad /\ \A i \in Bad : n <= i
    <3> Bad \in SUBSET Nat
      OBVIOUS
    <3> HIDE DEF Bad
    <3> QED BY <2>1, LeastNatural
  <2>3. PICK f \in Formulas : m[f] = n /\ g[f] \notin V
    BY <2>2
  <2>4. ASSUME NEW c \in Subformulas(f)
        PROVE  g[c] \in SUBSET s.W
    <3>1. c \in Formulas /\ m[c] < n /\ m[c] \in Nat
      BY <1>1, <2>3
    <3>2. m[c] \notin Bad
      <4> HIDE DEF Bad
      <4> QED BY <2>2, <3>1
    <3> QED BY <3>1, <3>2
  <2>5. Clause(s, g, f) \in SUBSET s.W
    BY <2>4, ClauseIsLocal
  <2> QED BY <1>11, <2>3, <2>5
<1>13. \A f \in Formulas : g[f] \in V
  BY <1>1, <1>12
<1>14. g \in [Formulas -> V]
  <2>1. g = [f \in Formulas |-> Clause(s, g, f)]
    BY <1>10
  <2> QED BY <1>13, <2>1
<1> QED BY <1>10, <1>11, <1>14

-----------------------------------------------------------------------------
\* Bisimilar worlds satisfy the same formulas

\* Each edge of i at w has one of i at v that leads to a related world.
Forth(s, t, Z, i, w, v) == \A u \in s.R[i][w] : \E x \in t.R[i][v] : <<u, x>> \in Z
\* Each edge of i at v has one of i at w that leads to a related world.
Back(s, t, Z, i, w, v) == \A x \in t.R[i][v] : \E u \in s.R[i][w] : <<u, x>> \in Z

\* Z relates worlds that no formula and no update tells apart.
Bisimulation(s, t, Z) ==
  /\ Z \in SUBSET (s.W \X t.W)
  /\ \A w, v : <<w, v>> \in Z =>
       /\ s.V[w] = t.V[v]
       /\ (w \in s.D <=> v \in t.D)
       /\ \A i \in Agents : Forth(s, t, Z, i, w, v) /\ Back(s, t, Z, i, w, v)

\* What a bisimulation says of one pair of worlds.
LEMMA BisimulationStep ==
  ASSUME NEW s, NEW t, NEW Z, Bisimulation(s, t, Z), NEW w, NEW v, <<w, v>> \in Z
  PROVE  /\ w \in s.W /\ v \in t.W
         /\ s.V[w] = t.V[v]
         /\ (w \in s.D <=> v \in t.D)
         /\ \A i \in Agents : Forth(s, t, Z, i, w, v) /\ Back(s, t, Z, i, w, v)
<1>1. w \in s.W /\ v \in t.W
  BY DEF Bisimulation
<1> QED BY <1>1 DEF Bisimulation

\* The relation read from right to left.
Opposite(s, t, Z) == {p \in t.W \X s.W : <<p[2], p[1]>> \in Z}

\* A bisimulation read from right to left is one.
LEMMA OppositeBisimulation ==
  ASSUME NEW s, NEW t, NEW Z, Bisimulation(s, t, Z)
  PROVE  /\ Bisimulation(t, s, Opposite(s, t, Z))
         /\ \A v, w : <<v, w>> \in Opposite(s, t, Z) <=> <<w, v>> \in Z
<1> DEFINE O == Opposite(s, t, Z)
<1>1. \A v, w : <<v, w>> \in O <=> <<w, v>> \in Z
  BY DEF Bisimulation, Opposite
<1>2. O \in SUBSET (t.W \X s.W)
  BY DEF Opposite
<1> HIDE DEF O
<1>3. ASSUME NEW v, NEW w, <<v, w>> \in O
      PROVE  /\ t.V[v] = s.V[w]
             /\ (v \in t.D <=> w \in s.D)
             /\ \A i \in Agents : Forth(t, s, O, i, v, w) /\ Back(t, s, O, i, v, w)
  <2>1. <<w, v>> \in Z
    BY <1>1, <1>3
  <2>2. ASSUME NEW i \in Agents
        PROVE  Forth(t, s, O, i, v, w) /\ Back(t, s, O, i, v, w)
    <3>1. Forth(s, t, Z, i, w, v) /\ Back(s, t, Z, i, w, v)
      BY <2>1, BisimulationStep
    <3> QED BY <1>1, <3>1 DEF Forth, Back
  <2> QED BY <2>1, <2>2, BisimulationStep
<1>4. Bisimulation(t, s, O)
  BY <1>2, <1>3 DEF Bisimulation
<1> QED BY <1>1, <1>4 DEF O

\* Related worlds lie both inside X and Y, or both outside.
Agree(Z, X, Y) == \A w, v : <<w, v>> \in Z => (w \in X <=> v \in Y)

(***************************************************************************)
(* Bisimilar worlds leave agreeing sets together.                          *)
(***************************************************************************)
LEMMA LeavingForth ==
  ASSUME NEW s, FiniteState(s), NEW t, FiniteState(t), NEW Z, Bisimulation(s, t, Z),
         NEW G \in SUBSET Agents, NEW X \in SUBSET s.W, NEW Y \in SUBSET t.W, Agree(Z, X, Y)
  PROVE  \A w, v : <<w, v>> \in Z /\ w \in Leaving(s, G, X) => v \in Leaving(t, G, Y)
<1> DEFINE L == Leaving(t, G, Y)
           P == {w \in s.W : \A v : <<w, v>> \in Z => v \in L}
<1>1. t.W \ Y \subseteq L /\ ClosedBackward(t, G, L)
  BY LeavingIsLeast
<1> HIDE DEF L
<1>2. s.W \ X \subseteq P
  BY <1>1, BisimulationStep DEF Agree
<1>3. ClosedBackward(s, G, P)
  <2> SUFFICES ASSUME NEW i \in G, NEW w \in s.W, s.R[i][w] \cap P # {}, NEW v, <<w, v>> \in Z
               PROVE  v \in L
    BY DEF ClosedBackward
  <2>1. PICK u \in s.R[i][w] : u \in P
    OBVIOUS
  <2>2. Forth(s, t, Z, i, w, v) /\ v \in t.W
    BY BisimulationStep
  <2>3. PICK x \in t.R[i][v] : <<u, x>> \in Z
    BY <2>2 DEF Forth
  <2>4. x \in L
    BY <2>1, <2>3
  <2> QED BY <1>1, <2>2, <2>3, <2>4 DEF ClosedBackward
<1>4. Leaving(s, G, X) \subseteq P
  BY <1>2, <1>3, LeavingIsLeast
<1> QED BY <1>4 DEF L

\* The common-knowledge worklist agrees on bisimilar worlds.
LEMMA LeavingAgrees ==
  ASSUME NEW s, FiniteState(s), NEW t, FiniteState(t), NEW Z, Bisimulation(s, t, Z),
         NEW G \in SUBSET Agents, NEW X \in SUBSET s.W, NEW Y \in SUBSET t.W, Agree(Z, X, Y)
  PROVE  Agree(Z, Leaving(s, G, X), Leaving(t, G, Y))
<1>1. PICK O : O = Opposite(s, t, Z)
  OBVIOUS
<1>2. Bisimulation(t, s, O) /\ \A v, w : <<v, w>> \in O <=> <<w, v>> \in Z
  BY <1>1, OppositeBisimulation
<1>3. Agree(O, Y, X)
  BY <1>2 DEF Agree
<1>4. \A v, w : <<v, w>> \in O /\ v \in Leaving(t, G, Y) => w \in Leaving(s, G, X)
  BY <1>2, <1>3, LeavingForth
<1>5. \A w, v : <<w, v>> \in Z /\ w \in Leaving(s, G, X) => v \in Leaving(t, G, Y)
  BY LeavingForth
<1> QED BY <1>2, <1>4, <1>5 DEF Agree

(***************************************************************************)
(* Bisimilar worlds satisfy the same formulas.                             *)
(***************************************************************************)
LEMMA ClauseAgrees ==
  ASSUME NEW s, FiniteState(s), NEW t, FiniteState(t), NEW Z, Bisimulation(s, t, Z),
         NEW f \in Formulas, NEW g, NEW b,
         \A c \in Subformulas(f) : /\ g[c] \in SUBSET s.W /\ b[c] \in SUBSET t.W
                                   /\ Agree(Z, g[c], b[c])
  PROVE  Agree(Z, Clause(s, g, f), Clause(t, b, f))
<1>0. \A w, v : <<w, v>> \in Z => w \in s.W /\ v \in t.W
  BY DEF Bisimulation
<1>1. CASE f[1] \in {"Top", "Bot", "Atom"}
  BY <1>0, <1>1 DEF Clause, Agree, Bisimulation
<1>2. CASE f[1] = "Not"
  <2>1. f[2] \in Subformulas(f)
    BY <1>2 DEF Subformulas
  <2> QED BY <1>0, <1>2, <2>1 DEF Clause, Agree
<1>3. CASE f[1] = "And"
  <2>1. Range(f[2]) = Subformulas(f)
    BY <1>3 DEF Subformulas
  <2>2. \A r, k : Clause(r, k, f) = r.W \ UNION {r.W \ k[c] : c \in Range(f[2])}
    BY <1>3 DEF Clause
  <2>3. \A r, k, w : w \in Clause(r, k, f) <=> w \in r.W /\ \A c \in Subformulas(f) : w \in k[c]
    BY <2>1, <2>2
  <2> QED BY <1>0, <2>3 DEF Agree
<1>4. CASE f[1] = "Or"
  <2>1. Range(f[2]) = Subformulas(f)
    BY <1>4 DEF Subformulas
  <2>2. \A r, k : Clause(r, k, f) = UNION {k[c] : c \in Range(f[2])}
    BY <1>4 DEF Clause
  <2>3. \A r, k, w : w \in Clause(r, k, f) <=> \E c \in Subformulas(f) : w \in k[c]
    BY <2>1, <2>2
  <2> QED BY <1>0, <2>3 DEF Agree
<1>5. CASE f[1] \in {"Belief", "Kw"}
  <2>1. f[3] \in Subformulas(f)
    BY <1>5 DEF Subformulas
  <2>2. PICK X, Y : X = g[f[3]] /\ Y = b[f[3]] /\ X \in SUBSET s.W /\ Y \in SUBSET t.W /\ Agree(Z, X, Y)
    BY <2>1
  <2>3. ASSUME NEW i \in Agents, NEW w, NEW v, <<w, v>> \in Z
        PROVE  /\ (w \in Box(s, i, X) <=> v \in Box(t, i, Y))
               /\ (w \in KnowsWhether(s, i, X) <=> v \in KnowsWhether(t, i, Y))
    <3>1. w \in s.W /\ v \in t.W
      BY <2>3, BisimulationStep
    <3>2. \A u \in s.R[i][w] : \E x \in t.R[i][v] : <<u, x>> \in Z /\ (u \in X <=> x \in Y)
      <4>1. Forth(s, t, Z, i, w, v)
        BY <2>3, BisimulationStep
      <4> QED BY <2>2, <4>1 DEF Agree, Forth
    <3>3. \A x \in t.R[i][v] : \E u \in s.R[i][w] : <<u, x>> \in Z /\ (u \in X <=> x \in Y)
      <4>1. Back(s, t, Z, i, w, v)
        BY <2>3, BisimulationStep
      <4> QED BY <2>2, <4>1 DEF Agree, Back
    <3>4. s.R[i][w] \subseteq X <=> t.R[i][v] \subseteq Y
      BY <3>2, <3>3
    <3>5. s.R[i][w] \cap X = {} <=> t.R[i][v] \cap Y = {}
      BY <3>2, <3>3
    <3> QED BY <3>1, <3>4, <3>5 DEF Box, KnowsWhether
  <2>4. \A i \in Agents : /\ Agree(Z, Box(s, i, X), Box(t, i, Y))
                          /\ Agree(Z, KnowsWhether(s, i, X), KnowsWhether(t, i, Y))
    BY <2>3 DEF Agree
  <2>5. CASE f[1] = "Belief"
    <3>1. /\ Clause(s, g, f) = IF f[2] \in Agents THEN Box(s, f[2], X) ELSE {}
          /\ Clause(t, b, f) = IF f[2] \in Agents THEN Box(t, f[2], Y) ELSE {}
      BY <2>2, <2>5 DEF Clause
    <3> QED BY <2>4, <3>1 DEF Agree
  <2>6. CASE f[1] = "Kw"
    <3>1. /\ Clause(s, g, f) = IF f[2] \in Agents THEN KnowsWhether(s, f[2], X) ELSE {}
          /\ Clause(t, b, f) = IF f[2] \in Agents THEN KnowsWhether(t, f[2], Y) ELSE {}
      BY <2>2, <2>6 DEF Clause
    <3> QED BY <2>4, <3>1 DEF Agree
  <2> QED BY <1>5, <2>5, <2>6
<1>7. CASE f[1] = "Common"
  <2>1. f[3] \in Subformulas(f)
    BY <1>7 DEF Subformulas
  <2>2. PICK X, Y : X = g[f[3]] /\ Y = b[f[3]] /\ X \in SUBSET s.W /\ Y \in SUBSET t.W /\ Agree(Z, X, Y)
    BY <2>1
  <2>3. PICK G \in SUBSET Agents : G = f[2] \cap Agents
    OBVIOUS
  <2>4. Clause(s, g, f) = s.W \ Leaving(s, G, X) /\ Clause(t, b, f) = t.W \ Leaving(t, G, Y)
    BY <1>7, <2>2, <2>3 DEF Clause
  <2>5. Agree(Z, Leaving(s, G, X), Leaving(t, G, Y))
    BY <2>2, LeavingAgrees
  <2> QED BY <1>0, <2>4, <2>5 DEF Agree
<1> QED BY <1>1, <1>2, <1>3, <1>4, <1>5, <1>7, FormulasAssumption

\* Bisimilar worlds satisfy the same formulas (state.cpp, compute).
LEMMA SatAgrees ==
  ASSUME NEW s, FiniteState(s), NEW t, FiniteState(t), NEW Z, Bisimulation(s, t, Z)
  PROVE  \A f \in Formulas : Agree(Z, Sat(s)[f], Sat(t)[f])
<1>1. PICK g, b : g = Sat(s) /\ b = Sat(t)
  OBVIOUS
<1>2. /\ \A f \in Formulas : g[f] \in SUBSET s.W /\ b[f] \in SUBSET t.W
      /\ \A f \in Formulas : g[f] = Clause(s, g, f) /\ b[f] = Clause(t, b, f)
  BY <1>1, SatEquations
<1> DEFINE Bad == {n \in Nat : \E f \in Formulas : Height[f] = n /\ ~Agree(Z, g[f], b[f])}
<1>3. Bad = {}
  <2>1. SUFFICES ASSUME Bad # {}
                 PROVE  FALSE
    OBVIOUS
  <2>2. PICK n \in Nat : n \in Bad /\ \A i \in Bad : n <= i
    <3> Bad \in SUBSET Nat
      OBVIOUS
    <3> HIDE DEF Bad
    <3> QED BY <2>1, LeastNatural
  <2>3. PICK f \in Formulas : Height[f] = n /\ ~Agree(Z, g[f], b[f])
    BY <2>2
  <2>4. ASSUME NEW c \in Subformulas(f)
        PROVE  g[c] \in SUBSET s.W /\ b[c] \in SUBSET t.W /\ Agree(Z, g[c], b[c])
    <3>1. c \in Formulas /\ Height[c] < n /\ Height[c] \in Nat
      BY <2>3, FormulasAssumption
    <3>2. Height[c] \notin Bad
      <4> HIDE DEF Bad
      <4> QED BY <2>2, <3>1
    <3> QED BY <1>2, <3>1, <3>2
  <2>5. Agree(Z, Clause(s, g, f), Clause(t, b, f))
    BY <2>4, ClauseAgrees
  <2> QED BY <1>2, <2>3, <2>5
<1>4. \A f \in Formulas : Height[f] \in Nat
  BY FormulasAssumption
<1> QED BY <1>1, <1>3, <1>4

-----------------------------------------------------------------------------
\* Bisimilar models

\* Z is a bisimulation that matches the designated worlds of s and t.
Linked(s, t, Z) ==
  /\ Bisimulation(s, t, Z)
  /\ \A w \in s.D : \E v \in t.D : <<w, v>> \in Z
  /\ \A v \in t.D : \E w \in s.D : <<w, v>> \in Z

\* s and t are the same situation.
Bisimilar(s, t) == \E Z : Linked(s, t, Z)

\* A match of s with t, read from right to left, matches t with s.
LEMMA OppositeLinked ==
  ASSUME NEW s, NEW t, NEW Z, Linked(s, t, Z)
  PROVE  Linked(t, s, Opposite(s, t, Z))
<1>1. PICK O : O = Opposite(s, t, Z)
  OBVIOUS
<1>2. Bisimulation(t, s, O) /\ \A v, w : <<v, w>> \in O <=> <<w, v>> \in Z
  BY <1>1, OppositeBisimulation DEF Linked
<1>3. /\ \A v \in t.D : \E w \in s.D : <<v, w>> \in O
      /\ \A w \in s.D : \E v \in t.D : <<v, w>> \in O
  BY <1>2 DEF Linked
<1> QED BY <1>1, <1>2, <1>3 DEF Linked

\* Being the same situation is symmetric.
LEMMA BisimilarSymmetric ==
  ASSUME NEW s, NEW t, Bisimilar(s, t)
  PROVE  Bisimilar(t, s)
BY OppositeLinked DEF Bisimilar

\* Z followed by Y.
Composed(s, t, r, Z, Y) ==
  {p \in s.W \X r.W : \E v \in t.W : <<p[1], v>> \in Z /\ <<v, p[2]>> \in Y}

\* Matches of s with t and of t with r compose.
LEMMA ComposedLinked ==
  ASSUME NEW s, NEW t, NEW r, NEW Z, NEW Y, Linked(s, t, Z), Linked(t, r, Y)
  PROVE  /\ Linked(s, r, Composed(s, t, r, Z, Y))
         /\ \A w, x : <<w, x>> \in Composed(s, t, r, Z, Y) <=>
                        \E v : <<w, v>> \in Z /\ <<v, x>> \in Y
<1>0. Bisimulation(s, t, Z) /\ Bisimulation(t, r, Y)
  BY DEF Linked
<1> DEFINE C == Composed(s, t, r, Z, Y)
<1>1. \A w, x : <<w, x>> \in C <=> \E v : <<w, v>> \in Z /\ <<v, x>> \in Y
  <2>1. \A w, v : <<w, v>> \in Z => w \in s.W /\ v \in t.W
    BY <1>0 DEF Bisimulation
  <2>2. \A v, x : <<v, x>> \in Y => v \in t.W /\ x \in r.W
    BY <1>0 DEF Bisimulation
  <2> QED BY <2>1, <2>2 DEF Composed
<1>2. C \in SUBSET (s.W \X r.W)
  BY DEF Composed
<1> HIDE DEF C
<1>3. ASSUME NEW w, NEW x, <<w, x>> \in C
      PROVE  /\ s.V[w] = r.V[x]
             /\ (w \in s.D <=> x \in r.D)
             /\ \A i \in Agents : Forth(s, r, C, i, w, x) /\ Back(s, r, C, i, w, x)
  <2>1. PICK v : <<w, v>> \in Z /\ <<v, x>> \in Y
    BY <1>1, <1>3
  <2>2. ASSUME NEW i \in Agents
        PROVE  Forth(s, r, C, i, w, x) /\ Back(s, r, C, i, w, x)
    <3>1. Forth(s, t, Z, i, w, v) /\ Back(s, t, Z, i, w, v)
      BY <1>0, <2>1, BisimulationStep
    <3>2. Forth(t, r, Y, i, v, x) /\ Back(t, r, Y, i, v, x)
      BY <1>0, <2>1, BisimulationStep
    <3>3. Forth(s, r, C, i, w, x)
      BY <1>1, <3>1, <3>2 DEF Forth
    <3>4. Back(s, r, C, i, w, x)
      BY <1>1, <3>1, <3>2 DEF Back
    <3> QED BY <3>3, <3>4
  <2>3. s.V[w] = t.V[v] /\ t.V[v] = r.V[x]
    BY <1>0, <2>1, BisimulationStep
  <2>4. (w \in s.D <=> v \in t.D) /\ (v \in t.D <=> x \in r.D)
    BY <1>0, <2>1, BisimulationStep
  <2> QED BY <2>2, <2>3, <2>4
<1>4. Bisimulation(s, r, C)
  BY <1>2, <1>3 DEF Bisimulation
<1>5. \A w \in s.D : \E x \in r.D : <<w, x>> \in C
  BY <1>1 DEF Linked
<1>6. \A x \in r.D : \E w \in s.D : <<w, x>> \in C
  BY <1>1 DEF Linked
<1> QED BY <1>1, <1>4, <1>5, <1>6 DEF Linked, C

\* Being the same situation is transitive.
LEMMA BisimilarTransitive ==
  ASSUME NEW s, NEW t, NEW r, Bisimilar(s, t), Bisimilar(t, r)
  PROVE  Bisimilar(s, r)
BY ComposedLinked DEF Bisimilar

(***************************************************************************)
(* Every reachable world is linked to a reachable one.                     *)
(***************************************************************************)
LEMMA ReachableForth ==
  ASSUME NEW s, FiniteState(s), NEW t, FiniteState(t), NEW Z, Linked(s, t, Z)
  PROVE  \A w \in Reachable(s) : \E v \in Reachable(t) : <<w, v>> \in Z
<1> DEFINE L == Reachable(t)
           P == {w \in s.W : \E v \in L : <<w, v>> \in Z}
<1>0. Bisimulation(s, t, Z)
  BY DEF Linked
<1>1. t.D \subseteq L /\ Closed(t, L) /\ s.D \subseteq s.W
  BY ReachableIsLeast DEF FiniteState, IsState
<1> HIDE DEF L
<1>2. s.D \subseteq P
  BY <1>1 DEF Linked
<1>3. Closed(s, P)
  <2> SUFFICES ASSUME NEW i \in Agents, NEW w \in P, NEW u \in s.R[i][w]
               PROVE  u \in P
    BY DEF Closed
  <2>1. PICK v \in L : <<w, v>> \in Z
    OBVIOUS
  <2>2. Forth(s, t, Z, i, w, v)
    BY <1>0, <2>1, BisimulationStep
  <2>3. PICK x \in t.R[i][v] : <<u, x>> \in Z
    BY <2>2 DEF Forth
  <2>4. x \in L
    BY <1>1, <2>1, <2>3 DEF Closed
  <2>5. u \in s.W
    BY <1>0, <2>3, BisimulationStep
  <2> QED BY <2>3, <2>4, <2>5
<1>4. Reachable(s) \subseteq P
  BY <1>2, <1>3, ReachableIsLeast
<1> QED BY <1>4 DEF L

\* Every reachable world of t is matched by one of s.
LEMMA ReachableBack ==
  ASSUME NEW s, FiniteState(s), NEW t, FiniteState(t), NEW Z, Linked(s, t, Z)
  PROVE  \A v \in Reachable(t) : \E w \in Reachable(s) : <<w, v>> \in Z
<1>1. PICK O : O = Opposite(s, t, Z)
  OBVIOUS
<1>2. Linked(t, s, O) /\ \A v, w : <<v, w>> \in O <=> <<w, v>> \in Z
  BY <1>1, OppositeLinked, OppositeBisimulation DEF Linked
<1>3. \A v \in Reachable(t) : \E w \in Reachable(s) : <<v, w>> \in O
  BY <1>2, ReachableForth
<1> QED BY <1>2, <1>3

(***************************************************************************)
(* Bisimilar states collapse together.                                     *)
(***************************************************************************)
LEMMA CollapsesForth ==
  ASSUME NEW s, FiniteState(s), NEW t, FiniteState(t), NEW Z, Linked(s, t, Z), Collapses(s)
  PROVE  Collapses(t)
<1>1. PICK w \in Reachable(s), i \in Agents : s.R[i][w] = {}
  BY DEF Collapses
<1>2. PICK v \in Reachable(t) : <<w, v>> \in Z
  BY ReachableForth
<1>3. Back(s, t, Z, i, w, v)
  BY <1>2, BisimulationStep DEF Linked
<1>4. t.R[i][v] = {}
  BY <1>1, <1>3 DEF Back
<1> QED BY <1>4 DEF Collapses

\* Bisimilar models are consistent together: contraction neither hides nor
\* causes a belief in a contradiction (product_update.cpp, find_collapse).
LEMMA CollapsesAgrees ==
  ASSUME NEW s, FiniteState(s), NEW t, FiniteState(t), Bisimilar(s, t)
  PROVE  Collapses(s) <=> Collapses(t)
<1>1. Bisimilar(t, s)
  BY BisimilarSymmetric
<1>2. Collapses(s) => Collapses(t)
  BY CollapsesForth DEF Bisimilar
<1>3. Collapses(t) => Collapses(s)
  BY <1>1, CollapsesForth DEF Bisimilar
<1> QED BY <1>2, <1>3

(***************************************************************************)
(* Repair keeps bisimilar worlds together.                                 *)
(***************************************************************************)
LEMMA SerialCoreForth ==
  ASSUME NEW s, FiniteState(s), NEW t, FiniteState(t), NEW Z, Bisimulation(s, t, Z)
  PROVE  \A w, v : <<w, v>> \in Z /\ v \in SerialCore(t) => w \in SerialCore(s)
<1> DEFINE L == SerialCore(t)
           P == {w \in s.W : \E v \in L : <<w, v>> \in Z}
<1>1. Serial(t, L)
  BY SerialCoreIsGreatest
<1> HIDE DEF L
<1>2. Serial(s, P)
  <2> SUFFICES ASSUME NEW i \in Agents, NEW w \in P
               PROVE  s.R[i][w] \cap P # {}
    BY DEF Serial
  <2>1. PICK v \in L : <<w, v>> \in Z
    OBVIOUS
  <2>2. PICK x \in t.R[i][v] : x \in L
    BY <1>1 DEF Serial
  <2>3. Back(s, t, Z, i, w, v)
    BY <2>1, BisimulationStep
  <2>4. PICK u \in s.R[i][w] : <<u, x>> \in Z
    BY <2>3 DEF Back
  <2>5. u \in s.W
    BY <2>4, BisimulationStep
  <2> QED BY <2>2, <2>4, <2>5
<1>3. P \subseteq SerialCore(s)
  BY <1>2, SerialCoreIsGreatest
<1>4. ASSUME NEW w, NEW v, <<w, v>> \in Z, v \in L
      PROVE  w \in P
  BY <1>4, BisimulationStep
<1> QED BY <1>3, <1>4 DEF L

\* The repair keeps or drops bisimilar worlds together.
LEMMA SerialCoreAgrees ==
  ASSUME NEW s, FiniteState(s), NEW t, FiniteState(t), NEW Z, Bisimulation(s, t, Z)
  PROVE  Agree(Z, SerialCore(s), SerialCore(t))
<1>1. PICK O : O = Opposite(s, t, Z)
  OBVIOUS
<1>2. Bisimulation(t, s, O) /\ \A v, w : <<v, w>> \in O <=> <<w, v>> \in Z
  BY <1>1, OppositeBisimulation
<1>3. \A v, w : <<v, w>> \in O /\ w \in SerialCore(s) => v \in SerialCore(t)
  BY <1>2, SerialCoreForth
<1>4. \A w, v : <<w, v>> \in Z /\ v \in SerialCore(t) => w \in SerialCore(s)
  BY SerialCoreForth
<1> QED BY <1>2, <1>3, <1>4 DEF Agree

(***************************************************************************)
(* Restriction to agreeing sets of worlds keeps states linked.             *)
(***************************************************************************)
LEMMA RestrictionIs ==
  ASSUME NEW s, IsState(s), NEW K \in SUBSET s.W
  PROVE  LET m == RestrictState(s, K)
         IN  /\ m.W = K /\ m.D = s.D \cap K
             /\ \A w \in K : m.V[w] = s.V[w]
             /\ \A i \in Agents : \A w \in K : m.R[i][w] = s.R[i][w] \cap K
             /\ IsState(m)
             /\ (IsFiniteSet(s.W) => FiniteState(m))
<1>1. s.W \cap K = K
  OBVIOUS
<1>2. RestrictState(s, K) =
        [W |-> K, D |-> s.D \cap K, V |-> [w \in K |-> s.V[w]],
         R |-> [i \in Agents |-> [w \in K |-> s.R[i][w] \cap K]]]
  BY <1>1, TableIs DEF RestrictState
<1>3. PICK m : m = RestrictState(s, K)
  OBVIOUS
<1>4. /\ m.W = K /\ m.D = s.D \cap K /\ m.V = [w \in K |-> s.V[w]]
      /\ m.R = [i \in Agents |-> [w \in K |-> s.R[i][w] \cap K]]
  BY <1>2, <1>3
<1>5. IsState(m)
  <2>1. m.V \in [m.W -> SUBSET Atoms]
    BY <1>4 DEF IsState
  <2>2. m.R \in [Agents -> [m.W -> SUBSET m.W]]
    BY <1>4
  <2> QED BY <1>4, <2>1, <2>2 DEF IsState
<1>6. IsFiniteSet(s.W) => IsFiniteSet(K)
  BY FS_Subset
<1> QED BY <1>3, <1>4, <1>5, <1>6 DEF FiniteState

\* Bisimilar models stay so when both are restricted to sets that agree.
LEMMA RestrictedLinked ==
  ASSUME NEW s, IsState(s), NEW t, IsState(t), NEW Z, Linked(s, t, Z),
         NEW K \in SUBSET s.W, NEW L \in SUBSET t.W, Agree(Z, K, L)
  PROVE  Linked(RestrictState(s, K), RestrictState(t, L), Z \cap (K \X L))
<1>0. Bisimulation(s, t, Z)
  BY DEF Linked
<1>1. PICK m, n, Y : m = RestrictState(s, K) /\ n = RestrictState(t, L) /\ Y = Z \cap (K \X L)
  OBVIOUS
<1>2. /\ m.W = K /\ m.D = s.D \cap K
      /\ \A w \in K : m.V[w] = s.V[w]
      /\ \A i \in Agents : \A w \in K : m.R[i][w] = s.R[i][w] \cap K
  BY <1>1, RestrictionIs
<1>3. /\ n.W = L /\ n.D = t.D \cap L
      /\ \A w \in L : n.V[w] = t.V[w]
      /\ \A i \in Agents : \A w \in L : n.R[i][w] = t.R[i][w] \cap L
  BY <1>1, RestrictionIs
<1>4. \A w, v : <<w, v>> \in Y <=> <<w, v>> \in Z /\ w \in K /\ v \in L
  BY <1>1
<1>5. Y \in SUBSET (m.W \X n.W)
  BY <1>1, <1>2, <1>3
<1>6. ASSUME NEW w, NEW v, <<w, v>> \in Y
      PROVE  /\ m.V[w] = n.V[v]
             /\ (w \in m.D <=> v \in n.D)
             /\ \A i \in Agents : Forth(m, n, Y, i, w, v) /\ Back(m, n, Y, i, w, v)
  <2>1. <<w, v>> \in Z /\ w \in K /\ v \in L
    BY <1>4, <1>6
  <2>2. s.V[w] = t.V[v] /\ (w \in s.D <=> v \in t.D)
    BY <1>0, <2>1, BisimulationStep
  <2>3. ASSUME NEW i \in Agents
        PROVE  Forth(m, n, Y, i, w, v) /\ Back(m, n, Y, i, w, v)
    <3>1. Forth(s, t, Z, i, w, v) /\ Back(s, t, Z, i, w, v)
      BY <1>0, <2>1, BisimulationStep
    <3>2. m.R[i][w] = s.R[i][w] \cap K /\ n.R[i][v] = t.R[i][v] \cap L
      BY <1>2, <1>3, <2>1
    <3>3. Forth(m, n, Y, i, w, v)
      BY <1>4, <3>1, <3>2 DEF Forth, Agree
    <3>4. Back(m, n, Y, i, w, v)
      BY <1>4, <3>1, <3>2 DEF Back, Agree
    <3> QED BY <3>3, <3>4
  <2> QED BY <1>2, <1>3, <2>1, <2>2, <2>3
<1>7. Bisimulation(m, n, Y)
  BY <1>5, <1>6 DEF Bisimulation
<1>8. \A w \in m.D : \E v \in n.D : <<w, v>> \in Y
  BY <1>2, <1>3, <1>4 DEF Linked, Agree
<1>9. \A v \in n.D : \E w \in m.D : <<w, v>> \in Y
  BY <1>2, <1>3, <1>4 DEF Linked, Agree
<1> QED BY <1>1, <1>7, <1>8, <1>9 DEF Linked

(***************************************************************************)
(* A state is bisimilar to its reachable part, all of which is reachable.  *)
(***************************************************************************)
LEMMA ReachablePart ==
  ASSUME NEW s, FiniteState(s)
  PROVE  LET m == RestrictState(s, Reachable(s))
         IN  FiniteState(m) /\ Reachable(m) = m.W /\ Bisimilar(s, m)
<1>1. PICK K, m : K = Reachable(s) /\ m = RestrictState(s, K)
  OBVIOUS
<1>2. K \in SUBSET s.W /\ s.D \subseteq K /\ Closed(s, K)
  BY <1>1, ReachableIsLeast
<1>3. /\ m.W = K /\ m.D = s.D
      /\ \A w \in K : m.V[w] = s.V[w]
      /\ \A i \in Agents : \A w \in K : m.R[i][w] = s.R[i][w]
      /\ FiniteState(m)
  <2>1. /\ m.W = K /\ m.D = s.D \cap K
        /\ \A w \in K : m.V[w] = s.V[w]
        /\ \A i \in Agents : \A w \in K : m.R[i][w] = s.R[i][w] \cap K
        /\ FiniteState(m)
    BY <1>1, <1>2, RestrictionIs DEF FiniteState
  <2>2. s.D \cap K = s.D
    BY <1>2
  <2>3. ASSUME NEW i \in Agents, NEW w \in K
        PROVE  m.R[i][w] = s.R[i][w]
    <3>1. s.R[i][w] \subseteq K
      BY <1>2 DEF Closed
    <3>2. m.R[i][w] = s.R[i][w] \cap K
      BY <2>1
    <3> QED BY <3>1, <3>2
  <2> QED BY <2>1, <2>2, <2>3
<1>4. Reachable(m) = m.W
  <2>1. PICK X : X = Reachable(m)
    OBVIOUS
  <2>2. X \in SUBSET K /\ m.D \subseteq X /\ Closed(m, X)
    BY <1>3, <2>1, ReachableIsLeast
  <2>3. Closed(s, X)
    BY <1>3, <2>2 DEF Closed
  <2>4. K \subseteq X
    BY <1>1, <1>2, <1>3, <2>2, <2>3, ReachableIsLeast
  <2> QED BY <1>3, <2>1, <2>2, <2>4
<1> DEFINE Y == {<<w, w>> : w \in K}
<1>5. \A w, v : <<w, v>> \in Y <=> w = v /\ w \in K
  OBVIOUS
<1>6. Y \in SUBSET (s.W \X m.W)
  BY <1>2, <1>3
<1> HIDE DEF Y
<1>7. ASSUME NEW w, NEW v, <<w, v>> \in Y
      PROVE  /\ s.V[w] = m.V[v]
             /\ (w \in s.D <=> v \in m.D)
             /\ \A i \in Agents : Forth(s, m, Y, i, w, v) /\ Back(s, m, Y, i, w, v)
  <2>1. w = v /\ w \in K
    BY <1>5, <1>7
  <2>2. ASSUME NEW i \in Agents
        PROVE  Forth(s, m, Y, i, w, v) /\ Back(s, m, Y, i, w, v)
    <3>1. m.R[i][w] = s.R[i][w] /\ s.R[i][w] \subseteq K
      BY <1>2, <1>3, <2>1 DEF Closed
    <3> QED BY <1>5, <2>1, <3>1 DEF Forth, Back
  <2> QED BY <1>3, <2>1, <2>2
<1>8. Linked(s, m, Y)
  <2>1. Bisimulation(s, m, Y)
    BY <1>6, <1>7 DEF Bisimulation
  <2>2. /\ \A w \in s.D : \E v \in m.D : <<w, v>> \in Y
        /\ \A v \in m.D : \E w \in s.D : <<w, v>> \in Y
    BY <1>2, <1>3, <1>5
  <2> QED BY <2>1, <2>2 DEF Linked
<1> QED BY <1>1, <1>3, <1>4, <1>8 DEF Bisimilar

-----------------------------------------------------------------------------
\* Products with an action

(***************************************************************************)
(* Linked states satisfy the same formulas, so that an action treats them  *)
(* alike.                                                                  *)
(***************************************************************************)
LEMMA SatisfiesAgrees ==
  ASSUME NEW s, FiniteState(s), NEW t, FiniteState(t), NEW Z, Linked(s, t, Z),
         NEW f \in Formulas
  PROVE  Satisfies(s, f) <=> Satisfies(t, f)
<1>1. Agree(Z, Sat(s)[f], Sat(t)[f])
  BY SatAgrees DEF Linked
<1> QED BY <1>1 DEF Satisfies, Agree, Linked

\* The cases of an edge condition whose condition holds.
Holding(s, cases) == {k \in DOMAIN cases : Satisfies(s, cases[k].cond)}

\* Bisimilar models resolve an action's edge conditions alike
\* (product_update.cpp, precompute).
LEMMA EventRelationAgrees ==
  ASSUME NEW s, FiniteState(s), NEW t, FiniteState(t), NEW Z, Linked(s, t, Z),
         NEW a, IsAction(a), NEW i \in Agents
  PROVE  EventRelation(s, a, i) = EventRelation(t, a, i)
<1>1. PICK cases : cases = Cases(a, i)
  OBVIOUS
<1>2. \A k \in DOMAIN cases : cases[k].cond \in Formulas
  BY <1>1 DEF IsAction
<1>3. Holding(s, cases) = Holding(t, cases)
  BY <1>2, SatisfiesAgrees DEF Holding
<1>4. \A r : EventRelation(r, a, i) =
                IF Holding(r, cases) = {} THEN a.default ELSE cases[Min(Holding(r, cases))].rel
  BY <1>1 DEF EventRelation, Holding
<1> QED BY <1>3, <1>4

\* An action is applicable in both of two bisimilar models or in neither.
LEMMA ApplicableAgrees ==
  ASSUME NEW s, FiniteState(s), NEW t, FiniteState(t), NEW Z, Linked(s, t, Z),
         NEW a, IsAction(a)
  PROVE  Applicable(s, a) <=> Applicable(t, a)
<1>1. \A e \in a.designated : a.events[e].pre \in Formulas
  BY DEF IsAction
<1>2. ASSUME NEW w, NEW v, <<w, v>> \in Z
      PROVE  w \in UNION {Sat(s)[a.events[e].pre] : e \in a.designated} <=>
             v \in UNION {Sat(t)[a.events[e].pre] : e \in a.designated}
  <2>1. \A e \in a.designated : w \in Sat(s)[a.events[e].pre] <=> v \in Sat(t)[a.events[e].pre]
    BY <1>1, <1>2, SatAgrees DEF Linked, Agree
  <2> QED BY <2>1
<1>3. s.D \subseteq UNION {Sat(s)[a.events[e].pre] : e \in a.designated} <=>
      t.D \subseteq UNION {Sat(t)[a.events[e].pre] : e \in a.designated}
  BY <1>2 DEF Linked
<1>4. s.D # {} <=> t.D # {}
  BY DEF Linked
<1> QED BY <1>3, <1>4 DEF Applicable

(***************************************************************************)
(* The product, pair by pair.                                              *)
(***************************************************************************)
Fires(s, eff, w) == {p \in DOMAIN eff : w \in Sat(s)[eff[p]]}
\* The atoms true after the event at w.
After(s, event, w) == (s.V[w] \cup Fires(s, event.add, w)) \ Fires(s, event.del, w)

\* The product of a finite model with an action: worlds, valuation, designation
\* and edges, and that it is a finite model
\* (product_update.cpp, product_update_with_map).
LEMMA ProductIs ==
  ASSUME NEW s, FiniteState(s), NEW a, IsAction(a)
  PROVE  LET m == Product(s, a)
         IN  /\ \A x \in m.W : x = <<x[1], x[2]>>
             /\ \A w, e : <<w, e>> \in m.W <=> e \in Events(a) /\ w \in Sat(s)[a.events[e].pre]
             /\ \A w, e : <<w, e>> \in m.W => m.V[<<w, e>>] = After(s, a.events[e], w)
             /\ \A w, e : <<w, e>> \in m.D <=> <<w, e>> \in m.W /\ w \in s.D /\ e \in a.designated
             /\ \A i \in Agents : \A w, e, u, g : <<w, e>> \in m.W =>
                  (<<u, g>> \in m.R[i][<<w, e>>] <=>
                     <<u, g>> \in m.W /\ u \in s.R[i][w] /\ g \in EventRelation(s, a, i)[e])
             /\ FiniteState(m)
<1> DEFINE worlds == UNION {Sat(s)[a.events[e].pre] \X {e} : e \in Events(a)}
           rel == [i \in Agents |-> EventRelation(s, a, i)]
           val == [x \in worlds |-> After(s, a.events[x[2]], x[1])]
           row(i) == [x \in worlds |-> worlds \cap (s.R[i][x[1]] \X rel[i][x[2]])]
<1>1. PICK m : m = Product(s, a)
  OBVIOUS
<1>2. Product(s, a) =
        [W |-> worlds, V |-> val, D |-> worlds \cap (s.D \X a.designated),
         R |-> [i \in Agents |-> row(i)]]
  BY DEF Product, After, Fires, Table
<1>3. /\ m.W = worlds
      /\ m.V = val
      /\ m.D = worlds \cap (s.D \X a.designated)
      /\ m.R = [i \in Agents |-> row(i)]
  <2> HIDE DEF worlds, val, row
  <2> QED BY <1>1, <1>2
<1> HIDE DEF worlds, val, row
<1>4. \A x \in worlds : x = <<x[1], x[2]>> /\ x[1] \in s.W /\ x[2] \in Events(a)
  <2>1. \A e \in Events(a) : Sat(s)[a.events[e].pre] \in SUBSET s.W
    BY SatEquations DEF IsAction
  <2>2. TAKE x \in worlds
  <2>3. PICK e \in Events(a) : x \in Sat(s)[a.events[e].pre] \X {e}
    BY DEF worlds
  <2> QED BY <2>1, <2>3
<1>5. \A w, e : <<w, e>> \in worlds <=> e \in Events(a) /\ w \in Sat(s)[a.events[e].pre]
  BY DEF worlds
<1>6. \A w, e : <<w, e>> \in m.W => m.V[<<w, e>>] = After(s, a.events[e], w)
  BY <1>3 DEF val
<1>7. \A w, e : <<w, e>> \in m.D <=> <<w, e>> \in m.W /\ w \in s.D /\ e \in a.designated
  BY <1>3
<1>8. ASSUME NEW i \in Agents, NEW w, NEW e, NEW u, NEW g, <<w, e>> \in m.W
      PROVE  <<u, g>> \in m.R[i][<<w, e>>] <=>
               <<u, g>> \in m.W /\ u \in s.R[i][w] /\ g \in EventRelation(s, a, i)[e]
  <2>1. m.R[i][<<w, e>>] = worlds \cap (s.R[i][w] \X EventRelation(s, a, i)[e])
    BY <1>3, <1>8 DEF row
  <2> QED BY <1>3, <2>1
<1>9. IsFiniteSet(worlds)
  <2>1. IsFiniteSet(Events(a))
    BY FS_Interval DEF IsAction
  <2>2. IsFiniteSet(s.W \X Events(a))
    BY <2>1, FS_Product DEF FiniteState
  <2>3. worlds \subseteq s.W \X Events(a)
    BY <1>4
  <2> QED BY <2>2, <2>3, FS_Subset
<1>10. IsState(m)
  <2>1. \A x \in worlds : After(s, a.events[x[2]], x[1]) \in SUBSET Atoms
    <3>1. TAKE x \in worlds
    <3>2. s.V[x[1]] \in SUBSET Atoms
      BY <1>4 DEF FiniteState, IsState
    <3>3. DOMAIN a.events[x[2]].add \subseteq Atoms
      BY <1>4 DEF IsAction, IsEffect
    <3> QED BY <3>2, <3>3 DEF After, Fires
  <2>2. m.V \in [m.W -> SUBSET Atoms]
    BY <1>3, <2>1 DEF val
  <2>3. m.R \in [Agents -> [m.W -> SUBSET m.W]]
    BY <1>3 DEF row
  <2> QED BY <1>3, <2>2, <2>3 DEF IsState
<1> QED BY <1>1, <1>3, <1>4, <1>5, <1>6, <1>7, <1>8, <1>9, <1>10 DEF FiniteState

\* The pairs of two products whose worlds are linked and whose events are equal.
Multiplied(Z, m, n) == {p \in m.W \X n.W : <<p[1][1], p[2][1]>> \in Z /\ p[1][2] = p[2][2]}

\* The products of two bisimilar models with one action are bisimilar, world by
\* world through the same event.
LEMMA ProductLinked ==
  ASSUME NEW s, FiniteState(s), NEW t, FiniteState(t), NEW Z, Linked(s, t, Z),
         NEW a, IsAction(a)
  PROVE  Linked(Product(s, a), Product(t, a), Multiplied(Z, Product(s, a), Product(t, a)))
<1>1. PICK m, n, Y : m = Product(s, a) /\ n = Product(t, a) /\ Y = Multiplied(Z, m, n)
  OBVIOUS
<1>2. /\ \A x \in m.W : x = <<x[1], x[2]>>
      /\ \A w, e : <<w, e>> \in m.W <=> e \in Events(a) /\ w \in Sat(s)[a.events[e].pre]
      /\ \A w, e : <<w, e>> \in m.W => m.V[<<w, e>>] = After(s, a.events[e], w)
      /\ \A w, e : <<w, e>> \in m.D <=> <<w, e>> \in m.W /\ w \in s.D /\ e \in a.designated
      /\ \A i \in Agents : \A w, e, u, g : <<w, e>> \in m.W =>
           (<<u, g>> \in m.R[i][<<w, e>>] <=>
              <<u, g>> \in m.W /\ u \in s.R[i][w] /\ g \in EventRelation(s, a, i)[e])
      /\ IsState(m)
  BY <1>1, ProductIs DEF FiniteState
<1>3. /\ \A x \in n.W : x = <<x[1], x[2]>>
      /\ \A w, e : <<w, e>> \in n.W <=> e \in Events(a) /\ w \in Sat(t)[a.events[e].pre]
      /\ \A w, e : <<w, e>> \in n.W => n.V[<<w, e>>] = After(t, a.events[e], w)
      /\ \A w, e : <<w, e>> \in n.D <=> <<w, e>> \in n.W /\ w \in t.D /\ e \in a.designated
      /\ \A i \in Agents : \A w, e, u, g : <<w, e>> \in n.W =>
           (<<u, g>> \in n.R[i][<<w, e>>] <=>
              <<u, g>> \in n.W /\ u \in t.R[i][w] /\ g \in EventRelation(t, a, i)[e])
      /\ IsState(n)
  BY <1>1, ProductIs DEF FiniteState
<1>4. Bisimulation(s, t, Z)
  BY DEF Linked
<1>5. \A e \in Events(a) : \A w, v : <<w, v>> \in Z => (<<w, e>> \in m.W <=> <<v, e>> \in n.W)
  <2>1. TAKE e \in Events(a)
  <2>2. Agree(Z, Sat(s)[a.events[e].pre], Sat(t)[a.events[e].pre])
    BY <1>4, SatAgrees DEF IsAction
  <2> QED BY <1>2, <1>3, <2>2 DEF Agree
<1>6. \A i \in Agents : EventRelation(s, a, i) = EventRelation(t, a, i)
  BY EventRelationAgrees
<1>7. \A x, y : <<x, y>> \in Y <=> x \in m.W /\ y \in n.W /\ <<x[1], y[1]>> \in Z /\ x[2] = y[2]
  BY <1>1 DEF Multiplied
<1>8. \A w, v, e : <<w, v>> \in Z /\ <<w, e>> \in m.W =>
                      <<v, e>> \in n.W /\ <<<<w, e>>, <<v, e>>>> \in Y
  BY <1>2, <1>5, <1>7
<1>9. \A w, v, e : <<w, v>> \in Z /\ <<v, e>> \in n.W =>
                      <<w, e>> \in m.W /\ <<<<w, e>>, <<v, e>>>> \in Y
  BY <1>3, <1>5, <1>7
<1>10. ASSUME NEW x, NEW y, <<x, y>> \in Y
       PROVE  /\ m.V[x] = n.V[y]
              /\ (x \in m.D <=> y \in n.D)
              /\ \A i \in Agents : Forth(m, n, Y, i, x, y) /\ Back(m, n, Y, i, x, y)
  <2>1. PICK w, v, e : x = <<w, e>> /\ y = <<v, e>> /\ <<w, v>> \in Z
    <3>1. x = <<x[1], x[2]>> /\ y = <<y[1], x[2]>> /\ <<x[1], y[1]>> \in Z
      BY <1>2, <1>3, <1>7, <1>10
    <3> QED BY <3>1
  <2>2. x \in m.W /\ y \in n.W
    BY <1>7, <1>10
  <2>3. e \in Events(a)
    BY <1>2, <2>1, <2>2
  <2>4. s.V[w] = t.V[v] /\ (w \in s.D <=> v \in t.D)
    BY <1>4, <2>1, BisimulationStep
  <2>5. m.V[x] = n.V[y]
    <3>1. PICK event : event = a.events[e] /\ IsEffect(event.add) /\ IsEffect(event.del)
      BY <2>3 DEF IsAction
    <3>2. ASSUME NEW eff, IsEffect(eff)
          PROVE  Fires(s, eff, w) = Fires(t, eff, v)
      <4>1. \A p \in DOMAIN eff : w \in Sat(s)[eff[p]] <=> v \in Sat(t)[eff[p]]
        BY <1>4, <2>1, <3>2, SatAgrees DEF IsEffect, Agree
      <4> QED BY <4>1 DEF Fires
    <3>3. Fires(s, event.add, w) = Fires(t, event.add, v) /\ Fires(s, event.del, w) = Fires(t, event.del, v)
      BY <3>1, <3>2
    <3>4. After(s, event, w) = After(t, event, v)
      BY <2>4, <3>3 DEF After
    <3>5. m.V[x] = After(s, event, w)
      BY <1>2, <2>1, <2>2, <3>1
    <3>6. n.V[y] = After(t, event, v)
      BY <1>3, <2>1, <2>2, <3>1
    <3> QED BY <3>4, <3>5, <3>6
  <2>6. x \in m.D <=> y \in n.D
    BY <1>2, <1>3, <2>1, <2>2, <2>4
  <2>7. ASSUME NEW i \in Agents
        PROVE  Forth(m, n, Y, i, x, y)
    <3> SUFFICES ASSUME NEW z \in m.R[i][x]
                 PROVE  \E q \in n.R[i][y] : <<z, q>> \in Y
      BY DEF Forth
    <3>1. z \in m.W
      BY <1>2, <2>2 DEF IsState
    <3>2. PICK u, g : z = <<u, g>>
      BY <1>2, <3>1
    <3>3. u \in s.R[i][w] /\ g \in EventRelation(s, a, i)[e]
      BY <1>2, <2>1, <2>2, <3>1, <3>2
    <3>4. PICK r \in t.R[i][v] : <<u, r>> \in Z
      <4>1. Forth(s, t, Z, i, w, v)
        BY <1>4, <2>1, BisimulationStep
      <4> QED BY <3>3, <4>1 DEF Forth
    <3>5. <<r, g>> \in n.W /\ <<z, <<r, g>>>> \in Y
      BY <1>8, <3>1, <3>2, <3>4
    <3>6. <<r, g>> \in n.R[i][y]
      BY <1>3, <1>6, <2>1, <2>2, <3>3, <3>4, <3>5
    <3> QED BY <3>5, <3>6
  <2>8. ASSUME NEW i \in Agents
        PROVE  Back(m, n, Y, i, x, y)
    <3> SUFFICES ASSUME NEW z \in n.R[i][y]
                 PROVE  \E q \in m.R[i][x] : <<q, z>> \in Y
      BY DEF Back
    <3>1. z \in n.W
      BY <1>3, <2>2 DEF IsState
    <3>2. PICK u, g : z = <<u, g>>
      BY <1>3, <3>1
    <3>3. u \in t.R[i][v] /\ g \in EventRelation(t, a, i)[e]
      BY <1>3, <2>1, <2>2, <3>1, <3>2
    <3>4. PICK r \in s.R[i][w] : <<r, u>> \in Z
      <4>1. Back(s, t, Z, i, w, v)
        BY <1>4, <2>1, BisimulationStep
      <4> QED BY <3>3, <4>1 DEF Back
    <3>5. <<r, g>> \in m.W /\ <<<<r, g>>, z>> \in Y
      BY <1>9, <3>1, <3>2, <3>4
    <3>6. <<r, g>> \in m.R[i][x]
      BY <1>2, <1>6, <2>1, <2>2, <3>3, <3>4, <3>5
    <3> QED BY <3>5, <3>6
  <2> QED BY <2>5, <2>6, <2>7, <2>8
<1>11. Bisimulation(m, n, Y)
  <2>1. Y \in SUBSET (m.W \X n.W)
    BY <1>1 DEF Multiplied
  <2> QED BY <1>10, <2>1 DEF Bisimulation
<1>12. ASSUME NEW x \in m.D
       PROVE  \E y \in n.D : <<x, y>> \in Y
  <2>1. x \in m.W
    BY <1>2 DEF IsState
  <2>2. PICK w, e : x = <<w, e>> /\ w \in s.D /\ e \in a.designated
    BY <1>2, <2>1
  <2>3. PICK v \in t.D : <<w, v>> \in Z
    BY <2>2 DEF Linked
  <2>4. <<v, e>> \in n.W /\ <<x, <<v, e>>>> \in Y
    BY <1>8, <2>1, <2>2, <2>3
  <2> QED BY <1>3, <2>2, <2>3, <2>4
<1>13. ASSUME NEW y \in n.D
       PROVE  \E x \in m.D : <<x, y>> \in Y
  <2>1. y \in n.W
    BY <1>3 DEF IsState
  <2>2. PICK v, e : y = <<v, e>> /\ v \in t.D /\ e \in a.designated
    BY <1>3, <2>1
  <2>3. PICK w \in s.D : <<w, v>> \in Z
    BY <2>2 DEF Linked
  <2>4. <<w, e>> \in m.W /\ <<<<w, e>>, y>> \in Y
    BY <1>9, <2>1, <2>2, <2>3
  <2> QED BY <1>2, <2>2, <2>3, <2>4
<1> QED BY <1>1, <1>11, <1>12, <1>13 DEF Linked

-----------------------------------------------------------------------------
\* Consistency and outcomes

\* The ways a task treats agents who believe a contradiction.
Serialities == {"Ignore", "Require", "Repair"}

\* A link of products pairs worlds with the same event.
SameEvents(Z) == \A x, y : <<x, y>> \in Z => x[2] = y[2]

\* Worlds of two products are related only if the same event made them.
LEMMA MultipliedSameEvents ==
  \A Z, m, n : SameEvents(Multiplied(Z, m, n))
BY DEF SameEvents, Multiplied

(***************************************************************************)
(* After a repair no agent is left without a world.                        *)
(***************************************************************************)
LEMMA RepairedStaysConsistent ==
  ASSUME NEW m, FiniteState(m)
  PROVE  /\ FiniteState(RestrictState(m, SerialCore(m)))
         /\ ~Collapses(RestrictState(m, SerialCore(m)))
<1>1. PICK K, r : K = SerialCore(m) /\ r = RestrictState(m, K)
  OBVIOUS
<1>2. K \in SUBSET m.W /\ Serial(m, K)
  BY <1>1, SerialCoreIsGreatest
<1>3. r.W = K /\ (\A i \in Agents : \A w \in K : r.R[i][w] = m.R[i][w] \cap K) /\ FiniteState(r)
  BY <1>1, <1>2, RestrictionIs DEF FiniteState
<1>4. Reachable(r) \in SUBSET K
  BY <1>3, ReachableIsLeast
<1>5. ~Collapses(r)
  BY <1>2, <1>3, <1>4 DEF Collapses, Serial
<1> QED BY <1>1, <1>3, <1>5

\* The three outcomes of the consistency step
\* (product_update.cpp, product_update_with_map).
LEMMA AdmitIs ==
  ASSUME NEW m, m.W # {}, NEW seriality
  PROVE  /\ (seriality = "Ignore" => Admit(m, seriality) = Ok(m))
         /\ (seriality = "Require" =>
               Admit(m, seriality) = IF Collapses(m) THEN Pruned("Inconsistent") ELSE Ok(m))
         /\ (seriality = "Repair" =>
               Admit(m, seriality) =
                 IF m.D \cap SerialCore(m) = {} THEN Pruned("NonSerial")
                 ELSE Ok(RestrictState(m, SerialCore(m))))
BY DEF Admit

\* What a result says of itself.
LEMMA OkIs ==
  /\ \A s : Ok(s).ok = TRUE /\ Ok(s).state = s
  /\ \A reason : Pruned(reason).ok = FALSE
BY DEF Ok, Pruned

\* The results r and q of updating linked states: the same verdict, and states
\* that are linked and consistent.
SameResult(Z, seriality, r, q) ==
  /\ r.ok = q.ok
  /\ (r.ok => /\ FiniteState(r.state) /\ FiniteState(q.state)
              /\ \E Y \in SUBSET Z : Linked(r.state, q.state, Y)
              /\ (seriality # "Ignore" => ~Collapses(r.state) /\ ~Collapses(q.state)))

\* The consistency step accepts bisimilar products alike, and where the task
\* asks for consistency what it accepts is consistent.
LEMMA AdmitAgrees ==
  ASSUME NEW m, FiniteState(m), NEW n, FiniteState(n), NEW Z, Linked(m, n, Z),
         m.D # {}, NEW seriality \in Serialities
  PROVE  SameResult(Z, seriality, Admit(m, seriality), Admit(n, seriality))
<1>1. n.D # {} /\ m.W # {} /\ n.W # {} /\ IsState(m) /\ IsState(n)
  BY DEF Linked, FiniteState, IsState
<1>2. CASE seriality = "Ignore"
  <2>1. Admit(m, seriality) = Ok(m) /\ Admit(n, seriality) = Ok(n)
    BY <1>1, <1>2, AdmitIs
  <2>2. \E Y \in SUBSET Z : Linked(m, n, Y)
    OBVIOUS
  <2> QED BY <1>2, <2>1, <2>2, OkIs DEF SameResult
<1>3. CASE seriality = "Require"
  <2>1. Collapses(m) <=> Collapses(n)
    BY CollapsesAgrees DEF Bisimilar
  <2>2. /\ Admit(m, seriality) = IF Collapses(m) THEN Pruned("Inconsistent") ELSE Ok(m)
        /\ Admit(n, seriality) = IF Collapses(n) THEN Pruned("Inconsistent") ELSE Ok(n)
    BY <1>1, <1>3, AdmitIs
  <2>3. \E Y \in SUBSET Z : Linked(m, n, Y)
    OBVIOUS
  <2>4. CASE Collapses(m)
    <3>1. Admit(m, seriality).ok = FALSE /\ Admit(n, seriality).ok = FALSE
      BY <2>1, <2>2, <2>4, OkIs
    <3> QED BY <3>1 DEF SameResult
  <2>5. CASE ~Collapses(m)
    <3>1. Admit(m, seriality) = Ok(m) /\ Admit(n, seriality) = Ok(n)
      BY <2>1, <2>2, <2>5
    <3> QED BY <2>1, <2>3, <2>5, <3>1, OkIs DEF SameResult
  <2> QED BY <2>4, <2>5
<1>4. CASE seriality = "Repair"
  <2>1. PICK K, L : K = SerialCore(m) /\ L = SerialCore(n)
    OBVIOUS
  <2>2. K \in SUBSET m.W /\ L \in SUBSET n.W /\ Agree(Z, K, L)
    BY <2>1, SerialCoreIsGreatest, SerialCoreAgrees DEF Linked
  <2>3. m.D \cap K = {} <=> n.D \cap L = {}
    BY <2>2 DEF Linked, Agree
  <2>4. /\ Admit(m, seriality) = IF m.D \cap K = {} THEN Pruned("NonSerial") ELSE Ok(RestrictState(m, K))
        /\ Admit(n, seriality) = IF n.D \cap L = {} THEN Pruned("NonSerial") ELSE Ok(RestrictState(n, L))
    BY <1>1, <1>4, <2>1, AdmitIs
  <2>5. CASE m.D \cap K = {}
    <3>1. Admit(m, seriality).ok = FALSE /\ Admit(n, seriality).ok = FALSE
      BY <2>3, <2>4, <2>5, OkIs
    <3> QED BY <3>1 DEF SameResult
  <2>6. CASE m.D \cap K # {}
    <3>1. PICK r, q : r = RestrictState(m, K) /\ q = RestrictState(n, L)
      OBVIOUS
    <3>2. Admit(m, seriality) = Ok(r) /\ Admit(n, seriality) = Ok(q)
      BY <2>3, <2>4, <2>6, <3>1
    <3>3. FiniteState(r) /\ ~Collapses(r) /\ FiniteState(q) /\ ~Collapses(q)
      BY <2>1, <3>1, RepairedStaysConsistent
    <3>4. Linked(r, q, Z \cap (K \X L))
      BY <1>1, <2>2, <3>1, RestrictedLinked
    <3>5. \E Y \in SUBSET Z : Linked(r, q, Y)
      BY <3>4
    <3> QED BY <3>2, <3>3, <3>5, OkIs DEF SameResult
  <2> QED BY <2>5, <2>6
<1> QED BY <1>2, <1>3, <1>4 DEF Serialities

(***************************************************************************)
(* Updating linked states, one of them without a limit on worlds.          *)
(***************************************************************************)
LEMMA UpdateAgrees ==
  ASSUME NEW s, FiniteState(s), NEW t, FiniteState(t), Bisimilar(s, t),
         NEW a, IsAction(a), Applicable(s, a), NEW seriality \in Serialities,
         NEW cap, ProductUpdate(s, a, seriality, cap).ok
  PROVE  \E Z : /\ SameEvents(Z)
                /\ SameResult(Z, seriality, ProductUpdate(s, a, seriality, cap),
                              ProductUpdate(t, a, seriality, Pairs(t, a)))
<1>1. PICK Z : Linked(s, t, Z)
  BY DEF Bisimilar
<1>2. PICK m, n, Y : m = Product(s, a) /\ n = Product(t, a) /\ Y = Multiplied(Z, m, n)
  OBVIOUS
<1>3. FiniteState(m) /\ FiniteState(n) /\ Linked(m, n, Y) /\ SameEvents(Y)
  BY <1>1, <1>2, ProductIs, ProductLinked, MultipliedSameEvents
<1>4. m.D # {}
  <2>1. PICK w \in s.D : TRUE
    BY DEF Applicable
  <2>2. PICK e \in a.designated : w \in Sat(s)[a.events[e].pre]
    BY <2>1 DEF Applicable
  <2>3. <<w, e>> \in m.D
    BY <1>2, <2>1, <2>2, ProductIs DEF IsAction
  <2> QED BY <2>3
<1>5. SameResult(Y, seriality, Admit(m, seriality), Admit(n, seriality))
  BY <1>3, <1>4, AdmitAgrees
<1>6. ProductUpdate(s, a, seriality, cap) = Admit(m, seriality)
  BY <1>2, OkIs DEF ProductUpdate
<1>7. ProductUpdate(t, a, seriality, Pairs(t, a)) = Admit(n, seriality)
  <2>1. PICK k \in Nat : k = Cardinality(t.W)
    BY FS_CardinalityType DEF FiniteState
  <2>2. PICK l \in Nat : l = Len(a.events)
    BY DEF IsAction
  <2>3. Pairs(t, a) \in Int
    BY <2>1, <2>2 DEF Pairs
  <2>4. ~(Pairs(t, a) > Pairs(t, a))
    BY <2>3
  <2> QED BY <1>2, <2>4 DEF ProductUpdate
<1> QED BY <1>3, <1>5, <1>6, <1>7

(***************************************************************************)
(* The outcomes of linked products are linked.                             *)
(***************************************************************************)
Happened(m, e) == {w \in m.D : w[2] = e}

\* The split has one outcome for each designated event that happened, the
\* product designating its worlds (product_update.cpp, product_update_split).
LEMMA OutcomesAre ==
  ASSUME NEW m, NEW a
  PROVE  /\ DOMAIN Outcomes(m, a) = {e \in a.designated : Happened(m, e) # {}}
         /\ \A e \in DOMAIN Outcomes(m, a) :
               Outcomes(m, a)[e] = Designating(m, Happened(m, e))
BY DEF Outcomes, Happened

\* Bisimilar products have the same outcomes, and these are bisimilar.
LEMMA DesignatingLinked ==
  ASSUME NEW m, FiniteState(m), NEW n, FiniteState(n), NEW Z, Linked(m, n, Z), SameEvents(Z),
         NEW e
  PROVE  /\ FiniteState(Designating(m, Happened(m, e)))
         /\ FiniteState(Designating(n, Happened(n, e)))
         /\ Linked(Designating(m, Happened(m, e)), Designating(n, Happened(n, e)), Z)
         /\ (Happened(m, e) # {} <=> Happened(n, e) # {})
<1>1. PICK p, q : p = Designating(m, Happened(m, e)) /\ q = Designating(n, Happened(n, e))
  OBVIOUS
<1>2. /\ p.W = m.W /\ p.V = m.V /\ p.R = m.R /\ p.D = Happened(m, e)
      /\ q.W = n.W /\ q.V = n.V /\ q.R = n.R /\ q.D = Happened(n, e)
  BY <1>1 DEF Designating
<1>3. FiniteState(p) /\ FiniteState(q)
  BY <1>2 DEF FiniteState, IsState, Happened
<1>4. Bisimulation(m, n, Z)
  BY DEF Linked
<1>5. ASSUME NEW w, NEW v, <<w, v>> \in Z
      PROVE  /\ p.V[w] = q.V[v]
             /\ (w \in p.D <=> v \in q.D)
             /\ \A i \in Agents : Forth(p, q, Z, i, w, v) /\ Back(p, q, Z, i, w, v)
  <2>1. m.V[w] = n.V[v] /\ (w \in m.D <=> v \in n.D)
    BY <1>4, <1>5, BisimulationStep
  <2>2. w[2] = v[2]
    BY <1>5 DEF SameEvents
  <2>3. \A i \in Agents : Forth(m, n, Z, i, w, v) /\ Back(m, n, Z, i, w, v)
    BY <1>4, <1>5, BisimulationStep
  <2>4. \A i \in Agents : Forth(p, q, Z, i, w, v) /\ Back(p, q, Z, i, w, v)
    BY <1>2, <2>3 DEF Forth, Back
  <2> QED BY <1>2, <2>1, <2>2, <2>4 DEF Happened
<1>6. Bisimulation(p, q, Z)
  <2>1. Z \in SUBSET (p.W \X q.W)
    BY <1>2, <1>4 DEF Bisimulation
  <2> QED BY <1>5, <2>1 DEF Bisimulation
<1>7. ASSUME NEW w \in p.D
      PROVE  \E v \in q.D : <<w, v>> \in Z
  <2>1. w \in m.D
    BY <1>2 DEF Happened
  <2>2. PICK v \in n.D : <<w, v>> \in Z
    BY <2>1 DEF Linked
  <2> QED BY <1>5, <2>2
<1>8. ASSUME NEW v \in q.D
      PROVE  \E w \in p.D : <<w, v>> \in Z
  <2>1. v \in n.D
    BY <1>2 DEF Happened
  <2>2. PICK w \in m.D : <<w, v>> \in Z
    BY <2>1 DEF Linked
  <2> QED BY <1>5, <2>2
<1>9. Linked(p, q, Z)
  BY <1>6, <1>7, <1>8 DEF Linked
<1>10. Happened(m, e) # {} <=> Happened(n, e) # {}
  <2>1. p.D # {} <=> q.D # {}
    BY <1>7, <1>8
  <2> QED BY <1>2, <2>1
<1> QED BY <1>1, <1>3, <1>9, <1>10

\* Fewer designated worlds reach no more.
LEMMA DesignatingStaysConsistent ==
  ASSUME NEW m, FiniteState(m), ~Collapses(m), NEW X \in SUBSET m.D
  PROVE  ~Collapses(Designating(m, X))
<1>1. PICK p : p = Designating(m, X)
  OBVIOUS
<1>2. p.W = m.W /\ p.V = m.V /\ p.R = m.R /\ p.D = X
  BY <1>1 DEF Designating
<1>3. FiniteState(p)
  BY <1>2 DEF FiniteState, IsState
<1>4. PICK L : L = Reachable(m) /\ L \in SUBSET m.W /\ m.D \subseteq L /\ Closed(m, L)
  BY ReachableIsLeast
<1>5. Closed(p, L) /\ p.D \subseteq L /\ L \in SUBSET p.W
  BY <1>2, <1>4 DEF Closed
<1>6. Reachable(p) \subseteq L
  BY <1>3, <1>5, ReachableIsLeast
<1> QED BY <1>1, <1>2, <1>4, <1>6 DEF Collapses

-----------------------------------------------------------------------------
\* Strict orders of valuations and of class sets

(***************************************************************************)
(* Strict total orders, as sets of pairs.                                  *)
(***************************************************************************)
StrictOrder(K, R) ==
  /\ \A x \in K : <<x, x>> \notin R
  /\ \A x, y, z \in K : <<x, y>> \in R /\ <<y, z>> \in R => <<x, z>> \in R
  /\ \A x, y \in K : x # y => <<x, y>> \in R \/ <<y, x>> \in R

\* The least member of a set of naturals is its least member.
LEMMA MinIs ==
  ASSUME NEW X \in SUBSET Nat, X # {}
  PROVE  Min(X) \in X /\ \A x \in X : Min(X) <= x
<1>1. \E n \in X : \A x \in X : n <= x
  BY LeastNatural
<1> QED BY <1>1 DEF Min

(***************************************************************************)
(* Sets are compared by the element that matters most among those in one   *)
(* of them only: pr says how much, the smallest first, and F which         *)
(* elements put their set first.                                           *)
(***************************************************************************)
Decides(pr, A, B, d) ==
  d \in SymDiff(A, B) /\ \A x \in SymDiff(A, B) : pr[d] <= pr[x]
\* The order by the most significant member that differs; a set without it
\* comes first, or last where F says so.
Lexicographic(U, pr, F) ==
  {p \in U \X U : \E d : Decides(pr, p[1], p[2], d) /\ (d \in p[1] <=> d \in F)}

\* Two sets that differ have a most significant difference.
LEMMA DecidesExists ==
  ASSUME NEW pr \in [Nat -> Nat], NEW A \in SUBSET Nat, NEW B \in SUBSET Nat, A # B
  PROVE  \E d \in Nat : Decides(pr, A, B, d)
<1>1. SymDiff(A, B) # {} /\ SymDiff(A, B) \in SUBSET Nat
  BY DEF SymDiff
<1> DEFINE X == {pr[x] : x \in SymDiff(A, B)}
<1>2. X \in SUBSET Nat /\ X # {}
  BY <1>1
<1>3. PICK n \in X : \A m \in X : n <= m
  <2> HIDE DEF X
  <2> QED BY <1>2, LeastNatural
<1>4. PICK d \in SymDiff(A, B) : pr[d] = n
  BY <1>3
<1> QED BY <1>1, <1>3, <1>4 DEF Decides

\* Comparing sets at their most significant difference is a strict total order.
LEMMA LexicographicIsStrict ==
  ASSUME NEW pr \in [Nat -> Nat], \A x, y \in Nat : pr[x] = pr[y] => x = y,
         NEW F, NEW U \in SUBSET SUBSET Nat
  PROVE  StrictOrder(U, Lexicographic(U, pr, F))
<1> DEFINE L == Lexicographic(U, pr, F)
<1>1. \A A, B \in U : <<A, B>> \in L <=> \E d : Decides(pr, A, B, d) /\ (d \in A <=> d \in F)
  BY DEF Lexicographic
<1>2. \A A, B \in U : \A d : Decides(pr, A, B, d) => d \in Nat
  BY DEF Decides, SymDiff
<1> HIDE DEF L
<1>3. \A A \in U : <<A, A>> \notin L
  BY <1>1 DEF Decides, SymDiff
<1>4. ASSUME NEW A \in U, NEW B \in U, A # B
      PROVE  <<A, B>> \in L \/ <<B, A>> \in L
  <2>1. PICK d \in Nat : Decides(pr, A, B, d)
    BY <1>4, DecidesExists
  <2>2. Decides(pr, B, A, d) /\ ~(d \in A <=> d \in B)
    BY <2>1 DEF Decides, SymDiff
  <2> QED BY <1>1, <2>1, <2>2
<1>5. ASSUME NEW A \in U, NEW B \in U, NEW C \in U, <<A, B>> \in L, <<B, C>> \in L
      PROVE  <<A, C>> \in L
  <2>1. PICK d \in Nat : Decides(pr, A, B, d) /\ (d \in A <=> d \in F)
    BY <1>1, <1>2, <1>5
  <2>2. PICK e \in Nat : Decides(pr, B, C, e) /\ (e \in B <=> e \in F)
    BY <1>1, <1>2, <1>5
  <2>3. \A x \in SymDiff(A, C) : x \in Nat /\ (pr[d] <= pr[x] \/ pr[e] <= pr[x])
    BY <2>1, <2>2 DEF Decides, SymDiff
  <2>4. pr[d] \in Nat /\ pr[e] \in Nat /\ \A x \in Nat : pr[x] \in Nat
    OBVIOUS
  <2>5. CASE pr[d] < pr[e]
    <3>1. d \notin SymDiff(B, C)
      BY <2>2, <2>4, <2>5 DEF Decides
    <3>2. d \in SymDiff(A, C)
      BY <2>1, <3>1 DEF Decides, SymDiff
    <3>3. \A x \in SymDiff(A, C) : pr[d] <= pr[x]
      BY <2>3, <2>4, <2>5
    <3>4. Decides(pr, A, C, d)
      BY <3>2, <3>3 DEF Decides
    <3> QED BY <1>1, <2>1, <3>4
  <2>6. CASE pr[e] < pr[d]
    <3>1. e \notin SymDiff(A, B)
      BY <2>1, <2>4, <2>6 DEF Decides
    <3>2. e \in SymDiff(A, C) /\ (e \in A <=> e \in B)
      BY <2>2, <3>1 DEF Decides, SymDiff
    <3>3. \A x \in SymDiff(A, C) : pr[e] <= pr[x]
      BY <2>3, <2>4, <2>6
    <3>4. Decides(pr, A, C, e)
      BY <3>2, <3>3 DEF Decides
    <3> QED BY <1>1, <2>2, <3>2, <3>4
  <2>7. CASE pr[d] = pr[e]
    <3>1. d = e
      BY <2>7
    <3>2. ~(d \in A <=> d \in B)
      BY <2>1 DEF Decides, SymDiff
    <3> QED BY <2>1, <2>2, <3>1, <3>2
  <2> QED BY <2>4, <2>5, <2>6, <2>7
<1> QED BY <1>3, <1>4, <1>5 DEF StrictOrder, L

(***************************************************************************)
(* Valuations are compared by the most significant bit of the first word   *)
(* in which they differ, the sign bit counting the other way round.        *)
(***************************************************************************)
Significance == [p \in Nat |-> 32 * (p \div 32) + (31 - (p % 32))]
\* The sign bits, which turn the comparison of a word around.
Signs == {p \in Nat : p % 32 = 31}

\* Distinct atoms have distinct significance: words in order, and within a word
\* the higher bit first.
LEMMA SignificanceIs ==
  /\ Significance \in [Nat -> Nat]
  /\ \A x, y \in Nat : Significance[x] = Significance[y] => x = y
  /\ \A x, y \in Nat : Significance[x] <= Significance[y] <=>
        (x \div 32 < y \div 32 \/ (x \div 32 = y \div 32 /\ x >= y))
<1>1. ASSUME NEW x \in Nat
      PROVE  \E q \in Nat, r \in 0 .. 31 :
               /\ x = 32 * q + r /\ x \div 32 = q /\ x % 32 = r
               /\ Significance[x] = 32 * q + (31 - r)
  <2>1. x \div 32 \in Nat /\ x % 32 \in 0 .. 31 /\ x = 32 * (x \div 32) + (x % 32)
    OBVIOUS
  <2> QED BY <2>1 DEF Significance
<1>2. Significance \in [Nat -> Nat]
  <2>1. ASSUME NEW x \in Nat
        PROVE  Significance[x] \in Nat
    <3>1. PICK q \in Nat, r \in 0 .. 31 : Significance[x] = 32 * q + (31 - r)
      BY <1>1
    <3>2. 31 - r \in Nat
      OBVIOUS
    <3> QED BY <3>1, <3>2
  <2> QED BY <2>1 DEF Significance
<1>3. ASSUME NEW x \in Nat, NEW y \in Nat
      PROVE  /\ (Significance[x] = Significance[y] => x = y)
             /\ (Significance[x] <= Significance[y] <=>
                   x \div 32 < y \div 32 \/ (x \div 32 = y \div 32 /\ x >= y))
  <2>1. PICK q \in Nat, r \in 0 .. 31 :
          /\ x = 32 * q + r /\ x \div 32 = q /\ x % 32 = r
          /\ Significance[x] = 32 * q + (31 - r)
    BY <1>1
  <2>2. PICK k \in Nat, l \in 0 .. 31 :
          /\ y = 32 * k + l /\ y \div 32 = k /\ y % 32 = l
          /\ Significance[y] = 32 * k + (31 - l)
    BY <1>1
  <2>3. (32 * q + (31 - r) = 32 * k + (31 - l)) => (q = k /\ r = l)
    BY <2>1, <2>2
  <2>4. (32 * q + (31 - r) <= 32 * k + (31 - l)) <=> (q < k \/ (q = k /\ 32 * q + r >= 32 * k + l))
    BY <2>1, <2>2
  <2> QED BY <2>1, <2>2, <2>3, <2>4
<1> QED BY <1>2, <1>3

\* Comparing valuations word by word as signed integers is comparing them at
\* their most significant difference (bisimulation.cpp, bisim_contract).
LEMMA ValuationLessIs ==
  ASSUME NEW P \in SUBSET Nat, NEW Q \in SUBSET Nat
  PROVE  ValuationLess(P, Q) <=> <<P, Q>> \in Lexicographic(SUBSET Nat, Significance, Signs)
<1> DEFINE X == SymDiff(P, Q)
<1>1. CASE P = Q
  BY <1>1 DEF ValuationLess, Lexicographic, Decides, SymDiff
<1>2. CASE P # Q
  <2>1. X \in SUBSET Nat /\ X # {}
    BY <1>2 DEF SymDiff
  <2>2. PICK word, high :
          /\ word = Min({p \div 32 : p \in SymDiff(P, Q)})
          /\ high = Max({p \in SymDiff(P, Q) : p \div 32 = word})
    OBVIOUS
  <2>3. PICK d \in Nat : Decides(Significance, P, Q, d)
    BY <1>2, SignificanceIs, DecidesExists
  <2>4. d \in X /\ \A x \in X : d \div 32 < x \div 32 \/ (d \div 32 = x \div 32 /\ d >= x)
    BY <2>1, <2>3, SignificanceIs DEF Decides
  <2> HIDE DEF X
  <2>5. \A x \in X : x \div 32 \in Nat
    BY <2>1
  <2>6. word = d \div 32
    <3> DEFINE Words == {p \div 32 : p \in X}
    <3>1. Words \in SUBSET Nat /\ d \div 32 \in Words /\ \A n \in Words : d \div 32 <= n
      BY <2>4, <2>5
    <3>2. word = Min(Words)
      BY <2>2 DEF X
    <3> HIDE DEF Words
    <3>3. word \in Words /\ \A n \in Words : word <= n
      BY <3>1, <3>2, MinIs
    <3>4. word \in Nat /\ d \div 32 \in Nat
      BY <3>1, <3>3
    <3>5. word <= d \div 32 /\ d \div 32 <= word
      BY <3>1, <3>3
    <3> QED BY <3>4, <3>5
  <2>7. high = d
    <3> DEFINE Bits == {p \in X : p \div 32 = word}
    <3>1. Bits \in SUBSET Nat /\ d \in Bits
      BY <2>1, <2>4, <2>6
    <3>6. ASSUME NEW x \in Bits
          PROVE  d >= x
      <4>1. x \in X /\ x \div 32 = d \div 32 /\ d \div 32 \in Nat
        BY <2>4, <2>5, <2>6
      <4>2. ~(d \div 32 < x \div 32)
        BY <4>1
      <4> QED BY <2>4, <4>1, <4>2
    <3>2. high = Max(Bits)
      BY <2>2 DEF X
    <3> HIDE DEF Bits
    <3>3. high \in Bits /\ \A x \in Bits : high >= x
      BY <3>1, <3>2, <3>6 DEF Max
    <3>4. high \in Nat /\ high >= d /\ d >= high
      BY <3>1, <3>3, <3>6
    <3> QED BY <3>4
  <2>8. ValuationLess(P, Q) <=> IF d % 32 = 31 THEN d \in P ELSE d \in Q
    BY <1>2, <2>2, <2>7 DEF ValuationLess
  <2>9. d \in P <=> d \notin Q
    BY <2>4 DEF X, SymDiff
  <2>10. ValuationLess(P, Q) <=> (d \in P <=> d \in Signs)
    BY <2>8, <2>9 DEF Signs
  <2>11. \A e : Decides(Significance, P, Q, e) => e = d
    <3>1. TAKE e
    <3>2. SUFFICES ASSUME Decides(Significance, P, Q, e)
                   PROVE  e = d
      OBVIOUS
    <3>3. e \in Nat /\ Significance[e] <= Significance[d] /\ Significance[d] <= Significance[e]
      BY <2>1, <2>3, <3>2 DEF Decides, X
    <3>4. Significance[e] = Significance[d]
      BY <3>3, SignificanceIs
    <3> QED BY <3>3, <3>4, SignificanceIs
  <2> QED BY <2>3, <2>10, <2>11 DEF Lexicographic
<1> QED BY <1>1, <1>2

(***************************************************************************)
(* Sets of classes are compared by size first, then as sorted lists.       *)
(***************************************************************************)
ClassSets == {A \in SUBSET Nat : IsFiniteSet(A)}
\* The significance of a class number: the smaller one decides.
Itself == [n \in Nat |-> n]
\* The order of class sets as a relation.
Shorter == {p \in ClassSets \X ClassSets : ClassesLess(p[1], p[2])}

\* Comparing sorted lists of classes is a strict total order: no two different
\* sets of classes tie (bisimulation.cpp, bisim_contract).
LEMMA ShorterIsStrict == StrictOrder(ClassSets, Shorter)
<1> DEFINE L == Lexicographic(SUBSET Nat, Itself, Nat)
<1>1. StrictOrder(SUBSET Nat, L)
  <2>1. Itself \in [Nat -> Nat] /\ \A x, y \in Nat : Itself[x] = Itself[y] => x = y
    BY DEF Itself
  <2> QED BY <2>1, LexicographicIsStrict
<1>2. \A A \in ClassSets : Cardinality(A) \in Nat /\ A \in SUBSET Nat
  BY FS_CardinalityType DEF ClassSets
<1>3. ASSUME NEW A \in ClassSets, NEW B \in ClassSets
      PROVE  ClassesLess(A, B) <=>
                Cardinality(A) < Cardinality(B) \/ (Cardinality(A) = Cardinality(B) /\ <<A, B>> \in L)
  <2>1. CASE A = B
    BY <1>1, <1>2, <2>1 DEF ClassesLess, StrictOrder
  <2>2. CASE A # B
    <3>1. SymDiff(A, B) \in SUBSET Nat /\ SymDiff(A, B) # {}
      BY <1>2, <2>2 DEF SymDiff
    <3>2. PICK d : d = Min(SymDiff(A, B)) /\ d \in SymDiff(A, B) /\ \A x \in SymDiff(A, B) : d <= x
      BY <3>1, MinIs
    <3>5. \A e : Decides(Itself, A, B, e) <=>
                    e \in SymDiff(A, B) /\ \A x \in SymDiff(A, B) : e <= x
      <4>1. \A x \in SymDiff(A, B) : Itself[x] = x
        BY <3>1 DEF Itself
      <4> QED BY <4>1 DEF Decides
    <3>3. ASSUME NEW e
          PROVE  Decides(Itself, A, B, e) <=> e = d
      <4>1. ASSUME Decides(Itself, A, B, e)
            PROVE  e = d
        <5>1. e \in SymDiff(A, B) /\ e <= d /\ d <= e
          BY <3>2, <3>5, <4>1
        <5> QED BY <3>1, <3>2, <5>1
      <4>2. Decides(Itself, A, B, d)
        BY <3>2, <3>5
      <4> QED BY <4>1, <4>2
    <3>4. <<A, B>> \in L <=> d \in A
      <4>1. <<A, B>> \in L <=> \E e : Decides(Itself, A, B, e) /\ (e \in A <=> e \in Nat)
        BY <1>2 DEF Lexicographic
      <4> QED BY <3>1, <3>2, <3>3, <4>1
    <3> QED BY <2>2, <3>2, <3>4 DEF ClassesLess
  <2> QED BY <2>1, <2>2
<1> HIDE DEF L
<1>4. \A A, B \in ClassSets : <<A, B>> \in Shorter <=>
         Cardinality(A) < Cardinality(B) \/ (Cardinality(A) = Cardinality(B) /\ <<A, B>> \in L)
  BY <1>3 DEF Shorter
<1>5. ASSUME NEW A \in ClassSets
      PROVE  <<A, A>> \notin Shorter
  <2>1. <<A, A>> \notin L /\ Cardinality(A) \in Nat
    BY <1>1, <1>2 DEF StrictOrder
  <2> QED BY <1>4, <2>1
<1>6. ASSUME NEW A \in ClassSets, NEW B \in ClassSets, A # B
      PROVE  <<A, B>> \in Shorter \/ <<B, A>> \in Shorter
  <2>1. <<A, B>> \in L \/ <<B, A>> \in L
    BY <1>1, <1>2, <1>6 DEF StrictOrder
  <2>2. Cardinality(A) \in Nat /\ Cardinality(B) \in Nat
    BY <1>2
  <2> QED BY <1>4, <2>1, <2>2
<1>7. ASSUME NEW A \in ClassSets, NEW B \in ClassSets, NEW C \in ClassSets,
             <<A, B>> \in Shorter, <<B, C>> \in Shorter
      PROVE  <<A, C>> \in Shorter
  <2>1. /\ A \in SUBSET Nat /\ B \in SUBSET Nat /\ C \in SUBSET Nat
        /\ Cardinality(A) \in Nat /\ Cardinality(B) \in Nat /\ Cardinality(C) \in Nat
    BY <1>2
  <2>2. <<A, B>> \in L /\ <<B, C>> \in L => <<A, C>> \in L
    BY <1>1, <2>1 DEF StrictOrder
  <2> QED BY <1>4, <1>7, <2>1, <2>2
<1> QED BY <1>5, <1>6, <1>7 DEF StrictOrder

-----------------------------------------------------------------------------
\* Strict orders of keys, and ranks

(***************************************************************************)
(* The order of the keys of round 0: designation, then valuation.          *)
(***************************************************************************)
PointKeys == [designated : BOOLEAN, val : SUBSET Atoms]
\* The order of first keys as a relation.
PointOrder == {p \in PointKeys \X PointKeys : PointLess(p[1], p[2])}

\* The order of the first keys, designated worlds first and then valuations, is
\* a strict total order (bisimulation.cpp, bisim_contract).
LEMMA PointOrderIsStrict == StrictOrder(PointKeys, PointOrder)
<1> DEFINE L == Lexicographic(SUBSET Nat, Significance, Signs)
<1>1. StrictOrder(SUBSET Nat, L)
  BY SignificanceIs, LexicographicIsStrict
<1>2. \A p, q \in PointKeys : ValuationLess(p.val, q.val) <=> <<p.val, q.val>> \in L
  <2>1. \A p \in PointKeys : p.val \in SUBSET Nat
    BY AtomsAssumption DEF PointKeys
  <2> HIDE DEF L
  <2> QED BY <2>1, ValuationLessIs DEF L
<1> HIDE DEF L
<1>3. \A p, q \in PointKeys : <<p, q>> \in PointOrder <=>
         \/ ~p.designated /\ q.designated
         \/ p.designated = q.designated /\ <<p.val, q.val>> \in L
  BY <1>2 DEF PointOrder, PointLess
<1>4. \A p \in PointKeys : p.val \in SUBSET Nat /\ p.designated \in BOOLEAN
  BY AtomsAssumption DEF PointKeys
<1>5. \A p, q \in PointKeys : p.val = q.val /\ p.designated = q.designated => p = q
  BY DEF PointKeys
<1>6. ASSUME NEW p \in PointKeys
      PROVE  <<p, p>> \notin PointOrder
  <2>1. <<p.val, p.val>> \notin L
    BY <1>1, <1>4 DEF StrictOrder
  <2> QED BY <1>3, <2>1
<1>7. ASSUME NEW p \in PointKeys, NEW q \in PointKeys, p # q
      PROVE  <<p, q>> \in PointOrder \/ <<q, p>> \in PointOrder
  <2>1. p.val # q.val => <<p.val, q.val>> \in L \/ <<q.val, p.val>> \in L
    BY <1>1, <1>4 DEF StrictOrder
  <2>2. p.designated \in BOOLEAN /\ q.designated \in BOOLEAN
    BY <1>4
  <2> QED BY <1>3, <1>5, <1>7, <2>1, <2>2
<1>8. ASSUME NEW p \in PointKeys, NEW q \in PointKeys, NEW r \in PointKeys,
             <<p, q>> \in PointOrder, <<q, r>> \in PointOrder
      PROVE  <<p, r>> \in PointOrder
  <2>1. <<p.val, q.val>> \in L /\ <<q.val, r.val>> \in L => <<p.val, r.val>> \in L
    BY <1>1, <1>4 DEF StrictOrder
  <2>2. p.designated \in BOOLEAN /\ q.designated \in BOOLEAN /\ r.designated \in BOOLEAN
    BY <1>4
  <2> QED BY <1>3, <1>8, <2>1, <2>2
<1> QED BY <1>6, <1>7, <1>8 DEF StrictOrder

(***************************************************************************)
(* The order of the keys of a later round: class, then agent by agent the  *)
(* classes of the successors.                                              *)
(***************************************************************************)
ClassKeys == [class : Nat, near : [Agents -> ClassSets]]
\* The order of refinement keys as a relation.
KeyOrder == {p \in ClassKeys \X ClassKeys : KeyLess(p[1], p[2])}
\* i is the first agent for whom f and g differ.
FirstDifference(f, g, i) ==
  i \in Agents /\ f[i] # g[i] /\ \A j \in Agents : f[j] # g[j] => i <= j
\* f comes before g: at the first agent that tells them apart.
Nearer(f, g) == \E i : FirstDifference(f, g, i) /\ <<f[i], g[i]>> \in Shorter

\* Two different keys have a first agent that tells them apart, and only one.
LEMMA FirstDifferenceExists ==
  ASSUME NEW f, NEW g, \E j \in Agents : f[j] # g[j]
  PROVE  LET i == Min({j \in Agents : f[j] # g[j]})
         IN  FirstDifference(f, g, i) /\ \A j : FirstDifference(f, g, j) => j = i
<1> DEFINE X == {j \in Agents : f[j] # g[j]}
<1>1. X \in SUBSET Nat /\ X # {}
  BY AgentsAssumption
<1>2. PICK i : i = Min(X)
  OBVIOUS
<1>3. i \in X /\ \A j \in X : i <= j
  <2> HIDE DEF X
  <2> QED BY <1>1, <1>2, MinIs
<1>4. FirstDifference(f, g, i)
  BY <1>3 DEF FirstDifference
<1>5. ASSUME NEW j, FirstDifference(f, g, j)
      PROVE  j = i
  <2>1. j \in Nat /\ i \in Nat /\ i <= j /\ j <= i
    BY <1>1, <1>3, <1>5 DEF FirstDifference
  <2> QED BY <2>1
<1> QED BY <1>2, <1>4, <1>5

\* Comparing keys at the first agent that differs is a strict total order.
LEMMA NearerIsStrict ==
  ASSUME NEW f \in [Agents -> ClassSets], NEW g \in [Agents -> ClassSets],
         NEW b \in [Agents -> ClassSets]
  PROVE  /\ ~Nearer(f, f)
         /\ (f # g => Nearer(f, g) \/ Nearer(g, f))
         /\ (Nearer(f, g) /\ Nearer(g, b) => Nearer(f, b))
<1>1. ~Nearer(f, f)
  BY DEF Nearer, FirstDifference
<1>2. ASSUME f # g
      PROVE  Nearer(f, g) \/ Nearer(g, f)
  <2>1. \E j \in Agents : f[j] # g[j]
    BY <1>2
  <2>2. PICK i : FirstDifference(f, g, i)
    BY <2>1, FirstDifferenceExists
  <2>3. FirstDifference(g, f, i)
    BY <2>2 DEF FirstDifference
  <2>4. <<f[i], g[i]>> \in Shorter \/ <<g[i], f[i]>> \in Shorter
    BY <2>2, ShorterIsStrict DEF FirstDifference, StrictOrder
  <2> QED BY <2>2, <2>3, <2>4 DEF Nearer
<1>3. ASSUME Nearer(f, g), Nearer(g, b)
      PROVE  Nearer(f, b)
  <2>1. PICK i : FirstDifference(f, g, i) /\ <<f[i], g[i]>> \in Shorter
    BY <1>3 DEF Nearer
  <2>2. PICK j : FirstDifference(g, b, j) /\ <<g[j], b[j]>> \in Shorter
    BY <1>3 DEF Nearer
  <2>3. i \in Agents /\ j \in Agents /\ i \in Nat /\ j \in Nat
    BY <2>1, <2>2, AgentsAssumption DEF FirstDifference
  <2>4. \A k \in Agents : k \in Nat /\ (k < i => f[k] = g[k]) /\ (k < j => g[k] = b[k])
    BY <2>1, <2>2, <2>3, AgentsAssumption DEF FirstDifference
  <2>5. CASE i < j
    <3>1. g[i] = b[i]
      BY <2>3, <2>4, <2>5
    <3>2. \A k \in Agents : f[k] # b[k] => i <= k
      BY <2>3, <2>4, <2>5
    <3>3. FirstDifference(f, b, i)
      BY <2>1, <3>1, <3>2 DEF FirstDifference
    <3> QED BY <2>1, <3>1, <3>3 DEF Nearer
  <2>6. CASE j < i
    <3>1. f[j] = g[j]
      BY <2>3, <2>4, <2>6
    <3>2. \A k \in Agents : f[k] # b[k] => j <= k
      BY <2>3, <2>4, <2>6
    <3>3. FirstDifference(f, b, j)
      BY <2>2, <3>1, <3>2 DEF FirstDifference
    <3> QED BY <2>2, <3>1, <3>3 DEF Nearer
  <2>7. CASE i = j
    <3>1. <<f[i], b[i]>> \in Shorter
      BY <2>1, <2>2, <2>3, <2>7, ShorterIsStrict DEF StrictOrder
    <3>2. f[i] # b[i]
      BY <2>3, <3>1, ShorterIsStrict DEF StrictOrder
    <3>3. \A k \in Agents : f[k] # b[k] => i <= k
      BY <2>3, <2>4, <2>7
    <3>4. FirstDifference(f, b, i)
      BY <2>3, <3>2, <3>3 DEF FirstDifference
    <3> QED BY <3>1, <3>4 DEF Nearer
  <2> QED BY <2>3, <2>5, <2>6, <2>7
<1> QED BY <1>1, <1>2, <1>3

\* The order of the refinement keys is a strict total order: the numbering of the
\* classes never depends on the order of the worlds.
LEMMA KeyOrderIsStrict == StrictOrder(ClassKeys, KeyOrder)
<1>1. ASSUME NEW p \in ClassKeys, NEW q \in ClassKeys
      PROVE  <<p, q>> \in KeyOrder <=>
                p.class < q.class \/ (p.class = q.class /\ Nearer(p.near, q.near))
  <2>1. p.near \in [Agents -> ClassSets] /\ q.near \in [Agents -> ClassSets]
    BY DEF ClassKeys
  <2>2. CASE p.near = q.near
    <3>1. ~Nearer(p.near, q.near)
      BY <2>2 DEF Nearer, FirstDifference
    <3> QED BY <2>2, <3>1 DEF KeyOrder, KeyLess
  <2>3. CASE p.near # q.near
    <3>1. \E j \in Agents : p.near[j] # q.near[j]
      BY <2>1, <2>3
    <3>2. PICK i : /\ i = Min({j \in Agents : p.near[j] # q.near[j]})
                   /\ FirstDifference(p.near, q.near, i)
                   /\ \A j : FirstDifference(p.near, q.near, j) => j = i
      BY <3>1, FirstDifferenceExists
    <3>3. <<p, q>> \in KeyOrder <=>
            p.class < q.class \/ (p.class = q.class /\ ClassesLess(p.near[i], q.near[i]))
      BY <2>3, <3>2 DEF KeyOrder, KeyLess
    <3>4. ClassesLess(p.near[i], q.near[i]) <=> <<p.near[i], q.near[i]>> \in Shorter
      BY <2>1, <3>2 DEF Shorter, FirstDifference
    <3>5. Nearer(p.near, q.near) <=> <<p.near[i], q.near[i]>> \in Shorter
      BY <3>2 DEF Nearer
    <3> QED BY <3>3, <3>4, <3>5
  <2> QED BY <2>2, <2>3
<1>2. \A p \in ClassKeys : p.class \in Nat /\ p.near \in [Agents -> ClassSets]
  BY DEF ClassKeys
<1>3. ASSUME NEW p \in ClassKeys, NEW q \in ClassKeys, p # q
      PROVE  p.class # q.class \/ p.near # q.near
  BY <1>3 DEF ClassKeys
<1>4. ASSUME NEW p \in ClassKeys
      PROVE  <<p, p>> \notin KeyOrder
  <2>1. ~Nearer(p.near, p.near) /\ p.class \in Nat
    BY <1>2, NearerIsStrict
  <2> QED BY <1>1, <2>1
<1>5. ASSUME NEW p \in ClassKeys, NEW q \in ClassKeys, p # q
      PROVE  <<p, q>> \in KeyOrder \/ <<q, p>> \in KeyOrder
  <2>1. p.near # q.near => Nearer(p.near, q.near) \/ Nearer(q.near, p.near)
    BY <1>2, NearerIsStrict
  <2>2. p.class \in Nat /\ q.class \in Nat
    BY <1>2
  <2> QED BY <1>1, <1>3, <1>5, <2>1, <2>2
<1>6. ASSUME NEW p \in ClassKeys, NEW q \in ClassKeys, NEW r \in ClassKeys,
             <<p, q>> \in KeyOrder, <<q, r>> \in KeyOrder
      PROVE  <<p, r>> \in KeyOrder
  <2>1. Nearer(p.near, q.near) /\ Nearer(q.near, r.near) => Nearer(p.near, r.near)
    BY <1>2, NearerIsStrict
  <2>2. p.class \in Nat /\ q.class \in Nat /\ r.class \in Nat
    BY <1>2
  <2> QED BY <1>1, <1>6, <2>1, <2>2
<1> QED BY <1>4, <1>5, <1>6 DEF StrictOrder

(***************************************************************************)
(* Ranks tell keys apart, and depend on the keys that occur alone.         *)
(***************************************************************************)
RankIn(keys, R, k) == Cardinality({j \in keys : <<j, k>> \in R})
\* Each world's key replaced by its rank among the keys that occur.
Ranking(key, R) == [w \in DOMAIN key |-> RankIn(Range(key), R, key[w])]

\* Under a strict total order, different keys have different ranks.
LEMMA RankInjective ==
  ASSUME NEW K, NEW R, StrictOrder(K, R), NEW keys \in SUBSET K, IsFiniteSet(keys),
         NEW k \in keys, NEW l \in keys
  PROVE  /\ RankIn(keys, R, k) \in 0 .. Cardinality(keys)
         /\ (RankIn(keys, R, k) = RankIn(keys, R, l) => k = l)
<1> DEFINE Below(x) == {j \in keys : <<j, x>> \in R}
<1>1. \A x \in keys : Below(x) \in SUBSET keys
  OBVIOUS
<1>2. ASSUME NEW x \in keys, NEW y \in keys, <<x, y>> \in R
      PROVE  Cardinality(Below(x)) < Cardinality(Below(y))
  <2>1. Below(x) \in SUBSET Below(y)
    BY <1>2 DEF StrictOrder
  <2>2. x \in Below(y) /\ x \notin Below(x)
    BY <1>2 DEF StrictOrder
  <2>3. PICK X, Y : X = Below(x) /\ Y = Below(y)
    OBVIOUS
  <2>4. Y \in SUBSET keys /\ X \in SUBSET Y /\ X # Y
    BY <2>1, <2>2, <2>3
  <2>5. Cardinality(X) < Cardinality(Y)
    BY <2>4, Subsets
  <2> QED BY <2>3, <2>5
<1>3. \A x \in keys : Cardinality(Below(x)) \in 0 .. Cardinality(keys)
  <2>1. TAKE x \in keys
  <2>2. PICK X : X = Below(x) /\ X \in SUBSET keys
    OBVIOUS
  <2>3. Cardinality(X) \in Nat /\ Cardinality(keys) \in Nat /\ Cardinality(X) <= Cardinality(keys)
    BY <2>2, Subsets
  <2> QED BY <2>2, <2>3
<1>4. \A x \in keys : RankIn(keys, R, x) = Cardinality(Below(x))
  BY DEF RankIn
<1> HIDE DEF Below
<1>5. k # l => <<k, l>> \in R \/ <<l, k>> \in R
  BY DEF StrictOrder
<1> QED BY <1>2, <1>3, <1>4, <1>5

\* Ranks tell worlds apart exactly as their keys do.
LEMMA RankingIs ==
  ASSUME NEW K, NEW R, StrictOrder(K, R), NEW W, IsFiniteSet(W), NEW key \in [W -> K]
  PROVE  /\ Ranking(key, R) \in [W -> 0 .. Cardinality(W)]
         /\ \A w, v \in W : Ranking(key, R)[w] = Ranking(key, R)[v] <=> key[w] = key[v]
<1>1. PICK keys : keys = Range(key)
  OBVIOUS
<1>2. keys \in SUBSET K /\ \A w \in W : key[w] \in keys
  BY <1>1 DEF Range
<1>3. IsFiniteSet(keys) /\ Cardinality(keys) <= Cardinality(W)
  <2>1. key \in Surjection(W, keys)
    BY <1>1, <1>2 DEF Surjection, Range
  <2> QED BY <2>1, FS_Surjection
<1>4. Cardinality(keys) \in Nat /\ Cardinality(W) \in Nat
  BY <1>3, FS_CardinalityType
<1>5. ASSUME NEW w \in W
      PROVE  Ranking(key, R)[w] = RankIn(keys, R, key[w]) /\ RankIn(keys, R, key[w]) \in 0 .. Cardinality(W)
  <2>1. RankIn(keys, R, key[w]) \in 0 .. Cardinality(keys)
    BY <1>2, <1>3, RankInjective
  <2> QED BY <1>1, <1>3, <1>4, <2>1 DEF Ranking
<1>6. Ranking(key, R) \in [W -> 0 .. Cardinality(W)]
  <2>1. \A w \in W : RankIn(keys, R, key[w]) \in 0 .. Cardinality(W)
    BY <1>5
  <2> QED BY <1>1, <2>1 DEF Ranking
<1>7. ASSUME NEW w \in W, NEW v \in W
      PROVE  Ranking(key, R)[w] = Ranking(key, R)[v] <=> key[w] = key[v]
  BY <1>2, <1>3, <1>5, RankInjective
<1> QED BY <1>6, <1>7

-----------------------------------------------------------------------------
\* The refinement of classes

\* The partitions of the worlds of s, as class numbers.
Classes(s) == [s.W -> 0 .. Cardinality(s.W)]

\* The first key of each world.
PointKey(s) == [w \in s.W |-> [designated |-> w \in s.D, val |-> s.V[w]]]
\* The classes that agent i considers possible at w.
Near(s, class, i, w) == {class[v] : v \in s.R[i][w]}
\* The refinement key of each world.
ClassKey(s, class) ==
  [w \in s.W |-> [class |-> class[w], near |-> [i \in Agents |-> Near(s, class, i, w)]]]

\* The first partition puts together worlds of equal valuation and designation.
LEMMA FirstClassesAre ==
  ASSUME NEW s, FiniteState(s)
  PROVE  /\ PointKey(s) \in [s.W -> PointKeys]
         /\ FirstClasses(s) = Ranking(PointKey(s), PointOrder)
         /\ FirstClasses(s) \in Classes(s)
         /\ \A w, v \in s.W : FirstClasses(s)[w] = FirstClasses(s)[v] <=>
                                (w \in s.D <=> v \in s.D) /\ s.V[w] = s.V[v]
<1>1. PICK key : key = PointKey(s)
  OBVIOUS
<1>2. key \in [s.W -> PointKeys]
  <2>1. \A w \in s.W : [designated |-> w \in s.D, val |-> s.V[w]] \in PointKeys
    BY DEF PointKeys, FiniteState, IsState
  <2> QED BY <1>1, <2>1 DEF PointKey
<1>3. FirstClasses(s) = Ranking(key, PointOrder)
  <2>1. PICK keys : keys = Range(key)
    OBVIOUS
  <2>2. keys \in SUBSET PointKeys /\ \A w \in s.W : key[w] \in keys
    BY <1>2, <2>1 DEF Range
  <2> DEFINE rank == [k \in keys |-> Cardinality({j \in keys : PointLess(j, k)})]
  <2>3. FirstClasses(s) = [w \in DOMAIN key |-> rank[key[w]]]
    <3>1. FirstClasses(s) = Ranks(key, PointLess)
      BY <1>1 DEF FirstClasses, PointKey
    <3>2. Ranks(key, PointLess) = Table([w \in DOMAIN key |-> Table(rank)[key[w]]])
      BY <2>1 DEF Ranks
    <3> HIDE DEF rank
    <3> QED BY <3>1, <3>2, TableIs
  <2>4. \A k \in keys : rank[k] = RankIn(keys, PointOrder, k)
    <3>1. TAKE k \in keys
    <3>2. {j \in keys : PointLess(j, k)} = {j \in keys : <<j, k>> \in PointOrder}
      BY <2>2 DEF PointOrder
    <3> QED BY <3>2 DEF RankIn
  <2>5. DOMAIN key = s.W
    BY <1>2
  <2> HIDE DEF rank
  <2>6. [w \in s.W |-> rank[key[w]]] = [w \in s.W |-> RankIn(keys, PointOrder, key[w])]
    BY <2>2, <2>4
  <2> QED BY <2>1, <2>3, <2>5, <2>6 DEF Ranking
<1>4. /\ Ranking(key, PointOrder) \in [s.W -> 0 .. Cardinality(s.W)]
      /\ \A w, v \in s.W : Ranking(key, PointOrder)[w] = Ranking(key, PointOrder)[v] <=> key[w] = key[v]
  BY <1>2, PointOrderIsStrict, RankingIs DEF FiniteState
<1>5. \A w, v \in s.W : key[w] = key[v] <=> (w \in s.D <=> v \in s.D) /\ s.V[w] = s.V[v]
  <2>1. TAKE w, v \in s.W
  <2>2. PICK b, c : b = (w \in s.D) /\ c = (v \in s.D)
    OBVIOUS
  <2>3. key[w] = [designated |-> b, val |-> s.V[w]] /\ key[v] = [designated |-> c, val |-> s.V[v]]
    BY <1>1, <2>2 DEF PointKey
  <2>4. key[w].designated = b /\ key[w].val = s.V[w] /\ key[v].designated = c /\ key[v].val = s.V[v]
    BY <2>3
  <2>5. key[w] = key[v] <=> b = c /\ s.V[w] = s.V[v]
    BY <2>3, <2>4
  <2> QED BY <2>2, <2>5
<1> QED BY <1>1, <1>2, <1>3, <1>4, <1>5 DEF Classes

\* A round of refinement puts together worlds of one class whose agents consider
\* the same classes possible.
LEMMA SplitIs ==
  ASSUME NEW s, FiniteState(s), NEW class \in Classes(s)
  PROVE  /\ ClassKey(s, class) \in [s.W -> ClassKeys]
         /\ Split(s, class) = Ranking(ClassKey(s, class), KeyOrder)
         /\ Split(s, class) \in Classes(s)
         /\ \A w, v \in s.W : Split(s, class)[w] = Split(s, class)[v] <=>
               class[w] = class[v] /\ \A i \in Agents : Near(s, class, i, w) = Near(s, class, i, v)
<1>1. PICK key : key = ClassKey(s, class)
  OBVIOUS
<1>2. key \in [s.W -> ClassKeys]
  <2>1. ASSUME NEW w \in s.W
        PROVE  [class |-> class[w], near |-> [i \in Agents |-> Near(s, class, i, w)]] \in ClassKeys
    <3>1. \A v \in s.W : class[v] \in Nat
      <4>1. Cardinality(s.W) \in Nat
        BY FS_CardinalityType DEF FiniteState
      <4> QED BY <4>1 DEF Classes
    <3>2. ASSUME NEW i \in Agents
          PROVE  Near(s, class, i, w) \in ClassSets
      <4>1. PICK X : X = s.R[i][w] /\ X \in SUBSET s.W
        BY DEF FiniteState, IsState
      <4>2. IsFiniteSet(X)
        BY <4>1, FS_Subset DEF FiniteState
      <4>3. IsFiniteSet({class[v] : v \in X})
        <5>1. [v \in X |-> class[v]] \in Surjection(X, {class[v] : v \in X})
          BY DEF Surjection
        <5> QED BY <4>2, <5>1, FS_Surjection
      <4>4. {class[v] : v \in X} \in SUBSET Nat
        BY <3>1, <4>1
      <4> QED BY <4>1, <4>3, <4>4 DEF Near, ClassSets
    <3> QED BY <3>1, <3>2 DEF ClassKeys
  <2> QED BY <1>1, <2>1 DEF ClassKey
<1>3. Split(s, class) = Ranking(key, KeyOrder)
  <2>1. PICK keys : keys = Range(key)
    OBVIOUS
  <2>2. keys \in SUBSET ClassKeys /\ \A w \in s.W : key[w] \in keys
    BY <1>2, <2>1 DEF Range
  <2> DEFINE rank == [k \in keys |-> Cardinality({j \in keys : KeyLess(j, k)})]
  <2>3. Split(s, class) = [w \in DOMAIN key |-> rank[key[w]]]
    <3>1. Split(s, class) = Ranks(key, KeyLess)
      BY <1>1 DEF Split, ClassKey, Near, Table
    <3>2. Ranks(key, KeyLess) = Table([w \in DOMAIN key |-> Table(rank)[key[w]]])
      BY <2>1 DEF Ranks
    <3> HIDE DEF rank
    <3> QED BY <3>1, <3>2, TableIs
  <2>4. \A k \in keys : rank[k] = RankIn(keys, KeyOrder, k)
    <3>1. TAKE k \in keys
    <3>2. {j \in keys : KeyLess(j, k)} = {j \in keys : <<j, k>> \in KeyOrder}
      BY <2>2 DEF KeyOrder
    <3> QED BY <3>2 DEF RankIn
  <2>5. DOMAIN key = s.W
    BY <1>2
  <2> HIDE DEF rank
  <2>6. [w \in s.W |-> rank[key[w]]] = [w \in s.W |-> RankIn(keys, KeyOrder, key[w])]
    BY <2>2, <2>4
  <2> QED BY <2>1, <2>3, <2>5, <2>6 DEF Ranking
<1>4. /\ Ranking(key, KeyOrder) \in [s.W -> 0 .. Cardinality(s.W)]
      /\ \A w, v \in s.W : Ranking(key, KeyOrder)[w] = Ranking(key, KeyOrder)[v] <=> key[w] = key[v]
  BY <1>2, KeyOrderIsStrict, RankingIs DEF FiniteState
<1>5. \A w, v \in s.W : key[w] = key[v] <=>
         class[w] = class[v] /\ \A i \in Agents : Near(s, class, i, w) = Near(s, class, i, v)
  <2>1. TAKE w, v \in s.W
  <2>2. PICK f, g : /\ f = [i \in Agents |-> Near(s, class, i, w)]
                    /\ g = [i \in Agents |-> Near(s, class, i, v)]
    OBVIOUS
  <2>3. key[w] = [class |-> class[w], near |-> f] /\ key[v] = [class |-> class[v], near |-> g]
    BY <1>1, <2>2 DEF ClassKey
  <2>4. key[w] = key[v] <=> class[w] = class[v] /\ f = g
    <3>1. key[w].class = class[w] /\ key[w].near = f /\ key[v].class = class[v] /\ key[v].near = g
      BY <2>3
    <3> QED BY <2>3, <3>1
  <2>5. f = g <=> \A i \in Agents : Near(s, class, i, w) = Near(s, class, i, v)
    BY <2>2
  <2> QED BY <2>4, <2>5
<1> QED BY <1>1, <1>2, <1>3, <1>4, <1>5 DEF Classes

(***************************************************************************)
(* Refinement ends, at classes whose members are alike.                    *)
(***************************************************************************)
Stable(s) == {class \in Classes(s) : Cardinality(Range(Split(s, class))) = Cardinality(Range(class))}
\* A round of refinement as a function.
SplitBy(s) == [class \in Classes(s) |-> Split(s, class)]
\* How many more classes there may be.
Unsplit(s) == [class \in Classes(s) |-> Cardinality(s.W) - Cardinality(Range(class))]

\* A partition has finitely many classes, at most one for each world.
LEMMA ClassRange ==
  ASSUME NEW s, FiniteState(s), NEW class \in Classes(s)
  PROVE  /\ IsFiniteSet(Range(class)) /\ Cardinality(Range(class)) \in Nat /\ Cardinality(s.W) \in Nat
         /\ Cardinality(Range(class)) <= Cardinality(s.W)
<1>1. class \in Surjection(s.W, Range(class))
  BY DEF Classes, Surjection, Range
<1>2. IsFiniteSet(Range(class)) /\ Cardinality(Range(class)) <= Cardinality(s.W)
  BY <1>1, FS_Surjection DEF FiniteState
<1> QED BY <1>2, FS_CardinalityType DEF FiniteState

\* A round of refinement never loses a class, and one that makes no new class
\* moves no world.
LEMMA SplitRefines ==
  ASSUME NEW s, FiniteState(s), NEW class \in Classes(s)
  PROVE  /\ Cardinality(Range(class)) <= Cardinality(Range(Split(s, class)))
         /\ (class \in Stable(s) =>
               \A w, v \in s.W : class[w] = class[v] =>
                  \A i \in Agents : Near(s, class, i, w) = Near(s, class, i, v))
<1>1. PICK next : next = Split(s, class)
  OBVIOUS
<1>2. /\ next \in Classes(s)
      /\ \A w, v \in s.W : next[w] = next[v] <=>
            class[w] = class[v] /\ \A i \in Agents : Near(s, class, i, w) = Near(s, class, i, v)
  BY <1>1, SplitIs
<1>3. \A w \in s.W : class[w] \in Range(class) /\ next[w] \in Range(next)
  BY <1>2 DEF Classes, Range
<1>4. \A n \in Range(next) : \E w \in s.W : next[w] = n
  BY <1>2 DEF Classes, Range
<1>5. \A n \in Range(class) : \E w \in s.W : class[w] = n
  BY DEF Classes, Range
<1> DEFINE member(n) == CHOOSE w \in s.W : next[w] = n
           f == [n \in Range(next) |-> class[member(n)]]
<1>6. \A n \in Range(next) : member(n) \in s.W /\ next[member(n)] = n
  BY <1>4
<1> HIDE DEF member
<1>7. \A w \in s.W : f[next[w]] = class[w]
  <2>1. TAKE w \in s.W
  <2>2. member(next[w]) \in s.W /\ next[member(next[w])] = next[w]
    BY <1>3, <1>6
  <2>3. class[member(next[w])] = class[w]
    BY <1>2, <2>2
  <2> QED BY <1>3, <2>3
<1>8. f \in [Range(next) -> Range(class)]
  BY <1>3, <1>6
<1> HIDE DEF f
<1>9. f \in Surjection(Range(next), Range(class))
  <2>1. \A n \in Range(class) : \E k \in Range(next) : f[k] = n
    BY <1>3, <1>5, <1>7
  <2> QED BY <1>8, <2>1 DEF Surjection
<1>10. IsFiniteSet(Range(next))
  BY <1>2, ClassRange
<1>11. Cardinality(Range(class)) <= Cardinality(Range(next))
  BY <1>9, <1>10, FS_Surjection
<1>12. ASSUME class \in Stable(s), NEW w \in s.W, NEW v \in s.W, class[w] = class[v], NEW i \in Agents
       PROVE  Near(s, class, i, w) = Near(s, class, i, v)
  <2>1. Cardinality(Range(next)) = Cardinality(Range(class))
    BY <1>1, <1>12 DEF Stable
  <2>2. f \in Injection(Range(next), Range(class))
    BY <1>9, <1>10, <2>1, FS_SurjSameCardinalityImpliesInj
  <2>3. f[next[w]] = f[next[v]]
    BY <1>7, <1>12
  <2>4. next[w] = next[v]
    BY <1>3, <2>2, <2>3 DEF Injection, IsInjective
  <2> QED BY <1>2, <2>4
<1> QED BY <1>1, <1>11, <1>12

\* The refinement loop ends: every round but the last adds a class.
LEMMA RefinementEnds ==
  ASSUME NEW s, FiniteState(s)
  PROVE  Iteration(Classes(s), Stable(s), SplitBy(s), Unsplit(s))
<1>1. ASSUME NEW class \in Classes(s), class \notin Stable(s)
      PROVE  Unsplit(s)[SplitBy(s)[class]] < Unsplit(s)[class]
  <2>1. PICK next : next = Split(s, class) /\ next \in Classes(s)
    BY SplitIs
  <2>2. Cardinality(Range(class)) < Cardinality(Range(next))
    <3>1. Cardinality(Range(class)) <= Cardinality(Range(next))
      BY <2>1, SplitRefines
    <3>2. Cardinality(Range(class)) # Cardinality(Range(next))
      BY <1>1, <2>1 DEF Stable
    <3>3. Cardinality(Range(class)) \in Nat /\ Cardinality(Range(next)) \in Nat
      BY <2>1, ClassRange
    <3> QED BY <3>1, <3>2, <3>3
  <2>3. Cardinality(Range(class)) \in Nat /\ Cardinality(Range(next)) \in Nat /\ Cardinality(s.W) \in Nat
    BY <2>1, ClassRange
  <2> QED BY <2>1, <2>2, <2>3 DEF SplitBy, Unsplit
<1>2. SplitBy(s) \in [Classes(s) -> Classes(s)]
  BY SplitIs DEF SplitBy
<1>3. Unsplit(s) \in [Classes(s) -> Nat]
  <2>1. \A class \in Classes(s) : Cardinality(s.W) - Cardinality(Range(class)) \in Nat
    BY ClassRange
  <2> QED BY <2>1 DEF Unsplit
<1> QED BY <1>1, <1>2, <1>3 DEF Iteration

\* The final partition is where the loop ends.
LEMMA FinalClassesIterate ==
  ASSUME NEW s, FiniteState(s)
  PROVE  \E g : /\ Iterates(Classes(s), Stable(s), SplitBy(s), g)
                /\ FinalClasses(s) = g[FirstClasses(s)]
<1> DEFINE Computes(g) == g = [class \in [s.W -> 0 .. Cardinality(s.W)] |->
              IF Cardinality(Range(Split(s, class))) = Cardinality(Range(class)) THEN class
              ELSE g[Split(s, class)]]
<1>1. \A g : Iterates(Classes(s), Stable(s), SplitBy(s), g) <=> Computes(g)
  <2>1. TAKE g
  <2>2. [x \in Classes(s) |-> IF x \in Stable(s) THEN x ELSE g[SplitBy(s)[x]]]
      = [class \in [s.W -> 0 .. Cardinality(s.W)] |->
              IF Cardinality(Range(Split(s, class))) = Cardinality(Range(class)) THEN class
              ELSE g[Split(s, class)]]
    BY DEF Classes, Stable, SplitBy
  <2> QED BY <2>2 DEF Iterates
<1>2. \E g : Computes(g)
  <2> HIDE DEF Computes
  <2> QED BY <1>1, RefinementEnds, IterationExists
<1>3. FinalClasses(s) = (CHOOSE g : Computes(g))[FirstClasses(s)]
  BY DEF FinalClasses
<1> HIDE DEF Computes
<1> QED BY <1>1, <1>2, <1>3

\* The final classes are of worlds that no round tells apart.
LEMMA FinalClassesAre ==
  ASSUME NEW s, FiniteState(s)
  PROVE  /\ FinalClasses(s) \in Classes(s)
         /\ \A w, v \in s.W : FinalClasses(s)[w] = FinalClasses(s)[v] =>
              /\ s.V[w] = s.V[v]
              /\ (w \in s.D <=> v \in s.D)
              /\ \A i \in Agents : Near(s, FinalClasses(s), i, w) = Near(s, FinalClasses(s), i, v)
<1>1. PICK g : /\ Iterates(Classes(s), Stable(s), SplitBy(s), g)
               /\ FinalClasses(s) = g[FirstClasses(s)]
  BY FinalClassesIterate
<1> DEFINE P == {class \in Classes(s) : \A w, v \in s.W :
                    class[w] = class[v] => s.V[w] = s.V[v] /\ (w \in s.D <=> v \in s.D)}
<1>2. P \in SUBSET Classes(s)
  OBVIOUS
<1>3. FirstClasses(s) \in P
  BY FirstClassesAre
<1>4. \A class \in P : class \notin Stable(s) => SplitBy(s)[class] \in P
  BY SplitIs DEF SplitBy
<1>5. g[FirstClasses(s)] \in P /\ g[FirstClasses(s)] \in Stable(s)
  <2> HIDE DEF P
  <2> QED BY <1>1, <1>2, <1>3, <1>4, RefinementEnds, IterationKeeps
<1>6. PICK class : class = FinalClasses(s) /\ class \in P /\ class \in Stable(s)
  BY <1>1, <1>5
<1>7. \A w, v \in s.W : class[w] = class[v] =>
         \A i \in Agents : Near(s, class, i, w) = Near(s, class, i, v)
  BY <1>6, SplitRefines
<1> QED BY <1>6, <1>7

-----------------------------------------------------------------------------
\* Refinement of bisimilar models

(***************************************************************************)
(* Links that leave no world out: all that classes depend on.              *)
(***************************************************************************)
Covering(s, t, Z) == (\A w \in s.W : \E v \in t.W : <<w, v>> \in Z)
                     /\ (\A v \in t.W : \E w \in s.W : <<w, v>> \in Z)
\* A match of s with t that leaves out no world of either.
TotallyLinked(s, t, Z) == Linked(s, t, Z) /\ Covering(s, t, Z)

\* Related worlds have the same value.
AgreeOn(Z, f, g) == \A w, v : <<w, v>> \in Z => f[w] = g[v]

\* Values that agree on related worlds range over the same set.
LEMMA RangesAgree ==
  ASSUME NEW s, NEW t, NEW Z, Covering(s, t, Z), NEW f, NEW g,
         DOMAIN f = s.W, DOMAIN g = t.W, AgreeOn(Z, f, g)
  PROVE  Range(f) = Range(g)
<1>1. ASSUME NEW x \in Range(f)
      PROVE  x \in Range(g)
  <2>1. PICK w \in s.W : f[w] = x
    BY DEF Range
  <2>2. PICK v \in t.W : <<w, v>> \in Z
    BY DEF Covering
  <2>3. g[v] = x
    BY <2>1, <2>2 DEF AgreeOn
  <2> QED BY <2>3 DEF Range
<1>2. ASSUME NEW x \in Range(g)
      PROVE  x \in Range(f)
  <2>1. PICK v \in t.W : g[v] = x
    BY DEF Range
  <2>2. PICK w \in s.W : <<w, v>> \in Z
    BY DEF Covering
  <2>3. f[w] = x
    BY <2>1, <2>2 DEF AgreeOn
  <2> QED BY <2>3 DEF Range
<1> QED BY <1>1, <1>2

\* Keys that agree on related worlds have ranks that agree: this is where the
\* sort makes class numbers depend on the situation alone.
LEMMA RankingsAgree ==
  ASSUME NEW s, NEW t, NEW Z, Z \in SUBSET (s.W \X t.W), Covering(s, t, Z), NEW f, NEW g,
         DOMAIN f = s.W, DOMAIN g = t.W, AgreeOn(Z, f, g), NEW R
  PROVE  AgreeOn(Z, Ranking(f, R), Ranking(g, R))
<1>1. Range(f) = Range(g)
  BY RangesAgree
<1>2. \A w \in s.W : Ranking(f, R)[w] = RankIn(Range(f), R, f[w])
  BY DEF Ranking
<1>3. \A v \in t.W : Ranking(g, R)[v] = RankIn(Range(g), R, g[v])
  BY DEF Ranking
<1>4. ASSUME NEW w, NEW v, <<w, v>> \in Z
      PROVE  Ranking(f, R)[w] = Ranking(g, R)[v]
  <2>1. w \in s.W /\ v \in t.W /\ f[w] = g[v]
    BY <1>4 DEF AgreeOn
  <2> QED BY <1>1, <1>2, <1>3, <2>1
<1> QED BY <1>4 DEF AgreeOn

\* Related worlds get the same first class number.
LEMMA FirstClassesAgree ==
  ASSUME NEW s, FiniteState(s), NEW t, FiniteState(t), NEW Z, TotallyLinked(s, t, Z)
  PROVE  AgreeOn(Z, FirstClasses(s), FirstClasses(t))
<1>1. PICK f, g : f = PointKey(s) /\ g = PointKey(t)
  OBVIOUS
<1>2. DOMAIN f = s.W /\ DOMAIN g = t.W
  BY <1>1 DEF PointKey
<1>3. Bisimulation(s, t, Z) /\ Covering(s, t, Z)
  BY DEF TotallyLinked, Linked
<1>4. ASSUME NEW w, NEW v, <<w, v>> \in Z
      PROVE  f[w] = g[v]
  <2>1. w \in s.W /\ v \in t.W /\ s.V[w] = t.V[v] /\ (w \in s.D <=> v \in t.D)
    BY <1>3, <1>4, BisimulationStep
  <2>2. PICK b, c : b = (w \in s.D) /\ c = (v \in t.D)
    OBVIOUS
  <2>3. b = c
    BY <2>1, <2>2
  <2>4. f[w] = [designated |-> b, val |-> s.V[w]] /\ g[v] = [designated |-> c, val |-> t.V[v]]
    BY <1>1, <2>1, <2>2 DEF PointKey
  <2> QED BY <2>1, <2>3, <2>4
<1>5. AgreeOn(Z, Ranking(f, PointOrder), Ranking(g, PointOrder))
  <2>1. AgreeOn(Z, f, g)
    BY <1>4 DEF AgreeOn
  <2>2. Z \in SUBSET (s.W \X t.W)
    BY <1>3 DEF Bisimulation
  <2> QED BY <1>2, <1>3, <2>1, <2>2, RankingsAgree
<1> QED BY <1>1, <1>5, FirstClassesAre

\* Agents consider the same classes possible at related worlds.
LEMMA NearAgrees ==
  ASSUME NEW s, NEW t, NEW Z, Bisimulation(s, t, Z), NEW c, NEW d, AgreeOn(Z, c, d),
         NEW w, NEW v, <<w, v>> \in Z, NEW i \in Agents
  PROVE  Near(s, c, i, w) = Near(t, d, i, v)
<1>1. Forth(s, t, Z, i, w, v) /\ Back(s, t, Z, i, w, v)
  BY BisimulationStep
<1>2. ASSUME NEW x \in Near(s, c, i, w)
      PROVE  x \in Near(t, d, i, v)
  <2>1. PICK u \in s.R[i][w] : x = c[u]
    BY DEF Near
  <2>2. PICK y \in t.R[i][v] : <<u, y>> \in Z
    BY <1>1 DEF Forth
  <2>3. x = d[y]
    BY <2>1, <2>2 DEF AgreeOn
  <2> QED BY <2>3 DEF Near
<1>3. ASSUME NEW x \in Near(t, d, i, v)
      PROVE  x \in Near(s, c, i, w)
  <2>1. PICK y \in t.R[i][v] : x = d[y]
    BY DEF Near
  <2>2. PICK u \in s.R[i][w] : <<u, y>> \in Z
    BY <1>1 DEF Back
  <2>3. x = c[u]
    BY <2>1, <2>2 DEF AgreeOn
  <2> QED BY <2>3 DEF Near
<1> QED BY <1>2, <1>3

\* A round of refinement gives related worlds the same number, and ends the loop
\* in both models or in neither.
LEMMA SplitsAgree ==
  ASSUME NEW s, FiniteState(s), NEW t, FiniteState(t), NEW Z, TotallyLinked(s, t, Z),
         NEW c \in Classes(s), NEW d \in Classes(t), AgreeOn(Z, c, d)
  PROVE  /\ AgreeOn(Z, Split(s, c), Split(t, d))
         /\ (c \in Stable(s) <=> d \in Stable(t))
<1>1. PICK f, g : f = ClassKey(s, c) /\ g = ClassKey(t, d)
  OBVIOUS
<1>2. DOMAIN f = s.W /\ DOMAIN g = t.W
  BY <1>1 DEF ClassKey
<1>3. Bisimulation(s, t, Z) /\ Covering(s, t, Z)
  BY DEF TotallyLinked, Linked
<1>4. ASSUME NEW w, NEW v, <<w, v>> \in Z
      PROVE  f[w] = g[v]
  <2>1. w \in s.W /\ v \in t.W /\ c[w] = d[v]
    BY <1>3, <1>4, BisimulationStep DEF AgreeOn
  <2>2. [i \in Agents |-> Near(s, c, i, w)] = [i \in Agents |-> Near(t, d, i, v)]
    BY <1>3, <1>4, NearAgrees
  <2> QED BY <1>1, <2>1, <2>2 DEF ClassKey
<1>5. AgreeOn(Z, Ranking(f, KeyOrder), Ranking(g, KeyOrder))
  <2>1. AgreeOn(Z, f, g)
    BY <1>4 DEF AgreeOn
  <2>2. Z \in SUBSET (s.W \X t.W)
    BY <1>3 DEF Bisimulation
  <2> QED BY <1>2, <1>3, <2>1, <2>2, RankingsAgree
<1>6. PICK c1, d1 : c1 = Split(s, c) /\ d1 = Split(t, d)
  OBVIOUS
<1>7. AgreeOn(Z, c1, d1) /\ c1 \in Classes(s) /\ d1 \in Classes(t)
  BY <1>1, <1>5, <1>6, SplitIs
<1>8. Range(c1) = Range(d1) /\ Range(c) = Range(d)
  BY <1>3, <1>7, RangesAgree DEF Classes
<1> QED BY <1>6, <1>7, <1>8 DEF Stable

\* Linked worlds are given the same number.
LEMMA FinalClassesAgree ==
  ASSUME NEW s, FiniteState(s), NEW t, FiniteState(t), NEW Z, TotallyLinked(s, t, Z)
  PROVE  AgreeOn(Z, FinalClasses(s), FinalClasses(t))
<1>1. PICK g : Iterates(Classes(s), Stable(s), SplitBy(s), g) /\ FinalClasses(s) = g[FirstClasses(s)]
  BY FinalClassesIterate
<1>2. PICK b : Iterates(Classes(t), Stable(t), SplitBy(t), b) /\ FinalClasses(t) = b[FirstClasses(t)]
  BY FinalClassesIterate
<1> DEFINE Q == {p \in Classes(s) \X Classes(t) : AgreeOn(Z, p[1], p[2])}
<1>3. \A c, d : <<c, d>> \in Q <=> c \in Classes(s) /\ d \in Classes(t) /\ AgreeOn(Z, c, d)
  OBVIOUS
<1> HIDE DEF Q
<1>4. ASSUME NEW c \in Classes(s), NEW d \in Classes(t), <<c, d>> \in Q
      PROVE  /\ (c \in Stable(s) <=> d \in Stable(t))
             /\ (c \notin Stable(s) => <<SplitBy(s)[c], SplitBy(t)[d]>> \in Q)
  <2>1. AgreeOn(Z, c, d)
    BY <1>3, <1>4
  <2>2. AgreeOn(Z, Split(s, c), Split(t, d)) /\ (c \in Stable(s) <=> d \in Stable(t))
    BY <2>1, SplitsAgree
  <2>3. SplitBy(s)[c] = Split(s, c) /\ SplitBy(t)[d] = Split(t, d)
    BY DEF SplitBy
  <2>4. Split(s, c) \in Classes(s) /\ Split(t, d) \in Classes(t)
    BY SplitIs
  <2> QED BY <1>3, <2>2, <2>3, <2>4
<1>5. KeptByBoth(Q, Classes(s), Stable(s), SplitBy(s), Classes(t), Stable(t), SplitBy(t))
  BY <1>4 DEF KeptByBoth
<1>6. <<FirstClasses(s), FirstClasses(t)>> \in Q /\ FirstClasses(s) \in Classes(s) /\ FirstClasses(t) \in Classes(t)
  BY <1>3, FirstClassesAre, FirstClassesAgree
<1>7. <<g[FirstClasses(s)], b[FirstClasses(t)]>> \in Q
  BY <1>1, <1>2, <1>5, <1>6, RefinementEnds, IterationsRelate
<1> QED BY <1>1, <1>2, <1>3, <1>7

(***************************************************************************)
(* The quotient.                                                           *)
(***************************************************************************)
Member(s, class, c) == CHOOSE w \in s.W : class[w] = c

\* The quotient, field by field, and that each class has a member.
LEMMA QuotientIs ==
  ASSUME NEW s, FiniteState(s), NEW class \in Classes(s)
  PROVE  /\ Quotient(s, class) =
              [W |-> Range(class),
               V |-> [c \in Range(class) |-> s.V[Member(s, class, c)]],
               D |-> {c \in Range(class) : Member(s, class, c) \in s.D},
               R |-> [i \in Agents |-> [c \in Range(class) |-> Near(s, class, i, Member(s, class, c))]]]
         /\ \A c \in Range(class) : Member(s, class, c) \in s.W /\ class[Member(s, class, c)] = c
<1>1. \A c \in Range(class) : \E w \in s.W : class[w] = c
  BY DEF Classes, Range
<1>2. \A c \in Range(class) : Member(s, class, c) \in s.W /\ class[Member(s, class, c)] = c
  BY <1>1 DEF Member
<1> DEFINE classes == Range(class)
           repr == [c \in classes |-> Member(s, class, c)]
<1>3. Quotient(s, class) =
        [W |-> classes,
         V |-> [c \in classes |-> s.V[repr[c]]],
         D |-> {c \in classes : repr[c] \in s.D},
         R |-> [i \in Agents |-> [c \in classes |-> Near(s, class, i, repr[c])]]]
  BY DEF Quotient, Member, Near, Table
<1>4. \A c \in classes : repr[c] = Member(s, class, c)
  OBVIOUS
<1> HIDE DEF repr
<1>5. [c \in classes |-> s.V[repr[c]]] = [c \in classes |-> s.V[Member(s, class, c)]]
  BY <1>4
<1>6. {c \in classes : repr[c] \in s.D} = {c \in classes : Member(s, class, c) \in s.D}
  BY <1>4
<1>7. [i \in Agents |-> [c \in classes |-> Near(s, class, i, repr[c])]] =
      [i \in Agents |-> [c \in classes |-> Near(s, class, i, Member(s, class, c))]]
  <2>1. ASSUME NEW i \in Agents
        PROVE  [c \in classes |-> Near(s, class, i, repr[c])] =
               [c \in classes |-> Near(s, class, i, Member(s, class, c))]
    BY <1>4
  <2> QED BY <2>1
<1> QED BY <1>2, <1>3, <1>5, <1>6, <1>7

-----------------------------------------------------------------------------
\* The quotient is the contraction

\* Each world with its class.
Membership(s) == {p \in s.W \X Range(FinalClasses(s)) : FinalClasses(s)[p[1]] = p[2]}

\* A model is bisimilar to the quotient by its final classes, world by class.
LEMMA QuotientLinked ==
  ASSUME NEW s, FiniteState(s)
  PROVE  LET q == Quotient(s, FinalClasses(s))
         IN  /\ FiniteState(q)
             /\ TotallyLinked(s, q, Membership(s))
             /\ \A w, c : <<w, c>> \in Membership(s) <=> w \in s.W /\ c = FinalClasses(s)[w]
<1>1. PICK class, q, Z : /\ class = FinalClasses(s) /\ q = Quotient(s, class)
                         /\ Z = Membership(s)
  OBVIOUS
<1>2. /\ class \in Classes(s)
      /\ \A w, v \in s.W : class[w] = class[v] =>
           /\ s.V[w] = s.V[v]
           /\ (w \in s.D <=> v \in s.D)
           /\ \A i \in Agents : Near(s, class, i, w) = Near(s, class, i, v)
  BY <1>1, FinalClassesAre
<1> DEFINE M(c) == Member(s, class, c)
           K == Range(class)
<1>3. /\ q = [W |-> K, V |-> [c \in K |-> s.V[M(c)]], D |-> {c \in K : M(c) \in s.D},
              R |-> [i \in Agents |-> [c \in K |-> Near(s, class, i, M(c))]]]
      /\ \A c \in K : M(c) \in s.W /\ class[M(c)] = c
  BY <1>1, <1>2, QuotientIs
<1> HIDE DEF M
<1>4. /\ q.W = K /\ q.V = [c \in K |-> s.V[M(c)]] /\ q.D = {c \in K : M(c) \in s.D}
      /\ q.R = [i \in Agents |-> [c \in K |-> Near(s, class, i, M(c))]]
  BY <1>3
<1>5. \A w \in s.W : class[w] \in K /\ M(class[w]) \in s.W /\ class[M(class[w])] = class[w]
  <2>1. \A w \in s.W : class[w] \in K
    BY <1>2 DEF Classes, Range
  <2> QED BY <1>3, <2>1
<1> HIDE DEF K
<1>6. \A w, c : <<w, c>> \in Z <=> w \in s.W /\ c = class[w]
  BY <1>1, <1>5 DEF Membership, K
<1>7. FiniteState(q)
  <2>1. IsFiniteSet(K)
    BY <1>2, ClassRange DEF K
  <2>2. q.V \in [q.W -> SUBSET Atoms]
    BY <1>3, <1>4 DEF FiniteState, IsState
  <2>3. \A i \in Agents, c \in K : Near(s, class, i, M(c)) \in SUBSET K
    <3>1. TAKE i \in Agents, c \in K
    <3>2. s.R[i][M(c)] \in SUBSET s.W
      BY <1>3 DEF FiniteState, IsState
    <3> QED BY <1>5, <3>2 DEF Near
  <2>4. q.R \in [Agents -> [q.W -> SUBSET q.W]]
    BY <1>4, <2>3
  <2>5. q.D \subseteq q.W
    BY <1>4
  <2> QED BY <1>4, <2>1, <2>2, <2>4, <2>5 DEF FiniteState, IsState
<1>8. ASSUME NEW w, NEW c, <<w, c>> \in Z
      PROVE  /\ s.V[w] = q.V[c]
             /\ (w \in s.D <=> c \in q.D)
             /\ \A i \in Agents : Forth(s, q, Z, i, w, c) /\ Back(s, q, Z, i, w, c)
  <2>1. w \in s.W /\ c = class[w] /\ c \in K /\ M(c) \in s.W /\ class[M(c)] = class[w]
    BY <1>5, <1>6, <1>8
  <2>2. s.V[w] = q.V[c]
    BY <1>2, <1>4, <2>1
  <2>3. w \in s.D <=> c \in q.D
    BY <1>2, <1>4, <2>1
  <2>4. ASSUME NEW i \in Agents
        PROVE  Forth(s, q, Z, i, w, c) /\ Back(s, q, Z, i, w, c)
    <3>1. q.R[i][c] = Near(s, class, i, w)
      <4>1. q.R[i][c] = Near(s, class, i, M(c))
        BY <1>4, <2>1
      <4> QED BY <1>2, <2>1, <4>1
    <3>2. s.R[i][w] \in SUBSET s.W
      BY <2>1 DEF FiniteState, IsState
    <3>3. Forth(s, q, Z, i, w, c)
      BY <1>6, <3>1, <3>2 DEF Forth, Near
    <3>4. Back(s, q, Z, i, w, c)
      BY <1>6, <3>1, <3>2 DEF Back, Near
    <3> QED BY <3>3, <3>4
  <2> QED BY <2>2, <2>3, <2>4
<1>9. Bisimulation(s, q, Z)
  <2>1. Z \in SUBSET (s.W \X q.W)
    BY <1>1, <1>4 DEF Membership, K
  <2> QED BY <1>8, <2>1 DEF Bisimulation
<1>10. \A c \in K : M(c) \in s.W /\ <<M(c), c>> \in Z
  BY <1>3, <1>6
<1>11. Covering(s, q, Z)
  <2>1. \A w \in s.W : class[w] \in q.W /\ <<w, class[w]>> \in Z
    BY <1>4, <1>5, <1>6
  <2> QED BY <1>4, <1>10, <2>1 DEF Covering
<1>12. \A w \in s.D : \E c \in q.D : <<w, c>> \in Z
  <2>1. TAKE w \in s.D
  <2>2. <<w, class[w]>> \in Z
    BY <1>6 DEF FiniteState, IsState
  <2>3. class[w] \in q.D
    BY <1>8, <2>2
  <2> QED BY <2>2, <2>3
<1>13. \A c \in q.D : \E w \in s.D : <<w, c>> \in Z
  <2>1. TAKE c \in q.D
  <2>2. M(c) \in s.D /\ <<M(c), c>> \in Z
    BY <1>4, <1>10
  <2> QED BY <2>2
<1>14. TotallyLinked(s, q, Z)
  BY <1>9, <1>11, <1>12, <1>13 DEF TotallyLinked, Linked
<1> QED BY <1>1, <1>6, <1>7, <1>14

\* Every world of q matters, and no two are alike.
Minimal(q) ==
  /\ Reachable(q) = q.W
  /\ \A Y : Linked(q, q, Y) => \A u, v : <<u, v>> \in Y => u = v

\* A match between models whose worlds are all reachable leaves out no world.
LEMMA FullyReachableCovered ==
  ASSUME NEW s, FiniteState(s), NEW t, FiniteState(t), NEW Z, Linked(s, t, Z),
         Reachable(s) = s.W, Reachable(t) = t.W
  PROVE  TotallyLinked(s, t, Z)
<1>1. \A w \in s.W : \E v \in t.W : <<w, v>> \in Z
  BY ReachableForth
<1>2. \A v \in t.W : \E w \in s.W : <<w, v>> \in Z
  BY ReachableBack
<1> QED BY <1>1, <1>2 DEF TotallyLinked, Covering

\* A contraction is a finite model, bisimilar to the model contracted, and
\* minimal (bisimulation.cpp, bisim_contract).
LEMMA ContractionIs ==
  ASSUME NEW s, FiniteState(s)
  PROVE  LET q == BisimContract(s)
         IN  FiniteState(q) /\ Bisimilar(s, q) /\ Minimal(q)
<1>1. PICK m : m = RestrictState(s, Reachable(s))
  OBVIOUS
<1>2. FiniteState(m) /\ Reachable(m) = m.W /\ Bisimilar(s, m)
  BY <1>1, ReachablePart
<1>3. PICK class, q, Z : class = FinalClasses(m) /\ q = Quotient(m, class) /\ Z = Membership(m)
  OBVIOUS
<1>4. BisimContract(s) = q
  BY <1>1, <1>3 DEF BisimContract
<1>5. /\ FiniteState(q)
      /\ TotallyLinked(m, q, Z)
      /\ \A w, c : <<w, c>> \in Z <=> w \in m.W /\ c = class[w]
  BY <1>2, <1>3, QuotientLinked
<1>6. Bisimilar(s, q)
  <2>1. Bisimilar(m, q)
    BY <1>5 DEF TotallyLinked, Bisimilar
  <2> QED BY <1>2, <2>1, BisimilarTransitive
<1>7. Reachable(q) = q.W
  <2>1. Linked(m, q, Z) /\ Covering(m, q, Z)
    BY <1>5 DEF TotallyLinked
  <2>2. ASSUME NEW c \in q.W
        PROVE  c \in Reachable(q)
    <3>1. PICK w \in m.W : <<w, c>> \in Z
      BY <2>1 DEF Covering
    <3>2. PICK d \in Reachable(q) : <<w, d>> \in Z
      BY <1>2, <1>5, <2>1, <3>1, ReachableForth
    <3> QED BY <1>5, <3>1, <3>2
  <2>3. Reachable(q) \in SUBSET q.W
    BY <1>5, ReachableIsLeast
  <2> QED BY <2>2, <2>3
<1>8. \A c \in q.W : FinalClasses(q)[c] = c
  <2>1. AgreeOn(Z, class, FinalClasses(q))
    BY <1>2, <1>3, <1>5, FinalClassesAgree
  <2>2. TAKE c \in q.W
  <2>3. PICK w \in m.W : <<w, c>> \in Z
    BY <1>5 DEF TotallyLinked, Covering
  <2> QED BY <1>5, <2>1, <2>3 DEF AgreeOn
<1>9. ASSUME NEW Y, Linked(q, q, Y), NEW u, NEW v, <<u, v>> \in Y
      PROVE  u = v
  <2>1. TotallyLinked(q, q, Y)
    BY <1>5, <1>7, <1>9, FullyReachableCovered
  <2>2. AgreeOn(Y, FinalClasses(q), FinalClasses(q))
    BY <1>5, <2>1, FinalClassesAgree
  <2>3. u \in q.W /\ v \in q.W
    BY <1>9, BisimulationStep DEF Linked
  <2> QED BY <1>8, <1>9, <2>2, <2>3 DEF AgreeOn
<1>10. Minimal(q)
  BY <1>7, <1>9 DEF Minimal
<1> QED BY <1>4, <1>5, <1>6, <1>10

\* Models that match world for world have the very same numbered quotient.
LEMMA QuotientsAgree ==
  ASSUME NEW s, FiniteState(s), NEW t, FiniteState(t), NEW Z, TotallyLinked(s, t, Z)
  PROVE  Quotient(s, FinalClasses(s)) = Quotient(t, FinalClasses(t))
<1>1. PICK c, d : c = FinalClasses(s) /\ d = FinalClasses(t)
  OBVIOUS
<1>2. /\ c \in Classes(s) /\ d \in Classes(t) /\ AgreeOn(Z, c, d)
      /\ \A w, v \in t.W : d[w] = d[v] =>
           /\ t.V[w] = t.V[v]
           /\ (w \in t.D <=> v \in t.D)
           /\ \A i \in Agents : Near(t, d, i, w) = Near(t, d, i, v)
  BY <1>1, FinalClassesAre, FinalClassesAgree
<1>3. Bisimulation(s, t, Z) /\ Covering(s, t, Z)
  BY DEF TotallyLinked, Linked
<1>4. Range(c) = Range(d)
  BY <1>2, <1>3, RangesAgree DEF Classes
<1> DEFINE K == Range(c)
           L == Range(d)
           M(k) == Member(s, c, k)
           N(k) == Member(t, d, k)
<1>5. /\ Quotient(s, c) = [W |-> K, V |-> [k \in K |-> s.V[M(k)]], D |-> {k \in K : M(k) \in s.D},
                           R |-> [i \in Agents |-> [k \in K |-> Near(s, c, i, M(k))]]]
      /\ \A k \in K : M(k) \in s.W /\ c[M(k)] = k
  BY <1>2, QuotientIs
<1>6. /\ Quotient(t, d) = [W |-> L, V |-> [k \in L |-> t.V[N(k)]], D |-> {k \in L : N(k) \in t.D},
                           R |-> [i \in Agents |-> [k \in L |-> Near(t, d, i, N(k))]]]
      /\ \A k \in L : N(k) \in t.W /\ d[N(k)] = k
  BY <1>2, QuotientIs
<1>11. K = L
  BY <1>4
<1> HIDE DEF M, N, K, L
<1>7. ASSUME NEW k \in K
      PROVE  /\ s.V[M(k)] = t.V[N(k)]
             /\ (M(k) \in s.D <=> N(k) \in t.D)
             /\ \A i \in Agents : Near(s, c, i, M(k)) = Near(t, d, i, N(k))
  <2>1. PICK w, v : w = M(k) /\ v \in t.W /\ <<w, v>> \in Z
    BY <1>3, <1>5 DEF Covering
  <2>2. d[v] = d[N(k)] /\ N(k) \in t.W
    BY <1>2, <1>5, <1>6, <1>11, <2>1 DEF AgreeOn
  <2>3. /\ t.V[v] = t.V[N(k)]
        /\ (v \in t.D <=> N(k) \in t.D)
        /\ \A i \in Agents : Near(t, d, i, v) = Near(t, d, i, N(k))
    BY <1>2, <2>1, <2>2
  <2>4. s.V[w] = t.V[v] /\ (w \in s.D <=> v \in t.D)
    BY <1>3, <2>1, BisimulationStep
  <2>5. \A i \in Agents : Near(s, c, i, w) = Near(t, d, i, v)
    BY <1>2, <1>3, <2>1, NearAgrees
  <2> QED BY <2>1, <2>3, <2>4, <2>5
<1>8. [k \in K |-> s.V[M(k)]] = [k \in L |-> t.V[N(k)]]
  BY <1>7, <1>11
<1>9. {k \in K : M(k) \in s.D} = {k \in L : N(k) \in t.D}
  BY <1>7, <1>11
<1>10. [i \in Agents |-> [k \in K |-> Near(s, c, i, M(k))]] =
       [i \in Agents |-> [k \in L |-> Near(t, d, i, N(k))]]
  <2>1. ASSUME NEW i \in Agents
        PROVE  [k \in K |-> Near(s, c, i, M(k))] = [k \in L |-> Near(t, d, i, N(k))]
    BY <1>7, <1>11
  <2> QED BY <2>1
<1> QED BY <1>1, <1>5, <1>6, <1>8, <1>9, <1>10, <1>11

\* Bisimilar states have the very same contraction.
LEMMA ContractionIsCanonical ==
  ASSUME NEW s, FiniteState(s), NEW t, FiniteState(t), Bisimilar(s, t)
  PROVE  BisimContract(s) = BisimContract(t)
<1>1. PICK m, n : m = RestrictState(s, Reachable(s)) /\ n = RestrictState(t, Reachable(t))
  OBVIOUS
<1>2. FiniteState(m) /\ Reachable(m) = m.W /\ Bisimilar(s, m)
  BY <1>1, ReachablePart
<1>3. FiniteState(n) /\ Reachable(n) = n.W /\ Bisimilar(t, n)
  BY <1>1, ReachablePart
<1>4. Bisimilar(m, n)
  <2>1. Bisimilar(m, s)
    BY <1>2, BisimilarSymmetric
  <2>2. Bisimilar(m, t)
    BY <2>1, BisimilarTransitive
  <2> QED BY <1>3, <2>2, BisimilarTransitive
<1>5. PICK Z : TotallyLinked(m, n, Z)
  BY <1>2, <1>3, <1>4, FullyReachableCovered DEF Bisimilar
<1>6. Quotient(m, FinalClasses(m)) = Quotient(n, FinalClasses(n))
  BY <1>2, <1>3, <1>5, QuotientsAgree
<1> QED BY <1>1, <1>6 DEF BisimContract

-----------------------------------------------------------------------------
\* The largest bisimulation

(***************************************************************************)
(* The definition that contraction is measured by is the largest           *)
(* bisimulation.                                                           *)
(***************************************************************************)
Supported(s, t, B) ==
  {p \in B : \A i \in Agents :
     /\ \A u \in s.R[i][p[1]] : \E v \in t.R[i][p[2]] : <<u, v>> \in B
     /\ \A v \in t.R[i][p[2]] : \E u \in s.R[i][p[1]] : <<u, v>> \in B}
\* The pairs of worlds of equal valuation and designation.
Alike(s, t) == {p \in s.W \X t.W : s.V[p[1]] = t.V[p[2]] /\ (p[1] \in s.D <=> p[2] \in t.D)}

\* What a round of the search for the largest bisimulation keeps.
LEMMA SupportedIs ==
  ASSUME NEW s, NEW t, NEW B
  PROVE  /\ Supported(s, t, B) \subseteq B
         /\ \A w, v : <<w, v>> \in Supported(s, t, B) <=>
              <<w, v>> \in B /\ \A i \in Agents : Forth(s, t, B, i, w, v) /\ Back(s, t, B, i, w, v)
<1>1. Supported(s, t, B) =
        {p \in B : \A i \in Agents : Forth(s, t, B, i, p[1], p[2]) /\ Back(s, t, B, i, p[1], p[2])}
  BY DEF Supported, Forth, Back
<1> QED BY <1>1

\* The relation that ContractionIsExact measures by is the largest bisimulation.
LEMMA LargestIs ==
  ASSUME NEW s, FiniteState(s), NEW t, FiniteState(t)
  PROVE  /\ Bisimulation(s, t, LargestBisimulation(s, t))
         /\ \A Y : Bisimulation(s, t, Y) => Y \subseteq LargestBisimulation(s, t)
<1> DEFINE S == SUBSET (s.W \X t.W)
           stop == {B \in S : Supported(s, t, B) = B}
           next == [B \in S |-> Supported(s, t, B)]
           m == [B \in S |-> Cardinality(B)]
           x0 == Alike(s, t)
<1>1. IsFiniteSet(s.W \X t.W)
  BY FS_Product DEF FiniteState
<1>2. \A B \in S : Supported(s, t, B) \in SUBSET B
  BY SupportedIs
<1>3. Iteration(S, stop, next, m)
  <2>1. ASSUME NEW B \in S, B \notin stop
        PROVE  m[next[B]] < m[B]
    <3>1. Supported(s, t, B) \in S /\ Supported(s, t, B) \in SUBSET B /\ B # Supported(s, t, B)
      BY <1>2, <2>1
    <3>2. Cardinality(Supported(s, t, B)) < Cardinality(B)
      BY <1>1, <3>1, Subsets
    <3> QED BY <3>1, <3>2
  <2>2. m \in [S -> Nat]
    BY <1>1, Subsets
  <2>3. next \in [S -> S]
    BY <1>2
  <2> QED BY <2>1, <2>2, <2>3 DEF Iteration
<1> DEFINE Computes(g) == g = [B \in SUBSET (s.W \X t.W) |->
              IF Supported(s, t, B) = B THEN B ELSE g[Supported(s, t, B)]]
<1>4. \A g : Iterates(S, stop, next, g) <=> Computes(g)
  <2>1. TAKE g
  <2>2. [B \in S |-> IF B \in stop THEN B ELSE g[next[B]]]
      = [B \in S |-> IF Supported(s, t, B) = B THEN B ELSE g[Supported(s, t, B)]]
    OBVIOUS
  <2> QED BY <2>2 DEF Iterates
<1>5. \E g : Computes(g)
  <2> HIDE DEF Computes, S, stop, next, m
  <2> QED BY <1>3, <1>4, IterationExists
<1>6. LargestBisimulation(s, t) = (CHOOSE g : Computes(g))[x0]
  BY DEF LargestBisimulation, Supported, Alike
<1>7. PICK g : g = CHOOSE f : Computes(f)
  OBVIOUS
<1>8. Iterates(S, stop, next, g) /\ LargestBisimulation(s, t) = g[x0]
  <2> HIDE DEF Computes
  <2> QED BY <1>4, <1>5, <1>6, <1>7
<1>9. x0 \in S
  BY DEF Alike
<1>10. g[x0] \in SUBSET x0 /\ g[x0] \in stop
  <2> DEFINE Below == {B \in S : B \subseteq x0}
  <2>1. \A B \in Below : B \notin stop => next[B] \in Below
    BY <1>2
  <2>2. Below \in SUBSET S /\ x0 \in Below
    BY <1>9
  <2>3. g[x0] \in Below /\ g[x0] \in stop
    <3> HIDE DEF Computes, S, stop, next, m, x0, Below
    <3> QED BY <1>3, <1>8, <2>1, <2>2, IterationKeeps
  <2> QED BY <2>3
<1>11. ASSUME NEW Y, Bisimulation(s, t, Y)
       PROVE  Y \subseteq g[x0]
  <2>0. Y \in S
    BY <1>11 DEF Bisimulation
  <2>1. \A p \in Y : p = <<p[1], p[2]>>
    BY <2>0
  <2> DEFINE Above == {B \in S : Y \subseteq B}
  <2>2. ASSUME NEW B \in Above, B \notin stop
        PROVE  next[B] \in Above
    <3>1. ASSUME NEW p \in Y
          PROVE  p \in Supported(s, t, B)
      <4>1. PICK w, v : p = <<w, v>>
        BY <2>1
      <4>2. \A i \in Agents : Forth(s, t, Y, i, w, v) /\ Back(s, t, Y, i, w, v)
        BY <1>11, <4>1, BisimulationStep
      <4>3. \A i \in Agents : Forth(s, t, B, i, w, v) /\ Back(s, t, B, i, w, v)
        <5>1. Y \subseteq B
          BY <2>2
        <5> HIDE DEF Above, S, stop, next, m
        <5> QED BY <4>2, <5>1 DEF Forth, Back
      <4> QED BY <2>2, <4>1, <4>3, SupportedIs
    <3>2. Supported(s, t, B) \in S
      BY <1>2, <2>2
    <3> QED BY <2>2, <3>1, <3>2
  <2>3. Above \in SUBSET S /\ x0 \in Above
    <3>1. ASSUME NEW p \in Y
          PROVE  p \in Alike(s, t)
      <4>1. PICK w, v : p = <<w, v>>
        BY <2>1
      <4> QED BY <1>11, <4>1, BisimulationStep DEF Alike
    <3> QED BY <1>9, <3>1
  <2>4. g[x0] \in Above
    <3> HIDE DEF Computes, S, stop, next, m, x0, Above
    <3> QED BY <1>3, <1>8, <2>2, <2>3, IterationKeeps
  <2> QED BY <2>4
<1>12. Bisimulation(s, t, g[x0])
  <2>1. PICK B : B = g[x0] /\ B \in SUBSET x0 /\ Supported(s, t, B) = B
    BY <1>10
  <2>2. ASSUME NEW w, NEW v, <<w, v>> \in B
        PROVE  /\ s.V[w] = t.V[v]
               /\ (w \in s.D <=> v \in t.D)
               /\ \A i \in Agents : Forth(s, t, B, i, w, v) /\ Back(s, t, B, i, w, v)
    <3>1. <<w, v>> \in Alike(s, t)
      BY <2>1, <2>2
    <3>2. s.V[w] = t.V[v] /\ (w \in s.D <=> v \in t.D)
      BY <3>1 DEF Alike
    <3>3. \A i \in Agents : Forth(s, t, B, i, w, v) /\ Back(s, t, B, i, w, v)
      <4> HIDE DEF x0
      <4> QED BY <2>1, <2>2, SupportedIs
    <3> QED BY <3>2, <3>3
  <2>3. B \in SUBSET (s.W \X t.W)
    BY <1>9, <2>1
  <2> QED BY <2>1, <2>2, <2>3 DEF Bisimulation
<1> QED BY <1>8, <1>11, <1>12

-----------------------------------------------------------------------------
\* The path of a search

\* The inductive invariant: the state the search holds is the contraction of the
\* uncontracted path, to the number of every world.
PathInv ==
  /\ task \in Tasks
  /\ depth \in 0 .. MaxDepth
  /\ IsState(raw) /\ IsFiniteSet(raw.W)
  /\ state = BisimContract(raw)
  /\ BeliefsStayConsistent

\* What the invariant says of the two ends of the path.
LEMMA PathInvMeans ==
  ASSUME PathInv
  PROVE  /\ FiniteState(raw) /\ FiniteState(state)
         /\ Bisimilar(raw, state) /\ Bisimilar(state, raw)
         /\ Minimal(state)
         /\ BisimContract(state) = state
<1>1. FiniteState(raw)
  BY DEF PathInv, FiniteState
<1>2. FiniteState(state) /\ Bisimilar(raw, state) /\ Minimal(state)
  BY <1>1, ContractionIs DEF PathInv
<1>3. Bisimilar(state, raw)
  BY <1>2, BisimilarSymmetric
<1>4. BisimContract(state) = BisimContract(raw)
  BY <1>1, <1>2, <1>3, ContractionIsCanonical
<1> QED BY <1>1, <1>2, <1>3, <1>4 DEF PathInv

\* What the assumption says of the task being searched.
LEMMA TaskIs ==
  ASSUME task \in Tasks
  PROVE  /\ FiniteState(T.init)
         /\ T.seriality \in Serialities
         /\ \A x \in DOMAIN T.actions : IsAction(T.actions[x])
BY TasksAssumption DEF T, FiniteState, Serialities

\* A step from the states s and r of the path to the contraction of m and to n,
\* which are bisimilar and, if the task asks for it, consistent.
LEMMA PathStep ==
  ASSUME PathInv, NEW m, NEW n, FiniteState(m), FiniteState(n), Bisimilar(m, n),
         T.seriality # "Ignore" => ~Collapses(m) /\ ~Collapses(n),
         state' = BisimContract(m), raw' = n, depth < MaxDepth, depth' = depth + 1, task' = task
  PROVE  PathInv'
<1>1. BisimContract(n) = BisimContract(m)
  BY ContractionIsCanonical
<1>2. PICK q : q = BisimContract(m)
  OBVIOUS
<1>3. FiniteState(q) /\ Bisimilar(m, q)
  BY <1>2, ContractionIs
<1>4. T.seriality # "Ignore" => ~Collapses(q)
  BY <1>3, CollapsesAgrees
<1>5. T' = T
  BY DEF T
<1>6. state' = q /\ raw' = n
  BY <1>2
<1>7. BeliefsStayConsistent'
  <2>1. T.seriality # "Ignore" => ~Collapses(state') /\ ~Collapses(raw')
    BY <1>4, <1>6
  <2> QED BY <1>5, <2>1 DEF BeliefsStayConsistent
<1>8. depth' \in 0 .. MaxDepth
  BY TasksAssumption DEF PathInv
<1>9. IsState(raw') /\ IsFiniteSet(raw'.W)
  BY <1>6 DEF FiniteState
<1> QED BY <1>1, <1>2, <1>6, <1>7, <1>8, <1>9 DEF PathInv

\* A search starts from the contraction of the initial state.
LEMMA PathInvInit ==
  ASSUME Init
  PROVE  PathInv
<1>1. task \in Tasks /\ raw = T.init /\ state = BisimContract(T.init) /\ depth = 0
  BY DEF Init, T
<1>2. FiniteState(T.init)
  BY <1>1, TaskIs
<1>3. PICK r, q : r = T.init /\ q = BisimContract(r)
  OBVIOUS
<1>4. FiniteState(q) /\ Bisimilar(r, q)
  BY <1>2, <1>3, ContractionIs
<1>5. Collapses(r) <=> Collapses(q)
  BY <1>2, <1>3, <1>4, CollapsesAgrees
<1>6. BeliefsStayConsistent
  BY <1>1, <1>3, <1>5 DEF BeliefsStayConsistent
<1> QED BY <1>1, <1>2, <1>6, TasksAssumption DEF PathInv, FiniteState

\* A linear search's successor keeps the invariant (search.cpp, build_successor).
LEMMA ExpandKeeps ==
  ASSUME PathInv, NEW x \in DOMAIN T.actions, Expand(x)
  PROVE  PathInv'
<1>1. PICK s, r, a, seriality, cap :
         s = state /\ r = raw /\ a = T.actions[x] /\ seriality = T.seriality /\ cap = T.cap
  OBVIOUS
<1>2. task \in Tasks
  BY DEF PathInv
<1>3. IsAction(a) /\ seriality \in Serialities
  BY <1>1, <1>2, TaskIs
<1>4. FiniteState(s) /\ FiniteState(r) /\ Bisimilar(s, r)
  BY <1>1, PathInvMeans
<1>5. PICK p, u : /\ p = ProductUpdate(s, a, seriality, cap)
                  /\ u = ProductUpdate(r, a, seriality, Pairs(r, a))
  OBVIOUS
<1>6. /\ Successor(s, a, seriality, cap).ok
      /\ state' = Successor(s, a, seriality, cap).state
      /\ raw' = u.state
      /\ depth < MaxDepth /\ depth' = depth + 1 /\ task' = task
  BY <1>1, <1>5 DEF Expand
<1>7. Applicable(s, a) /\ p.ok /\ state' = BisimContract(p.state)
  <2>1. Applicable(s, a)
    BY <1>6, OkIs DEF Successor
  <2>2. Successor(s, a, seriality, cap) = ContractedUpdate(p)
    BY <1>5, <2>1 DEF Successor
  <2>3. p.ok
    BY <1>6, <2>2 DEF ContractedUpdate
  <2> QED BY <1>6, <2>1, <2>2, <2>3, OkIs DEF ContractedUpdate
<1>8. PICK Z : SameResult(Z, seriality, p, u)
  BY <1>3, <1>4, <1>5, <1>7, UpdateAgrees
<1>9. /\ FiniteState(p.state) /\ FiniteState(u.state) /\ Bisimilar(p.state, u.state)
      /\ (seriality # "Ignore" => ~Collapses(p.state) /\ ~Collapses(u.state))
  BY <1>7, <1>8 DEF SameResult, Bisimilar
<1>10. PICK m, n : m = p.state /\ n = u.state
  OBVIOUS
<1> QED BY <1>1, <1>6, <1>7, <1>9, <1>10, PathStep

\* Following one outcome of an action keeps the invariant (search.cpp, ao_star).
LEMMA ExpandOutcomeKeeps ==
  ASSUME PathInv, NEW x \in DOMAIN T.actions, ExpandOutcome(x)
  PROVE  PathInv'
<1>1. PICK s, r, a, seriality, cap :
         s = state /\ r = raw /\ a = T.actions[x] /\ seriality = T.seriality /\ cap = T.cap
  OBVIOUS
<1>2. task \in Tasks
  BY DEF PathInv
<1>3. IsAction(a) /\ seriality \in Serialities
  BY <1>1, <1>2, TaskIs
<1>4. FiniteState(s) /\ FiniteState(r) /\ Bisimilar(s, r)
  BY <1>1, PathInvMeans
<1>5. PICK p, u : /\ p = ProductUpdate(s, a, seriality, cap)
                  /\ u = ProductUpdate(r, a, seriality, Pairs(r, a))
  OBVIOUS
<1>6. PICK e : /\ e \in DOMAIN Branches(s, a, seriality, cap)
               /\ state' = Branches(s, a, seriality, cap)[e]
               /\ raw' = SplitOf(u, a)[e]
               /\ depth < MaxDepth /\ depth' = depth + 1 /\ task' = task
  BY <1>1, <1>5 DEF ExpandOutcome, ProductUpdateSplit
<1>7. Applicable(s, a)
  BY <1>6 DEF Branches
<1>8. Branches(s, a, seriality, cap) = ContractedOutcomes(SplitOf(p, a))
  BY <1>5, <1>7 DEF Branches, ProductUpdateSplit
<1>9. e \in DOMAIN SplitOf(p, a) /\ state' = BisimContract(SplitOf(p, a)[e])
  BY <1>6, <1>8 DEF ContractedOutcomes
<1>10. p.ok /\ SplitOf(p, a) = Outcomes(p.state, a)
  BY <1>9 DEF SplitOf
<1>11. PICK Z : SameEvents(Z) /\ SameResult(Z, seriality, p, u)
  BY <1>3, <1>4, <1>5, <1>7, <1>10, UpdateAgrees
<1>12. PICK m, n : m = p.state /\ n = u.state
  OBVIOUS
<1>13. /\ FiniteState(m) /\ FiniteState(n)
       /\ (seriality # "Ignore" => ~Collapses(m) /\ ~Collapses(n))
       /\ u.ok
  BY <1>10, <1>11, <1>12 DEF SameResult
<1>14. PICK Y : Linked(m, n, Y) /\ SameEvents(Y)
  BY <1>10, <1>11, <1>12 DEF SameResult, SameEvents
<1>15. PICK m1, n1 : m1 = Designating(m, Happened(m, e)) /\ n1 = Designating(n, Happened(n, e))
  OBVIOUS
<1>16. /\ FiniteState(m1) /\ FiniteState(n1) /\ Bisimilar(m1, n1)
       /\ (Happened(m, e) # {} <=> Happened(n, e) # {})
  BY <1>13, <1>14, <1>15, DesignatingLinked DEF Bisimilar
<1>17. e \in DOMAIN Outcomes(m, a) /\ Outcomes(m, a)[e] = m1
  <2>1. e \in DOMAIN Outcomes(m, a)
    BY <1>9, <1>10, <1>12
  <2>2. Outcomes(m, a)[e] = Designating(m, Happened(m, e))
    BY <2>1, OutcomesAre
  <2> QED BY <1>15, <2>1, <2>2
<1>18. e \in DOMAIN Outcomes(n, a) /\ Outcomes(n, a)[e] = n1
  <2>0. DOMAIN Outcomes(m, a) = {d \in a.designated : Happened(m, d) # {}}
    BY OutcomesAre
  <2>1. e \in a.designated /\ Happened(m, e) # {}
    BY <1>17, <2>0
  <2>2. DOMAIN Outcomes(n, a) = {d \in a.designated : Happened(n, d) # {}}
    BY OutcomesAre
  <2>3. e \in DOMAIN Outcomes(n, a)
    BY <1>16, <2>1, <2>2
  <2> QED BY <1>15, <2>3, OutcomesAre
<1>19. state' = BisimContract(m1)
  BY <1>9, <1>10, <1>12, <1>17
<1>20. raw' = n1
  BY <1>6, <1>12, <1>13, <1>18 DEF SplitOf
<1>21. seriality # "Ignore" => ~Collapses(m1) /\ ~Collapses(n1)
  <2>1. Happened(m, e) \in SUBSET m.D /\ Happened(n, e) \in SUBSET n.D
    BY DEF Happened
  <2> QED BY <1>13, <1>15, <2>1, DesignatingStaysConsistent
<1> QED BY <1>1, <1>6, <1>16, <1>19, <1>20, <1>21, PathStep

\* However a search gets to a state, by successors or by outcomes of actions,
\* with pruning, repair and a contraction after every update, it holds the
\* contraction of what those updates make of the uncontracted initial state.
THEOREM PathInvariant == Spec => []PathInv
<1>1. Init => PathInv
  BY PathInvInit
<1>2. PathInv /\ [Next]_vars => PathInv'
  <2> SUFFICES ASSUME PathInv, [Next]_vars
               PROVE  PathInv'
    OBVIOUS
  <2>1. ASSUME NEW x \in DOMAIN T.actions, Expand(x)
        PROVE  PathInv'
    BY <2>1, ExpandKeeps
  <2>2. ASSUME NEW x \in DOMAIN T.actions, ExpandOutcome(x)
        PROVE  PathInv'
    BY <2>2, ExpandOutcomeKeeps
  <2>3. CASE UNCHANGED vars
    BY <2>3 DEF vars, PathInv, BeliefsStayConsistent, T
  <2> QED BY <2>1, <2>2, <2>3 DEF Next
<1> QED BY <1>1, <1>2, PTL DEF Spec

\* Every state that a search reaches is a Kripke model over the task's language
\* (search.cpp, build_successor; product_update.cpp).
THEOREM TypeCorrect == Spec => []TypeOK
<1>1. PathInv => TypeOK
  BY PathInvMeans DEF PathInv, TypeOK, FiniteState
<1> QED BY <1>1, PathInvariant, PTL

\* bisim_contract numbers the worlds of a state by the situation alone: the path
\* contracted once, at its end, is the state the search holds, number by number,
\* and contracting again changes nothing. Searches rely on it where their closed
\* lists compare fingerprints.
THEOREM NumberingCanonical == Spec => []NumberingIsCanonical
<1>1. PathInv => NumberingIsCanonical
  BY PathInvMeans DEF PathInv, NumberingIsCanonical
<1> QED BY <1>1, PathInvariant, PTL

\* Where a task requires or repairs consistency, no update of a search leaves an
\* agent believing a contradiction, in the contracted state or in the path it
\* stands for (product_update.cpp, product_update_with_map).
THEOREM BeliefsConsistent == Spec => []BeliefsStayConsistent
<1>1. PathInv => BeliefsStayConsistent
  BY DEF PathInv
<1> QED BY <1>1, PathInvariant, PTL

\* The worlds of a minimal model bisimilar to s are exactly the situations that
\* the reachable worlds of s stand for: one for each.
LEMMA ExactIfMinimal ==
  ASSUME NEW s, FiniteState(s), NEW t, FiniteState(t), Bisimilar(s, t), Minimal(t)
  PROVE  LET m == RestrictState(s, Reachable(s))
             B == LargestBisimulation(m, t)
         IN  /\ \A w \in Reachable(s) : \E v \in t.W : \A u \in t.W : <<w, u>> \in B <=> u = v
             /\ \A v \in t.W : \E w \in Reachable(s) : <<w, v>> \in B
<1>1. PICK m : m = RestrictState(s, Reachable(s))
  OBVIOUS
<1>2. FiniteState(m) /\ Reachable(m) = m.W /\ Bisimilar(s, m) /\ m.W = Reachable(s)
  <2>1. Reachable(s) \in SUBSET s.W
    BY ReachableIsLeast
  <2>2. m.W = Reachable(s)
    BY <1>1, <2>1 DEF RestrictState
  <2> QED BY <1>1, <2>2, ReachablePart
<1>3. Bisimilar(m, t)
  <2>1. Bisimilar(m, s)
    BY <1>2, BisimilarSymmetric
  <2> QED BY <2>1, BisimilarTransitive
<1>4. PICK B : B = LargestBisimulation(m, t)
  OBVIOUS
<1>5. Bisimulation(m, t, B) /\ \A Y : Bisimulation(m, t, Y) => Y \subseteq B
  BY <1>2, <1>4, LargestIs
<1>6. Linked(m, t, B)
  <2>1. PICK Y : Linked(m, t, Y)
    BY <1>3 DEF Bisimilar
  <2>2. Y \subseteq B
    BY <1>5, <2>1 DEF Linked
  <2> QED BY <1>5, <2>1, <2>2 DEF Linked
<1>7. Covering(m, t, B)
  BY <1>2, <1>6, FullyReachableCovered DEF Minimal, TotallyLinked
<1>8. ASSUME NEW w, NEW u, NEW v, <<w, u>> \in B, <<w, v>> \in B
      PROVE  u = v
  <2>1. PICK O : O = Opposite(m, t, B)
    OBVIOUS
  <2>2. Linked(t, m, O)
    BY <1>6, <2>1, OppositeLinked
  <2>3. <<u, w>> \in O
    BY <1>5, <1>8, <2>1, OppositeBisimulation
  <2>4. PICK C : C = Composed(t, m, t, O, B)
    OBVIOUS
  <2>5. Linked(t, t, C)
    BY <1>6, <2>2, <2>4, ComposedLinked
  <2>6. u \in t.W /\ v \in t.W /\ w \in m.W
    BY <1>5, <1>8 DEF Bisimulation
  <2>7. <<u, v>> \in C
    BY <1>8, <2>3, <2>4, <2>6 DEF Composed
  <2> QED BY <2>5, <2>7 DEF Minimal
<1>9. ASSUME NEW w \in Reachable(s)
      PROVE  \E v \in t.W : \A u \in t.W : <<w, u>> \in B <=> u = v
  <2>1. PICK v \in t.W : <<w, v>> \in B
    BY <1>2, <1>7 DEF Covering
  <2> QED BY <1>8, <2>1
<1>10. \A v \in t.W : \E w \in Reachable(s) : <<w, v>> \in B
  BY <1>2, <1>7 DEF Covering
<1> QED BY <1>1, <1>4, <1>9, <1>10

\* bisim_contract after every update loses and merges nothing: every world of the
\* uncontracted path that matters has exactly one bisimilar world in the state,
\* and every world of the state has some.
THEOREM ContractionExact == Spec => []ContractionIsExact
<1>1. PathInv => ContractionIsExact
  <2> SUFFICES ASSUME PathInv
               PROVE  ContractionIsExact
    OBVIOUS
  <2>1. FiniteState(raw) /\ FiniteState(state) /\ Bisimilar(raw, state) /\ Minimal(state)
    BY PathInvMeans
  <2>2. PICK s, t : s = raw /\ t = state
    OBVIOUS
  <2>3. LET m == RestrictState(s, Reachable(s))
            B == LargestBisimulation(m, t)
        IN  /\ \A w \in Reachable(s) : \E v \in t.W : \A u \in t.W : <<w, u>> \in B <=> u = v
            /\ \A v \in t.W : \E w \in Reachable(s) : <<w, v>> \in B
    BY <2>1, <2>2, ExactIfMinimal
  <2> QED BY <2>2, <2>3 DEF ContractionIsExact
<1> QED BY <1>1, PathInvariant, PTL

-----------------------------------------------------------------------------
\* The relaxation: its loops and its evaluation (hdelta.cpp)

\* The edges of agent i from x that the layer surely keeps.
Stays(s, fr, L, cut, i, x) == {y \in s.R[i][x] : y \notin L.elim /\ ~PossiblyCut(fr, cut, i, x, y)}

\* One round of the loop of MayShare.
Shared(s, fr, L, cut, G, may, X) ==
  {x \in X : \A i \in G : Stays(s, fr, L, cut, i, x) \subseteq may \cap X}

\* The loop that spreads T of common belief ends, and every set of worlds that its
\* rounds keep is part of the result (hdelta.cpp, common).
LEMMA MayShareIsGreatest ==
  ASSUME NEW s, FiniteState(s), NEW fr, NEW L, NEW cut, NEW G, NEW may
  PROVE  /\ MayShare(s, fr, L, cut, G, may) \in SUBSET s.W
         /\ \A X \in SUBSET s.W :
               Shared(s, fr, L, cut, G, may, X) = X => X \subseteq MayShare(s, fr, L, cut, G, may)
<1> DEFINE S == SUBSET s.W
           P(X) == Shared(s, fr, L, cut, G, may, X)
           stop == {X \in S : P(X) = X}
           next == [X \in S |-> P(X)]
           m == [X \in S |-> Cardinality(X)]
<1>1. IsFiniteSet(s.W)
  BY DEF FiniteState
<1>2. \A X \in S : P(X) \in S /\ P(X) \subseteq X
  BY DEF Shared
<1>2a. \A X, Y \in S : P(X) = X /\ X \subseteq Y => X \subseteq P(Y)
  BY DEF Shared
<1> HIDE DEF P
<1>3. Iteration(S, stop, next, m)
  <2>1. ASSUME NEW X \in S, X \notin stop
        PROVE  m[next[X]] < m[X]
    <3>1. P(X) \in S /\ P(X) \in SUBSET X /\ X # P(X)
      BY <1>2, <2>1
    <3>2. Cardinality(P(X)) < Cardinality(X)
      BY <1>1, <3>1, Subsets
    <3> QED BY <3>1, <3>2
  <2>2. m \in [S -> Nat]
    BY <1>1, Subsets
  <2>3. next \in [S -> S]
    BY <1>2
  <2> QED BY <2>1, <2>2, <2>3 DEF Iteration
<1> DEFINE Computes(g) == g = [X \in SUBSET s.W |-> IF P(X) = X THEN X ELSE g[P(X)]]
<1>4. \A g : Iterates(S, stop, next, g) <=> Computes(g)
  <2>1. TAKE g
  <2>2. [X \in S |-> IF X \in stop THEN X ELSE g[next[X]]]
      = [X \in S |-> IF P(X) = X THEN X ELSE g[P(X)]]
    OBVIOUS
  <2> QED BY <2>2 DEF Iterates
<1>5. \E g : Computes(g)
  <2> HIDE DEF Computes, S, stop, next, m
  <2> QED BY <1>3, <1>4, IterationExists
<1>6. MayShare(s, fr, L, cut, G, may) = (CHOOSE g : Computes(g))[s.W]
  BY DEF MayShare, Shared, Stays, P
<1>7. PICK g : g = CHOOSE f : Computes(f)
  OBVIOUS
<1>8. Iterates(S, stop, next, g) /\ MayShare(s, fr, L, cut, G, may) = g[s.W]
  <2> HIDE DEF Computes
  <2> QED BY <1>4, <1>5, <1>6, <1>7
<1>9. s.W \in S
  OBVIOUS
<1>10. g[s.W] \in S
  <2>1. \A X \in S : X \notin stop => next[X] \in S
    BY <1>2
  <2> HIDE DEF Computes, S, stop, next, m
  <2> QED BY <1>3, <1>8, <1>9, <2>1, IterationKeeps
<1>11. ASSUME NEW X \in SUBSET s.W, P(X) = X
       PROVE  X \subseteq g[s.W]
  <2> DEFINE Above == {Y \in S : X \subseteq Y}
  <2>1. \A Y \in Above : Y \notin stop => next[Y] \in Above
    BY <1>2, <1>2a, <1>11
  <2>2. Above \in SUBSET S /\ s.W \in Above
    BY <1>9, <1>11
  <2>3. g[s.W] \in Above
    <3> HIDE DEF Computes, S, stop, next, m, Above
    <3> QED BY <1>3, <1>8, <2>1, <2>2, IterationKeeps
  <2> QED BY <2>3
<1> QED BY <1>8, <1>10, <1>11 DEF P

\* One round of the loop of MayNotShare.
Unshared(s, G, may, Y) == Y \cup {x \in s.W : \E i \in G : s.R[i][x] \cap (may \cup Y) # {}}

\* The loop that spreads F of common belief ends in a set that no edge enters from
\* outside (hdelta.cpp, common).
LEMMA MayNotShareIsClosed ==
  ASSUME NEW s, FiniteState(s), NEW G, NEW may
  PROVE  /\ MayNotShare(s, G, may) \in SUBSET s.W
         /\ \A i \in G, x \in s.W :
               s.R[i][x] \cap (may \cup MayNotShare(s, G, may)) # {} => x \in MayNotShare(s, G, may)
<1> DEFINE S == SUBSET s.W
           P(X) == Unshared(s, G, may, X)
           stop == {X \in S : P(X) = X}
           next == [X \in S |-> P(X)]
           m == [X \in S |-> Cardinality(s.W) - Cardinality(X)]
<1>1. IsFiniteSet(s.W)
  BY DEF FiniteState
<1>2. \A X \in S : P(X) \in S /\ X \subseteq P(X)
  BY DEF Unshared
<1> HIDE DEF P
<1>3. Iteration(S, stop, next, m)
  <2>1. ASSUME NEW X \in S, X \notin stop
        PROVE  m[next[X]] < m[X]
    <3>1. P(X) \in S /\ X \subseteq P(X) /\ X # P(X)
      BY <1>2, <2>1
    <3>2. Cardinality(X) < Cardinality(P(X)) /\ Cardinality(X) \in Nat
      /\ Cardinality(P(X)) \in Nat /\ Cardinality(s.W) \in Nat
      BY <1>1, <3>1, Subsets
    <3> QED BY <3>1, <3>2
  <2>2. m \in [S -> Nat]
    BY <1>1, Subsets
  <2>3. next \in [S -> S]
    BY <1>2
  <2> QED BY <2>1, <2>2, <2>3 DEF Iteration
<1> DEFINE Computes(g) == g = [X \in SUBSET s.W |-> IF P(X) = X THEN X ELSE g[P(X)]]
<1>4. \A g : Iterates(S, stop, next, g) <=> Computes(g)
  <2>1. TAKE g
  <2>2. [X \in S |-> IF X \in stop THEN X ELSE g[next[X]]]
      = [X \in S |-> IF P(X) = X THEN X ELSE g[P(X)]]
    OBVIOUS
  <2> QED BY <2>2 DEF Iterates
<1>5. \E g : Computes(g)
  <2> HIDE DEF Computes, S, stop, next, m
  <2> QED BY <1>3, <1>4, IterationExists
<1>6. MayNotShare(s, G, may) = (CHOOSE g : Computes(g))[{}]
  BY DEF MayNotShare, Unshared, P
<1>7. PICK g : g = CHOOSE f : Computes(f)
  OBVIOUS
<1>8. Iterates(S, stop, next, g) /\ MayNotShare(s, G, may) = g[{}]
  <2> HIDE DEF Computes
  <2> QED BY <1>4, <1>5, <1>6, <1>7
<1>9. {} \in S
  OBVIOUS
<1>10. g[{}] \in S /\ g[{}] \in stop
  <2>1. \A X \in S : X \notin stop => next[X] \in S
    BY <1>2
  <2> HIDE DEF Computes, S, stop, next, m
  <2> QED BY <1>3, <1>8, <1>9, <2>1, IterationKeeps
<1>11. PICK Y : Y = g[{}] /\ Y \in SUBSET s.W /\ P(Y) = Y
  BY <1>10
<1>12. \A i \in G, x \in s.W : s.R[i][x] \cap (may \cup Y) # {} => x \in P(Y)
  BY DEF P, Unshared
<1> QED BY <1>8, <1>11, <1>12

\* Values of a formula in a layer: where it may be true, where it may be false.
Possible(s) == [T : SUBSET s.W, F : SUBSET s.W]

\* A layer gives atoms to worlds of s.
Literals(s, L) == \A p \in Atoms : L.canT[p] \in SUBSET s.W /\ L.canF[p] \in SUBSET s.W

\* What TV builds, and what it is taken apart into.
LEMMA PossibleIs ==
  ASSUME NEW s
  PROVE  /\ \A A, B \in SUBSET s.W : TV(A, B) \in Possible(s)
         /\ \A p \in Possible(s) : p.T \in SUBSET s.W /\ p.F \in SUBSET s.W
         /\ \A A, B : TV(A, B).T = A /\ TV(A, B).F = B
         /\ Possible(s) # {}
<1>1. TV({}, {}) \in Possible(s)
  BY DEF TV, Possible
<1>2. \A A, B \in SUBSET s.W : TV(A, B) \in Possible(s)
  BY DEF TV, Possible
<1>3. \A p \in Possible(s) : p.T \in SUBSET s.W /\ p.F \in SUBSET s.W
  BY DEF Possible
<1>4. \A A, B : TV(A, B).T = A /\ TV(A, B).F = B
  BY DEF TV
<1> QED BY <1>1, <1>2, <1>3, <1>4

\* The clause of a formula gives sets of worlds and looks only at the values of its
\* subformulas.
LEMMA MayClauseIsLocal ==
  ASSUME NEW s, FiniteState(s), NEW fr, NEW L, Literals(s, L), NEW cut,
         NEW f \in Formulas, Meaningful(f), NEW g, \A c \in Subformulas(f) : g[c] \in Possible(s)
  PROVE  /\ MayClause(s, fr, L, cut, g, f) \in Possible(s)
         /\ \A b : (\A c \in Subformulas(f) : g[c] = b[c]) =>
                      MayClause(s, fr, L, cut, g, f) = MayClause(s, fr, L, cut, b, f)
<1> DEFINE C(b) == MayClause(s, fr, L, cut, b, f)
<1>0. /\ \A c \in Subformulas(f) : g[c].T \in SUBSET s.W /\ g[c].F \in SUBSET s.W
      /\ \A A, B \in SUBSET s.W : TV(A, B) \in Possible(s)
  BY PossibleIs
<1>1. CASE f[1] \in {"Top", "Bot"}
  BY <1>0, <1>1 DEF MayClause
<1>2. CASE f[1] = "Atom"
  <2>1. f[2] \in Atoms
    BY <1>2 DEF Meaningful
  <2>2. \A b : C(b) = TV(L.canT[f[2]], L.canF[f[2]])
    BY <1>2 DEF MayClause
  <2> QED BY <1>0, <2>1, <2>2 DEF Literals
<1>3. CASE f[1] = "Not"
  <2>1. f[2] \in Subformulas(f)
    BY <1>3 DEF Subformulas
  <2>2. \A b : C(b) = TV(b[f[2]].F, b[f[2]].T)
    BY <1>3 DEF MayClause
  <2> QED BY <1>0, <2>1, <2>2
<1>4. CASE f[1] = "And"
  <2>1. Range(f[2]) = Subformulas(f)
    BY <1>4 DEF Subformulas
  <2>2. \A b : C(b) = TV(s.W \ UNION {s.W \ b[c].T : c \in Subformulas(f)},
                         UNION {b[c].F : c \in Subformulas(f)})
    <3>1. \A b : C(b) = TV(s.W \ UNION {s.W \ b[c].T : c \in Range(f[2])},
                           UNION {b[c].F : c \in Range(f[2])})
      BY <1>4 DEF MayClause
    <3> QED BY <2>1, <3>1
  <2>3. ASSUME NEW b, \A c \in Subformulas(f) : g[c] = b[c]
        PROVE  C(g) = C(b)
    <3>1. {s.W \ g[c].T : c \in Subformulas(f)} = {s.W \ b[c].T : c \in Subformulas(f)}
      BY <2>3
    <3>2. {g[c].F : c \in Subformulas(f)} = {b[c].F : c \in Subformulas(f)}
      BY <2>3
    <3> HIDE DEF C
    <3> QED BY <2>2, <3>1, <3>2
  <2>4. \A b : (\A c \in Subformulas(f) : g[c] = b[c]) => C(g) = C(b)
    BY <2>3
  <2>5. UNION {g[c].F : c \in Subformulas(f)} \in SUBSET s.W
    BY <1>0
  <2>6. C(g) \in Possible(s)
    <3> HIDE DEF C
    <3> QED BY <1>0, <2>2, <2>5
  <2> QED BY <2>4, <2>6
<1>5. CASE f[1] = "Or"
  <2>1. Range(f[2]) = Subformulas(f)
    BY <1>5 DEF Subformulas
  <2>2. \A b : C(b) = TV(UNION {b[c].T : c \in Subformulas(f)},
                         s.W \ UNION {s.W \ b[c].F : c \in Subformulas(f)})
    <3>1. \A b : C(b) = TV(UNION {b[c].T : c \in Range(f[2])},
                           s.W \ UNION {s.W \ b[c].F : c \in Range(f[2])})
      BY <1>5 DEF MayClause
    <3> QED BY <2>1, <3>1
  <2>3. ASSUME NEW b, \A c \in Subformulas(f) : g[c] = b[c]
        PROVE  C(g) = C(b)
    <3>1. {s.W \ g[c].F : c \in Subformulas(f)} = {s.W \ b[c].F : c \in Subformulas(f)}
      BY <2>3
    <3>2. {g[c].T : c \in Subformulas(f)} = {b[c].T : c \in Subformulas(f)}
      BY <2>3
    <3> HIDE DEF C
    <3> QED BY <2>2, <3>1, <3>2
  <2>4. \A b : (\A c \in Subformulas(f) : g[c] = b[c]) => C(g) = C(b)
    BY <2>3
  <2>5. UNION {g[c].T : c \in Subformulas(f)} \in SUBSET s.W
    BY <1>0
  <2>6. C(g) \in Possible(s)
    <3> HIDE DEF C
    <3> QED BY <1>0, <2>2, <2>5
  <2> QED BY <2>4, <2>6
<1>6. CASE f[1] = "Belief"
  <2>1. f[3] \in Subformulas(f)
    BY <1>6 DEF Subformulas
  <2>2. \A b : C(b) = TV(MayBelieve(s, fr, L, cut, f[2], b[f[3]].T), MayDoubt(s, f[2], b[f[3]].F))
    BY <1>6 DEF MayClause
  <2>3. \A X : MayBelieve(s, fr, L, cut, f[2], X) \in SUBSET s.W /\ MayDoubt(s, f[2], X) \in SUBSET s.W
    BY DEF MayBelieve, MayDoubt
  <2> HIDE DEF C
  <2> QED BY <1>0, <2>1, <2>2, <2>3 DEF C
<1>7. CASE f[1] = "Kw"
  <2>1. f[3] \in Subformulas(f)
    BY <1>7 DEF Subformulas
  <2>2. \A b : C(b) = TV(MayBelieve(s, fr, L, cut, f[2], b[f[3]].T)
                           \cup MayBelieve(s, fr, L, cut, f[2], b[f[3]].F),
                         MayDoubt(s, f[2], b[f[3]].F) \cap MayDoubt(s, f[2], b[f[3]].T))
    BY <1>7 DEF MayClause
  <2>3. \A X : MayBelieve(s, fr, L, cut, f[2], X) \in SUBSET s.W /\ MayDoubt(s, f[2], X) \in SUBSET s.W
    BY DEF MayBelieve, MayDoubt
  <2>4. \A X, Y : /\ MayBelieve(s, fr, L, cut, f[2], X) \cup MayBelieve(s, fr, L, cut, f[2], Y) \in SUBSET s.W
                  /\ MayDoubt(s, f[2], X) \cap MayDoubt(s, f[2], Y) \in SUBSET s.W
    BY <2>3
  <2>5. C(g) \in Possible(s)
    <3> HIDE DEF C
    <3> QED BY <1>0, <2>2, <2>4
  <2>6. \A b : g[f[3]] = b[f[3]] => C(g) = C(b)
    <3> HIDE DEF C
    <3> QED BY <2>2
  <2> QED BY <2>1, <2>5, <2>6
<1>8. CASE f[1] = "Common"
  <2>1. f[3] \in Subformulas(f)
    BY <1>8 DEF Subformulas
  <2>2. \A b : C(b) = TV(MayShare(s, fr, L, cut, f[2], b[f[3]].T), MayNotShare(s, f[2], b[f[3]].F))
    BY <1>8 DEF MayClause
  <2>3. \A X : /\ MayShare(s, fr, L, cut, f[2], X) \in SUBSET s.W
               /\ MayNotShare(s, f[2], X) \in SUBSET s.W
    BY MayShareIsGreatest, MayNotShareIsClosed
  <2>5. C(g) \in Possible(s)
    <3> HIDE DEF C
    <3> QED BY <1>0, <2>2, <2>3
  <2>6. \A b : g[f[3]] = b[f[3]] => C(g) = C(b)
    <3> HIDE DEF C
    <3> QED BY <2>2
  <2> QED BY <2>1, <2>5, <2>6
<1> QED BY <1>1, <1>2, <1>3, <1>4, <1>5, <1>6, <1>7, <1>8, FormulasAssumption

\* The evaluation of a layer gives every formula the value of its clause, however
\* deep it is (hdelta.cpp, eval).
LEMMA EvalEquations ==
  ASSUME NEW s, FiniteState(s), NEW fr, NEW L, Literals(s, L), NEW cut,
         \A f \in Formulas : Meaningful(f)
  PROVE  LET ev == Eval(s, fr, L, cut)
         IN  /\ ev \in [Formulas -> Possible(s)]
             /\ \A f \in Formulas : ev[f] = MayClause(s, fr, L, cut, ev, f)
<1> DEFINE V == Possible(s)
           C(g, f) == MayClause(s, fr, L, cut, g, f)
           F == [f \in Formulas |-> [g \in [Formulas -> V] |-> C(g, f)]]
           Computes(g) == g = [f \in Formulas |-> C(g, f)]
           m == [f \in Formulas |-> Height[f]]
<1>1. \A f \in Formulas : /\ \A c \in Subformulas(f) : c \in Formulas /\ m[c] < m[f]
                          /\ m[f] \in Nat
  BY FormulasAssumption
<1>2. \A f \in Formulas : \A g : (\A c \in Subformulas(f) : g[c] \in V) =>
         /\ C(g, f) \in V
         /\ \A k : (\A c \in Subformulas(f) : g[c] = k[c]) => C(g, f) = C(k, f)
  BY MayClauseIsLocal
<1> HIDE DEF C
<1>3. F \in [Formulas -> [[Formulas -> V] -> V]]
  BY <1>1, <1>2
<1>4. \A f \in Formulas, g \in [Formulas -> V] : F[f][g] = C(g, f)
  OBVIOUS
<1>5. m \in [Formulas -> Nat]
  BY <1>1
<1> HIDE DEF F
<1>6. ASSUME NEW f \in Formulas, NEW g \in [Formulas -> V], NEW k \in [Formulas -> V],
             \A c \in Formulas : m[c] < m[f] => g[c] = k[c]
      PROVE  F[f][g] = F[f][k]
  <2>1. \A c \in Subformulas(f) : g[c] = k[c] /\ g[c] \in V
    BY <1>1, <1>6
  <2>2. C(g, f) = C(k, f)
    BY <2>1, <1>2
  <2> QED BY <1>4, <2>2
<1>7. Recursion(Formulas, V, m, F)
  <2>1. V # {}
    BY PossibleIs
  <2> HIDE DEF m, V
  <2> QED BY <1>3, <1>5, <1>6, <2>1 DEF Recursion
<1>8. \E g : Computes(g)
  <2>1. PICK g \in [Formulas -> V] : \A f \in Formulas : g[f] = F[f][g]
    <3> HIDE DEF V, m
    <3> QED BY <1>7, RecursionExists
  <2>2. g = [f \in Formulas |-> C(g, f)]
    <3>1. \A f \in Formulas : g[f] = C(g, f)
      BY <1>4, <2>1
    <3> QED BY <3>1
  <2> QED BY <2>2
<1>9. Eval(s, fr, L, cut) = CHOOSE g : Computes(g)
  <2>1. Eval(s, fr, L, cut) = Table(CHOOSE g : Computes(g))
    BY DEF Eval, C
  <2> QED BY <2>1, TableIs
<1>10. PICK g : g = Eval(s, fr, L, cut) /\ Computes(g)
  <2> HIDE DEF Computes
  <2> QED BY <1>8, <1>9
<1>11. \A f \in Formulas : g[f] = C(g, f)
  <2>1. g = [f \in Formulas |-> C(g, f)]
    BY <1>10
  <2> QED BY <2>1
<1> DEFINE Bad == {n \in Nat : \E f \in Formulas : m[f] = n /\ g[f] \notin V}
<1>12. Bad = {}
  <2>1. SUFFICES ASSUME Bad # {}
                 PROVE  FALSE
    OBVIOUS
  <2>2. PICK n \in Nat : n \in Bad /\ \A i \in Bad : n <= i
    <3> Bad \in SUBSET Nat
      OBVIOUS
    <3> HIDE DEF Bad
    <3> QED BY <2>1, LeastNatural
  <2>3. PICK f \in Formulas : m[f] = n /\ g[f] \notin V
    BY <2>2
  <2>4. ASSUME NEW c \in Subformulas(f)
        PROVE  g[c] \in V
    <3>1. c \in Formulas /\ m[c] < n /\ m[c] \in Nat
      BY <1>1, <2>3
    <3>2. m[c] \notin Bad
      <4> HIDE DEF Bad
      <4> QED BY <2>2, <3>1
    <3> QED BY <3>1, <3>2
  <2>5. C(g, f) \in V
    BY <2>4, <1>2
  <2> QED BY <1>11, <2>3, <2>5
<1>13. \A f \in Formulas : g[f] \in V
  BY <1>1, <1>12
<1>14. g \in [Formulas -> V]
  <2>1. g = [f \in Formulas |-> C(g, f)]
    BY <1>10
  <2> QED BY <1>13, <2>1
<1> QED BY <1>10, <1>11, <1>14 DEF C

\* Whether a formula is about agent i's attitudes alone follows its clauses.
LEMMA IntrospectiveEquations ==
  ASSUME NEW i
  PROVE  \E own : /\ \A f \in Formulas : own[f] = OwnClause(own, f, i)
                  /\ \A f \in Formulas : Introspective(f, i) = own[f]
<1> DEFINE V == BOOLEAN
           C(g, f) == OwnClause(g, f, i)
           F == [f \in Formulas |-> [g \in [Formulas -> V] |-> C(g, f)]]
           Computes(g) == g = [f \in Formulas |-> C(g, f)]
           m == [f \in Formulas |-> Height[f]]
<1>1. \A f \in Formulas : /\ \A c \in Subformulas(f) : c \in Formulas /\ m[c] < m[f]
                          /\ m[f] \in Nat
  BY FormulasAssumption
<1>2. ASSUME NEW f \in Formulas, NEW g \in [Formulas -> V]
      PROVE  /\ C(g, f) \in V
             /\ \A k \in [Formulas -> V] :
                   (\A c \in Subformulas(f) : g[c] = k[c]) => C(g, f) = C(k, f)
  <2>1. CASE f[1] = "Not"
    <3>1. f[2] \in Subformulas(f) /\ f[2] \in Formulas
      BY <1>1, <2>1 DEF Subformulas
    <3>2. \A k : C(k, f) = k[f[2]]
      BY <2>1 DEF OwnClause
    <3> QED BY <3>1, <3>2
  <2>2. CASE f[1] \in {"And", "Or"}
    <3>1. Range(f[2]) = Subformulas(f)
      BY <2>2 DEF Subformulas
    <3>2. \A k : C(k, f) = \A c \in Subformulas(f) : k[c]
      BY <2>2, <3>1 DEF OwnClause
    <3> QED BY <3>2
  <2>3. CASE f[1] \notin {"Not", "And", "Or"}
    BY <2>3 DEF OwnClause
  <2> QED BY <2>1, <2>2, <2>3
<1> HIDE DEF C
<1>3. F \in [Formulas -> [[Formulas -> V] -> V]]
  BY <1>2
<1>4. \A f \in Formulas, g \in [Formulas -> V] : F[f][g] = C(g, f)
  OBVIOUS
<1>5. m \in [Formulas -> Nat]
  BY <1>1
<1> HIDE DEF F
<1>6. ASSUME NEW f \in Formulas, NEW g \in [Formulas -> V], NEW k \in [Formulas -> V],
             \A c \in Formulas : m[c] < m[f] => g[c] = k[c]
      PROVE  F[f][g] = F[f][k]
  <2>1. \A c \in Subformulas(f) : g[c] = k[c]
    BY <1>1, <1>6
  <2>2. C(g, f) = C(k, f)
    BY <2>1, <1>2
  <2> QED BY <1>4, <2>2
<1>7. Recursion(Formulas, V, m, F)
  <2>1. V # {}
    OBVIOUS
  <2> HIDE DEF m, V
  <2> QED BY <1>3, <1>5, <1>6, <2>1 DEF Recursion
<1>8. \E g : Computes(g)
  <2>1. PICK g \in [Formulas -> V] : \A f \in Formulas : g[f] = F[f][g]
    <3> HIDE DEF V, m
    <3> QED BY <1>7, RecursionExists
  <2>2. g = [f \in Formulas |-> C(g, f)]
    <3>1. \A f \in Formulas : g[f] = C(g, f)
      BY <1>4, <2>1
    <3> QED BY <3>1
  <2> QED BY <2>2
<1>9. \A f : Introspective(f, i) = (CHOOSE g : Computes(g))[f]
  BY DEF Introspective, C
<1>10. PICK g : g = (CHOOSE k : Computes(k)) /\ Computes(g)
  <2> HIDE DEF Computes
  <2> QED BY <1>8
<1>11. \A f \in Formulas : g[f] = C(g, f)
  <2>1. g = [f \in Formulas |-> C(g, f)]
    BY <1>10
  <2> QED BY <2>1
<1>12. \A f : Introspective(f, i) = g[f]
  BY <1>9, <1>10
<1> QED BY <1>11, <1>12 DEF C

\* A formula about an agent's own attitudes has one value in worlds where the agent
\* considers the same worlds possible: the ground of the refinements R2 to R4.
LEMMA OwnAttitudesTravel ==
  ASSUME NEW s, FiniteState(s), NEW i \in Agents, NEW w \in s.W, NEW v \in s.W,
         s.R[i][w] = s.R[i][v]
  PROVE  \A f \in Formulas : Introspective(f, i) => (w \in Sat(s)[f] <=> v \in Sat(s)[f])
<1>1. PICK own : /\ \A f \in Formulas : own[f] = OwnClause(own, f, i)
                 /\ \A f \in Formulas : Introspective(f, i) = own[f]
  BY IntrospectiveEquations
<1>2. PICK sat : sat = Sat(s)
  OBVIOUS
<1>3. \A f \in Formulas : sat[f] = Clause(s, sat, f)
  BY <1>2, SatEquations
<1> DEFINE Differs(f) == own[f] /\ ~(w \in sat[f] <=> v \in sat[f])
           Bad == {n \in Nat : \E f \in Formulas : Height[f] = n /\ Differs(f)}
<1>4. Bad = {}
  <2>1. SUFFICES ASSUME Bad # {}
                 PROVE  FALSE
    OBVIOUS
  <2>2. PICK n \in Nat : n \in Bad /\ \A k \in Bad : n <= k
    <3> Bad \in SUBSET Nat
      OBVIOUS
    <3> HIDE DEF Bad
    <3> QED BY <2>1, LeastNatural
  <2>3. PICK f \in Formulas : Height[f] = n /\ Differs(f)
    BY <2>2
  <2>4. ASSUME NEW c \in Subformulas(f)
        PROVE  c \in Formulas /\ ~Differs(c)
    <3>1. c \in Formulas /\ Height[c] < n /\ Height[c] \in Nat
      BY <2>3, FormulasAssumption
    <3>2. Height[c] \notin Bad
      <4> HIDE DEF Bad
      <4> QED BY <2>2, <3>1
    <3> HIDE DEF Differs
    <3> QED BY <3>1, <3>2
  <2>5. own[f] = OwnClause(own, f, i) /\ sat[f] = Clause(s, sat, f)
    BY <1>1, <1>3
  <2>6. CASE f[1] = "Top"
    BY <2>3, <2>5, <2>6 DEF Clause
  <2>7. CASE f[1] = "Bot"
    BY <2>3, <2>5, <2>7 DEF Clause
  <2>8. CASE f[1] = "Not"
    <3>1. f[2] \in Subformulas(f)
      BY <2>8 DEF Subformulas
    <3>2. own[f[2]] = own[f] /\ sat[f] = s.W \ sat[f[2]]
      BY <2>5, <2>8 DEF OwnClause, Clause
    <3> QED BY <2>3, <2>4, <3>1, <3>2
  <2>9. CASE f[1] = "And"
    <3>1. Range(f[2]) = Subformulas(f)
      BY <2>9 DEF Subformulas
    <3>2. own[f] = (\A c \in Subformulas(f) : own[c])
      BY <2>5, <2>9, <3>1 DEF OwnClause
    <3>3. sat[f] = s.W \ UNION {s.W \ sat[c] : c \in Subformulas(f)}
      BY <2>5, <2>9, <3>1 DEF Clause
    <3>4. \A c \in Subformulas(f) : w \in sat[c] <=> v \in sat[c]
      BY <2>3, <2>4, <3>2
    <3> QED BY <2>3, <3>3, <3>4
  <2>10. CASE f[1] = "Or"
    <3>1. Range(f[2]) = Subformulas(f)
      BY <2>10 DEF Subformulas
    <3>2. own[f] = (\A c \in Subformulas(f) : own[c])
      BY <2>5, <2>10, <3>1 DEF OwnClause
    <3>3. sat[f] = UNION {sat[c] : c \in Subformulas(f)}
      BY <2>5, <2>10, <3>1 DEF Clause
    <3>4. \A c \in Subformulas(f) : w \in sat[c] <=> v \in sat[c]
      BY <2>3, <2>4, <3>2
    <3> QED BY <2>3, <3>3, <3>4
  <2>11. CASE f[1] = "Belief"
    <3>1. f[2] = i
      BY <2>3, <2>5, <2>11 DEF OwnClause
    <3>2. sat[f] = Box(s, i, sat[f[3]])
      BY <2>5, <2>11, <3>1 DEF Clause
    <3> QED BY <2>3, <3>2 DEF Box
  <2>12. CASE f[1] = "Kw"
    <3>1. f[2] = i
      BY <2>3, <2>5, <2>12 DEF OwnClause
    <3>2. sat[f] = KnowsWhether(s, i, sat[f[3]])
      BY <2>5, <2>12, <3>1 DEF Clause
    <3> QED BY <2>3, <3>2 DEF KnowsWhether
  <2>13. CASE f[1] \in {"Atom", "Common"}
    BY <2>3, <2>5, <2>13 DEF OwnClause
  <2> QED BY <2>6, <2>7, <2>8, <2>9, <2>10, <2>11, <2>12, <2>13, FormulasAssumption
<1>5. \A f \in Formulas : Height[f] \in Nat
  BY FormulasAssumption
<1>6. \A f \in Formulas : ~Differs(f)
  <2> HIDE DEF Differs
  <2> QED BY <1>4, <1>5
<1> QED BY <1>1, <1>2, <1>6

-----------------------------------------------------------------------------
\* A layer that stands for a state covers what holds in it

(***************************************************************************)
(* What is true of a state r that a path of updates made of s, an mapping  *)
(* each world to the one it descends from: edges descend from edges, and   *)
(* the facts of the frame still hold.  If all events are public, an edge of*)
(* one agent is kept for every agent who had it.                           *)
(***************************************************************************)
Descends(t, s, fr, r, an) ==
  /\ FiniteState(r) /\ r.D # {}
  /\ an \in [r.W -> s.W]
  /\ \A w \in r.D : an[w] \in s.D
  /\ \A i \in Agents : \A w \in r.W : \A v \in r.R[i][w] : an[v] \in s.R[i][an[w]]
  /\ \A i \in fr.refl : IsReflexiveOn(r.R[i])
  /\ \A i \in K45Agents(t, s) : IsK45(r.R[i])
  /\ fr.public => \A i, j \in Agents : \A w \in r.W : \A v \in r.R[i][w] :
                     an[v] \in s.R[j][an[w]] => v \in r.R[j][w]

\* The worlds that i considered at the ancestor of w, and none of whose descendants
\* it considers at w.
Lost(s, r, an, i, w) == s.R[i][an[w]] \ {an[v] : v \in r.R[i][w]}

(***************************************************************************)
(* The layer L, with cut rows cut, stands for r: every literal of r may be *)
(* true where it descends from, and every world, designated world and edge *)
(* of s without a descendant is one that may have been lost.               *)
(***************************************************************************)
Covered(s, fr, L, cut, r, an) ==
  /\ \A w \in r.W, p \in Atoms :
       /\ p \in r.V[w] => an[w] \in L.canT[p]
       /\ p \notin r.V[w] => an[w] \in L.canF[p]
  /\ s.W \ Range(an) \subseteq L.elim
  /\ s.D \ {an[w] : w \in r.D} \subseteq L.elimD
  /\ \A i \in Agents, w \in r.W : \A y \in Lost(s, r, an, i, w) :
       y \in L.elim \/ PossiblyCut(fr, cut, i, an[w], y)

\* Where i believes Y, the layer allows the belief (hdelta.cpp, box).
LEMMA BeliefCovered ==
  ASSUME NEW t, NEW s, FiniteState(s), NEW fr, fr.refl \in SUBSET Agents, NEW L, NEW cut, NEW r, NEW an,
         Descends(t, s, fr, r, an), Covered(s, fr, L, cut, r, an),
         NEW i \in Agents, NEW Y \in SUBSET r.W, NEW may, \A v \in Y : an[v] \in may
  PROVE  \A w \in r.W : r.R[i][w] \subseteq Y => an[w] \in MayBelieve(s, fr, L, cut, i, may)
<1> SUFFICES ASSUME NEW w \in r.W, r.R[i][w] \subseteq Y
             PROVE  an[w] \in MayBelieve(s, fr, L, cut, i, may)
  OBVIOUS
<1>1. an[w] \in s.W
  BY DEF Descends
<1>2. ASSUME NEW y \in s.R[i][an[w]]
      PROVE  y \in L.elim \cup may \cup cut[i][an[w]]
  BY <1>2 DEF Covered, Lost, PossiblyCut
<1>3. ASSUME i \in fr.refl
      PROVE  an[w] \in L.elim \cup may
  <2>1. w \in r.R[i][w]
    BY <1>3 DEF Descends, IsReflexiveOn, FiniteState, IsState
  <2> QED BY <2>1
<1> QED BY <1>1, <1>2, <1>3 DEF MayBelieve

\* Where i considers a world of Y possible, the layer allows the doubt.
LEMMA DoubtCovered ==
  ASSUME NEW t, NEW s, NEW fr, NEW r, NEW an, Descends(t, s, fr, r, an),
         NEW i \in Agents, NEW Y \in SUBSET r.W, NEW may, \A v \in Y : an[v] \in may
  PROVE  \A w \in r.W : r.R[i][w] \cap Y # {} => an[w] \in MayDoubt(s, i, may)
BY DEF Descends, MayDoubt

\* Where a group commonly believes Y, the layer allows it (hdelta.cpp, common).
LEMMA SharingCovered ==
  ASSUME NEW t, NEW s, FiniteState(s), NEW fr, NEW L, NEW cut, NEW r, NEW an,
         Descends(t, s, fr, r, an), Covered(s, fr, L, cut, r, an),
         NEW G \in SUBSET Agents, NEW Y \in SUBSET r.W, NEW may, \A v \in Y : an[v] \in may
  PROVE  \A w \in r.W \ Leaving(r, G, Y) : an[w] \in MayShare(s, fr, L, cut, G, may)
<1>0. FiniteState(r)
  BY DEF Descends
<1> DEFINE Z == Leaving(r, G, Y)
           X == {an[w] : w \in r.W \ Z}
<1>1. r.W \ Y \subseteq Z /\ ClosedBackward(r, G, Z)
  BY <1>0, LeavingIsLeast
<1> HIDE DEF Z
<1>2. X \in SUBSET s.W
  BY DEF Descends
<1>3. ASSUME NEW w \in r.W \ Z, NEW i \in G, NEW y \in Stays(s, fr, L, cut, i, an[w])
      PROVE  y \in may /\ y \in X
  <2>1. y \notin Lost(s, r, an, i, w) /\ y \in s.R[i][an[w]]
    BY <1>3 DEF Stays, Covered
  <2>2. PICK v \in r.R[i][w] : y = an[v]
    BY <2>1 DEF Lost
  <2>3. v \in r.W
    BY <1>0 DEF FiniteState, IsState
  <2>4. v \notin Z
    BY <1>1, <1>3, <2>2, <2>3 DEF ClosedBackward
  <2> QED BY <1>1, <2>2, <2>3, <2>4
<1>4. Shared(s, fr, L, cut, G, may, X) = X
  BY <1>3 DEF Shared
<1> HIDE DEF X
<1>5. X \subseteq MayShare(s, fr, L, cut, G, may)
  BY <1>2, <1>4, MayShareIsGreatest
<1> QED BY <1>5 DEF X, Z

(***************************************************************************)
(* Where a group does not commonly believe Y, the layer allows that, if some*)
(* agent of the group is reflexive.  Without one it does not: F of common  *)
(* belief needs an edge to a world that falsifies the formula, the model   *)
(* checker also looks at the world itself.                                 *)
(***************************************************************************)
LEMMA NotSharingCovered ==
  ASSUME NEW t, NEW s, FiniteState(s), NEW fr, NEW r, NEW an, Descends(t, s, fr, r, an),
         NEW G \in SUBSET Agents, G \cap fr.refl # {},
         NEW Y \in SUBSET r.W, NEW may, \A v \in r.W \ Y : an[v] \in may
  PROVE  \A w \in Leaving(r, G, Y) : an[w] \in MayNotShare(s, G, may)
<1>0. FiniteState(r)
  BY DEF Descends
<1> DEFINE N == MayNotShare(s, G, may)
           Q == {w \in r.W : an[w] \in may \cup N}
<1>1. \A i \in G, x \in s.W : s.R[i][x] \cap (may \cup N) # {} => x \in N
  BY MayNotShareIsClosed
<1> HIDE DEF N
<1>2. ClosedBackward(r, G, Q)
  <2> SUFFICES ASSUME NEW i \in G, NEW w \in r.W, r.R[i][w] \cap Q # {}
               PROVE  w \in Q
    BY DEF ClosedBackward
  <2>1. PICK v \in r.R[i][w] : v \in Q
    OBVIOUS
  <2>2. an[v] \in s.R[i][an[w]] /\ an[w] \in s.W
    BY DEF Descends
  <2> QED BY <1>1, <2>1, <2>2
<1>3. Leaving(r, G, Y) \subseteq Q
  <2>1. r.W \ Y \subseteq Q
    OBVIOUS
  <2>2. Q \in SUBSET r.W
    OBVIOUS
  <2> HIDE DEF Q
  <2> QED BY <1>0, <1>2, <2>1, <2>2, LeavingIsLeast
<1>4. ASSUME NEW w \in Q
      PROVE  an[w] \in N
  <2>1. PICK j \in G : j \in fr.refl
    OBVIOUS
  <2>2. w \in r.R[j][w]
    BY <1>0, <2>1 DEF Descends, IsReflexiveOn, FiniteState, IsState
  <2>3. an[w] \in s.R[j][an[w]] /\ an[w] \in s.W
    BY <2>2 DEF Descends
  <2> QED BY <1>1, <1>4, <2>3
<1> QED BY <1>3, <1>4 DEF N

\* Values ev stand for formula f in r: wherever f has a truth value, the ancestor may
\* have it.
FormulaCovered(ev, r, an, f) ==
  \A w \in r.W : IF w \in Sat(r)[f] THEN an[w] \in ev[f].T ELSE an[w] \in ev[f].F

\* A formula is covered if its subformulas are, by the clause of its connective.
LEMMA ClauseCovered ==
  ASSUME NEW t, NEW s, FiniteState(s), NEW fr, fr.refl \in SUBSET Agents,
         NEW L, Literals(s, L), NEW cut, NEW r, NEW an,
         Descends(t, s, fr, r, an), Covered(s, fr, L, cut, r, an),
         NEW f \in Formulas, \A g \in Formulas : Meaningful(g), f[1] = "Common" => f[2] \cap fr.refl # {},
         \A c \in Subformulas(f) : FormulaCovered(Eval(s, fr, L, cut), r, an, c)
  PROVE  FormulaCovered(Eval(s, fr, L, cut), r, an, f)
<1>0. /\ FiniteState(r) /\ IsState(r)
      /\ \A w \in r.W : an[w] \in s.W
  BY DEF Descends, FiniteState
<1>1. PICK ev, sat : ev = Eval(s, fr, L, cut) /\ sat = Sat(r)
  OBVIOUS
<1>2. /\ ev[f] = MayClause(s, fr, L, cut, ev, f)
      /\ \A c \in Formulas : ev[c].T \in SUBSET s.W /\ ev[c].F \in SUBSET s.W
  <2>1. ev \in [Formulas -> Possible(s)] /\ ev[f] = MayClause(s, fr, L, cut, ev, f)
    BY <1>1, EvalEquations
  <2> QED BY <2>1, PossibleIs
<1>3. /\ sat[f] = Clause(r, sat, f)
      /\ \A c \in Formulas : sat[c] \in SUBSET r.W
  BY <1>0, <1>1, SatEquations
<1>4. \A c \in Subformulas(f) : c \in Formulas
  BY FormulasAssumption
<1>5. \A c \in Subformulas(f), w \in r.W :
         (w \in sat[c] => an[w] \in ev[c].T) /\ (w \notin sat[c] => an[w] \in ev[c].F)
  BY <1>1 DEF FormulaCovered
<1>6. Meaningful(f)
  OBVIOUS
<1> SUFFICES \A w \in r.W : (w \in sat[f] => an[w] \in ev[f].T) /\ (w \notin sat[f] => an[w] \in ev[f].F)
  BY <1>1 DEF FormulaCovered
<1>7. \A A, B : TV(A, B).T = A /\ TV(A, B).F = B
  BY PossibleIs
<1>10. CASE f[1] = "Top"
  <2>1. sat[f] = r.W /\ ev[f].T = s.W
    BY <1>2, <1>3, <1>7, <1>10 DEF Clause, MayClause
  <2> QED BY <1>0, <2>1
<1>11. CASE f[1] = "Bot"
  <2>1. sat[f] = {} /\ ev[f].F = s.W
    BY <1>2, <1>3, <1>7, <1>11 DEF Clause, MayClause
  <2> QED BY <1>0, <2>1
<1>12. CASE f[1] = "Atom"
  <2>1. sat[f] = {w \in r.W : f[2] \in r.V[w]} /\ f[2] \in Atoms
    BY <1>3, <1>6, <1>12 DEF Clause, Meaningful
  <2>2. ev[f].T = L.canT[f[2]] /\ ev[f].F = L.canF[f[2]]
    BY <1>2, <1>7, <1>12 DEF MayClause
  <2> QED BY <2>1, <2>2 DEF Covered
<1>13. CASE f[1] = "Not"
  <2>1. f[2] \in Subformulas(f)
    BY <1>13 DEF Subformulas
  <2>2. sat[f] = r.W \ sat[f[2]] /\ ev[f].T = ev[f[2]].F /\ ev[f].F = ev[f[2]].T
    BY <1>2, <1>3, <1>7, <1>13 DEF MayClause, Clause
  <2> QED BY <1>5, <2>1, <2>2
<1>14. CASE f[1] = "And"
  <2>1. Range(f[2]) = Subformulas(f)
    BY <1>14 DEF Subformulas
  <2>2. sat[f] = r.W \ UNION {r.W \ sat[c] : c \in Subformulas(f)}
    BY <1>3, <1>14, <2>1 DEF Clause
  <2>3. /\ ev[f].T = s.W \ UNION {s.W \ ev[c].T : c \in Subformulas(f)}
        /\ ev[f].F = UNION {ev[c].F : c \in Subformulas(f)}
    BY <1>2, <1>7, <1>14, <2>1 DEF MayClause
  <2> QED BY <1>0, <1>5, <2>2, <2>3
<1>15. CASE f[1] = "Or"
  <2>1. Range(f[2]) = Subformulas(f)
    BY <1>15 DEF Subformulas
  <2>2. sat[f] = UNION {sat[c] : c \in Subformulas(f)}
    BY <1>3, <1>15, <2>1 DEF Clause
  <2>3. /\ ev[f].T = UNION {ev[c].T : c \in Subformulas(f)}
        /\ ev[f].F = s.W \ UNION {s.W \ ev[c].F : c \in Subformulas(f)}
    BY <1>2, <1>7, <1>15, <2>1 DEF MayClause
  <2> QED BY <1>0, <1>5, <2>2, <2>3
<1>16. CASE f[1] = "Belief"
  <2>1. PICK c, i : c = f[3] /\ i = f[2] /\ c \in Subformulas(f) /\ i \in Agents
    BY <1>6, <1>16 DEF Subformulas, Meaningful
  <2>2. sat[f] = Box(r, i, sat[c])
    BY <1>3, <1>16, <2>1 DEF Clause
  <2>3. ev[f].T = MayBelieve(s, fr, L, cut, i, ev[c].T) /\ ev[f].F = MayDoubt(s, i, ev[c].F)
    BY <1>2, <1>7, <1>16, <2>1 DEF MayClause
  <2>4. PICK Y : Y = sat[c] /\ Y \in SUBSET r.W
    BY <1>3, <1>4, <2>1
  <2>5. \A w \in r.W : r.R[i][w] \subseteq Y => an[w] \in MayBelieve(s, fr, L, cut, i, ev[c].T)
    <3>1. \A v \in Y : an[v] \in ev[c].T
      BY <1>5, <2>1, <2>4
    <3> QED BY <2>1, <2>4, <3>1, BeliefCovered
  <2>6. \A w \in r.W : r.R[i][w] \cap (r.W \ Y) # {} => an[w] \in MayDoubt(s, i, ev[c].F)
    <3>1. \A v \in r.W \ Y : an[v] \in ev[c].F
      BY <1>5, <2>1, <2>4
    <3>2. r.W \ Y \in SUBSET r.W
      OBVIOUS
    <3> QED BY <2>1, <3>1, <3>2, DoubtCovered
  <2>7. \A w \in r.W : r.R[i][w] \in SUBSET r.W
    BY <1>0, <2>1 DEF IsState
  <2> QED BY <2>2, <2>3, <2>4, <2>5, <2>6, <2>7 DEF Box
<1>17. CASE f[1] = "Kw"
  <2>1. PICK c, i : c = f[3] /\ i = f[2] /\ c \in Subformulas(f) /\ i \in Agents
    BY <1>6, <1>17 DEF Subformulas, Meaningful
  <2>2. sat[f] = KnowsWhether(r, i, sat[c])
    BY <1>3, <1>17, <2>1 DEF Clause
  <2>3. /\ ev[f].T = MayBelieve(s, fr, L, cut, i, ev[c].T) \cup MayBelieve(s, fr, L, cut, i, ev[c].F)
        /\ ev[f].F = MayDoubt(s, i, ev[c].F) \cap MayDoubt(s, i, ev[c].T)
    BY <1>2, <1>7, <1>17, <2>1 DEF MayClause
  <2>4. PICK Y, N : Y = sat[c] /\ N = r.W \ Y /\ Y \in SUBSET r.W /\ N \in SUBSET r.W
    BY <1>3, <1>4, <2>1
  <2>5. (\A v \in Y : an[v] \in ev[c].T) /\ (\A v \in N : an[v] \in ev[c].F)
    BY <1>5, <2>1, <2>4
  <2>6. \A w \in r.W : r.R[i][w] \subseteq Y => an[w] \in MayBelieve(s, fr, L, cut, i, ev[c].T)
    BY <2>1, <2>4, <2>5, BeliefCovered
  <2>7. \A w \in r.W : r.R[i][w] \subseteq N => an[w] \in MayBelieve(s, fr, L, cut, i, ev[c].F)
    BY <2>1, <2>4, <2>5, BeliefCovered
  <2>8. \A w \in r.W : r.R[i][w] \cap Y # {} => an[w] \in MayDoubt(s, i, ev[c].T)
    BY <2>1, <2>4, <2>5, DoubtCovered
  <2>9. \A w \in r.W : r.R[i][w] \cap N # {} => an[w] \in MayDoubt(s, i, ev[c].F)
    BY <2>1, <2>4, <2>5, DoubtCovered
  <2>10. \A w \in r.W : r.R[i][w] \in SUBSET r.W
    BY <1>0, <2>1 DEF IsState
  <2>11. \A w \in r.W : /\ (w \in sat[f] <=> r.R[i][w] \subseteq Y \/ r.R[i][w] \subseteq N)
                        /\ (w \notin sat[f] <=> r.R[i][w] \cap Y # {} /\ r.R[i][w] \cap N # {})
    BY <2>2, <2>4, <2>10 DEF KnowsWhether
  <2> QED BY <2>3, <2>6, <2>7, <2>8, <2>9, <2>11
<1>18. CASE f[1] = "Common"
  <2>1. PICK c, G : c = f[3] /\ G = f[2] /\ c \in Subformulas(f) /\ G \in SUBSET Agents /\ G \cap fr.refl # {}
    BY <1>6, <1>18 DEF Subformulas, Meaningful
  <2>2. sat[f] = r.W \ Leaving(r, G, sat[c])
    <3>1. G \cap Agents = G
      BY <2>1
    <3>2. sat[f] = r.W \ Leaving(r, f[2] \cap Agents, sat[f[3]])
      BY <1>3, <1>18 DEF Clause
    <3> QED BY <2>1, <3>1, <3>2
  <2>3. ev[f].T = MayShare(s, fr, L, cut, G, ev[c].T) /\ ev[f].F = MayNotShare(s, G, ev[c].F)
    BY <1>2, <1>7, <1>18, <2>1 DEF MayClause
  <2>4. PICK Y : Y = sat[c] /\ Y \in SUBSET r.W
    BY <1>3, <1>4, <2>1
  <2>5. (\A v \in Y : an[v] \in ev[c].T) /\ (\A v \in r.W \ Y : an[v] \in ev[c].F)
    BY <1>5, <2>1, <2>4
  <2>6. \A w \in r.W \ Leaving(r, G, Y) : an[w] \in MayShare(s, fr, L, cut, G, ev[c].T)
    BY <2>1, <2>4, <2>5, SharingCovered
  <2>7. \A w \in Leaving(r, G, Y) : an[w] \in MayNotShare(s, G, ev[c].F)
    BY <2>1, <2>4, <2>5, NotSharingCovered
  <2> QED BY <2>2, <2>3, <2>4, <2>6, <2>7
<1> QED BY <1>10, <1>11, <1>12, <1>13, <1>14, <1>15, <1>16, <1>17, <1>18, FormulasAssumption

\* Every formula of a set closed under subformulas is covered, whatever its depth, if
\* groups with common belief have a reflexive agent.
LEMMA FormulasAreCovered ==
  ASSUME NEW t, NEW s, FiniteState(s), NEW fr, fr.refl \in SUBSET Agents,
         NEW L, Literals(s, L), NEW cut, NEW r, NEW an,
         Descends(t, s, fr, r, an), Covered(s, fr, L, cut, r, an),
         \A g \in Formulas : Meaningful(g),
         NEW A, \A f \in A : f \in Formulas /\ Subformulas(f) \subseteq A,
         \A f \in A : f[1] = "Common" => f[2] \cap fr.refl # {}
  PROVE  \A f \in A : FormulaCovered(Eval(s, fr, L, cut), r, an, f)
<1> DEFINE Fine(f) == FormulaCovered(Eval(s, fr, L, cut), r, an, f)
           Bad == {n \in Nat : \E f \in A : Height[f] = n /\ ~Fine(f)}
<1> HIDE DEF Fine
<1>1. Bad = {}
  <2>1. SUFFICES ASSUME Bad # {}
                 PROVE  FALSE
    OBVIOUS
  <2>2. PICK n \in Nat : n \in Bad /\ \A k \in Bad : n <= k
    <3> Bad \in SUBSET Nat
      OBVIOUS
    <3> HIDE DEF Bad
    <3> QED BY <2>1, LeastNatural
  <2>3. PICK f \in A : Height[f] = n /\ ~Fine(f)
    BY <2>2
  <2>4. ASSUME NEW c \in Subformulas(f)
        PROVE  Fine(c)
    <3>1. c \in A /\ Height[c] < n /\ Height[c] \in Nat
      BY <2>3, FormulasAssumption
    <3>2. Height[c] \notin Bad
      <4> HIDE DEF Bad
      <4> QED BY <2>2, <3>1
    <3> QED BY <3>1, <3>2
  <2>5. f \in Formulas /\ (f[1] = "Common" => f[2] \cap fr.refl # {})
    OBVIOUS
  <2>6. Fine(f)
    BY <2>4, <2>5, ClauseCovered DEF Fine
  <2> QED BY <2>3, <2>6
<1>2. \A f \in A : Height[f] \in Nat
  BY FormulasAssumption
<1> QED BY <1>1, <1>2 DEF Fine

-----------------------------------------------------------------------------
\* What a step of the relaxation allows

\* The events of a task, numbered by action and event.
LEMMA AllEventsAre ==
  ASSUME NEW t
  PROVE  /\ \A x, e : <<x, e>> \in AllEvents(t) <=> x \in DOMAIN t.actions /\ e \in Events(t.actions[x])
         /\ \A g \in AllEvents(t) : /\ g = <<g[1], g[2]>> /\ g[1] \in DOMAIN t.actions
                                    /\ g[2] \in Events(t.actions[g[1]])
<1> DEFINE events(x) == {<<x, e>> : e \in Events(t.actions[x])}
<1>1. AllEvents(t) = UNION {events(x) : x \in DOMAIN t.actions}
  BY DEF AllEvents
<1>2. \A x, g : g \in events(x) <=> \E e \in Events(t.actions[x]) : g = <<x, e>>
  OBVIOUS
<1> HIDE DEF events
<1>3. \A g : g \in AllEvents(t) <=> \E x \in DOMAIN t.actions : g \in events(x)
  BY <1>1
<1>4. \A g : g \in AllEvents(t) <=>
               \E x \in DOMAIN t.actions : \E e \in Events(t.actions[x]) : g = <<x, e>>
  BY <1>2, <1>3
<1> QED BY <1>4

\* M allows whatever L allows.
Grows(t, L, M) ==
  /\ \A p \in Atoms : L.canT[p] \subseteq M.canT[p] /\ L.canF[p] \subseteq M.canF[p]
  /\ L.elim \subseteq M.elim /\ L.elimD \subseteq M.elimD
  /\ \A g \in AllEvents(t) : L.genT[g] \subseteq M.genT[g] /\ L.genF[g] \subseteq M.genF[g]
  /\ L.app \subseteq M.app /\ L.types \subseteq M.types

\* The fields of the next layer.
LEMMA StepLayerIs ==
  ASSUME NEW t, NEW s, NEW fr, NEW L
  PROVE  LET M == StepLayer(t, s, fr, L)
         IN  /\ M.genT = MayHappen(t, L) /\ M.genF = MayFail(t, L)
             /\ M.app = MayApply(t, s, L, M.genT)
             /\ M.types = MayObserve(t, s, L, M.app)
             /\ \A p \in Atoms : /\ M.canT[p] = L.canT[p] \cup MayAdd(t, L, M.genT, M.app, p)
                                /\ M.canF[p] = L.canF[p] \cup MayDelete(t, L, M.genT, M.app, p)
             /\ M.elim = L.elim \cup UNION {MayDrop(t, s, fr, L, M.genF, x) : x \in M.app}
             /\ M.elimD = L.elimD \cup (M.elim \cap s.D) \cup MayLeaveOut(t, s, M.genF, M.app)
<1>1. PICK M : M = StepLayer(t, s, fr, L)
  OBVIOUS
<1>2. M.genT = MayHappen(t, L) /\ M.genF = MayFail(t, L)
  BY <1>1 DEF StepLayer
<1>3. M.app = MayApply(t, s, L, M.genT)
  BY <1>1 DEF StepLayer
<1>4. M.types = MayObserve(t, s, L, M.app)
  BY <1>1 DEF StepLayer
<1>5. M.elim = L.elim \cup UNION {MayDrop(t, s, fr, L, M.genF, x) : x \in M.app}
  BY <1>1 DEF StepLayer
<1>6. M.elimD = L.elimD \cup (M.elim \cap s.D) \cup MayLeaveOut(t, s, M.genF, M.app)
  BY <1>1 DEF StepLayer
<1>7. M.canT = [p \in Atoms |-> L.canT[p] \cup MayAdd(t, L, M.genT, M.app, p)]
  BY <1>1, TableIs DEF StepLayer
<1>8. M.canF = [p \in Atoms |-> L.canF[p] \cup MayDelete(t, L, M.genT, M.app, p)]
  BY <1>1, TableIs DEF StepLayer
<1>9. \A p \in Atoms : /\ M.canT[p] = L.canT[p] \cup MayAdd(t, L, M.genT, M.app, p)
                       /\ M.canF[p] = L.canF[p] \cup MayDelete(t, L, M.genT, M.app, p)
  BY <1>7, <1>8
<1> QED BY <1>1, <1>2, <1>3, <1>4, <1>5, <1>6, <1>9

\* The next layer allows what its predecessor allows and what an update of a state
\* covered by the predecessor may bring (hdelta.cpp, step).
LEMMA StepAllows ==
  ASSUME NEW t, NEW s, NEW fr, NEW L
  PROVE  LET M == StepLayer(t, s, fr, L)
         IN  /\ \A g \in AllEvents(t) : /\ M.genT[g] = L.genT[g] \cup L.tv[EventOf(t, g).pre].T
                                       /\ M.genF[g] = L.genF[g] \cup L.tv[EventOf(t, g).pre].F
             /\ \A x \in DOMAIN t.actions : \A e \in t.actions[x].designated :
                   s.D \cap M.genT[<<x, e>>] # {} => x \in M.app
             /\ \A x \in M.app, i \in Agents : \A k \in Kinds(t.actions[x], i) :
                   k = 0 \/ s.D \cap L.tv[Cases(t.actions[x], i)[k].cond].T # {} => <<x, i, k>> \in M.types
             /\ \A g \in AllEvents(t), p \in Atoms :
                  g[1] \in M.app =>
                   /\ p \in DOMAIN EventOf(t, g).add =>
                        L.tv[EventOf(t, g).add[p]].T \cap M.genT[g] \subseteq M.canT[p]
                   /\ p \in DOMAIN EventOf(t, g).del =>
                        L.tv[EventOf(t, g).del[p]].T \cap M.genT[g] \subseteq M.canF[p]
             /\ \A x \in M.app : \A w \in s.W :
                  /\ \A e \in Events(t.actions[x]) : w \in M.genF[<<x, e>>]
                  /\ w \notin SurelySpared(t, s, fr, L, x)
                  /\ w \in s.D => w \in L.elimD
                  => w \in M.elim
             /\ M.elim \cap s.D \subseteq M.elimD
             /\ \A g \in AllEvents(t) :
                  /\ g[1] \in M.app /\ ~IsOntic(t.actions[g[1]])
                  /\ g[2] \in t.actions[g[1]].designated
                  => s.D \cap M.genF[g] \subseteq M.elimD
             /\ Grows(t, L, M)
<1>1. PICK M : M = StepLayer(t, s, fr, L)
  OBVIOUS
<1>2. \A g \in AllEvents(t) : /\ M.genT[g] = L.genT[g] \cup L.tv[EventOf(t, g).pre].T
                              /\ M.genF[g] = L.genF[g] \cup L.tv[EventOf(t, g).pre].F
  <2>1. M.genT = MayHappen(t, L) /\ M.genF = MayFail(t, L)
    BY <1>1, StepLayerIs
  <2> QED BY <2>1, TableIs DEF MayHappen, MayFail
<1>3. L.app \subseteq M.app /\ \A x \in DOMAIN t.actions : \A e \in t.actions[x].designated :
         s.D \cap M.genT[<<x, e>>] # {} => x \in M.app
  <2>1. M.app = MayApply(t, s, L, M.genT)
    BY <1>1, StepLayerIs
  <2> QED BY <2>1 DEF MayApply
<1>4. L.types \subseteq M.types /\ \A x \in M.app, i \in Agents : \A k \in Kinds(t.actions[x], i) :
         k = 0 \/ s.D \cap L.tv[Cases(t.actions[x], i)[k].cond].T # {} => <<x, i, k>> \in M.types
  <2> DEFINE kinds(x, i) == {j \in Kinds(t.actions[x], i) :
                               j = 0 \/ s.D \cap L.tv[Cases(t.actions[x], i)[j].cond].T # {}}
             related(x, i) == {<<x, i, k>> : k \in kinds(x, i)}
  <2>1. M.types = L.types \cup UNION {related(x, i) : x \in M.app, i \in Agents}
    BY <1>1, StepLayerIs DEF MayObserve
  <2>2. \A x, i, k : k \in kinds(x, i) => <<x, i, k>> \in related(x, i)
    OBVIOUS
  <2>3. \A x \in M.app, i \in Agents : related(x, i) \subseteq M.types
    <3> HIDE DEF related
    <3> QED BY <2>1
  <2>4. L.types \subseteq M.types
    <3> HIDE DEF related
    <3> QED BY <2>1
  <2> QED BY <2>2, <2>3, <2>4
<1>5. \A g \in AllEvents(t), p \in Atoms :
         g[1] \in M.app =>
          /\ p \in DOMAIN EventOf(t, g).add => L.tv[EventOf(t, g).add[p]].T \cap M.genT[g] \subseteq M.canT[p]
          /\ p \in DOMAIN EventOf(t, g).del => L.tv[EventOf(t, g).del[p]].T \cap M.genT[g] \subseteq M.canF[p]
  <2>1. \A p \in Atoms : /\ MayAdd(t, L, M.genT, M.app, p) \subseteq M.canT[p]
                         /\ MayDelete(t, L, M.genT, M.app, p) \subseteq M.canF[p]
    BY <1>1, StepLayerIs
  <2> QED BY <2>1 DEF MayAdd, MayDelete
<1>6. L.elim \subseteq M.elim /\ \A x \in M.app : MayDrop(t, s, fr, L, M.genF, x) \subseteq M.elim
  BY <1>1, StepLayerIs
<1>7. \A x \in M.app : \A w \in s.W :
         /\ \A e \in Events(t.actions[x]) : w \in M.genF[<<x, e>>]
         /\ w \notin SurelySpared(t, s, fr, L, x)
         /\ w \in s.D => w \in L.elimD
         => w \in M.elim
  BY <1>6 DEF MayDrop
<1>8. /\ L.elimD \subseteq M.elimD /\ M.elim \cap s.D \subseteq M.elimD
      /\ MayLeaveOut(t, s, M.genF, M.app) \subseteq M.elimD
  BY <1>1, StepLayerIs
<1>9. \A g \in AllEvents(t) :
         g[1] \in M.app /\ ~IsOntic(t.actions[g[1]]) /\ g[2] \in t.actions[g[1]].designated
         => s.D \cap M.genF[g] \subseteq M.elimD
  BY <1>8 DEF MayLeaveOut
<1>10. \A p \in Atoms : L.canT[p] \subseteq M.canT[p] /\ L.canF[p] \subseteq M.canF[p]
  BY <1>1, StepLayerIs
<1>11. Grows(t, L, M)
  BY <1>2, <1>3, <1>4, <1>6, <1>8, <1>10 DEF Grows
<1> QED BY <1>1, <1>2, <1>3, <1>4, <1>5, <1>7, <1>8, <1>9, <1>11

\* A relation that may tell worlds apart for agent i where event g happens.
Hidden(t, fr, L, a, g, i, k) ==
  <<g[1], i, k>> \in L.types /\ ~(i \in fr.intro[g] /\ g[2] \in Relation(a, i, k)[g[2]])

\* What lies in a separated set.
LEMMA SeparatedIs ==
  ASSUME NEW t, NEW s, NEW fr, NEW L, NEW g, NEW i
  PROVE  LET a == t.actions[g[1]]
         IN  \A y : y \in Separated(t, s, fr, L, g, i) <=>
                      /\ y \in s.W
                      /\ \E k \in Kinds(a, i) :
                           /\ Hidden(t, fr, L, a, g, i, k)
                           /\ \A f \in Relation(a, i, k)[g[2]] : y \in L.genF[<<g[1], f>>]
<1> DEFINE a == t.actions[g[1]]
           kinds == {k \in Kinds(a, i) : Hidden(t, fr, L, a, g, i, k)}
           told(k) == {y \in s.W : \A f \in Relation(a, i, k)[g[2]] : y \in L.genF[<<g[1], f>>]}
<1>1. Separated(t, s, fr, L, g, i) = UNION {told(k) : k \in kinds}
  BY DEF Separated, Hidden
<1>2. \A y, k : y \in told(k) <=> y \in s.W /\ \A f \in Relation(a, i, k)[g[2]] : y \in L.genF[<<g[1], f>>]
  OBVIOUS
<1>3. \A y : y \in Separated(t, s, fr, L, g, i) <=> \E k \in kinds : y \in told(k)
  <2> HIDE DEF kinds, told
  <2> QED BY <1>1
<1> HIDE DEF told
<1> QED BY <1>2, <1>3

\* An edge from x to y that event g cannot cut because it is public (R4).
Spared(s, fr, g, x, y) == fr.public /\ \E j \in fr.intro[g] : y \in s.R[j][x]

\* What lies in a cut row (hdelta.cpp, cut_row).
LEMMA CutRowsAre ==
  ASSUME NEW t, NEW s, NEW fr, NEW L, NEW i \in Agents, NEW x \in s.W
  PROVE  \A y : y \in CutRows(t, s, fr, L)[i][x] <=>
           \E g \in AllEvents(t) : /\ g[1] \in L.app /\ x \in L.genT[g]
                                   /\ y \in Separated(t, s, fr, L, g, i)
                                   /\ ~Spared(s, fr, g, x, y)
<1> DEFINE sep == [p \in AllEvents(t) \X Agents |-> Separated(t, s, fr, L, p[1], p[2])]
           happen == {g \in AllEvents(t) : g[1] \in L.app /\ x \in L.genT[g]}
           spared(g) == IF fr.public THEN UNION {s.R[j][x] : j \in fr.intro[g]} ELSE {}
           cut(g) == Separated(t, s, fr, L, g, i) \ spared(g)
<1>1. CutRows(t, s, fr, L)[i][x] = UNION {sep[<<g, i>>] \ spared(g) : g \in happen}
  BY DEF CutRows, Table
<1>2. \A g \in AllEvents(t) : sep[<<g, i>>] = Separated(t, s, fr, L, g, i)
  OBVIOUS
<1>3. \A y, g : y \in spared(g) <=> Spared(s, fr, g, x, y)
  BY DEF Spared
<1> HIDE DEF sep, spared, happen
<1>4. \A y : y \in CutRows(t, s, fr, L)[i][x] <=> \E g \in happen : y \in sep[<<g, i>>] /\ y \notin spared(g)
  BY <1>1
<1> QED BY <1>2, <1>3, <1>4 DEF happen

\* The event relation an update gives an agent is the default or that of a case whose
\* condition holds.
LEMMA RelationIs ==
  ASSUME NEW a, IsAction(a), NEW i \in Agents
  PROVE  /\ \A k \in Kinds(a, i) : Relation(a, i, k) \in EventRelations(a)
         /\ \A s : \E k \in Kinds(a, i) :
               /\ EventRelation(s, a, i) = Relation(a, i, k)
               /\ k = 0 \/ Satisfies(s, Cases(a, i)[k].cond)
<1>1. a.default \in EventRelations(a)
  BY DEF IsAction
<1>2. Len(Cases(a, i)) \in Nat /\ DOMAIN Cases(a, i) = 1 .. Len(Cases(a, i))
  BY DEF IsAction
<1>3. \A k \in DOMAIN Cases(a, i) : Cases(a, i)[k].rel \in EventRelations(a)
  BY DEF IsAction
<1>4. \A k \in Kinds(a, i) : k = 0 \/ k \in DOMAIN Cases(a, i)
  BY DEF Kinds
<1>5. ASSUME NEW s
      PROVE  \E k \in Kinds(a, i) : /\ EventRelation(s, a, i) = Relation(a, i, k)
                                    /\ k = 0 \/ Satisfies(s, Cases(a, i)[k].cond)
  <2> DEFINE hold == {k \in DOMAIN Cases(a, i) : Satisfies(s, Cases(a, i)[k].cond)}
  <2>1. EventRelation(s, a, i) = IF hold = {} THEN a.default ELSE Cases(a, i)[Min(hold)].rel
    BY DEF EventRelation
  <2>2. CASE hold = {}
    <3>1. EventRelation(s, a, i) = Relation(a, i, 0) /\ 0 \in Kinds(a, i)
      BY <2>1, <2>2 DEF Relation, Kinds
    <3> QED BY <3>1
  <2>3. CASE hold # {}
    <3>1. hold \in SUBSET Nat
      BY <1>2
    <3>2. Min(hold) \in hold
      <4> HIDE DEF hold
      <4> QED BY <2>3, <3>1, MinIs
    <3>3. Min(hold) \in Kinds(a, i) /\ Min(hold) # 0 /\ Satisfies(s, Cases(a, i)[Min(hold)].cond)
      BY <1>2, <3>2 DEF Kinds
    <3>4. EventRelation(s, a, i) = Relation(a, i, Min(hold))
      BY <2>1, <2>3, <3>3 DEF Relation
    <3> QED BY <3>3, <3>4
  <2> QED BY <2>2, <2>3
<1> QED BY <1>1, <1>3, <1>4, <1>5 DEF Relation

\* A layer that allows more cuts more.
LEMMA CutsGrow ==
  ASSUME NEW t, \A x \in DOMAIN t.actions : IsAction(t.actions[x]),
         NEW s, NEW fr, NEW L, NEW M, Grows(t, L, M), NEW i \in Agents, NEW x \in s.W
  PROVE  CutRows(t, s, fr, L)[i][x] \subseteq CutRows(t, s, fr, M)[i][x]
<1> SUFFICES ASSUME NEW y \in CutRows(t, s, fr, L)[i][x]
             PROVE  y \in CutRows(t, s, fr, M)[i][x]
  OBVIOUS
<1>1. PICK g \in AllEvents(t) : /\ g[1] \in L.app /\ x \in L.genT[g]
                                /\ y \in Separated(t, s, fr, L, g, i)
                                /\ ~Spared(s, fr, g, x, y)
  BY CutRowsAre
<1>2. PICK a : a = t.actions[g[1]] /\ IsAction(a) /\ g[2] \in Events(a) /\ g[1] \in DOMAIN t.actions
  BY AllEventsAre
<1>3. PICK k \in Kinds(a, i) : /\ Hidden(t, fr, L, a, g, i, k)
                               /\ \A f \in Relation(a, i, k)[g[2]] : y \in L.genF[<<g[1], f>>]
  BY <1>1, <1>2, SeparatedIs
<1>4. Relation(a, i, k)[g[2]] \subseteq Events(a)
  BY <1>2, RelationIs DEF EventRelations
<1>5. \A f \in Relation(a, i, k)[g[2]] : y \in M.genF[<<g[1], f>>]
  BY <1>2, <1>3, <1>4, AllEventsAre DEF Grows
<1>6. Hidden(t, fr, M, a, g, i, k) /\ y \in s.W
  BY <1>1, <1>3, SeparatedIs DEF Hidden, Grows
<1>7. y \in Separated(t, s, fr, M, g, i)
  BY <1>2, <1>5, <1>6, SeparatedIs
<1>8. g[1] \in M.app /\ x \in M.genT[g]
  BY <1>1 DEF Grows
<1> QED BY <1>1, <1>7, <1>8, CutRowsAre

-----------------------------------------------------------------------------
\* Updates of a state that a layer stands for

\* A layer with its caches is the layer, its cut rows and its evaluation.
LEMMA CachedIs ==
  ASSUME NEW s, NEW fr, NEW M, NEW cut
  PROVE  LET L == Cached(s, fr, M, cut)
         IN  /\ L.canT = M.canT /\ L.canF = M.canF /\ L.elim = M.elim /\ L.elimD = M.elimD
             /\ L.genT = M.genT /\ L.genF = M.genF /\ L.app = M.app /\ L.types = M.types
             /\ L.cut = cut /\ L.tv = Eval(s, fr, M, cut)
BY DEF Cached

\* The literals of the first layer are those of the state.
LEMMA FirstLiterals ==
  ASSUME NEW t, NEW s
  PROVE  /\ Literals(s, FirstLayer(t, s))
         /\ \A p \in Atoms : /\ FirstLayer(t, s).canT[p] = {w \in s.W : p \in s.V[w]}
                             /\ FirstLayer(t, s).canF[p] = {w \in s.W : p \notin s.V[w]}
<1>1. \A p \in Atoms : /\ FirstLayer(t, s).canT[p] = {w \in s.W : p \in s.V[w]}
                       /\ FirstLayer(t, s).canF[p] = {w \in s.W : p \notin s.V[w]}
  BY TableIs DEF FirstLayer
<1> QED BY <1>1 DEF Literals

\* The next layer gives atoms to worlds of the state again.
LEMMA StepLiterals ==
  ASSUME NEW t, \A x \in DOMAIN t.actions : IsAction(t.actions[x]),
         NEW s, FiniteState(s), NEW fr, NEW K, Literals(s, K), NEW cut,
         \A f \in Formulas : Meaningful(f)
  PROVE  Literals(s, StepLayer(t, s, fr, Cached(s, fr, K, cut)))
<1>1. PICK L, M : L = Cached(s, fr, K, cut) /\ M = StepLayer(t, s, fr, L)
  OBVIOUS
<1>2. \A f \in Formulas : L.tv[f].T \in SUBSET s.W
  <2>1. L.tv \in [Formulas -> Possible(s)]
    BY <1>1, CachedIs, EvalEquations
  <2> QED BY <2>1, PossibleIs
<1>3. ASSUME NEW g \in AllEvents(t)
      PROVE  IsEffect(EventOf(t, g).add) /\ IsEffect(EventOf(t, g).del)
  BY AllEventsAre DEF IsAction, EventOf
<1>4. ASSUME NEW p \in Atoms
      PROVE  M.canT[p] \in SUBSET s.W
  <2>1. MayAdd(t, L, M.genT, M.app, p) \in SUBSET s.W
    BY <1>2, <1>3 DEF MayAdd, IsEffect
  <2>2. L.canT[p] \in SUBSET s.W
    BY <1>1, CachedIs DEF Literals
  <2> QED BY <1>1, <2>1, <2>2, StepLayerIs
<1>5. ASSUME NEW p \in Atoms
      PROVE  M.canF[p] \in SUBSET s.W
  <2>1. MayDelete(t, L, M.genT, M.app, p) \in SUBSET s.W
    BY <1>2, <1>3 DEF MayDelete, IsEffect
  <2>2. L.canF[p] \in SUBSET s.W
    BY <1>1, CachedIs DEF Literals
  <2> QED BY <1>1, <2>1, <2>2, StepLayerIs
<1> QED BY <1>1, <1>4, <1>5 DEF Literals

\* Each event relation an agent may be given is among those the frame is read off.
LEMMA RelationsOfAre ==
  ASSUME NEW t
  PROVE  \A i : \A x \in DOMAIN t.actions : \A k \in Kinds(t.actions[x], i) :
            Relation(t.actions[x], i, k) \in RelationsOf(t, i)
<1> DEFINE given(i, x) == {Relation(t.actions[x], i, k) : k \in Kinds(t.actions[x], i)}
<1>1. \A i : RelationsOf(t, i) = UNION {given(i, x) : x \in DOMAIN t.actions}
  BY DEF RelationsOf
<1>2. \A i, x : \A k \in Kinds(t.actions[x], i) : Relation(t.actions[x], i, k) \in given(i, x)
  OBVIOUS
<1> HIDE DEF given
<1> QED BY <1>1, <1>2

\* What the facts of the frame say of the state and of every event relation.
LEMMA FrameIs ==
  ASSUME NEW t, NEW s
  PROVE  LET fr == Frame(t, s)
         IN  /\ fr.refl \in SUBSET Agents
             /\ \A i \in fr.refl : /\ IsReflexiveOn(s.R[i])
                                   /\ \A x \in DOMAIN t.actions : \A k \in Kinds(t.actions[x], i) :
                                         IsReflexiveOn(Relation(t.actions[x], i, k))
             /\ \A i \in K45Agents(t, s) :
                   /\ i \in Agents /\ IsK45(s.R[i])
                   /\ \A x \in DOMAIN t.actions : \A k \in Kinds(t.actions[x], i) :
                         IsK45(Relation(t.actions[x], i, k))
             /\ \A g \in AllEvents(t) : \A i : i \in fr.intro[g] <=>
                   i \in K45Agents(t, s) /\ Introspective(EventOf(t, g).pre, i)
<1>1. \A i : \A x \in DOMAIN t.actions : \A k \in Kinds(t.actions[x], i) :
         Relation(t.actions[x], i, k) \in RelationsOf(t, i)
  BY RelationsOfAre
<1>2. PICK fr : fr = Frame(t, s)
  OBVIOUS
<1>3. fr.refl = Reflexive(t, s) /\ fr.intro = Intro(t, s) /\ fr.public = Public(t)
  BY <1>2 DEF Frame
<1>4. /\ fr.refl \in SUBSET Agents
      /\ \A i \in fr.refl : IsReflexiveOn(s.R[i]) /\ \A R \in RelationsOf(t, i) : IsReflexiveOn(R)
  BY <1>3 DEF Reflexive
<1>5. \A i \in K45Agents(t, s) : i \in Agents /\ IsK45(s.R[i]) /\ \A R \in RelationsOf(t, i) : IsK45(R)
  BY DEF K45Agents
<1>6. \A g \in AllEvents(t) : \A i : i \in fr.intro[g] <=>
         i \in K45Agents(t, s) /\ Introspective(EventOf(t, g).pre, i)
  BY <1>3, TableIs DEF Intro
<1> QED BY <1>1, <1>2, <1>4, <1>5, <1>6

\* If all events are public an agent takes an event for itself and nothing else.
LEMMA PublicIs ==
  ASSUME NEW t, Public(t)
  PROVE  \A x \in DOMAIN t.actions, i \in Agents : \A k \in Kinds(t.actions[x], i) :
            \A e \in DOMAIN Relation(t.actions[x], i, k) :
               \A f : f \in Relation(t.actions[x], i, k)[e] <=> f = e
<1> SUFFICES ASSUME NEW x \in DOMAIN t.actions, NEW i \in Agents, NEW k \in Kinds(t.actions[x], i),
                    NEW e \in DOMAIN Relation(t.actions[x], i, k)
             PROVE  \A f : f \in Relation(t.actions[x], i, k)[e] <=> f = e
  OBVIOUS
<1>1. Relation(t.actions[x], i, k) \in RelationsOf(t, i)
  BY RelationsOfAre
<1>2. \A R \in RelationsOf(t, i) : \A d \in DOMAIN R : R[d] = {d}
  BY DEF Public
<1> QED BY <1>1, <1>2

\* n is an update of r with all outcomes or with one of them.
Follows(r, a, n) ==
  LET m == Product(r, a)
  IN  /\ n.W = m.W /\ n.V = m.V /\ n.R = m.R
      /\ n.D # {}
      /\ \/ n.D = m.D
         \/ \E e \in a.designated : n.D = Happened(m, e)

\* What the update and its split return follows, unless seriality is repaired.
LEMMA FollowsIs ==
  ASSUME NEW r, FiniteState(r), NEW a, IsAction(a), Applicable(r, a),
         NEW seriality \in {"Ignore", "Require"}, NEW cap, ProductUpdate(r, a, seriality, cap).ok
  PROVE  /\ Follows(r, a, ProductUpdate(r, a, seriality, cap).state)
         /\ \A e \in DOMAIN ProductUpdateSplit(r, a, seriality, cap) :
               Follows(r, a, ProductUpdateSplit(r, a, seriality, cap)[e])
<1>1. PICK m, full : m = Product(r, a) /\ full = ProductUpdate(r, a, seriality, cap)
  OBVIOUS
<1>2. m.D # {} /\ m.W # {}
  <2>1. PICK d \in r.D : \E e \in a.designated : d \in Sat(r)[a.events[e].pre]
    BY DEF Applicable
  <2>2. PICK e \in a.designated : d \in Sat(r)[a.events[e].pre]
    BY <2>1
  <2>3. e \in Events(a)
    BY DEF IsAction
  <2>4. <<d, e>> \in m.W /\ <<d, e>> \in m.D
    BY <1>1, <2>2, <2>3, ProductIs
  <2> QED BY <2>4
<1>3. full = Admit(m, seriality)
  BY <1>1, OkIs DEF ProductUpdate
<1>4. full = Ok(m)
  BY <1>1, <1>2, <1>3, AdmitIs, OkIs
<1>5. full.state = m /\ full.ok
  BY <1>4, OkIs
<1>6. Follows(r, a, m)
  BY <1>1, <1>2 DEF Follows
<1>7. ProductUpdateSplit(r, a, seriality, cap) = Outcomes(m, a)
  BY <1>1, <1>5 DEF ProductUpdateSplit, SplitOf
<1>8. ASSUME NEW e \in DOMAIN Outcomes(m, a)
      PROVE  Follows(r, a, Outcomes(m, a)[e])
  <2>1. Outcomes(m, a)[e] = Designating(m, Happened(m, e))
    BY OutcomesAre
  <2>2. DOMAIN Outcomes(m, a) = {d \in a.designated : Happened(m, d) # {}}
    BY OutcomesAre
  <2>3. e \in a.designated /\ Happened(m, e) # {}
    BY <2>2
  <2> QED BY <1>1, <2>1, <2>3 DEF Follows, Designating
<1> QED BY <1>1, <1>5, <1>6, <1>7, <1>8

\* The worlds, designated worlds, valuations and edges of an update.
LEMMA FollowsMeans ==
  ASSUME NEW r, FiniteState(r), NEW a, IsAction(a), NEW n, Follows(r, a, n)
  PROVE  /\ FiniteState(n) /\ n.D # {}
         /\ \A z \in n.W : z = <<z[1], z[2]>>
         /\ \A w, e : <<w, e>> \in n.W <=> e \in Events(a) /\ w \in Sat(r)[a.events[e].pre]
         /\ \A w, e : <<w, e>> \in n.W => w \in r.W /\ n.V[<<w, e>>] = After(r, a.events[e], w)
         /\ \A w, e : <<w, e>> \in n.D => <<w, e>> \in n.W /\ w \in r.D /\ e \in a.designated
         /\ \A i \in Agents : \A w, e, u, g : <<w, e>> \in n.W =>
              (<<u, g>> \in n.R[i][<<w, e>>] <=>
                 <<u, g>> \in n.W /\ u \in r.R[i][w] /\ g \in EventRelation(r, a, i)[e])
<1>1. PICK m : m = Product(r, a)
  OBVIOUS
<1>2. /\ FiniteState(m) /\ IsState(m)
      /\ \A x \in m.W : x = <<x[1], x[2]>>
      /\ \A w, e : <<w, e>> \in m.W <=> e \in Events(a) /\ w \in Sat(r)[a.events[e].pre]
      /\ \A w, e : <<w, e>> \in m.W => m.V[<<w, e>>] = After(r, a.events[e], w)
      /\ \A w, e : <<w, e>> \in m.D => <<w, e>> \in m.W /\ w \in r.D /\ e \in a.designated
      /\ \A i \in Agents : \A w, e, u, g : <<w, e>> \in m.W =>
           (<<u, g>> \in m.R[i][<<w, e>>] <=>
              <<u, g>> \in m.W /\ u \in r.R[i][w] /\ g \in EventRelation(r, a, i)[e])
  BY <1>1, ProductIs DEF FiniteState
<1>3. n.W = m.W /\ n.V = m.V /\ n.R = m.R /\ n.D # {} /\ n.D \subseteq m.D
  BY <1>1 DEF Follows, Happened
<1>4. FiniteState(n)
  BY <1>2, <1>3 DEF FiniteState, IsState
<1>5. \A w, e : <<w, e>> \in m.W => w \in r.W
  <2>1. \A e \in Events(a) : a.events[e].pre \in Formulas
    BY DEF IsAction
  <2>2. \A f \in Formulas : Sat(r)[f] \in SUBSET r.W
    BY SatEquations
  <2> QED BY <1>2, <2>1, <2>2
<1> QED BY <1>2, <1>3, <1>4, <1>5

\* An update keeps edges descending from edges and the facts of the frame: they are
\* invariants though the relaxation reads them off the start alone (hdelta.cpp:82).
LEMMA DescendsKept ==
  ASSUME NEW t, NEW s, NEW fr, fr = Frame(t, s), NEW r, NEW an, Descends(t, s, fr, r, an),
         NEW x \in DOMAIN t.actions, NEW a, a = t.actions[x], IsAction(a),
         NEW n, Follows(r, a, n)
  PROVE  Descends(t, s, fr, n, [z \in n.W |-> an[z[1]]])
<1> DEFINE an2 == [z \in n.W |-> an[z[1]]]
<1>0. FiniteState(r)
  BY DEF Descends
<1>1. /\ FiniteState(n) /\ IsState(n) /\ n.D # {}
      /\ \A z \in n.W : z = <<z[1], z[2]>>
      /\ \A w, e : <<w, e>> \in n.W <=> e \in Events(a) /\ w \in Sat(r)[a.events[e].pre]
      /\ \A w, e : <<w, e>> \in n.W => w \in r.W
      /\ \A w, e : <<w, e>> \in n.D => <<w, e>> \in n.W /\ w \in r.D /\ e \in a.designated
      /\ \A i \in Agents : \A w, e, u, g : <<w, e>> \in n.W =>
           (<<u, g>> \in n.R[i][<<w, e>>] <=>
              <<u, g>> \in n.W /\ u \in r.R[i][w] /\ g \in EventRelation(r, a, i)[e])
  BY <1>0, FollowsMeans DEF FiniteState
<1>2. \A z \in n.W : n.D \subseteq n.W /\ \A i \in Agents : n.R[i][z] \subseteq n.W
  BY <1>1 DEF IsState
<1>2a. n.D \subseteq n.W /\ \A i \in Agents : DOMAIN n.R[i] = n.W
  BY <1>1 DEF IsState
<1>3. \A i \in Agents : \E k \in Kinds(a, i) :
         EventRelation(r, a, i) = Relation(a, i, k) /\ Relation(a, i, k) \in EventRelations(a)
  BY RelationIs
<1>4. \A w, e : <<w, e>> \in n.W => an2[<<w, e>>] = an[w]
  OBVIOUS
<1>5. an2 \in [n.W -> s.W]
  <2>1. ASSUME NEW z \in n.W
        PROVE  an[z[1]] \in s.W
    BY <1>1 DEF Descends
  <2> QED BY <2>1
<1> HIDE DEF an2
<1>6. \A z \in n.D : an2[z] \in s.D
  <2>1. TAKE z \in n.D
  <2>2. z = <<z[1], z[2]>> /\ z[1] \in r.D
    BY <1>1, <1>2a
  <2> QED BY <1>1, <1>4, <2>2 DEF Descends
<1>7. \A i \in Agents : \A z \in n.W : \A v \in n.R[i][z] : an2[v] \in s.R[i][an2[z]]
  <2> TAKE i \in Agents
  <2> TAKE z \in n.W
  <2> TAKE v \in n.R[i][z]
  <2>2. z = <<z[1], z[2]>> /\ v = <<v[1], v[2]>> /\ v \in n.W
    BY <1>1, <1>2
  <2>3. v[1] \in r.R[i][z[1]] /\ z[1] \in r.W
    BY <1>1, <2>2
  <2>4. an[v[1]] \in s.R[i][an[z[1]]]
    BY <2>3 DEF Descends
  <2> QED BY <1>4, <2>2, <2>4
<1>8. ASSUME NEW i \in fr.refl
      PROVE  IsReflexiveOn(n.R[i])
  <2>1. i \in Agents /\ \A k \in Kinds(a, i) : IsReflexiveOn(Relation(a, i, k))
    BY FrameIs
  <2>2. ASSUME NEW z \in n.W
        PROVE  z \in n.R[i][z]
    <3>1. z = <<z[1], z[2]>> /\ z[1] \in r.W /\ z[2] \in Events(a)
      BY <1>1
    <3>2. z[1] \in r.R[i][z[1]]
      BY <1>0, <2>1, <3>1 DEF Descends, IsReflexiveOn, FiniteState, IsState
    <3>3. z[2] \in EventRelation(r, a, i)[z[2]]
      BY <1>3, <2>1, <3>1 DEF IsReflexiveOn, EventRelations
    <3> QED BY <1>1, <2>1, <3>1, <3>2, <3>3
  <2> QED BY <1>2a, <2>1, <2>2 DEF IsReflexiveOn
<1>9. ASSUME NEW i \in K45Agents(t, s)
      PROVE  IsK45(n.R[i])
  <2>1. i \in Agents /\ \A k \in Kinds(a, i) : IsK45(Relation(a, i, k))
    BY FrameIs
  <2>2. ASSUME NEW z \in n.W, NEW v \in n.R[i][z]
        PROVE  n.R[i][v] = n.R[i][z]
    <3>1. z = <<z[1], z[2]>> /\ v = <<v[1], v[2]>> /\ v \in n.W
      BY <1>1, <1>2, <2>1
    <3>2. /\ v[1] \in r.R[i][z[1]] /\ z[1] \in r.W /\ z[2] \in Events(a)
          /\ v[2] \in EventRelation(r, a, i)[z[2]]
      BY <1>1, <2>1, <3>1
    <3>3. r.R[i][v[1]] = r.R[i][z[1]]
      BY <1>0, <2>1, <3>2 DEF Descends, IsK45, FiniteState, IsState
    <3>4. EventRelation(r, a, i)[v[2]] = EventRelation(r, a, i)[z[2]]
      BY <1>3, <2>1, <3>2 DEF IsK45, EventRelations
    <3>5. \A y \in n.W : y \in n.R[i][v] <=> y \in n.R[i][z]
      <4>1. TAKE y \in n.W
      <4>2. y = <<y[1], y[2]>>
        BY <1>1
      <4> QED BY <1>1, <2>1, <3>1, <3>3, <3>4, <4>2
    <3> QED BY <1>2, <2>1, <3>1, <3>5
  <2> QED BY <1>2a, <2>1, <2>2 DEF IsK45
<1>10. ASSUME fr.public, NEW i \in Agents, NEW j \in Agents, NEW z \in n.W, NEW v \in n.R[i][z],
              an2[v] \in s.R[j][an2[z]]
       PROVE  v \in n.R[j][z]
  <2>1. z = <<z[1], z[2]>> /\ v = <<v[1], v[2]>> /\ v \in n.W
    BY <1>1, <1>2
  <2>2. /\ v[1] \in r.R[i][z[1]] /\ z[1] \in r.W /\ z[2] \in Events(a)
        /\ v[2] \in EventRelation(r, a, i)[z[2]]
    BY <1>1, <2>1
  <2>3. an[v[1]] \in s.R[j][an[z[1]]]
    BY <1>4, <1>10, <2>1
  <2>4. v[1] \in r.R[j][z[1]]
    BY <1>10, <2>2, <2>3 DEF Descends
  <2>5. \A l \in Agents : \A f : f \in EventRelation(r, a, l)[z[2]] <=> f = z[2]
    <3>1. Public(t)
      BY <1>10 DEF Frame
    <3>2. TAKE l \in Agents
    <3>3. PICK k \in Kinds(a, l) :
             EventRelation(r, a, l) = Relation(a, l, k) /\ Relation(a, l, k) \in EventRelations(a)
      BY <1>3
    <3>4. z[2] \in DOMAIN Relation(t.actions[x], l, k) /\ k \in Kinds(t.actions[x], l)
      BY <2>2, <3>3 DEF EventRelations
    <3>5. \A d \in DOMAIN Relation(t.actions[x], l, k) : \A f : f \in Relation(t.actions[x], l, k)[d] <=> f = d
      <4>1. \A y \in DOMAIN t.actions, b \in Agents : \A c \in Kinds(t.actions[y], b) :
               \A d \in DOMAIN Relation(t.actions[y], b, c) :
                  \A f : f \in Relation(t.actions[y], b, c)[d] <=> f = d
        BY <3>1, PublicIs
      <4> QED BY <3>4, <4>1
    <3>6. \A f : f \in Relation(t.actions[x], l, k)[z[2]] <=> f = z[2]
      BY <3>4, <3>5
    <3> QED BY <3>3, <3>6
  <2> QED BY <1>1, <2>1, <2>2, <2>4, <2>5
<1>11. \A i \in fr.refl : IsReflexiveOn(n.R[i])
  BY <1>8
<1>12. \A i \in K45Agents(t, s) : IsK45(n.R[i])
  BY <1>9
<1>13. fr.public => \A i, j \in Agents : \A z \in n.W : \A v \in n.R[i][z] :
                      an2[v] \in s.R[j][an2[z]] => v \in n.R[j][z]
  BY <1>10
<1>14. Descends(t, s, fr, n, an2)
  BY <1>1, <1>5, <1>6, <1>7, <1>11, <1>12, <1>13 DEF Descends
<1> QED BY <1>14 DEF an2

\* The formulas an update evaluates.
LEMMA ConsultedAre ==
  ASSUME NEW a
  PROVE  /\ \A e \in Events(a) :
               /\ a.events[e].pre \in Consulted(a)
               /\ \A p \in DOMAIN a.events[e].add : a.events[e].add[p] \in Consulted(a)
               /\ \A p \in DOMAIN a.events[e].del : a.events[e].del[p] \in Consulted(a)
         /\ \A i \in Agents : \A k \in DOMAIN Cases(a, i) : Cases(a, i)[k].cond \in Consulted(a)
<1> DEFINE asked(v) == {v.pre} \cup {v.add[p] : p \in DOMAIN v.add} \cup {v.del[p] : p \in DOMAIN v.del}
           pairs(i) == {i} \X DOMAIN Cases(a, i)
           all == UNION {pairs(i) : i \in Agents}
           happenings == {a.events[e] : e \in Events(a)}
           effects == UNION {asked(v) : v \in happenings}
           conds == {Cases(a, c[1])[c[2]].cond : c \in all}
<1>1. effects \subseteq Consulted(a) /\ conds \subseteq Consulted(a)
  <2>1. Consulted(a) = effects \cup conds
    BY DEF Consulted
  <2> HIDE DEF effects, conds
  <2> QED BY <2>1
<1>2. ASSUME NEW e \in Events(a)
      PROVE  asked(a.events[e]) \subseteq effects
  <2>1. a.events[e] \in happenings
    OBVIOUS
  <2> HIDE DEF asked, happenings
  <2> QED BY <2>1
<1>3. ASSUME NEW i \in Agents, NEW k \in DOMAIN Cases(a, i)
      PROVE  Cases(a, i)[k].cond \in conds
  <2>1. \A c : c \in all <=> \E j \in Agents : c \in pairs(j)
    <3> HIDE DEF pairs
    <3> QED OBVIOUS
  <2>2. <<i, k>> \in pairs(i)
    OBVIOUS
  <2>3. <<i, k>> \in all
    <3> HIDE DEF pairs, all
    <3> QED BY <2>1, <2>2
  <2> HIDE DEF all
  <2>4. PICK c \in all : c = <<i, k>>
    BY <2>3
  <2>5. Cases(a, c[1])[c[2]].cond \in conds
    OBVIOUS
  <2> HIDE DEF conds
  <2> QED BY <2>4, <2>5
<1> QED BY <1>1, <1>2, <1>3

\* An action is ontic if it has one designated event.
LEMMA OnticIs ==
  ASSUME NEW a, IsAction(a)
  PROVE  IsOntic(a) <=> \E e : a.designated = {e}
<1>1. Events(a) = 1 .. Len(a.events) /\ Len(a.events) \in Nat /\ a.designated \subseteq Events(a)
  BY DEF IsAction
<1>2. IsFiniteSet(1 .. Len(a.events))
  BY <1>1, FS_Interval
<1>3. IsFiniteSet(a.designated)
  BY <1>1, <1>2, FS_Subset
<1> QED BY <1>3, FS_Singleton DEF IsOntic

\* An event decided by agent i's attitudes happens at all worlds that i considers
\* where it happens at one.
LEMMA IntrospectionTravels ==
  ASSUME NEW t, \A x \in DOMAIN t.actions : IsAction(t.actions[x]), NEW s, NEW fr, fr = Frame(t, s),
         NEW r, NEW an, Descends(t, s, fr, r, an),
         NEW g \in AllEvents(t), NEW i \in fr.intro[g], NEW w \in r.W, NEW v \in r.R[i][w]
  PROVE  i \in Agents /\ (w \in Sat(r)[EventOf(t, g).pre] <=> v \in Sat(r)[EventOf(t, g).pre])
<1>0. FiniteState(r) /\ IsState(r)
  BY DEF Descends, FiniteState
<1>1. i \in K45Agents(t, s) /\ Introspective(EventOf(t, g).pre, i) /\ i \in Agents
  BY FrameIs
<1>2. r.R[i][v] = r.R[i][w] /\ v \in r.W
  BY <1>0, <1>1 DEF Descends, IsK45, IsState
<1>3. EventOf(t, g).pre \in Formulas
  BY AllEventsAre DEF IsAction, EventOf
<1> QED BY <1>0, <1>1, <1>2, <1>3, OwnAttitudesTravel

\* An update designates the pairs of a designated world and a designated event, or of
\* those with one event.
LEMMA FollowsDesignates ==
  ASSUME NEW r, FiniteState(r), NEW a, IsAction(a), NEW n, Follows(r, a, n)
  PROVE  \E E \in SUBSET a.designated :
            /\ E = a.designated \/ \E e \in E : E = {e}
            /\ \A w, e : <<w, e>> \in n.D <=> <<w, e>> \in n.W /\ w \in r.D /\ e \in E
<1>1. PICK m : m = Product(r, a)
  OBVIOUS
<1>2. \A w, e : <<w, e>> \in m.D <=> <<w, e>> \in m.W /\ w \in r.D /\ e \in a.designated
  BY <1>1, ProductIs
<1>3. n.W = m.W
  BY <1>1 DEF Follows
<1>4. CASE n.D = m.D
  BY <1>2, <1>3, <1>4
<1>5. CASE \E e \in a.designated : n.D = Happened(m, e)
  <2>1. PICK e \in a.designated : n.D = Happened(m, e)
    BY <1>5
  <2>2. \A w, g : <<w, g>> \in n.D <=> <<w, g>> \in m.D /\ g = e
    BY <2>1 DEF Happened
  <2>3. ASSUME NEW w, NEW g
        PROVE  <<w, g>> \in n.D <=> <<w, g>> \in n.W /\ w \in r.D /\ g \in {e}
    <3>1. <<w, g>> \in m.D <=> <<w, g>> \in m.W /\ w \in r.D /\ g \in a.designated
      BY <1>2
    <3>2. <<w, g>> \in n.D <=> <<w, g>> \in m.D /\ g = e
      BY <2>2
    <3> QED BY <1>3, <3>1, <3>2
  <2>4. {e} \in SUBSET a.designated /\ \E d \in {e} : {e} = {d}
    OBVIOUS
  <2> QED BY <2>3, <2>4
<1> QED BY <1>1, <1>4, <1>5 DEF Follows

\* Action x takes r, for which L stands, to n.
Advances(t, s, fr, L, r, an, x, n) ==
  /\ \A y \in DOMAIN t.actions : IsAction(t.actions[y])
  /\ FiniteState(s) /\ fr = Frame(t, s)
  /\ Descends(t, s, fr, r, an) /\ Covered(s, fr, L, L.cut, r, an)
  /\ x \in DOMAIN t.actions /\ Applicable(r, t.actions[x])
  /\ \A f \in Consulted(t.actions[x]) : f \in Formulas /\ FormulaCovered(L.tv, r, an, f)
  /\ Follows(r, t.actions[x], n)

\* The next layer foresees where the events of the action happen and fail, that it is
\* applicable, and which event relation each agent is given.
LEMMA AdvanceMeans ==
  ASSUME NEW t, NEW s, NEW fr, NEW L, NEW r, NEW an, NEW x, NEW n, Advances(t, s, fr, L, r, an, x, n)
  PROVE  LET a == t.actions[x]
             M == StepLayer(t, s, fr, L)
         IN  /\ x \in M.app
             /\ \A e \in Events(a) : \A w \in r.W :
                   /\ w \in Sat(r)[a.events[e].pre] => an[w] \in M.genT[<<x, e>>]
                   /\ w \notin Sat(r)[a.events[e].pre] => an[w] \in M.genF[<<x, e>>]
             /\ \A i \in Agents : \E k \in Kinds(a, i) :
                   EventRelation(r, a, i) = Relation(a, i, k) /\ <<x, i, k>> \in M.types
<1>1. PICK a, M : a = t.actions[x] /\ M = StepLayer(t, s, fr, L)
  OBVIOUS
<1>2. /\ x \in DOMAIN t.actions /\ IsAction(a) /\ Applicable(r, a) /\ Descends(t, s, fr, r, an)
      /\ \A f \in Consulted(a) : f \in Formulas /\ FormulaCovered(L.tv, r, an, f)
      /\ FiniteState(r) /\ r.D # {} /\ r.D \subseteq r.W
  BY <1>1 DEF Advances, Descends, FiniteState, IsState
<1>3. ASSUME NEW e \in Events(a)
      PROVE  /\ <<x, e>> \in AllEvents(t) /\ EventOf(t, <<x, e>>) = a.events[e]
             /\ \A w \in r.W :
                   /\ w \in Sat(r)[a.events[e].pre] => an[w] \in M.genT[<<x, e>>]
                   /\ w \notin Sat(r)[a.events[e].pre] => an[w] \in M.genF[<<x, e>>]
  <2>1. <<x, e>> \in AllEvents(t) /\ EventOf(t, <<x, e>>) = a.events[e]
    BY <1>1, <1>2, AllEventsAre DEF EventOf
  <2>2. /\ L.tv[a.events[e].pre].T \subseteq M.genT[<<x, e>>]
        /\ L.tv[a.events[e].pre].F \subseteq M.genF[<<x, e>>]
    <3>1. \A g \in AllEvents(t) : /\ M.genT[g] = L.genT[g] \cup L.tv[EventOf(t, g).pre].T
                                  /\ M.genF[g] = L.genF[g] \cup L.tv[EventOf(t, g).pre].F
      BY <1>1, StepAllows
    <3> QED BY <2>1, <3>1
  <2>3. FormulaCovered(L.tv, r, an, a.events[e].pre)
    BY <1>2, ConsultedAre
  <2> QED BY <2>1, <2>2, <2>3 DEF FormulaCovered
<1>4. x \in M.app
  <2>1. PICK d \in r.D, e \in a.designated : d \in Sat(r)[a.events[e].pre]
    BY <1>2 DEF Applicable
  <2>2. e \in Events(a)
    BY <1>2 DEF IsAction
  <2>3. an[d] \in s.D /\ an[d] \in M.genT[<<x, e>>]
    BY <1>2, <1>3, <2>1, <2>2 DEF Descends
  <2> QED BY <1>1, <1>2, <2>3, StepAllows
<1>5. ASSUME NEW i \in Agents
      PROVE  \E k \in Kinds(a, i) :
                EventRelation(r, a, i) = Relation(a, i, k) /\ <<x, i, k>> \in M.types
  <2>1. PICK k \in Kinds(a, i) : /\ EventRelation(r, a, i) = Relation(a, i, k)
                                 /\ k = 0 \/ Satisfies(r, Cases(a, i)[k].cond)
    BY <1>2, RelationIs
  <2>2. k = 0 \/ s.D \cap L.tv[Cases(a, i)[k].cond].T # {}
    <3>1. SUFFICES ASSUME k # 0
                   PROVE  s.D \cap L.tv[Cases(a, i)[k].cond].T # {}
      OBVIOUS
    <3>2. k \in DOMAIN Cases(a, i)
      BY <3>1 DEF Kinds
    <3>3. FormulaCovered(L.tv, r, an, Cases(a, i)[k].cond)
      BY <1>2, <3>2, ConsultedAre
    <3>4. PICK d \in r.D : d \in Sat(r)[Cases(a, i)[k].cond]
      BY <1>2, <2>1, <3>1 DEF Satisfies
    <3>5. an[d] \in s.D /\ an[d] \in L.tv[Cases(a, i)[k].cond].T
      BY <1>2, <3>3, <3>4 DEF Descends, FormulaCovered
    <3> QED BY <3>5
  <2>3. <<x, i, k>> \in M.types
    BY <1>1, <1>4, <2>2, StepAllows
  <2> QED BY <2>1, <2>3
<1> QED BY <1>1, <1>3, <1>4, <1>5

\* The worlds of s that those of an update n of r descend from.
Follow(n, an) == [z \in n.W |-> an[z[1]]]

\* The next layer foresees the literals of the update.
LEMMA LiteralsCovered ==
  ASSUME NEW t, NEW s, NEW fr, NEW L, NEW r, NEW an, NEW x, NEW n, Advances(t, s, fr, L, r, an, x, n),
         NEW z \in n.W, NEW p \in Atoms
  PROVE  LET M == StepLayer(t, s, fr, L)
         IN  /\ p \in n.V[z] => Follow(n, an)[z] \in M.canT[p]
             /\ p \notin n.V[z] => Follow(n, an)[z] \in M.canF[p]
<1>1. PICK a, M : a = t.actions[x] /\ M = StepLayer(t, s, fr, L)
  OBVIOUS
<1>2. /\ x \in DOMAIN t.actions /\ IsAction(a) /\ Covered(s, fr, L, L.cut, r, an)
      /\ \A f \in Consulted(a) : FormulaCovered(L.tv, r, an, f)
      /\ FiniteState(r) /\ Follows(r, a, n)
  BY <1>1 DEF Advances, Descends
<1>3. PICK w, e : z = <<w, e>>
  BY <1>2, FollowsMeans
<1>4. e \in Events(a) /\ w \in Sat(r)[a.events[e].pre] /\ w \in r.W /\ n.V[z] = After(r, a.events[e], w)
  BY <1>2, <1>3, FollowsMeans
<1>5. Follow(n, an)[z] = an[w]
  BY <1>3 DEF Follow
<1>6. PICK g, v : g = <<x, e>> /\ v = a.events[e] /\ v = EventOf(t, g) /\ g \in AllEvents(t) /\ g[1] = x
  <2>1. <<x, e>> \in AllEvents(t) /\ <<x, e>>[1] = x
    BY <1>1, <1>2, <1>4, AllEventsAre
  <2>2. EventOf(t, <<x, e>>) = a.events[e]
    BY <1>1 DEF EventOf
  <2> QED BY <2>1, <2>2
<1>7. x \in M.app /\ an[w] \in M.genT[g]
  BY <1>1, <1>4, <1>6, AdvanceMeans
<1>8. /\ p \in r.V[w] => an[w] \in M.canT[p]
      /\ p \notin r.V[w] => an[w] \in M.canF[p]
  <2>1. Grows(t, L, M)
    BY <1>1, StepAllows
  <2> QED BY <1>2, <1>4, <2>1 DEF Covered, Grows
<1>9. ASSUME p \in Fires(r, v.add, w)
      PROVE  an[w] \in M.canT[p]
  <2>1. p \in DOMAIN v.add /\ w \in Sat(r)[v.add[p]]
    BY <1>9 DEF Fires
  <2>2. FormulaCovered(L.tv, r, an, v.add[p])
    BY <1>2, <1>4, <1>6, <2>1, ConsultedAre
  <2>3. an[w] \in L.tv[v.add[p]].T \cap M.genT[g]
    BY <1>4, <1>7, <2>1, <2>2 DEF FormulaCovered
  <2>4. L.tv[EventOf(t, g).add[p]].T \cap M.genT[g] \subseteq M.canT[p]
    BY <1>1, <1>6, <1>7, <2>1, StepAllows
  <2> QED BY <1>6, <2>3, <2>4
<1>10. ASSUME p \in Fires(r, v.del, w)
       PROVE  an[w] \in M.canF[p]
  <2>1. p \in DOMAIN v.del /\ w \in Sat(r)[v.del[p]]
    BY <1>10 DEF Fires
  <2>2. FormulaCovered(L.tv, r, an, v.del[p])
    BY <1>2, <1>4, <1>6, <2>1, ConsultedAre
  <2>3. an[w] \in L.tv[v.del[p]].T \cap M.genT[g]
    BY <1>4, <1>7, <2>1, <2>2 DEF FormulaCovered
  <2>4. L.tv[EventOf(t, g).del[p]].T \cap M.genT[g] \subseteq M.canF[p]
    BY <1>1, <1>6, <1>7, <2>1, StepAllows
  <2> QED BY <1>6, <2>3, <2>4
<1>11. n.V[z] = (r.V[w] \cup Fires(r, v.add, w)) \ Fires(r, v.del, w)
  BY <1>4, <1>6 DEF After
<1> QED BY <1>1, <1>5, <1>8, <1>9, <1>10, <1>11

\* The next layer foresees the designated worlds the update leaves out, also those of
\* one outcome (hdelta.cpp:547).
LEMMA DesignationsCovered ==
  ASSUME NEW t, NEW s, NEW fr, NEW L, NEW r, NEW an, NEW x, NEW n, Advances(t, s, fr, L, r, an, x, n)
  PROVE  s.D \ {Follow(n, an)[z] : z \in n.D} \subseteq StepLayer(t, s, fr, L).elimD
<1>1. PICK a, M : a = t.actions[x] /\ M = StepLayer(t, s, fr, L)
  OBVIOUS
<1>2. /\ x \in DOMAIN t.actions /\ IsAction(a) /\ Covered(s, fr, L, L.cut, r, an) /\ Applicable(r, a)
      /\ FiniteState(r) /\ Follows(r, a, n) /\ r.D \subseteq r.W
  BY <1>1 DEF Advances, Descends, FiniteState, IsState
<1>3. FiniteState(n) /\ n.D \subseteq n.W
  BY <1>2, FollowsMeans DEF FiniteState, IsState
<1>4. \A w, e : <<w, e>> \in n.D => an[w] \in {Follow(n, an)[z] : z \in n.D}
  <2>1. TAKE w, e
  <2>2. ASSUME <<w, e>> \in n.D
        PROVE  Follow(n, an)[<<w, e>>] = an[w]
    BY <1>3, <2>2 DEF Follow
  <2> QED BY <2>2
<1>5. SUFFICES ASSUME NEW y \in s.D, \A w, e : <<w, e>> \in n.D => an[w] # y
               PROVE  y \in M.elimD
  BY <1>1, <1>4
<1>6. L.elimD \subseteq M.elimD
  BY <1>1, StepAllows DEF Grows
<1>7. CASE y \notin {an[w] : w \in r.D}
  BY <1>2, <1>6, <1>7 DEF Covered
<1>8. CASE y \in {an[w] : w \in r.D}
  <2>1. PICK u \in r.D : y = an[u]
    BY <1>8
  <2>2. PICK E \in SUBSET a.designated :
           /\ E = a.designated \/ \E e \in E : E = {e}
           /\ \A w, e : <<w, e>> \in n.D <=> <<w, e>> \in n.W /\ w \in r.D /\ e \in E
    BY SMTT(20), <1>2, FollowsDesignates
  <2>3. \A e \in E : u \notin Sat(r)[a.events[e].pre]
    <3>1. TAKE e \in E
    <3>2. e \in Events(a)
      BY <1>2 DEF IsAction
    <3>3. <<u, e>> \notin n.D
      BY <1>5, <2>1
    <3> QED BY <1>2, <2>1, <2>2, <3>2, <3>3, FollowsMeans
  <2>4. PICK e0 \in a.designated : u \in Sat(r)[a.events[e0].pre]
    BY <1>2, <2>1 DEF Applicable
  <2>5. PICK e \in a.designated : E = {e} /\ e # e0
    BY <2>2, <2>3, <2>4
  <2>6. ~IsOntic(a)
    BY <1>2, <2>4, <2>5, OnticIs
  <2>7. e \in Events(a) /\ <<x, e>> \in AllEvents(t)
    BY <1>1, <1>2, AllEventsAre DEF IsAction
  <2>8. x \in M.app /\ an[u] \in M.genF[<<x, e>>]
    BY <1>1, <1>2, <2>3, <2>5, <2>7, AdvanceMeans
  <2>9. s.D \cap M.genF[<<x, e>>] \subseteq M.elimD
    <3>1. <<x, e>>[1] = x /\ <<x, e>>[2] = e
      OBVIOUS
    <3> QED BY <1>1, <2>6, <2>7, <2>8, <3>1, StepAllows
  <2> QED BY <2>1, <2>8, <2>9
<1> QED BY <1>7, <1>8

\* A world that R3 says is spared has a descendant.
LEMMA SurvivorsSpared ==
  ASSUME NEW t, NEW s, NEW fr, NEW L, NEW r, NEW an, NEW x, NEW n, Advances(t, s, fr, L, r, an, x, n),
         NEW y \in SurelySpared(t, s, fr, L, x)
  PROVE  \E v \in r.W, e \in Events(t.actions[x]) :
            y = an[v] /\ v \in Sat(r)[t.actions[x].events[e].pre]
<1>1. PICK a : a = t.actions[x]
  OBVIOUS
<1>2. /\ x \in DOMAIN t.actions /\ IsAction(a) /\ Covered(s, fr, L, L.cut, r, an) /\ Applicable(r, a)
      /\ FiniteState(r) /\ IsState(r) /\ r.D \subseteq r.W /\ Descends(t, s, fr, r, an) /\ fr = Frame(t, s)
      /\ \A b \in DOMAIN t.actions : IsAction(t.actions[b])
  BY <1>1 DEF Advances, Descends, FiniteState, IsState
<1>3. PICK es : es = CHOOSE e \in a.designated : TRUE
  OBVIOUS
<1>4. IsOntic(a) /\ y \notin L.elim
  BY <1>1 DEF SurelySpared
<1>5. PICK i \in fr.intro[<<x, es>>], d \in s.D \ L.elimD :
         y \in s.R[i][d] /\ ~PossiblyCut(fr, L.cut, i, d, y)
  BY <1>1, <1>3, <1>4 DEF SurelySpared
<1>6. a.designated = {es}
  <2>1. PICK e : a.designated = {e}
    BY <1>2, <1>4, OnticIs
  <2> QED BY <1>3, <2>1
<1>7. PICK g : g = <<x, es>> /\ g \in AllEvents(t) /\ EventOf(t, g) = a.events[es] /\ es \in Events(a)
  <2>1. es \in Events(a)
    BY <1>2, <1>6 DEF IsAction
  <2>2. <<x, es>> \in AllEvents(t)
    BY <1>1, <1>2, <2>1, AllEventsAre
  <2>3. EventOf(t, <<x, es>>) = a.events[es]
    BY <1>1 DEF EventOf
  <2> QED BY <2>1, <2>2, <2>3
<1>8. PICK u \in r.D : d = an[u]
  BY <1>2 DEF Covered
<1>9. u \in Sat(r)[a.events[es].pre] /\ u \in r.W
  BY <1>2, <1>6, <1>8 DEF Applicable
<1>10. i \in Agents
  BY <1>2, <1>5, <1>7, FrameIs
<1>11. y \notin Lost(s, r, an, i, u)
  BY <1>2, <1>4, <1>5, <1>8, <1>9, <1>10 DEF Covered
<1>12. PICK v \in r.R[i][u] : y = an[v]
  BY <1>5, <1>8, <1>11 DEF Lost
<1>13. v \in r.W
  BY <1>2, <1>9, <1>10, <1>12 DEF IsState
<1>14. v \in Sat(r)[a.events[es].pre]
  BY <1>2, <1>5, <1>7, <1>9, <1>12, IntrospectionTravels
<1> QED BY <1>1, <1>7, <1>12, <1>13, <1>14

\* The next layer foresees the worlds that have no descendant in the update.
LEMMA WorldsCovered ==
  ASSUME NEW t, NEW s, NEW fr, NEW L, NEW r, NEW an, NEW x, NEW n, Advances(t, s, fr, L, r, an, x, n)
  PROVE  s.W \ Range(Follow(n, an)) \subseteq StepLayer(t, s, fr, L).elim
<1>1. PICK a, M : a = t.actions[x] /\ M = StepLayer(t, s, fr, L)
  OBVIOUS
<1>2. /\ x \in DOMAIN t.actions /\ IsAction(a) /\ Covered(s, fr, L, L.cut, r, an) /\ Applicable(r, a)
      /\ FiniteState(r) /\ Follows(r, a, n) /\ r.D \subseteq r.W /\ an \in [r.W -> s.W]
  BY <1>1 DEF Advances, Descends, FiniteState, IsState
<1>3. \A w, e : e \in Events(a) /\ w \in Sat(r)[a.events[e].pre] => an[w] \in Range(Follow(n, an))
  <2>1. ASSUME NEW w, NEW e, e \in Events(a), w \in Sat(r)[a.events[e].pre]
        PROVE  an[w] \in Range(Follow(n, an))
    <3>1. <<w, e>> \in n.W
      BY <1>2, <2>1, FollowsMeans
    <3>2. Follow(n, an)[<<w, e>>] = an[w] /\ DOMAIN Follow(n, an) = n.W
      BY <3>1 DEF Follow
    <3> QED BY <3>1, <3>2 DEF Range
  <2> QED BY <2>1
<1>4. SUFFICES ASSUME NEW y \in s.W,
                      \A w, e : e \in Events(a) /\ w \in Sat(r)[a.events[e].pre] => an[w] # y
               PROVE  y \in M.elim
  BY <1>1, <1>3
<1>5. CASE y \notin Range(an)
  <2>1. y \in L.elim
    BY <1>2, <1>5 DEF Covered
  <2> QED BY <1>1, <2>1, StepAllows DEF Grows
<1>6. CASE y \in Range(an)
  <2>1. PICK v \in r.W : y = an[v]
    BY <1>2, <1>6 DEF Range
  <2>2. \A e \in Events(a) : y \in M.genF[<<x, e>>]
    BY <1>1, <1>4, <2>1, AdvanceMeans
  <2>3. y \notin SurelySpared(t, s, fr, L, x)
    BY <1>1, <1>4, SurvivorsSpared
  <2>4. y \in s.D => y \in L.elimD
    <3>1. SUFFICES ASSUME y \in s.D, y \notin L.elimD
                   PROVE  FALSE
      OBVIOUS
    <3>2. PICK u \in r.D : y = an[u]
      BY <1>2, <3>1 DEF Covered
    <3>3. PICK e \in a.designated : u \in Sat(r)[a.events[e].pre]
      BY <1>2, <3>2 DEF Applicable
    <3>4. e \in Events(a)
      BY <1>2 DEF IsAction
    <3> QED BY <1>4, <3>2, <3>3, <3>4
  <2>5. x \in M.app
    BY <1>1, AdvanceMeans
  <2> QED BY <1>1, <2>2, <2>3, <2>4, <2>5, StepAllows
<1> QED BY <1>5, <1>6

\* The next layer foresees the edges that have no descendant in the update, in spite of
\* what it never cuts by R1, R2 and R4.
LEMMA EdgesCovered ==
  ASSUME NEW t, NEW s, NEW fr, NEW L, NEW r, NEW an, NEW x, NEW n, Advances(t, s, fr, L, r, an, x, n),
         \A i \in Agents, b \in s.W : L.cut[i][b] \subseteq CutRows(t, s, fr, StepLayer(t, s, fr, L))[i][b],
         NEW i \in Agents, NEW z \in n.W, NEW y \in Lost(s, n, Follow(n, an), i, z)
  PROVE  LET M == StepLayer(t, s, fr, L)
         IN  y \in M.elim \/ PossiblyCut(fr, CutRows(t, s, fr, M), i, Follow(n, an)[z], y)
<1>1. PICK a, M, cut : a = t.actions[x] /\ M = StepLayer(t, s, fr, L) /\ cut = CutRows(t, s, fr, M)
  OBVIOUS
<1>2. /\ x \in DOMAIN t.actions /\ IsAction(a) /\ Covered(s, fr, L, L.cut, r, an)
      /\ FiniteState(r) /\ Follows(r, a, n) /\ IsState(r) /\ Descends(t, s, fr, r, an) /\ fr = Frame(t, s)
      /\ FiniteState(s) /\ IsState(s) /\ an \in [r.W -> s.W]
      /\ \A b \in DOMAIN t.actions : IsAction(t.actions[b])
  BY <1>1 DEF Advances, Descends, FiniteState
<1>3. PICK w, e : z = <<w, e>>
  BY <1>2, FollowsMeans
<1>4. e \in Events(a) /\ w \in Sat(r)[a.events[e].pre] /\ w \in r.W
  BY <1>2, <1>3, FollowsMeans
<1>5. Follow(n, an)[z] = an[w] /\ an[w] \in s.W
  BY <1>2, <1>3, <1>4 DEF Follow
<1>6. y \in s.R[i][an[w]] /\ y \in s.W
  BY <1>2, <1>5 DEF Lost, IsState
<1>7. \A v, f : f \in Events(a) /\ f \in EventRelation(r, a, i)[e] /\ v \in r.R[i][w]
                /\ v \in Sat(r)[a.events[f].pre] => an[v] # y
  <2>1. ASSUME NEW v, NEW f, f \in Events(a), f \in EventRelation(r, a, i)[e], v \in r.R[i][w],
               v \in Sat(r)[a.events[f].pre]
        PROVE  an[v] # y
    <3>1. <<v, f>> \in n.W /\ <<v, f>> \in n.R[i][z]
      BY <1>2, <1>3, <2>1, FollowsMeans
    <3>2. Follow(n, an)[<<v, f>>] = an[v]
      BY <3>1 DEF Follow
    <3> QED BY <3>1, <3>2 DEF Lost
  <2> QED BY <2>1
<1>8. PICK k \in Kinds(a, i) : EventRelation(r, a, i) = Relation(a, i, k) /\ <<x, i, k>> \in M.types
  BY <1>1, AdvanceMeans
<1>9. Relation(a, i, k)[e] \subseteq Events(a) /\ DOMAIN Relation(a, i, k) = Events(a)
  BY <1>2, <1>4, RelationIs DEF EventRelations
<1>10. ~(an[w] = y /\ i \in fr.refl)
  <2>1. SUFFICES ASSUME an[w] = y, i \in fr.refl
                 PROVE  FALSE
    OBVIOUS
  <2>2. w \in r.R[i][w]
    BY <1>2, <1>4, <2>1 DEF Descends, IsReflexiveOn, IsState
  <2>3. e \in Relation(a, i, k)[e]
    <3>1. IsReflexiveOn(Relation(a, i, k))
      BY <1>1, <1>2, <2>1, FrameIs
    <3> QED BY <1>4, <1>9, <3>1 DEF IsReflexiveOn
  <2> QED BY <1>4, <1>7, <1>8, <2>1, <2>2, <2>3
<1>11. SUFFICES ASSUME y \notin M.elim
                PROVE  y \in cut[i][an[w]]
  BY <1>1, <1>5, <1>10 DEF PossiblyCut
<1>12. CASE y \in Lost(s, r, an, i, w)
  <2>1. y \in L.elim \/ y \in L.cut[i][an[w]]
    BY <1>2, <1>4, <1>12 DEF Covered, PossiblyCut
  <2>2. L.elim \subseteq M.elim
    BY <1>1, StepAllows DEF Grows
  <2> QED BY <1>1, <1>5, <1>11, <2>1, <2>2
<1>13. CASE y \notin Lost(s, r, an, i, w)
  <2>1. PICK v \in r.R[i][w] : y = an[v]
    BY <1>6, <1>13 DEF Lost
  <2>2. v \in r.W
    BY <1>2, <1>4 DEF IsState
  <2>3. PICK g : /\ g = <<x, e>> /\ g \in AllEvents(t) /\ EventOf(t, g) = a.events[e]
                 /\ g[1] = x /\ g[2] = e
    <3>1. <<x, e>> \in AllEvents(t) /\ <<x, e>>[1] = x /\ <<x, e>>[2] = e
      BY <1>1, <1>2, <1>4, AllEventsAre
    <3>2. EventOf(t, <<x, e>>) = a.events[e]
      BY <1>1 DEF EventOf
    <3> QED BY <3>1, <3>2
  <2>4. \A f \in Relation(a, i, k)[e] : y \in M.genF[<<x, f>>]
    BY <1>1, <1>7, <1>8, <1>9, <2>1, <2>2, AdvanceMeans
  <2>5. \A j \in fr.intro[g] : v \in r.R[j][w] => v \in Sat(r)[a.events[e].pre]
    BY <1>2, <1>4, <2>3, IntrospectionTravels
  <2>6. ~(i \in fr.intro[g] /\ e \in Relation(a, i, k)[e])
    BY <1>4, <1>7, <1>8, <2>1, <2>5
  <2>7. y \in Separated(t, s, fr, M, g, i)
    <3>1. Hidden(t, fr, M, a, g, i, k)
      BY <1>8, <2>3, <2>6 DEF Hidden
    <3> QED BY <1>1, <1>6, <2>3, <2>4, <3>1, SeparatedIs
  <2>8. ~Spared(s, fr, g, an[w], y)
    <3>1. SUFFICES ASSUME fr.public, NEW j \in fr.intro[g], y \in s.R[j][an[w]]
                   PROVE  FALSE
      BY DEF Spared
    <3>2. j \in Agents
      BY <1>2, <2>3, FrameIs
    <3>3. v \in r.R[j][w]
      BY <1>2, <1>4, <2>1, <3>1, <3>2 DEF Descends
    <3>4. v \in Sat(r)[a.events[e].pre]
      BY <2>5, <3>3
    <3>5. e \in Relation(a, i, k)[e]
      <4>1. Public(t)
        BY <1>2, <3>1 DEF Frame
      <4>2. \A b \in DOMAIN t.actions, j1 \in Agents : \A c \in Kinds(t.actions[b], j1) :
               \A d \in DOMAIN Relation(t.actions[b], j1, c) :
                  \A f : f \in Relation(t.actions[b], j1, c)[d] <=> f = d
        BY <4>1, PublicIs
      <4>3. \A d \in DOMAIN Relation(a, i, k) : d \in Relation(a, i, k)[d]
        BY <1>1, <1>2, <1>8, <4>2
      <4> QED BY <1>4, <1>9, <4>3
    <3> QED BY <1>4, <1>7, <1>8, <2>1, <3>4, <3>5
  <2>9. x \in M.app /\ an[w] \in M.genT[g]
    BY <1>1, <1>4, <2>3, AdvanceMeans
  <2> QED BY <1>1, <1>5, <2>3, <2>7, <2>8, <2>9, CutRowsAre
<1> QED BY <1>12, <1>13

-----------------------------------------------------------------------------
\* Layers, and the state the relaxation starts from

\* A layer whose caches are its own.
IsLayer(t, s, fr, L) == \E K : Literals(s, K) /\ L = Cached(s, fr, K, CutRows(t, s, fr, K))

\* The next layer with its caches.
NextLayer(t, s, fr, L) ==
  Cached(s, fr, StepLayer(t, s, fr, L), CutRows(t, s, fr, StepLayer(t, s, fr, L)))

\* The first layer with its caches.
First(t, s, fr) == Cached(s, fr, FirstLayer(t, s), CutRows(t, s, fr, FirstLayer(t, s)))

\* If a layer stands for a state, the next layer stands for every update of it.
LEMMA CoveredKept ==
  ASSUME NEW t, NEW s, NEW fr, NEW L, IsLayer(t, s, fr, L), NEW r, NEW an, NEW x, NEW n,
         Advances(t, s, fr, L, r, an, x, n)
  PROVE  LET N == NextLayer(t, s, fr, L)
         IN  Descends(t, s, fr, n, Follow(n, an)) /\ Covered(s, fr, N, N.cut, n, Follow(n, an))
<1>1. PICK M, cut, N : M = StepLayer(t, s, fr, L) /\ cut = CutRows(t, s, fr, M) /\ N = NextLayer(t, s, fr, L)
  OBVIOUS
<1>2. N.canT = M.canT /\ N.canF = M.canF /\ N.elim = M.elim /\ N.elimD = M.elimD /\ N.cut = cut
  BY <1>1, CachedIs DEF NextLayer
<1>3. PICK K : L = Cached(s, fr, K, CutRows(t, s, fr, K))
  BY DEF IsLayer
<1>4. Grows(t, K, M)
  <2>1. Grows(t, L, M)
    BY <1>1, StepAllows
  <2> QED BY <1>3, <2>1, CachedIs DEF Grows
<1>5. \A i \in Agents, b \in s.W : L.cut[i][b] \subseteq cut[i][b]
  <2>1. L.cut = CutRows(t, s, fr, K) /\ \A y \in DOMAIN t.actions : IsAction(t.actions[y])
    BY <1>3, CachedIs DEF Advances
  <2> QED BY <1>1, <1>4, <2>1, CutsGrow
<1>6. Descends(t, s, fr, n, Follow(n, an))
  BY DescendsKept DEF Advances, Follow
<1>7. \A z \in n.W, p \in Atoms : /\ p \in n.V[z] => Follow(n, an)[z] \in M.canT[p]
                                  /\ p \notin n.V[z] => Follow(n, an)[z] \in M.canF[p]
  BY <1>1, LiteralsCovered
<1>8. s.W \ Range(Follow(n, an)) \subseteq M.elim
  BY <1>1, WorldsCovered
<1>9. s.D \ {Follow(n, an)[z] : z \in n.D} \subseteq M.elimD
  BY <1>1, DesignationsCovered
<1>10. \A i \in Agents, z \in n.W : \A y \in Lost(s, n, Follow(n, an), i, z) :
          y \in M.elim \/ PossiblyCut(fr, cut, i, Follow(n, an)[z], y)
  BY <1>1, <1>5, EdgesCovered
<1>11. Covered(s, fr, N, N.cut, n, Follow(n, an))
  BY <1>2, <1>7, <1>8, <1>9, <1>10 DEF Covered
<1> QED BY <1>1, <1>6, <1>11

\* The first layer and those after it have caches of their own.
LEMMA LayersAre ==
  ASSUME NEW t, \A x \in DOMAIN t.actions : IsAction(t.actions[x]), NEW s, FiniteState(s), NEW fr,
         \A f \in Formulas : Meaningful(f)
  PROVE  /\ IsLayer(t, s, fr, First(t, s, fr))
         /\ \A L : IsLayer(t, s, fr, L) => IsLayer(t, s, fr, NextLayer(t, s, fr, L))
<1>1. IsLayer(t, s, fr, First(t, s, fr))
  BY FirstLiterals DEF IsLayer, First
<1>2. ASSUME NEW L, IsLayer(t, s, fr, L)
      PROVE  IsLayer(t, s, fr, NextLayer(t, s, fr, L))
  <2>1. PICK K : Literals(s, K) /\ L = Cached(s, fr, K, CutRows(t, s, fr, K))
    BY <1>2 DEF IsLayer
  <2>2. Literals(s, StepLayer(t, s, fr, L))
    BY <2>1, StepLiterals
  <2> QED BY <2>2 DEF IsLayer, NextLayer
<1> QED BY <1>1, <1>2

\* A layer that stands for a state covers the formulas of the task.
LEMMA LayerCovers ==
  ASSUME NEW t, NEW s, FiniteState(s), NEW fr, fr.refl \in SUBSET Agents,
         NEW L, IsLayer(t, s, fr, L), NEW r, NEW an,
         Descends(t, s, fr, r, an), Covered(s, fr, L, L.cut, r, an),
         \A g \in Formulas : Meaningful(g),
         NEW A, \A f \in A : f \in Formulas /\ Subformulas(f) \subseteq A,
         \A f \in A : f[1] = "Common" => f[2] \cap fr.refl # {}
  PROVE  \A f \in A : FormulaCovered(L.tv, r, an, f)
<1>1. PICK K : Literals(s, K) /\ L = Cached(s, fr, K, CutRows(t, s, fr, K))
  BY DEF IsLayer
<1>2. /\ L.canT = K.canT /\ L.canF = K.canF /\ L.elim = K.elim /\ L.elimD = K.elimD
      /\ L.tv = Eval(s, fr, K, L.cut)
  BY <1>1, CachedIs
<1>3. Covered(s, fr, K, L.cut, r, an)
  BY <1>2 DEF Covered
<1>4. \A f \in A : FormulaCovered(Eval(s, fr, K, L.cut), r, an, f)
  BY <1>1, <1>3, FormulasAreCovered
<1> QED BY <1>2, <1>4

\* Contraction keeps a state finite and designated worlds designated.
LEMMA ContractedIs ==
  ASSUME NEW s, FiniteState(s), s.D # {}
  PROVE  FiniteState(BisimContract(s)) /\ BisimContract(s).D # {}
<1>1. PICK q : q = BisimContract(s)
  OBVIOUS
<1>2. FiniteState(q) /\ Bisimilar(s, q)
  BY <1>1, ContractionIs
<1>3. PICK Z : Linked(s, q, Z)
  BY <1>2 DEF Bisimilar
<1>4. q.D # {}
  BY <1>3 DEF Linked
<1> QED BY <1>1, <1>2, <1>4

\* A task whose states have designated worlds.
Startable(t) ==
  /\ FiniteState(t.init) /\ t.init.D # {}
  /\ t.seriality \in {"Ignore", "Require"}
  /\ \A x \in DOMAIN t.actions : IsAction(t.actions[x])

\* The states of search nodes are finite and have designated worlds.
LEMMA StartsAre ==
  ASSUME NEW t, Startable(t), NEW s \in Starts(t)
  PROVE  FiniteState(s) /\ s.D # {}
<1>1. PICK s0 : s0 = BisimContract(t.init)
  OBVIOUS
<1>2. FiniteState(s0) /\ s0.D # {}
  BY <1>1, ContractedIs DEF Startable
<1> DEFINE branches(x) == Branches(s0, t.actions[x], t.seriality, t.cap)
<1>3. s = s0 \/ \E x \in DOMAIN t.actions : s \in Range(branches(x))
  BY <1>1 DEF Starts
<1>4. ASSUME NEW x \in DOMAIN t.actions, s \in Range(branches(x))
      PROVE  FiniteState(s) /\ s.D # {}
  <2>1. PICK a, split : a = t.actions[x] /\ split = ProductUpdateSplit(s0, a, t.seriality, t.cap)
    OBVIOUS
  <2>2. PICK e \in DOMAIN branches(x) : s = branches(x)[e]
    BY <1>4 DEF Range
  <2>3. Applicable(s0, a) /\ branches(x) = ContractedOutcomes(split)
    BY <2>1, <2>2 DEF Branches
  <2>4. e \in DOMAIN split /\ s = BisimContract(split[e])
    BY <2>2, <2>3 DEF ContractedOutcomes
  <2>5. ProductUpdate(s0, a, t.seriality, t.cap).ok
    BY <2>1, <2>4 DEF ProductUpdateSplit, SplitOf
  <2>6. IsAction(a)
    BY <2>1 DEF Startable
  <2>7. Follows(s0, a, split[e])
    BY <1>2, <2>1, <2>3, <2>4, <2>5, <2>6, FollowsIs DEF Startable
  <2>8. FiniteState(split[e]) /\ split[e].D # {}
    BY <1>2, <2>6, <2>7, FollowsMeans
  <2> QED BY <2>4, <2>8, ContractedIs
<1> QED BY <1>2, <1>3, <1>4

\* The worlds of a copy.
Tagged(X) == {<<w>> : w \in X}

\* A copied set has the copies of its members.
LEMMA TaggedIs == \A X : \A v : <<v>> \in Tagged(X) <=> v \in X
<1> SUFFICES ASSUME NEW X, NEW v
             PROVE  <<v>> \in Tagged(X) <=> v \in X
  OBVIOUS
<1>1. \A w : <<v>> = <<w>> => v = w
  OBVIOUS
<1> QED BY <1>1 DEF Tagged

\* A copy has the worlds, valuations and edges of the original.
LEMMA CopyIs ==
  ASSUME NEW s, FiniteState(s)
  PROVE  LET r == Copy(s)
         IN  /\ FiniteState(r)
             /\ r.W = Tagged(s.W) /\ r.D = Tagged(s.D)
             /\ \A w \in s.W : r.V[<<w>>] = s.V[w]
             /\ \A i \in Agents : \A w \in s.W : r.R[i][<<w>>] = Tagged(s.R[i][w])
<1>1. PICK r : r = Copy(s)
  OBVIOUS
<1>2. /\ r.W = Tagged(s.W) /\ r.D = Tagged(s.D)
      /\ r.V = [x \in r.W |-> s.V[x[1]]]
      /\ r.R = [i \in Agents |-> [x \in r.W |-> Tagged(s.R[i][x[1]])]]
  BY <1>1, TableIs DEF Copy, Tagged
<1>3. IsState(s) /\ IsFiniteSet(s.W)
  BY DEF FiniteState
<1>4. \A x \in r.W : x[1] \in s.W /\ x = <<x[1]>>
  BY <1>2 DEF Tagged
<1>5. \A w \in s.W : <<w>> \in r.W /\ <<w>>[1] = w
  BY <1>2 DEF Tagged
<1>6. IsFiniteSet(r.W)
  <2> DEFINE f == [w \in s.W |-> <<w>>]
  <2>1. f \in [s.W -> r.W]
    BY <1>5
  <2>2. \A x \in r.W : \E w \in s.W : f[w] = x
    BY <1>4
  <2>3. f \in Surjection(s.W, r.W)
    BY <2>1, <2>2 DEF Surjection
  <2> QED BY <1>3, <2>3, FS_Surjection
<1>7. \A X \in SUBSET s.W : Tagged(X) \in SUBSET r.W
  BY <1>2 DEF Tagged
<1>8. IsState(r)
  <2>1. r.V \in [r.W -> SUBSET Atoms]
    BY <1>2, <1>3, <1>4 DEF IsState
  <2>2. r.D \subseteq r.W
    BY <1>2, <1>3, <1>7 DEF IsState
  <2>3. \A i \in Agents : \A x \in r.W : Tagged(s.R[i][x[1]]) \in SUBSET r.W
    BY <1>3, <1>4, <1>7 DEF IsState
  <2>4. r.R \in [Agents -> [r.W -> SUBSET r.W]]
    BY <1>2, <2>3
  <2> QED BY <2>1, <2>2, <2>4 DEF IsState
<1> QED BY <1>1, <1>2, <1>5, <1>6, <1>8 DEF FiniteState

\* The first layer stands for the state itself.
LEMMA CopyDescends ==
  ASSUME NEW t, NEW s, FiniteState(s), s.D # {}, NEW fr, fr = Frame(t, s),
         NEW r, r = Copy(s), NEW an, an = [x \in r.W |-> x[1]]
  PROVE  Descends(t, s, fr, r, an) /\ Covered(s, fr, First(t, s, fr), First(t, s, fr).cut, r, an)
<1>1. /\ FiniteState(r)
      /\ r.W = Tagged(s.W) /\ r.D = Tagged(s.D)
      /\ \A w \in s.W : r.V[<<w>>] = s.V[w]
      /\ \A i \in Agents : \A w \in s.W : r.R[i][<<w>>] = Tagged(s.R[i][w])
  BY CopyIs
<1>2. IsState(s)
  BY DEF FiniteState
<1>3. \A w \in r.W : \E v \in s.W : w = <<v>> /\ an[w] = v
  BY <1>1 DEF Tagged
<1>4. \A v \in s.W : <<v>> \in r.W /\ an[<<v>>] = v
  BY <1>1 DEF Tagged
<1>5. \A v : v \in s.D <=> <<v>> \in r.D
  BY <1>1 DEF Tagged
<1>6. \A i \in Agents : \A w, v \in s.W : <<v>> \in r.R[i][<<w>>] <=> v \in s.R[i][w]
  <2> SUFFICES ASSUME NEW i \in Agents, NEW w \in s.W, NEW v \in s.W
               PROVE  <<v>> \in r.R[i][<<w>>] <=> v \in s.R[i][w]
    OBVIOUS
  <2>1. r.R[i][<<w>>] = Tagged(s.R[i][w])
    BY <1>1
  <2> QED BY <2>1, TaggedIs
<1>7. \A i \in Agents : \A w \in r.W : \A v \in r.R[i][w] : v \in r.W
  BY <1>1 DEF FiniteState, IsState
<1>8. r.D \subseteq r.W /\ s.D \subseteq s.W
  BY <1>1, <1>2 DEF FiniteState, IsState
<1>9. \A i \in Agents : DOMAIN r.R[i] = r.W /\ DOMAIN s.R[i] = s.W
  BY <1>1, <1>2 DEF FiniteState, IsState
<1>10. Descends(t, s, fr, r, an)
  <2>1. r.D # {}
    BY <1>5
  <2>2. an \in [r.W -> s.W]
    BY <1>3
  <2>3. \A w \in r.D : an[w] \in s.D
    BY <1>3, <1>5, <1>8
  <2>4. \A i \in Agents : \A w \in r.W : \A v \in r.R[i][w] : an[v] \in s.R[i][an[w]]
    BY <1>3, <1>6, <1>7
  <2>5. \A i \in fr.refl : IsReflexiveOn(r.R[i])
    <3>1. SUFFICES ASSUME NEW i \in fr.refl, NEW w \in DOMAIN r.R[i]
                   PROVE  w \in r.R[i][w]
      BY DEF IsReflexiveOn
    <3>2. i \in Agents /\ IsReflexiveOn(s.R[i])
      BY FrameIs
    <3>3. w \in r.W
      BY <1>9, <3>1, <3>2
    <3>4. PICK x \in s.W : w = <<x>>
      BY <1>3, <3>3
    <3>5. x \in s.R[i][x]
      BY <1>9, <3>2 DEF IsReflexiveOn
    <3> QED BY <1>6, <3>2, <3>4, <3>5
  <2>6. \A i \in K45Agents(t, s) : IsK45(r.R[i])
    <3>1. SUFFICES ASSUME NEW i \in K45Agents(t, s), NEW w \in r.W, NEW v \in r.R[i][w]
                   PROVE  r.R[i][v] = r.R[i][w]
      BY <1>9, FrameIs DEF IsK45
    <3>2. i \in Agents /\ IsK45(s.R[i])
      BY FrameIs
    <3>3. PICK x, y \in s.W : w = <<x>> /\ v = <<y>>
      BY <1>3, <1>7, <3>2
    <3>4. s.R[i][y] = s.R[i][x]
      BY <1>6, <1>9, <3>2, <3>3 DEF IsK45
    <3> QED BY <1>1, <3>2, <3>3, <3>4
  <2>7. \A i, j \in Agents : \A w \in r.W : \A v \in r.R[i][w] :
           an[v] \in s.R[j][an[w]] => v \in r.R[j][w]
    BY <1>3, <1>6, <1>7
  <2> QED BY <1>1, <2>1, <2>2, <2>3, <2>4, <2>5, <2>6, <2>7 DEF Descends
<1>11. Covered(s, fr, First(t, s, fr), First(t, s, fr).cut, r, an)
  <2>1. PICK F, L : F = FirstLayer(t, s) /\ L = First(t, s, fr)
    OBVIOUS
  <2>2. L.canT = F.canT /\ L.canF = F.canF
    BY <2>1, CachedIs DEF First
  <2>3. \A p \in Atoms : F.canT[p] = {w \in s.W : p \in s.V[w]} /\ F.canF[p] = {w \in s.W : p \notin s.V[w]}
    BY <2>1, FirstLiterals
  <2>4. ASSUME NEW w \in r.W, NEW p \in Atoms
        PROVE  /\ p \in r.V[w] => an[w] \in L.canT[p]
               /\ p \notin r.V[w] => an[w] \in L.canF[p]
    <3>1. PICK v \in s.W : w = <<v>> /\ an[w] = v
      BY <1>3
    <3>2. r.V[w] = s.V[v]
      BY <1>1, <3>1
    <3> QED BY <2>2, <2>3, <3>1, <3>2
  <2>5. s.W \ Range(an) = {}
    <3>1. \A v \in s.W : <<v>> \in DOMAIN an /\ an[<<v>>] = v
      BY <1>4
    <3> QED BY <3>1 DEF Range
  <2>6. s.D \ {an[w] : w \in r.D} = {}
    <3>1. \A v \in s.D : <<v>> \in r.D /\ an[<<v>>] = v
      BY <1>4, <1>5, <1>8
    <3>2. \A v \in s.D : v \in {an[w] : w \in r.D}
      BY <3>1
    <3> QED BY <3>2
  <2>7. ASSUME NEW i \in Agents, NEW w \in r.W
        PROVE  Lost(s, r, an, i, w) = {}
    <3>1. PICK x \in s.W : w = <<x>> /\ an[w] = x
      BY <1>3
    <3>2. ASSUME NEW y \in Lost(s, r, an, i, w)
          PROVE  FALSE
      <4>1. /\ y \in s.R[i][an[w]]
            /\ \A v \in r.R[i][w] : y # an[v]
        BY <3>2 DEF Lost
      <4>2. y \in s.R[i][x] /\ y \in s.W
        BY <1>2, <3>1, <4>1 DEF IsState
      <4>3. <<y>> \in r.R[i][w] /\ an[<<y>>] = y
        BY <1>4, <1>6, <3>1, <4>2
      <4> QED BY <4>1, <4>3
    <3> QED BY <3>2
  <2> QED BY <2>1, <2>4, <2>5, <2>6, <2>7 DEF Covered
<1> QED BY <1>10, <1>11

-----------------------------------------------------------------------------
\* The invariant of HDelta

\* q is a sequence.
IsSeq(q) == q \in Seq(Range(q))

\* Lengths and members of sequences with one more element.
LEMMA SeqIs ==
  /\ \A e : IsSeq(<<e>>) /\ Len(<<e>>) = 1 /\ <<e>>[1] = e
  /\ \A q : IsSeq(q) => Len(q) \in Nat /\ DOMAIN q = 1 .. Len(q)
  /\ \A q, e : IsSeq(q) => /\ IsSeq(Append(q, e)) /\ Len(Append(q, e)) = Len(q) + 1
                           /\ \A k \in 1 .. Len(q) : Append(q, e)[k] = q[k]
                           /\ Append(q, e)[Len(q) + 1] = e
<1>1. \A S, q : q \in Seq(S) => IsSeq(q)
  <2>1. SUFFICES ASSUME NEW S, NEW q \in Seq(S)
                 PROVE  q \in Seq(Range(q))
    BY DEF IsSeq
  <2>2. Len(q) \in Nat /\ q \in [1 .. Len(q) -> S]
    OBVIOUS
  <2>3. q \in [1 .. Len(q) -> Range(q)]
    BY <2>2 DEF Range
  <2> QED BY <2>2, <2>3
<1>2. \A e : IsSeq(<<e>>) /\ Len(<<e>>) = 1 /\ <<e>>[1] = e
  <2> SUFFICES ASSUME NEW e
               PROVE  IsSeq(<<e>>) /\ Len(<<e>>) = 1 /\ <<e>>[1] = e
    OBVIOUS
  <2>1. <<e>> \in Seq({e})
    OBVIOUS
  <2> QED BY <1>1, <2>1
<1>3. \A q : IsSeq(q) => Len(q) \in Nat /\ DOMAIN q = 1 .. Len(q)
  BY DEF IsSeq
<1>4. ASSUME NEW q, IsSeq(q), NEW e
      PROVE  /\ IsSeq(Append(q, e)) /\ Len(Append(q, e)) = Len(q) + 1
             /\ \A k \in 1 .. Len(q) : Append(q, e)[k] = q[k]
             /\ Append(q, e)[Len(q) + 1] = e
  <2>1. PICK S : S = Range(q) \cup {e}
    OBVIOUS
  <2>2. Len(q) \in Nat /\ q \in [1 .. Len(q) -> S]
    <3>1. q \in Seq(Range(q))
      BY <1>4 DEF IsSeq
    <3>2. Len(q) \in Nat /\ q \in [1 .. Len(q) -> Range(q)]
      BY <3>1
    <3> QED BY <2>1, <3>2
  <2>3. q \in Seq(S) /\ e \in S
    BY <2>1, <2>2
  <2>4. Append(q, e) \in Seq(S)
    BY <2>3
  <2>5. IsSeq(Append(q, e))
    BY <1>1, <2>4
  <2>6. Len(Append(q, e)) = Len(q) + 1
    BY <2>3
  <2>7. \A k \in 1 .. Len(q) : Append(q, e)[k] = q[k]
    BY <2>3
  <2>8. Append(q, e)[Len(q) + 1] = e
    BY <2>3
  <2> QED BY <2>5, <2>6, <2>7, <2>8
<1> QED BY <1>2, <1>3, <1>4

\* Each layer is the step of the one before, and none but the last reaches the goal.
LayersInv ==
  /\ IsSeq(layers) /\ Len(layers) \in 1 .. MaxLayers + 1
  /\ layers[1] = First(T, start, frame)
  /\ \A k \in 1 .. Len(layers) - 1 : layers[k + 1] = NextLayer(T, start, frame, layers[k])
  /\ \A k \in 1 .. Len(layers) - 1 : ~Reached(start, layers[k], T.goal)

\* No update is explored before the verdict; an infinite estimate comes with a last
\* layer that does not reach the goal and is at the bound or a fixed point.
VerdictInv ==
  /\ status \in {"running", "done", "timed out"}
  /\ status # "done" => depth = 0 /\ h = Infinity
  /\ status = "done" =>
       \/ h = Len(layers) - 1
       \/ /\ h = Infinity /\ ~Reached(start, Layer, T.goal)
          /\ (Len(layers) = MaxLayers + 1 \/ FixedPoint)

\* The layer of as many steps as updates were made stands for the state they led to;
\* past the fixed point it is the last one.
PathCovered ==
  /\ Descends(T, start, frame, raw, anc)
  /\ HasLayer => Covered(start, frame, Current, Current.cut, raw, anc)

\* The inductive invariant of HDelta.
EstimateInv ==
  /\ task \in Tasks /\ start \in Starts(T) /\ frame = Frame(T, start) /\ depth \in 0 .. MaxDepth
  /\ LayersInv /\ VerdictInv /\ PathCovered

\* The layer that stands for the state is one of those computed.
LEMMA CurrentIs ==
  ASSUME EstimateInv
  PROVE  \E k \in 1 .. Len(layers) : Current = layers[k]
<1>1. IsSeq(layers) /\ Len(layers) \in 1 .. MaxLayers + 1 /\ depth \in 0 .. MaxDepth
  BY DEF EstimateInv, LayersInv, PathCovered
<1>2. Len(layers) \in Nat /\ Len(layers) \in 1 .. Len(layers) /\ depth \in Nat
  BY <1>1, SeqIs, TasksAssumption, MaxLayersAssumption
<1>3. depth < Len(layers) => depth + 1 \in 1 .. Len(layers)
  BY <1>2
<1> QED BY <1>2, <1>3 DEF Current, Layer

\* What the scope of the relaxation says of a task.
LEMMA TaskInScope ==
  ASSUME task \in Tasks, InScope(T)
  PROVE  /\ Startable(T)
         /\ \A f \in Formulas : Meaningful(f)
         /\ T.goal \in T.asked
         /\ \A x \in DOMAIN T.actions : Consulted(T.actions[x]) \subseteq T.asked
         /\ \A f \in T.asked : f \in Formulas /\ Subformulas(f) \subseteq T.asked
         /\ \A s \in Starts(T), f \in T.asked : f[1] = "Common" => f[2] \cap Reflexive(T, s) # {}
<1>1. FiniteState(T.init) /\ T.seriality \in Serialities /\ \A x \in DOMAIN T.actions : IsAction(T.actions[x])
  BY TaskIs
<1> QED BY <1>1 DEF InScope, Startable, Serialities

\* Under the invariant all layers have caches of their own, and the one that stands for
\* the state covers the formulas of the task.
LEMMA EstimateInvMeans ==
  ASSUME InScope(T), EstimateInv
  PROVE  /\ FiniteState(start) /\ start.D # {}
         /\ frame = Frame(T, start) /\ frame.refl \in SUBSET Agents
         /\ \A k \in 1 .. Len(layers) : IsLayer(T, start, frame, layers[k])
         /\ HasLayer => \A f \in T.asked : FormulaCovered(Current.tv, raw, anc, f)
<1>1. task \in Tasks /\ start \in Starts(T) /\ frame = Frame(T, start)
  BY DEF EstimateInv, LayersInv, PathCovered
<1>2. /\ Startable(T)
      /\ \A f \in Formulas : Meaningful(f)
      /\ \A f \in T.asked : f \in Formulas /\ Subformulas(f) \subseteq T.asked
      /\ \A f \in T.asked : f[1] = "Common" => f[2] \cap Reflexive(T, start) # {}
  BY <1>1, TaskInScope
<1>3. FiniteState(start) /\ start.D # {}
  BY <1>1, <1>2, StartsAre
<1>4. frame.refl = Reflexive(T, start) /\ frame.refl \in SUBSET Agents
  BY <1>1, FrameIs DEF Frame
<1>5. Len(layers) \in Nat /\ Len(layers) \in 1 .. MaxLayers + 1
  BY SeqIs DEF EstimateInv, LayersInv, PathCovered
<1>6. \A k \in 1 .. Len(layers) : IsLayer(T, start, frame, layers[k])
  <2> DEFINE X == {k \in 1 .. Len(layers) : ~IsLayer(T, start, frame, layers[k])}
  <2>1. SUFFICES ASSUME X # {}
                 PROVE  FALSE
    OBVIOUS
  <2>2. PICK n \in X : \A m \in X : n <= m
    <3>1. X \in SUBSET Nat
      OBVIOUS
    <3> HIDE DEF X
    <3> QED BY <2>1, <3>1, LeastNatural
  <2>3. \A x \in DOMAIN T.actions : IsAction(T.actions[x])
    BY <1>2 DEF Startable
  <2>4. n # 1
    BY <1>2, <1>3, <2>3, LayersAre DEF EstimateInv, LayersInv, PathCovered
  <2>5. n - 1 \in 1 .. Len(layers) - 1 /\ n - 1 \notin X /\ (n - 1) + 1 = n
    BY <1>5, <2>2, <2>4
  <2>6. layers[n] = NextLayer(T, start, frame, layers[n - 1])
    BY <2>5 DEF EstimateInv, LayersInv, PathCovered
  <2>7. IsLayer(T, start, frame, layers[n - 1])
    BY <1>5, <2>5
  <2> QED BY <1>2, <1>3, <2>2, <2>3, <2>6, <2>7, LayersAre
<1>7. ASSUME HasLayer
      PROVE  \A f \in T.asked : FormulaCovered(Current.tv, raw, anc, f)
  <2>1. \E k \in 1 .. Len(layers) : Current = layers[k]
    BY CurrentIs
  <2>2. IsLayer(T, start, frame, Current)
    BY <1>6, <2>1
  <2>3. Descends(T, start, frame, raw, anc) /\ Covered(start, frame, Current, Current.cut, raw, anc)
    BY <1>7 DEF EstimateInv, LayersInv, PathCovered
  <2> QED BY <1>2, <1>3, <1>4, <2>2, <2>3, LayerCovers
<1> QED BY <1>1, <1>3, <1>4, <1>6, <1>7

\* The invariant holds at the start.
LEMMA EstimateInvInit ==
  ASSUME \A t \in Tasks : InScope(Task[t]), EstimateInit
  PROVE  EstimateInv
<1>1. /\ task \in Tasks /\ start \in Starts(T) /\ frame = Frame(T, start)
      /\ layers = <<First(T, start, frame)>>
      /\ status = "running" /\ h = Infinity
      /\ raw = Copy(start) /\ anc = [x \in raw.W |-> x[1]] /\ depth = 0
  BY DEF EstimateInit, First, T
<1>2. FiniteState(start) /\ start.D # {}
  <2>1. InScope(T)
    BY <1>1 DEF T
  <2> QED BY <1>1, <2>1, TaskInScope, StartsAre
<1>3. IsSeq(layers) /\ Len(layers) = 1 /\ layers[1] = First(T, start, frame)
  BY <1>1, SeqIs
<1>4. /\ Descends(T, start, frame, raw, anc)
      /\ Covered(start, frame, First(T, start, frame), First(T, start, frame).cut, raw, anc)
  BY <1>1, <1>2, CopyDescends
<1>5. Current = First(T, start, frame)
  BY <1>1, <1>3 DEF Current
<1>6. Len(layers) \in 1 .. MaxLayers + 1 /\ 1 .. Len(layers) - 1 = {} /\ depth \in 0 .. MaxDepth
  BY <1>1, <1>3, MaxLayersAssumption, TasksAssumption
<1>7. LayersInv
  BY <1>3, <1>6 DEF LayersInv
<1>8. VerdictInv
  BY <1>1 DEF VerdictInv
<1>9. PathCovered
  BY <1>4, <1>5 DEF PathCovered
<1> QED BY <1>1, <1>6, <1>7, <1>8, <1>9 DEF EstimateInv

\* A step of the computation, which makes no update.
SamePath == UNCHANGED <<task, start, frame, raw, anc, depth>>

\* A step that neither updates nor adds a layer keeps what the layers say.
LEMMA SamePathKeeps ==
  ASSUME EstimateInv, SamePath, layers' = layers
  PROVE  /\ task' \in Tasks /\ start' \in Starts(T') /\ frame' = Frame(T', start')
         /\ depth' \in 0 .. MaxDepth
         /\ LayersInv' /\ PathCovered'
<1>1. T' = T
  BY DEF SamePath, T
<1>2. HasLayer' = HasLayer /\ Current' = Current
  BY DEF SamePath, HasLayer, FixedPoint, Current, Layer
<1>3. LayersInv'
  BY <1>1 DEF EstimateInv, LayersInv, SamePath
<1>4. PathCovered'
  BY <1>1, <1>2 DEF EstimateInv, PathCovered, SamePath
<1> QED BY <1>1, <1>3, <1>4 DEF EstimateInv, SamePath

\* An answer keeps the invariant.
LEMMA AnswerKeeps ==
  ASSUME EstimateInv, Answer
  PROVE  EstimateInv'
<1>1. SamePath /\ layers' = layers /\ status' = "done" /\ h' = Len(layers) - 1
  BY DEF Answer, SamePath
<1>2. VerdictInv'
  BY <1>1 DEF VerdictInv
<1> QED BY <1>1, <1>2, SamePathKeeps DEF EstimateInv

\* Running out of time keeps the invariant.
LEMMA TimeOutKeeps ==
  ASSUME EstimateInv, TimeOut
  PROVE  EstimateInv'
<1>1. SamePath /\ layers' = layers /\ h' = h /\ status = "running" /\ status' = "timed out"
  BY DEF TimeOut, SamePath
<1>2. VerdictInv'
  BY <1>1 DEF EstimateInv, VerdictInv, SamePath, Infinity
<1> QED BY <1>1, <1>2, SamePathKeeps DEF EstimateInv

\* Giving up at the bound keeps the invariant.
LEMMA GiveUpKeeps ==
  ASSUME EstimateInv, GiveUp
  PROVE  EstimateInv'
<1>1. SamePath /\ layers' = layers /\ h' = h /\ status = "running" /\ status' = "done"
  BY DEF GiveUp, SamePath
<1>2. ~Reached(start, Layer, T.goal) /\ Len(layers) - 1 >= MaxLayers
  BY DEF GiveUp, GoalReached
<1>3. IsSeq(layers) /\ Len(layers) \in 1 .. MaxLayers + 1 /\ h = Infinity
  BY <1>1 DEF EstimateInv, LayersInv, VerdictInv
<1>4. Len(layers) = MaxLayers + 1
  BY <1>2, <1>3, SeqIs, MaxLayersAssumption
<1>5. ~Reached(start', Layer', T'.goal) /\ h' = Infinity'
  BY <1>1, <1>2, <1>3 DEF SamePath, Layer, T, Infinity
<1>6. VerdictInv'
  BY <1>1, <1>4, <1>5 DEF VerdictInv
<1> QED BY <1>1, <1>6, SamePathKeeps DEF EstimateInv

\* One more layer keeps the invariant.
LEMMA StepKeeps ==
  ASSUME EstimateInv, Step
  PROVE  EstimateInv'
<1>1. /\ SamePath /\ h' = h /\ status = "running" /\ status' \in {"running", "done"}
      /\ layers' = Append(layers, NextLayer(T, start, frame, Layer))
      /\ status' = "done" => layers'[Len(layers')] = Layer
      /\ Len(layers) - 1 < MaxLayers /\ ~Reached(start, Layer, T.goal)
  BY DEF Step, SamePath, NextLayer, GoalReached
<1>2. /\ IsSeq(layers) /\ Len(layers) \in 1 .. MaxLayers + 1 /\ Len(layers) \in Nat
      /\ layers[1] = First(T, start, frame)
      /\ \A k \in 1 .. Len(layers) - 1 : layers[k + 1] = NextLayer(T, start, frame, layers[k])
      /\ \A k \in 1 .. Len(layers) - 1 : ~Reached(start, layers[k], T.goal)
      /\ depth = 0 /\ h = Infinity
  BY <1>1, SeqIs DEF EstimateInv, LayersInv, VerdictInv
<1>3. PICK n \in Nat : n = Len(layers) /\ Layer = layers[n]
  BY <1>2 DEF Layer
<1>4. /\ IsSeq(layers') /\ Len(layers') = n + 1
      /\ \A k \in 1 .. n : layers'[k] = layers[k]
      /\ layers'[n + 1] = NextLayer(T, start, frame, Layer)
  BY <1>1, <1>2, <1>3, SeqIs
<1>5. n \in 1 .. MaxLayers /\ Len(layers') \in 1 .. MaxLayers + 1
  BY <1>1, <1>2, <1>3, <1>4, MaxLayersAssumption
<1>6. \A k \in 1 .. Len(layers') - 1 : /\ k \in 1 .. n
                                       /\ k = n \/ (k \in 1 .. n - 1 /\ k + 1 \in 1 .. n)
  BY <1>4
<1>7. T' = T /\ start' = start /\ frame' = frame /\ depth' = depth
  BY <1>1 DEF SamePath, T
<1>8. \A k \in 1 .. Len(layers') - 1 : layers'[k + 1] = NextLayer(T, start, frame, layers'[k])
  BY <1>2, <1>3, <1>4, <1>6
<1>9. \A k \in 1 .. Len(layers') - 1 : ~Reached(start, layers'[k], T.goal)
  BY <1>1, <1>2, <1>3, <1>4, <1>6
<1>10. layers'[1] = layers[1]
  BY <1>4, <1>5
<1>11. LayersInv'
  BY <1>2, <1>4, <1>5, <1>7, <1>8, <1>9, <1>10 DEF LayersInv
<1>12. Layer' = layers'[n + 1]
  BY <1>4 DEF Layer
<1>13. status' = "done" => ~Reached(start, Layer', T.goal) /\ FixedPoint'
  <2>1. SUFFICES ASSUME status' = "done"
                 PROVE  ~Reached(start, Layer', T.goal) /\ FixedPoint'
    OBVIOUS
  <2>2. Layer' = Layer
    BY <1>1, <1>4, <1>12, <2>1
  <2>3. Len(layers') > 1 /\ Len(layers') - 1 = n /\ layers'[n] = layers[n]
    BY <1>4, <1>5
  <2> QED BY <1>1, <1>3, <2>2, <2>3 DEF FixedPoint
<1>14. VerdictInv'
  BY <1>1, <1>2, <1>7, <1>13 DEF VerdictInv, Infinity
<1>15. HasLayer /\ Current = layers[1] /\ Current' = layers'[1]
  <2>1. 0 < n /\ 0 < n + 1 /\ 1 \in 1 .. n /\ 0 + 1 = 1
    BY <1>5
  <2> QED BY <1>2, <1>3, <1>4, <1>7, <2>1 DEF HasLayer, Current
<1>16. PathCovered'
  BY <1>1, <1>7, <1>10, <1>15 DEF EstimateInv, PathCovered, SamePath
<1> QED BY <1>1, <1>7, <1>11, <1>14, <1>16 DEF EstimateInv, SamePath

\* The layer that stands for the state after an update is the step of the one before it,
\* also past the fixed point.
LEMMA NextLayerCurrent ==
  ASSUME EstimateInv, layers' = layers, depth' = depth + 1, HasLayer', T' = T
  PROVE  HasLayer /\ Current' = NextLayer(T, start, frame, Current)
<1>1. /\ Len(layers) \in Nat /\ Len(layers) >= 1 /\ depth \in Nat
      /\ \A k \in 1 .. Len(layers) - 1 : layers[k + 1] = NextLayer(T, start, frame, layers[k])
  <2>1. /\ IsSeq(layers) /\ Len(layers) \in 1 .. MaxLayers + 1 /\ depth \in 0 .. MaxDepth
        /\ \A k \in 1 .. Len(layers) - 1 : layers[k + 1] = NextLayer(T, start, frame, layers[k])
    BY DEF EstimateInv, LayersInv
  <2>2. Len(layers) \in Nat /\ Len(layers) >= 1
    BY <2>1, SeqIs, MaxLayersAssumption
  <2>3. depth \in Nat
    BY <2>1, TasksAssumption
  <2> QED BY <2>1, <2>2, <2>3
<1>2. PICK n \in Nat : n = Len(layers)
  BY <1>1
<1>3. CASE depth + 1 < n
  <2>1. depth < n /\ depth + 1 \in 1 .. n - 1
    BY <1>1, <1>3
  <2>2. Current = layers[depth + 1] /\ Current' = layers[(depth + 1) + 1] /\ HasLayer
    BY <1>2, <1>3, <2>1 DEF Current, HasLayer
  <2> QED BY <1>1, <1>2, <2>1, <2>2
<1>4. CASE ~(depth + 1 < n)
  <2>1. Current' = layers[n] /\ n > 1 /\ layers[n - 1] = layers[n]
    BY <1>2, <1>4 DEF Current, HasLayer, FixedPoint, Layer
  <2>2. HasLayer
    BY <1>2, <2>1 DEF HasLayer, FixedPoint, Layer
  <2>3. Current = layers[n]
    <3>1. CASE depth < n
      <4>1. depth + 1 = n
        BY <1>1, <1>4, <3>1
      <4> QED BY <1>2, <3>1, <4>1 DEF Current
    <3>2. CASE ~(depth < n)
      BY <1>2, <3>2 DEF Current, Layer
    <3> QED BY <3>1, <3>2
  <2>4. n - 1 \in 1 .. n - 1 /\ (n - 1) + 1 = n
    BY <2>1
  <2>5. layers[n] = NextLayer(T, start, frame, layers[n - 1])
    BY <1>1, <1>2, <2>4
  <2> QED BY <2>1, <2>2, <2>3, <2>5
<1> QED BY <1>3, <1>4

\* An update keeps the invariant.
LEMMA ExploreKeeps ==
  ASSUME InScope(T), EstimateInv, NEW x \in DOMAIN T.actions, Explore(x)
  PROVE  EstimateInv'
<1>1. PICK a : a = T.actions[x]
  OBVIOUS
<1>2. /\ status = "done" /\ depth < MaxDepth /\ Applicable(raw, a)
      /\ ProductUpdate(raw, a, T.seriality, T.cap).ok
      /\ \/ raw' = ProductUpdate(raw, a, T.seriality, T.cap).state
         \/ \E e \in DOMAIN ProductUpdateSplit(raw, a, T.seriality, T.cap) :
               raw' = ProductUpdateSplit(raw, a, T.seriality, T.cap)[e]
      /\ anc' = [w \in raw'.W |-> anc[w[1]]]
      /\ depth' = depth + 1
      /\ UNCHANGED <<task, start, frame, layers, status, h>>
  BY <1>1 DEF Explore
<1>3. T' = T
  BY <1>2 DEF T
<1>4. /\ Startable(T)
      /\ \A f \in T.asked : f \in Formulas
      /\ \A y \in DOMAIN T.actions : Consulted(T.actions[y]) \subseteq T.asked
  BY TaskInScope DEF EstimateInv
<1>5. IsAction(a) /\ T.seriality \in {"Ignore", "Require"} /\ \A y \in DOMAIN T.actions : IsAction(T.actions[y])
  BY <1>1, <1>4 DEF Startable
<1>6. /\ FiniteState(start) /\ frame = Frame(T, start)
      /\ \A k \in 1 .. Len(layers) : IsLayer(T, start, frame, layers[k])
      /\ HasLayer => \A f \in T.asked : FormulaCovered(Current.tv, raw, anc, f)
  BY EstimateInvMeans
<1>7. Descends(T, start, frame, raw, anc) /\ FiniteState(raw)
  BY DEF EstimateInv, PathCovered, Descends
<1>8. Follows(raw, a, raw')
  BY <1>2, <1>5, <1>7, FollowsIs
<1>9. anc' = Follow(raw', anc)
  BY <1>2 DEF Follow
<1>10. Descends(T, start, frame, raw', anc')
  BY <1>1, <1>5, <1>6, <1>7, <1>8, <1>9, DescendsKept DEF Follow
<1>11. ASSUME HasLayer'
       PROVE  Covered(start, frame, Current', Current'.cut, raw', anc')
  <2>1. HasLayer /\ Current' = NextLayer(T, start, frame, Current)
    BY <1>2, <1>3, <1>11, NextLayerCurrent
  <2>2. IsLayer(T, start, frame, Current)
    BY <1>6, CurrentIs DEF EstimateInv
  <2>3. Covered(start, frame, Current, Current.cut, raw, anc)
    BY <2>1 DEF EstimateInv, PathCovered
  <2>4. Advances(T, start, frame, Current, raw, anc, x, raw')
    BY <1>1, <1>2, <1>4, <1>5, <1>6, <1>7, <1>8, <2>1, <2>3 DEF Advances
  <2>5. \A L, n : IsLayer(T, start, frame, L) /\ Advances(T, start, frame, L, raw, anc, x, n) =>
           LET N == NextLayer(T, start, frame, L) IN Covered(start, frame, N, N.cut, n, Follow(n, anc))
    BY CoveredKept
  <2> QED BY <1>9, <2>1, <2>2, <2>4, <2>5
<1>12. /\ depth \in Nat /\ depth' \in 0 .. MaxDepth
  <2>1. depth \in 0 .. MaxDepth
    BY DEF EstimateInv
  <2> QED BY <1>2, <2>1, TasksAssumption
<1>13. LayersInv'
  BY <1>2, <1>3 DEF EstimateInv, LayersInv
<1>14. VerdictInv'
  <2>1. Layer' = Layer /\ FixedPoint' = FixedPoint /\ Infinity' = Infinity
    BY <1>2 DEF Layer, FixedPoint, Infinity
  <2> QED BY <1>2, <1>3, <2>1 DEF EstimateInv, VerdictInv
<1>15. PathCovered'
  BY <1>2, <1>3, <1>10, <1>11 DEF PathCovered
<1> QED BY <1>2, <1>3, <1>12, <1>13, <1>14, <1>15 DEF EstimateInv

(***************************************************************************)
(* For every finite task in the scope of the relaxation and every path of  *)
(* updates from its initial state or a successor of it: the layer of as    *)
(* many steps stands for the state the path leads to (hdelta.cpp, step).   *)
(* A search node further down is the initial state of another task.        *)
(***************************************************************************)
THEOREM EstimateInvariant ==
  ASSUME \A t \in Tasks : InScope(Task[t])
  PROVE  EstimateSpec => []EstimateInv
<1>1. EstimateInit => EstimateInv
  BY EstimateInvInit
<1>2. EstimateInv /\ [EstimateNext]_estimateVars => EstimateInv'
  <2> SUFFICES ASSUME EstimateInv, [EstimateNext]_estimateVars
               PROVE  EstimateInv'
    OBVIOUS
  <2>1. CASE Answer
    BY <2>1, AnswerKeeps
  <2>2. CASE GiveUp
    BY <2>2, GiveUpKeeps
  <2>3. CASE Step
    BY <2>3, StepKeeps
  <2>4. CASE TimeOut
    BY <2>4, TimeOutKeeps
  <2>5. CASE \E x \in DOMAIN T.actions : Explore(x)
    <3>1. InScope(T)
      BY DEF EstimateInv, T
    <3> QED BY <2>5, <3>1, ExploreKeeps
  <2>6. CASE UNCHANGED estimateVars
    <3>1. SamePath /\ layers' = layers /\ status' = status /\ h' = h
      BY <2>6 DEF estimateVars, SamePath
    <3>2. VerdictInv'
      BY <3>1 DEF EstimateInv, VerdictInv, SamePath, T, Layer, FixedPoint, Infinity
    <3> QED BY <3>1, <3>2, SamePathKeeps DEF EstimateInv
  <2> QED BY <2>1, <2>2, <2>3, <2>4, <2>5, <2>6 DEF EstimateNext
<1> QED BY <1>1, <1>2, PTL DEF EstimateSpec

\* If the goal holds, the layer that stands for the state reaches it.
LEMMA ReachedIfSatisfied ==
  ASSUME NEW t, NEW s, NEW fr, NEW L, NEW r, NEW an, Descends(t, s, fr, r, an), s.D \subseteq s.W,
         Covered(s, fr, L, L.cut, r, an), NEW f, FormulaCovered(L.tv, r, an, f), Satisfies(r, f)
  PROVE  Reached(s, L, f)
<1>1. \A w \in r.D : an[w] \in s.D /\ an[w] \in L.tv[f].T
  BY DEF Descends, FiniteState, IsState, FormulaCovered, Satisfies
<1>2. s.D \subseteq L.tv[f].T \cup L.elimD
  BY <1>1 DEF Covered
<1>3. s.D \cap L.tv[f].T # {}
  BY <1>1 DEF Descends
<1> QED BY <1>2, <1>3 DEF Reached

(***************************************************************************)
(* For every such task and path, a formula of the task that holds at a world*)
(* may be true, and one that fails may be false, where the world descends  *)
(* from (hdelta.cpp, eval).                                                *)
(***************************************************************************)
THEOREM FormulasAlwaysCovered ==
  ASSUME \A t \in Tasks : InScope(Task[t])
  PROVE  EstimateSpec => []FormulasCovered
<1>1. EstimateInv => FormulasCovered
  <2> SUFFICES ASSUME EstimateInv, HasLayer, NEW f \in T.asked, NEW w \in raw.W
               PROVE  IF w \in Sat(raw)[f] THEN anc[w] \in Current.tv[f].T
                                           ELSE anc[w] \in Current.tv[f].F
    BY DEF FormulasCovered
  <2>1. InScope(T)
    BY DEF EstimateInv, T
  <2> QED BY <2>1, EstimateInvMeans DEF FormulaCovered
<1> QED BY <1>1, EstimateInvariant, PTL

(***************************************************************************)
(* For every such task and path, worlds, designations and edges without a  *)
(* descendant are foreseen, and the facts of the frame that refine the cuts*)
(* hold for good (hdelta.cpp, cut_row and step).                           *)
(***************************************************************************)
THEOREM LossesAlwaysCovered ==
  ASSUME \A t \in Tasks : InScope(Task[t])
  PROVE  EstimateSpec => []LossesCovered
<1>1. EstimateInv => LossesCovered
  <2> SUFFICES ASSUME EstimateInv
               PROVE  LossesCovered
    OBVIOUS
  <2>1. FramesKept
    BY DEF EstimateInv, PathCovered, Descends, FramesKept
  <2> QED BY <2>1 DEF EstimateInv, PathCovered, Covered, Lost, LossesCovered
<1> QED BY <1>1, EstimateInvariant, PTL

(***************************************************************************)
(* For every such task and path the estimate of h_delta_until is at most the*)
(* number of updates that reach the goal, and if it is infinite at a fixed *)
(* point no number does: a state may be pruned as a dead end.  At the bound*)
(* on layers infinity excludes plans up to the bound, which is all that    *)
(* the code can tell (hdelta.cpp:581).                                     *)
(***************************************************************************)
THEOREM EstimateAdmissible ==
  ASSUME \A t \in Tasks : InScope(Task[t])
  PROVE  EstimateSpec => []GoalNotBeforeEstimate
<1>1. EstimateInv => GoalNotBeforeEstimate
  <2> SUFFICES ASSUME EstimateInv, status = "done", Satisfies(raw, T.goal),
                      ~(depth >= h) \/ (h = Infinity /\ FixedPoint)
               PROVE  FALSE
    BY DEF GoalNotBeforeEstimate
  <2>1. InScope(T) /\ task \in Tasks
    BY DEF EstimateInv, T
  <2>2. HasLayer => Reached(start, Current, T.goal)
    <3>1. SUFFICES ASSUME HasLayer
                   PROVE  Reached(start, Current, T.goal)
      OBVIOUS
    <3>2. FormulaCovered(Current.tv, raw, anc, T.goal)
      BY <2>1, <3>1, EstimateInvMeans, TaskInScope
    <3>3. start.D \subseteq start.W
      BY <2>1, EstimateInvMeans DEF FiniteState, IsState
    <3>4. Descends(T, start, frame, raw, anc) /\ Covered(start, frame, Current, Current.cut, raw, anc)
      BY <3>1 DEF EstimateInv, PathCovered
    <3> QED BY <3>2, <3>3, <3>4, ReachedIfSatisfied
  <2>3. /\ IsSeq(layers) /\ Len(layers) \in 1 .. MaxLayers + 1 /\ depth \in 0 .. MaxDepth
        /\ \A k \in 1 .. Len(layers) - 1 : ~Reached(start, layers[k], T.goal)
    BY DEF EstimateInv, LayersInv
  <2>4. PICK n \in Nat : n = Len(layers) /\ n >= 1 /\ depth \in Nat
    BY <2>3, SeqIs, MaxLayersAssumption, TasksAssumption
  <2>5. CASE h = n - 1
    <3>1. depth < n /\ depth + 1 \in 1 .. n - 1
      BY <2>3, <2>4, <2>5, MaxLayersAssumption DEF Infinity
    <3>2. HasLayer /\ Current = layers[depth + 1]
      BY <2>4, <3>1 DEF HasLayer, Current
    <3> QED BY <2>2, <2>3, <2>4, <3>1, <3>2
  <2>6. CASE /\ h = Infinity /\ ~Reached(start, Layer, T.goal)
             /\ (n = MaxLayers + 1 \/ FixedPoint)
    <3>1. HasLayer
      <4>1. FixedPoint \/ depth < n
        BY <2>4, <2>6, MaxLayersAssumption DEF Infinity
      <4> QED BY <2>4, <2>6, <4>1 DEF HasLayer
    <3>2. Current = Layer \/ \E k \in 1 .. n - 1 : Current = layers[k]
      <4>1. CASE depth + 1 < n
        <5>1. depth < n /\ depth + 1 \in 1 .. n - 1
          BY <2>4, <4>1
        <5> QED BY <2>4, <5>1 DEF Current
      <4>2. CASE depth + 1 = n
        <5>1. depth < n
          BY <2>4, <4>2
        <5> QED BY <2>4, <4>2, <5>1 DEF Current, Layer
      <4>3. CASE ~(depth < n)
        BY <2>4, <4>3 DEF Current
      <4> QED BY <2>4, <4>1, <4>2, <4>3
    <3> QED BY <2>2, <2>3, <2>4, <2>6, <3>1, <3>2
  <2> QED BY <2>4, <2>5, <2>6 DEF EstimateInv, VerdictInv
<1> QED BY <1>1, EstimateInvariant, PTL

(***************************************************************************)
(* For every such task the states, the map of descent and the estimate are of*)
(* their types on every path of updates.                                   *)
(***************************************************************************)
THEOREM EstimateTypeCorrect ==
  ASSUME \A t \in Tasks : InScope(Task[t])
  PROVE  EstimateSpec => []EstimateTypeOK
<1>1. EstimateInv => EstimateTypeOK
  <2> SUFFICES ASSUME EstimateInv
               PROVE  EstimateTypeOK
    OBVIOUS
  <2>1. InScope(T)
    BY DEF EstimateInv, T
  <2>2. IsState(start)
    BY <2>1, EstimateInvMeans DEF FiniteState
  <2>3. IsState(raw) /\ anc \in [raw.W -> start.W]
    BY DEF EstimateInv, PathCovered, Descends, FiniteState
  <2>4. IsSeq(layers) /\ Len(layers) \in 1 .. MaxLayers + 1
    BY DEF EstimateInv, LayersInv
  <2>5. h \in 0 .. Infinity
    <3>1. h = Infinity \/ h = Len(layers) - 1
      BY DEF EstimateInv, VerdictInv
    <3> QED BY <2>4, <3>1, SeqIs, MaxLayersAssumption DEF Infinity
  <2> QED BY <2>2, <2>3, <2>4, <2>5 DEF EstimateInv, VerdictInv, EstimateTypeOK
<1> QED BY <1>1, EstimateInvariant, PTL

-----------------------------------------------------------------------------
\* Agent symmetry

\* A renaming of agents and atoms that loses none.
IsRenaming(sw) ==
  /\ sw.agent \in [Agents -> Agents] /\ sw.atom \in [Atoms -> Atoms]
  /\ \A i, j \in Agents : sw.agent[i] = sw.agent[j] => i = j
  /\ \A p, q \in Atoms : sw.atom[p] = sw.atom[q] => p = q
  /\ \A i \in Agents : sw.agent[sw.agent[i]] = i

\* What RenamesTo asks of a pair of formulas, given its answers for their parts.
Renamed(sw, same, p) ==
  /\ p[1][1] = p[2][1]
  /\ p[1][1] = "Atom" => sw.atom[p[1][2]] = p[2][2]
  /\ p[1][1] = "Not" => <<p[1][2], p[2][2]>> \in same
  /\ p[1][1] \in {"Belief", "Kw"} =>
        sw.agent[p[1][2]] = p[2][2] /\ <<p[1][3], p[2][3]>> \in same
  /\ p[1][1] = "Common" =>
        {sw.agent[i] : i \in p[1][2]} = p[2][2] /\ <<p[1][3], p[2][3]>> \in same
  /\ p[1][1] \in {"And", "Or"} =>
        \E pairing \in Bijection(DOMAIN p[1][2], DOMAIN p[2][2]) :
           \A k \in DOMAIN pairing : <<p[1][2][k], p[2][2][pairing[k]]>> \in same

\* The pairs of formulas of which the second is the renamed first.
SamePairs(sw) == {p \in Formulas \X Formulas : RenamesTo(sw, p[1], p[2])}

\* Parts of a pair of formulas of one kind.
LEMMA PairedParts ==
  ASSUME NEW p \in Formulas \X Formulas, p[1][1] = p[2][1]
  PROVE  /\ p[1][1] = "Not" =>
              /\ <<p[1][2], p[2][2]>> \in Formulas \X Formulas
              /\ Height[p[1][2]] < Height[p[1]]
         /\ p[1][1] \in {"Belief", "Kw", "Common"} =>
              /\ <<p[1][3], p[2][3]>> \in Formulas \X Formulas
              /\ Height[p[1][3]] < Height[p[1]]
         /\ p[1][1] \in {"And", "Or"} =>
              \A k \in DOMAIN p[1][2], l \in DOMAIN p[2][2] :
                 /\ <<p[1][2][k], p[2][2][l]>> \in Formulas \X Formulas
                 /\ Height[p[1][2][k]] < Height[p[1]]
<1>1. \A j \in {1, 2} : p[j] \in Formulas
  OBVIOUS
<1>2. \A j \in {1, 2} : \A g \in Subformulas(p[j]) : g \in Formulas /\ Height[g] < Height[p[j]]
  BY <1>1, FormulasAssumption
<1>3. CASE p[1][1] = "Not"
  <2>1. \A j \in {1, 2} : Subformulas(p[j]) = {p[j][2]}
    BY <1>3 DEF Subformulas
  <2> QED BY <1>2, <1>3, <2>1
<1>4. CASE p[1][1] \in {"Belief", "Kw", "Common"}
  <2>1. \A j \in {1, 2} : Subformulas(p[j]) = {p[j][3]}
    BY <1>4 DEF Subformulas
  <2> QED BY <1>2, <1>4, <2>1
<1>5. CASE p[1][1] \in {"And", "Or"}
  <2>1. \A j \in {1, 2} : Subformulas(p[j]) = Range(p[j][2])
    BY <1>5 DEF Subformulas
  <2>2. \A j \in {1, 2} : \A k \in DOMAIN p[j][2] : p[j][2][k] \in Subformulas(p[j])
    BY <2>1 DEF Range
  <2> QED BY <1>2, <1>5, <2>2
<1> QED BY <1>3, <1>4, <1>5

\* Whether renaming gives a formula follows its parts, however deep it is
\* (symmetry.cpp, compare).
LEMMA RenamesEquations ==
  ASSUME NEW sw, NEW f \in Formulas, NEW g \in Formulas
  PROVE  RenamesTo(sw, f, g) <=> Renamed(sw, SamePairs(sw), <<f, g>>)
<1> DEFINE S == Formulas \X Formulas
           C(same, p) == PartsMatch(sw, same, p)
           F == [p \in S |-> [same \in [S -> BOOLEAN] |-> C(same, p)]]
           m == [p \in S |-> Height[p[1]]]
           Computes(same) == same = [p \in S |-> C(same, p)]
<1>1. \A p \in S : p[1][1] \in {"Top", "Bot", "Atom", "Not", "And", "Or", "Belief", "Kw", "Common"}
  BY FormulasAssumption
<1>2. ASSUME NEW p \in S, NEW same \in [S -> BOOLEAN]
      PROVE  C(same, p) \in BOOLEAN /\ (C(same, p) <=> Renamed(sw, {q \in S : same[q]}, p))
  <2>1. PICK X : X = {q \in S : same[q]}
    OBVIOUS
  <2>2. CASE p[1][1] # p[2][1]
    BY <2>2 DEF Renamed, PartsMatch
  <2>3. CASE p[1][1] = p[2][1] /\ p[1][1] \in {"Top", "Bot"}
    BY <2>3 DEF Renamed, PartsMatch
  <2>4. CASE p[1][1] = p[2][1] /\ p[1][1] = "Atom"
    BY <2>4 DEF Renamed, PartsMatch
  <2>5. CASE p[1][1] = p[2][1] /\ p[1][1] = "Not"
    <3>1. <<p[1][2], p[2][2]>> \in S
      BY <2>5, PairedParts
    <3>2. same[<<p[1][2], p[2][2]>>] \in BOOLEAN
      BY <3>1
    <3>3. C(same, p) <=> same[<<p[1][2], p[2][2]>>]
      BY <2>5 DEF PartsMatch
    <3>4. C(same, p) \in BOOLEAN
      BY <2>5, <3>2 DEF PartsMatch
    <3> QED BY <2>5, <3>1, <3>3, <3>4 DEF Renamed
  <2>6. CASE p[1][1] = p[2][1] /\ p[1][1] \in {"Belief", "Kw", "Common"}
    <3>1. <<p[1][3], p[2][3]>> \in S
      BY <2>6, PairedParts
    <3> QED BY <2>6, <3>1 DEF Renamed, PartsMatch
  <2>7. CASE p[1][1] = p[2][1] /\ p[1][1] \in {"And", "Or"}
    <3>1. \A k \in DOMAIN p[1][2], l \in DOMAIN p[2][2] : <<p[1][2][k], p[2][2][l]>> \in S
      BY <2>7, PairedParts
    <3>2. \A b \in Bijection(DOMAIN p[1][2], DOMAIN p[2][2]) : \A k \in DOMAIN b :
             k \in DOMAIN p[1][2] /\ b[k] \in DOMAIN p[2][2]
      BY DEF Bijection, Injection
    <3>3. C(same, p) <=>
            \E pairing \in Bijection(DOMAIN p[1][2], DOMAIN p[2][2]) :
               \A k \in DOMAIN pairing : same[<<p[1][2][k], p[2][2][pairing[k]]>>]
      BY <2>7 DEF PartsMatch
    <3>4. C(same, p) \in BOOLEAN
      BY <2>7 DEF PartsMatch
    <3>5. \A b \in Bijection(DOMAIN p[1][2], DOMAIN p[2][2]) : \A k \in DOMAIN b :
             same[<<p[1][2][k], p[2][2][b[k]]>>] <=> <<p[1][2][k], p[2][2][b[k]]>> \in X
      BY <2>1, <3>1, <3>2
    <3>6. Renamed(sw, X, p) <=>
            \E pairing \in Bijection(DOMAIN p[1][2], DOMAIN p[2][2]) :
               \A k \in DOMAIN pairing : <<p[1][2][k], p[2][2][pairing[k]]>> \in X
      BY <2>7 DEF Renamed
    <3> HIDE DEF C
    <3> QED BY <2>1, <3>3, <3>4, <3>5, <3>6
  <2> QED BY <1>1, <2>1, <2>2, <2>3, <2>4, <2>5, <2>6, <2>7
<1>3. ASSUME NEW p \in S, NEW X \in SUBSET S, NEW Y \in SUBSET S,
             \A q \in S : Height[q[1]] < Height[p[1]] => (q \in X <=> q \in Y)
      PROVE  Renamed(sw, X, p) <=> Renamed(sw, Y, p)
  <2>1. CASE p[1][1] # p[2][1]
    BY <2>1 DEF Renamed
  <2>2. CASE p[1][1] = p[2][1] /\ p[1][1] \in {"Top", "Bot", "Atom"}
    BY <2>2 DEF Renamed
  <2>3. CASE p[1][1] = p[2][1] /\ p[1][1] = "Not"
    <3>1. <<p[1][2], p[2][2]>> \in X <=> <<p[1][2], p[2][2]>> \in Y
      BY <1>3, <2>3, PairedParts
    <3> QED BY <2>3, <3>1 DEF Renamed
  <2>4. CASE p[1][1] = p[2][1] /\ p[1][1] \in {"Belief", "Kw", "Common"}
    <3>1. <<p[1][3], p[2][3]>> \in X <=> <<p[1][3], p[2][3]>> \in Y
      BY <1>3, <2>4, PairedParts
    <3> QED BY <2>4, <3>1 DEF Renamed
  <2>5. CASE p[1][1] = p[2][1] /\ p[1][1] \in {"And", "Or"}
    <3>1. \A k \in DOMAIN p[1][2], l \in DOMAIN p[2][2] :
             <<p[1][2][k], p[2][2][l]>> \in X <=> <<p[1][2][k], p[2][2][l]>> \in Y
      BY <1>3, <2>5, PairedParts
    <3>2. \A b \in Bijection(DOMAIN p[1][2], DOMAIN p[2][2]) : \A k \in DOMAIN b :
             k \in DOMAIN p[1][2] /\ b[k] \in DOMAIN p[2][2]
      BY DEF Bijection, Injection
    <3>3. \A b \in Bijection(DOMAIN p[1][2], DOMAIN p[2][2]) :
             (\A k \in DOMAIN b : <<p[1][2][k], p[2][2][b[k]]>> \in X)
               <=> (\A k \in DOMAIN b : <<p[1][2][k], p[2][2][b[k]]>> \in Y)
      BY <3>1, <3>2
    <3> QED BY <2>5, <3>3 DEF Renamed
  <2> QED BY <1>1, <2>1, <2>2, <2>3, <2>4, <2>5
<1> HIDE DEF C
<1>4. F \in [S -> [[S -> BOOLEAN] -> BOOLEAN]]
  BY <1>2
<1>5. \A p \in S, same \in [S -> BOOLEAN] : F[p][same] = C(same, p)
  OBVIOUS
<1>6. m \in [S -> Nat]
  BY FormulasAssumption
<1> HIDE DEF F
<1>7. ASSUME NEW p \in S, NEW a \in [S -> BOOLEAN], NEW b \in [S -> BOOLEAN],
             \A q \in S : m[q] < m[p] => a[q] = b[q]
      PROVE  F[p][a] = F[p][b]
  <2>0. PICK X, Y : X = {q \in S : a[q]} /\ Y = {q \in S : b[q]}
    OBVIOUS
  <2>1. X = {q \in S : a[q]} /\ Y = {q \in S : b[q]} /\ X \in SUBSET S /\ Y \in SUBSET S
    BY <2>0
  <2>2. \A q \in S : Height[q[1]] < Height[p[1]] => (q \in X <=> q \in Y)
    BY <1>7, <2>1
  <2>3. Renamed(sw, X, p) <=> Renamed(sw, Y, p)
    BY <1>3, <2>1, <2>2
  <2>4. /\ C(a, p) \in BOOLEAN /\ (C(a, p) <=> Renamed(sw, X, p))
        /\ C(b, p) \in BOOLEAN /\ (C(b, p) <=> Renamed(sw, Y, p))
    BY <1>2, <2>1
  <2>5. C(a, p) <=> C(b, p)
    BY <2>3, <2>4
  <2>6. \A x, y \in BOOLEAN : (x <=> y) => x = y
    OBVIOUS
  <2>7. C(a, p) = C(b, p)
    BY <2>4, <2>5, <2>6
  <2> QED BY <1>5, <2>7
<1> HIDE DEF m
<1>8. Recursion(S, BOOLEAN, m, F)
  BY <1>4, <1>6, <1>7 DEF Recursion
<1>9. PICK a \in [S -> BOOLEAN] : \A p \in S : a[p] = F[p][a]
  BY <1>8, RecursionExists
<1>10. Computes(a)
  BY <1>5, <1>9
<1>11. \A p \in S : RenamesTo(sw, p[1], p[2]) = (CHOOSE same : Computes(same))[<<p[1], p[2]>>]
  BY DEF RenamesTo, C
<1>12. PICK R : R = (CHOOSE same : Computes(same)) /\ Computes(R)
  <2> HIDE DEF Computes
  <2> QED BY <1>10
<1>13. \A same, p : C(same, p) \in BOOLEAN
  BY DEF C, PartsMatch
<1>14. R \in [S -> BOOLEAN] /\ \A p \in S : R[p] = C(R, p)
  <2>1. R = [p \in S |-> C(R, p)]
    BY <1>12
  <2> QED BY <1>13, <2>1
<1>15. \A p \in S : RenamesTo(sw, p[1], p[2]) = R[p]
  <2>1. \A p \in S : p = <<p[1], p[2]>>
    OBVIOUS
  <2> HIDE DEF S, Computes
  <2> QED BY <1>11, <1>12, <2>1
<1>16. {q \in S : R[q]} = SamePairs(sw)
  <2>1. \A q \in S : RenamesTo(sw, q[1], q[2]) <=> R[q]
    BY <1>15
  <2> QED BY <2>1 DEF SamePairs
<1>17. <<f, g>> \in S
  OBVIOUS
<1>18. RenamesTo(sw, f, g) = R[<<f, g>>]
  <2>1. \A p : p = <<f, g>> => p[1] = f /\ p[2] = g
    OBVIOUS
  <2> HIDE DEF S, Computes
  <2> QED BY <1>15, <1>17, <2>1
<1> HIDE DEF S, Computes
<1> QED BY <1>2, <1>14, <1>16, <1>17, <1>18

\* The renamed state has the same worlds (symmetry.cpp, rename).
LEMMA RenameIs ==
  ASSUME NEW s, FiniteState(s), NEW sw, IsRenaming(sw)
  PROVE  LET r == Rename(s, sw)
         IN  /\ r.W = s.W /\ r.D = s.D
             /\ \A w \in s.W : r.V[w] = {sw.atom[p] : p \in s.V[w]}
             /\ \A i \in Agents : r.R[i] = s.R[sw.agent[i]] /\ r.R[sw.agent[i]] = s.R[i]
             /\ FiniteState(r)
<1>1. PICK r : r = Rename(s, sw)
  OBVIOUS
<1>2. /\ r.W = s.W /\ r.D = s.D
      /\ r.V = [w \in s.W |-> {sw.atom[p] : p \in s.V[w]}]
      /\ r.R = [i \in Agents |-> s.R[sw.agent[i]]]
  BY <1>1, TableIs DEF Rename
<1>3. \A i \in Agents : r.R[i] = s.R[sw.agent[i]] /\ r.R[sw.agent[i]] = s.R[i]
  BY <1>2 DEF IsRenaming
<1>4. \A w \in s.W : {sw.atom[p] : p \in s.V[w]} \in SUBSET Atoms
  BY DEF IsRenaming, FiniteState, IsState
<1>5. r.V \in [r.W -> SUBSET Atoms]
  BY <1>2, <1>4
<1>6. r.R \in [Agents -> [r.W -> SUBSET r.W]]
  BY <1>2 DEF IsRenaming, FiniteState, IsState
<1>7. FiniteState(r)
  BY <1>2, <1>5, <1>6 DEF FiniteState, IsState
<1> QED BY <1>1, <1>2, <1>3, <1>7

\* Common belief of the renamed group in the renamed state.
LEMMA LeavingRenamed ==
  ASSUME NEW s, FiniteState(s), NEW sw, IsRenaming(sw), NEW r, r = Rename(s, sw),
         NEW G \in SUBSET Agents, NEW X \in SUBSET s.W
  PROVE  Leaving(r, {sw.agent[i] : i \in G}, X) = Leaving(s, G, X)
<1>1. PICK H : H = {sw.agent[i] : i \in G}
  OBVIOUS
<1>2. /\ r.W = s.W /\ FiniteState(r)
      /\ \A i \in Agents : r.R[sw.agent[i]] = s.R[i]
  BY RenameIs
<1>3. \A Y \in SUBSET s.W : ClosedBackward(r, H, Y) <=> ClosedBackward(s, G, Y)
  <2>1. \A i \in G : r.R[sw.agent[i]] = s.R[i] /\ sw.agent[i] \in H
    BY <1>1, <1>2
  <2>2. \A j \in H : \E i \in G : j = sw.agent[i]
    BY <1>1
  <2> QED BY <1>2, <2>1, <2>2 DEF ClosedBackward
<1>4. PICK L, M : L = Leaving(r, H, X) /\ M = Leaving(s, G, X)
  OBVIOUS
<1>5. /\ L \in SUBSET r.W /\ r.W \ X \subseteq L /\ ClosedBackward(r, H, L)
      /\ \A Y \in SUBSET r.W : r.W \ X \subseteq Y /\ ClosedBackward(r, H, Y) => L \subseteq Y
  BY <1>2, <1>4, LeavingIsLeast
<1>6. /\ M \in SUBSET s.W /\ s.W \ X \subseteq M /\ ClosedBackward(s, G, M)
      /\ \A Y \in SUBSET s.W : s.W \ X \subseteq Y /\ ClosedBackward(s, G, Y) => M \subseteq Y
  BY <1>4, LeavingIsLeast
<1>7. L \subseteq M /\ M \subseteq L
  BY <1>2, <1>3, <1>5, <1>6
<1> QED BY <1>1, <1>4, <1>7

\* The parts of f and g that match hold in the same worlds, by a and by b.
PartsHold(s, sw, f, g, a, b) ==
  \A c \in Subformulas(f), d \in Subformulas(g) :
     <<c, d>> \in SamePairs(sw) => a[c] = b[d] /\ a[c] \in SUBSET s.W

\* The renamed formula holds in the renamed state where the formula holds in
\* the state, if that is so for its parts.
LEMMA ClauseRenamed ==
  ASSUME NEW s, FiniteState(s), NEW sw, IsRenaming(sw), NEW r, r = Rename(s, sw),
         NEW f \in Formulas, NEW g \in Formulas, RenamesTo(sw, f, g), Meaningful(f),
         NEW a, NEW b, PartsHold(s, sw, f, g, a, b)
  PROVE  Clause(r, b, g) = Clause(s, a, f)
<1>0. \A c \in Subformulas(f), d \in Subformulas(g) :
         <<c, d>> \in SamePairs(sw) => a[c] = b[d] /\ a[c] \in SUBSET s.W
  BY DEF PartsHold
<1>1. Renamed(sw, SamePairs(sw), <<f, g>>)
  BY RenamesEquations
<1>2. /\ f[1] = g[1]
      /\ f[1] = "Atom" => sw.atom[f[2]] = g[2]
      /\ f[1] = "Not" => <<f[2], g[2]>> \in SamePairs(sw)
      /\ f[1] \in {"Belief", "Kw"} => sw.agent[f[2]] = g[2] /\ <<f[3], g[3]>> \in SamePairs(sw)
      /\ f[1] = "Common" =>
           {sw.agent[i] : i \in f[2]} = g[2] /\ <<f[3], g[3]>> \in SamePairs(sw)
      /\ f[1] \in {"And", "Or"} =>
           \E pairing \in Bijection(DOMAIN f[2], DOMAIN g[2]) :
              \A k \in DOMAIN pairing : <<f[2][k], g[2][pairing[k]]>> \in SamePairs(sw)
  <2>1. \A p : p = <<f, g>> => p[1] = f /\ p[2] = g
    OBVIOUS
  <2> QED BY <1>1, <2>1 DEF Renamed
<1>3. /\ r.W = s.W /\ FiniteState(r)
      /\ \A w \in s.W : r.V[w] = {sw.atom[p] : p \in s.V[w]}
      /\ \A i \in Agents : r.R[sw.agent[i]] = s.R[i]
  BY RenameIs
<1>4. CASE f[1] \in {"Top", "Bot"}
  BY <1>2, <1>3, <1>4 DEF Clause
<1>5. CASE f[1] = "Atom"
  <2>1. f[2] \in Atoms /\ \A w \in s.W : s.V[w] \subseteq Atoms
    BY <1>5 DEF Meaningful, FiniteState, IsState
  <2>2. \A w \in s.W : g[2] \in r.V[w] <=> f[2] \in s.V[w]
    BY <1>2, <1>3, <1>5, <2>1 DEF IsRenaming
  <2>3. Clause(r, b, g) = {w \in r.W : g[2] \in r.V[w]} /\ Clause(s, a, f) = {w \in s.W : f[2] \in s.V[w]}
    BY <1>2, <1>5 DEF Clause
  <2> QED BY <1>3, <2>2, <2>3
<1>6. CASE f[1] = "Not"
  <2>1. f[2] \in Subformulas(f) /\ g[2] \in Subformulas(g)
    BY <1>2, <1>6 DEF Subformulas
  <2>2. a[f[2]] = b[g[2]]
    BY <1>0, <1>2, <1>6, <2>1
  <2> QED BY <1>2, <1>3, <1>6, <2>2 DEF Clause
<1>7. CASE f[1] \in {"And", "Or"}
  <2>1. Range(f[2]) = Subformulas(f) /\ Range(g[2]) = Subformulas(g)
    BY <1>2, <1>7 DEF Subformulas
  <2>2. PICK pairing \in Bijection(DOMAIN f[2], DOMAIN g[2]) :
           \A k \in DOMAIN pairing : <<f[2][k], g[2][pairing[k]]>> \in SamePairs(sw)
    BY <1>2, <1>7
  <2>3. /\ \A k \in DOMAIN f[2] : k \in DOMAIN pairing /\ pairing[k] \in DOMAIN g[2]
        /\ \A l \in DOMAIN g[2] : \E k \in DOMAIN f[2] : pairing[k] = l
    BY DEF Bijection, Injection, Surjection
  <2>4. \A k \in DOMAIN f[2] : f[2][k] \in Subformulas(f)
    BY <2>1 DEF Range
  <2>5. \A l \in DOMAIN g[2] : g[2][l] \in Subformulas(g)
    BY <2>1 DEF Range
  <2>6. \A k \in DOMAIN f[2] : a[f[2][k]] = b[g[2][pairing[k]]]
    BY <1>0, <2>2, <2>3, <2>4, <2>5
  <2>7. \A c \in Subformulas(f) : \E d \in Subformulas(g) : a[c] = b[d]
    <3>1. \A c \in Subformulas(f) : \E k \in DOMAIN f[2] : c = f[2][k]
      BY <2>1 DEF Range
    <3> QED BY <2>3, <2>5, <2>6, <3>1
  <2>8. \A d \in Subformulas(g) : \E c \in Subformulas(f) : a[c] = b[d]
    <3>1. \A d \in Subformulas(g) : \E l \in DOMAIN g[2] : d = g[2][l]
      BY <2>1 DEF Range
    <3> QED BY <2>3, <2>4, <2>6, <3>1
  <2>9. CASE f[1] = "And"
    <3>1. g[1] = "And"
      BY <1>2, <2>9
    <3>2. /\ \A q, k : Clause(q, k, f) = q.W \ UNION {q.W \ k[c] : c \in Range(f[2])}
          /\ \A q, k : Clause(q, k, g) = q.W \ UNION {q.W \ k[c] : c \in Range(g[2])}
      BY <2>9, <3>1 DEF Clause
    <3>3. \A w : w \in Clause(s, a, f) <=> w \in s.W /\ \A c \in Subformulas(f) : w \in a[c]
      BY <2>1, <3>2
    <3>4. \A w : w \in Clause(r, b, g) <=> w \in r.W /\ \A d \in Subformulas(g) : w \in b[d]
      BY <2>1, <3>2
    <3>5. \A w : w \in Clause(s, a, f) <=> w \in Clause(r, b, g)
      BY <1>3, <2>7, <2>8, <3>3, <3>4
    <3> QED BY <3>2, <3>5
  <2>10. CASE f[1] = "Or"
    <3>1. g[1] = "Or"
      BY <1>2, <2>10
    <3>2. /\ \A q, k : Clause(q, k, f) = UNION {k[c] : c \in Range(f[2])}
          /\ \A q, k : Clause(q, k, g) = UNION {k[c] : c \in Range(g[2])}
      BY <2>10, <3>1 DEF Clause
    <3>3. \A w : w \in Clause(s, a, f) <=> \E c \in Subformulas(f) : w \in a[c]
      BY <2>1, <3>2
    <3>4. \A w : w \in Clause(r, b, g) <=> \E d \in Subformulas(g) : w \in b[d]
      BY <2>1, <3>2
    <3>5. \A w : w \in Clause(s, a, f) <=> w \in Clause(r, b, g)
      BY <2>7, <2>8, <3>3, <3>4
    <3> QED BY <3>2, <3>5
  <2> QED BY <1>7, <2>9, <2>10
<1>8. CASE f[1] \in {"Belief", "Kw"}
  <2>1. f[3] \in Subformulas(f) /\ g[3] \in Subformulas(g)
    BY <1>2, <1>8 DEF Subformulas
  <2>2. PICK X, i : X = a[f[3]] /\ X = b[g[3]] /\ i = f[2] /\ i \in Agents /\ g[2] = sw.agent[i]
    BY <1>0, <1>2, <1>8, <2>1 DEF Meaningful
  <2>3. sw.agent[i] \in Agents /\ r.R[sw.agent[i]] = s.R[i]
    BY <1>3, <2>2 DEF IsRenaming
  <2>4. Box(r, sw.agent[i], X) = Box(s, i, X) /\ KnowsWhether(r, sw.agent[i], X) = KnowsWhether(s, i, X)
    BY <1>3, <2>3 DEF Box, KnowsWhether
  <2>5. CASE f[1] = "Belief"
    BY <1>2, <2>2, <2>3, <2>4, <2>5 DEF Clause
  <2>6. CASE f[1] = "Kw"
    BY <1>2, <2>2, <2>3, <2>4, <2>6 DEF Clause
  <2> QED BY <1>8, <2>5, <2>6
<1>9. CASE f[1] = "Common"
  <2>1. f[3] \in Subformulas(f) /\ g[3] \in Subformulas(g)
    BY <1>2, <1>9 DEF Subformulas
  <2>2. PICK X, G : X = a[f[3]] /\ X = b[g[3]] /\ X \in SUBSET s.W /\ G = f[2] /\ G \in SUBSET Agents
    BY <1>0, <1>2, <1>9, <2>1 DEF Meaningful
  <2>3. g[2] = {sw.agent[i] : i \in G} /\ f[2] \cap Agents = G /\ g[2] \cap Agents = g[2]
    BY <1>2, <1>9, <2>2 DEF IsRenaming
  <2>4. Leaving(r, g[2], X) = Leaving(s, G, X)
    BY <2>2, <2>3, LeavingRenamed
  <2>5. Clause(s, a, f) = s.W \ Leaving(s, G, X) /\ Clause(r, b, g) = r.W \ Leaving(r, g[2], X)
    BY <1>2, <1>9, <2>2, <2>3 DEF Clause
  <2> QED BY <1>3, <2>4, <2>5
<1> QED BY <1>4, <1>5, <1>6, <1>7, <1>8, <1>9, FormulasAssumption

\* A renamed state satisfies a renamed formula where the state satisfies the
\* formula.
LEMMA SatRenamed ==
  ASSUME NEW s, FiniteState(s), NEW sw, IsRenaming(sw), NEW r, r = Rename(s, sw),
         \A f \in Formulas : Meaningful(f)
  PROVE  \A f, g \in Formulas : RenamesTo(sw, f, g) => Sat(r)[g] = Sat(s)[f]
<1>1. PICK a, b : a = Sat(s) /\ b = Sat(r)
  OBVIOUS
<1>2. FiniteState(r)
  BY RenameIs
<1>3. /\ \A f \in Formulas : a[f] \in SUBSET s.W
      /\ \A f \in Formulas : a[f] = Clause(s, a, f) /\ b[f] = Clause(r, b, f)
  BY <1>1, <1>2, SatEquations
<1> DEFINE Bad == {n \in Nat : \E f, g \in Formulas : Height[f] = n /\ RenamesTo(sw, f, g) /\ a[f] # b[g]}
<1>4. Bad = {}
  <2>1. SUFFICES ASSUME Bad # {}
                 PROVE  FALSE
    OBVIOUS
  <2>2. PICK n \in Nat : n \in Bad /\ \A i \in Bad : n <= i
    <3> Bad \in SUBSET Nat
      OBVIOUS
    <3> HIDE DEF Bad
    <3> QED BY <2>1, LeastNatural
  <2>3. PICK f, g \in Formulas : Height[f] = n /\ RenamesTo(sw, f, g) /\ a[f] # b[g]
    BY <2>2
  <2>4. ASSUME NEW c \in Subformulas(f), NEW d \in Subformulas(g), <<c, d>> \in SamePairs(sw)
        PROVE  a[c] = b[d] /\ a[c] \in SUBSET s.W
    <3>1. c \in Formulas /\ Height[c] < n /\ Height[c] \in Nat /\ d \in Formulas
      BY <2>3, FormulasAssumption
    <3>2. RenamesTo(sw, c, d)
      BY <2>4 DEF SamePairs
    <3>3. Height[c] \notin Bad
      <4> HIDE DEF Bad
      <4> QED BY <2>2, <3>1
    <3> QED BY <1>3, <3>1, <3>2, <3>3
  <2>5. Clause(r, b, g) = Clause(s, a, f)
    <3>1. PartsHold(s, sw, f, g, a, b)
      BY <2>4 DEF PartsHold
    <3>2. Meaningful(f)
      OBVIOUS
    <3>3. r = Rename(s, sw) /\ RenamesTo(sw, f, g)
      BY <2>3
    <3> HIDE DEF Bad
    <3> QED BY SMTT(60), <3>1, <3>2, <3>3, ClauseRenamed
  <2> QED BY <1>3, <2>3, <2>5
<1>5. \A f \in Formulas : Height[f] \in Nat
  BY FormulasAssumption
<1> QED BY <1>1, <1>4, <1>5

\* Models that differ in nothing are linked.
LEMMA SameLinked ==
  ASSUME NEW m, FiniteState(m), NEW n, FiniteState(n), m.W = n.W, m.D = n.D,
         \A w \in m.W : m.V[w] = n.V[w],
         \A i \in Agents, w \in m.W : m.R[i][w] = n.R[i][w]
  PROVE  Bisimilar(m, n)
<1> DEFINE Z == {<<w, w>> : w \in m.W}
<1>1. \A w, v : <<w, v>> \in Z <=> w \in m.W /\ v = w
  OBVIOUS
<1>2. Z \in SUBSET (m.W \X n.W)
  OBVIOUS
<1>3. \A i \in Agents, w \in m.W : m.R[i][w] \subseteq m.W
  BY DEF FiniteState, IsState
<1>4. m.D \subseteq m.W
  BY DEF FiniteState, IsState
<1> HIDE DEF Z
<1>5. \A i \in Agents, w \in m.W : Forth(m, n, Z, i, w, w) /\ Back(m, n, Z, i, w, w)
  BY <1>1, <1>3 DEF Forth, Back
<1>6. Bisimulation(m, n, Z)
  BY <1>1, <1>2, <1>5 DEF Bisimulation
<1>7. Linked(m, n, Z)
  BY <1>1, <1>4, <1>6 DEF Linked
<1> QED BY <1>7 DEF Bisimilar

\* Renaming keeps bisimilar models bisimilar.
LEMMA RenameAgrees ==
  ASSUME NEW s, FiniteState(s), NEW t, FiniteState(t), Bisimilar(s, t), NEW sw, IsRenaming(sw)
  PROVE  Bisimilar(Rename(s, sw), Rename(t, sw))
<1>1. PICK Z : Linked(s, t, Z)
  BY DEF Bisimilar
<1>2. PICK r, q : r = Rename(s, sw) /\ q = Rename(t, sw)
  OBVIOUS
<1>3. /\ r.W = s.W /\ r.D = s.D
      /\ \A w \in s.W : r.V[w] = {sw.atom[p] : p \in s.V[w]}
      /\ \A i \in Agents : r.R[i] = s.R[sw.agent[i]]
  BY <1>2, RenameIs
<1>4. /\ q.W = t.W /\ q.D = t.D
      /\ \A w \in t.W : q.V[w] = {sw.atom[p] : p \in t.V[w]}
      /\ \A i \in Agents : q.R[i] = t.R[sw.agent[i]]
  BY <1>2, RenameIs
<1>5. Bisimulation(s, t, Z)
  BY <1>1 DEF Linked
<1>6. \A w, v : <<w, v>> \in Z => w \in s.W /\ v \in t.W
  BY <1>5, BisimulationStep
<1>7. \A w, v : <<w, v>> \in Z => r.V[w] = q.V[v] /\ (w \in r.D <=> v \in q.D)
  <2>1. ASSUME NEW w, NEW v, <<w, v>> \in Z
        PROVE  r.V[w] = q.V[v] /\ (w \in r.D <=> v \in q.D)
    <3>1. s.V[w] = t.V[v] /\ (w \in s.D <=> v \in t.D)
      BY <1>5, <2>1 DEF Bisimulation
    <3>2. w \in s.W /\ v \in t.W
      BY <1>6, <2>1
    <3>3. r.V[w] = {sw.atom[p] : p \in s.V[w]} /\ q.V[v] = {sw.atom[p] : p \in t.V[v]}
      BY <1>3, <1>4, <3>2
    <3> QED BY <1>3, <1>4, <3>1, <3>3
  <2> QED BY <2>1
<1>8. ASSUME NEW w, NEW v, <<w, v>> \in Z, NEW i \in Agents
      PROVE  Forth(r, q, Z, i, w, v) /\ Back(r, q, Z, i, w, v)
  <2>1. sw.agent[i] \in Agents
    BY DEF IsRenaming
  <2>2. Forth(s, t, Z, sw.agent[i], w, v) /\ Back(s, t, Z, sw.agent[i], w, v)
    BY <1>5, <1>8, <2>1 DEF Bisimulation
  <2> QED BY <1>3, <1>4, <2>2 DEF Forth, Back
<1>9. Z \in SUBSET (r.W \X q.W)
  BY <1>3, <1>4, <1>5 DEF Bisimulation
<1>10. Bisimulation(r, q, Z)
  BY <1>7, <1>8, <1>9 DEF Bisimulation
<1>11. Linked(r, q, Z)
  BY <1>1, <1>3, <1>4, <1>10 DEF Linked
<1> QED BY <1>2, <1>11 DEF Bisimilar

\* Renaming cannot help or harm an agent's consistency.
LEMMA ConsistencyRenamed ==
  ASSUME NEW m, FiniteState(m), NEW sw, IsRenaming(sw), NEW r, r = Rename(m, sw)
  PROVE  (Collapses(r) <=> Collapses(m)) /\ SerialCore(r) = SerialCore(m)
<1>1. /\ r.W = m.W /\ r.D = m.D /\ FiniteState(r)
      /\ \A i \in Agents : r.R[i] = m.R[sw.agent[i]] /\ r.R[sw.agent[i]] = m.R[i]
      /\ \A i \in Agents : sw.agent[i] \in Agents
  BY RenameIs DEF IsRenaming
<1>2. \A X \in SUBSET m.W : Closed(r, X) <=> Closed(m, X)
  BY <1>1 DEF Closed
<1>3. \A X \in SUBSET m.W : Serial(r, X) <=> Serial(m, X)
  BY <1>1 DEF Serial
<1>4. Reachable(r) = Reachable(m)
  <2>1. PICK A, B : A = Reachable(r) /\ B = Reachable(m)
    OBVIOUS
  <2>2. /\ A \in SUBSET r.W /\ r.D \subseteq A /\ Closed(r, A)
        /\ \A X \in SUBSET r.W : r.D \subseteq X /\ Closed(r, X) => A \subseteq X
    BY <1>1, <2>1, ReachableIsLeast
  <2>3. /\ B \in SUBSET m.W /\ m.D \subseteq B /\ Closed(m, B)
        /\ \A X \in SUBSET m.W : m.D \subseteq X /\ Closed(m, X) => B \subseteq X
    BY <2>1, ReachableIsLeast
  <2>4. A \subseteq B /\ B \subseteq A
    BY <1>1, <1>2, <2>2, <2>3
  <2> QED BY <2>1, <2>4
<1>5. SerialCore(r) = SerialCore(m)
  <2>1. PICK A, B : A = SerialCore(r) /\ B = SerialCore(m)
    OBVIOUS
  <2>2. A \in SUBSET r.W /\ Serial(r, A) /\ \A X \in SUBSET r.W : Serial(r, X) => X \subseteq A
    BY <1>1, <2>1, SerialCoreIsGreatest
  <2>3. B \in SUBSET m.W /\ Serial(m, B) /\ \A X \in SUBSET m.W : Serial(m, X) => X \subseteq B
    BY <2>1, SerialCoreIsGreatest
  <2>4. A \subseteq B /\ B \subseteq A
    BY <1>1, <1>3, <2>2, <2>3
  <2> QED BY <2>1, <2>4
<1>6. Collapses(r) <=> Collapses(m)
  <2>1. \A w, i : i \in Agents /\ w \in Reachable(m) =>
           r.R[i][w] = m.R[sw.agent[i]][w] /\ r.R[sw.agent[i]][w] = m.R[i][w]
    BY <1>1
  <2> QED BY <1>1, <1>4, <2>1 DEF Collapses
<1> QED BY <1>5, <1>6

\* The consistency step treats a renamed product as the product.
LEMMA AdmitRenamed ==
  ASSUME NEW m, FiniteState(m), m.D # {}, NEW sw, IsRenaming(sw), NEW r, r = Rename(m, sw),
         NEW seriality \in Serialities, Admit(m, seriality).ok
  PROVE  LET a == Admit(m, seriality)
             b == Admit(r, seriality)
         IN  /\ b.ok /\ FiniteState(a.state) /\ FiniteState(b.state)
             /\ Bisimilar(Rename(a.state, sw), b.state)
<1>1. /\ r.W = m.W /\ r.D = m.D /\ FiniteState(r)
      /\ \A w \in m.W : r.V[w] = {sw.atom[p] : p \in m.V[w]}
      /\ \A i \in Agents : r.R[i] = m.R[sw.agent[i]]
  BY RenameIs
<1>2. m.W # {} /\ r.W # {}
  BY <1>1 DEF FiniteState, IsState
<1>3. \A n : FiniteState(n) => Bisimilar(n, n)
  BY SameLinked
<1>4. ASSUME Admit(m, seriality) = Ok(m), Admit(r, seriality) = Ok(r)
      PROVE  LET a == Admit(m, seriality)
                 b == Admit(r, seriality)
             IN  /\ b.ok /\ FiniteState(a.state) /\ FiniteState(b.state)
                 /\ Bisimilar(Rename(a.state, sw), b.state)
  BY <1>1, <1>3, <1>4, OkIs
<1>5. CASE seriality = "Ignore"
  BY <1>2, <1>4, <1>5, AdmitIs
<1>6. CASE seriality = "Require"
  <2>1. Collapses(r) <=> Collapses(m)
    BY ConsistencyRenamed
  <2>2. /\ Admit(m, seriality) = IF Collapses(m) THEN Pruned("Inconsistent") ELSE Ok(m)
        /\ Admit(r, seriality) = IF Collapses(r) THEN Pruned("Inconsistent") ELSE Ok(r)
    BY <1>2, <1>6, AdmitIs
  <2>3. ~Collapses(m)
    BY <2>2, OkIs
  <2> QED BY <1>4, <2>1, <2>2, <2>3
<1>7. CASE seriality = "Repair"
  <2>1. PICK K : K = SerialCore(m) /\ K = SerialCore(r)
    BY ConsistencyRenamed
  <2>2. /\ Admit(m, seriality) = IF m.D \cap K = {} THEN Pruned("NonSerial") ELSE Ok(RestrictState(m, K))
        /\ Admit(r, seriality) = IF r.D \cap K = {} THEN Pruned("NonSerial") ELSE Ok(RestrictState(r, K))
    BY <1>2, <1>7, <2>1, AdmitIs
  <2>3. m.D \cap K # {} /\ r.D \cap K # {}
    BY <1>1, <2>2, OkIs
  <2>4. PICK a, b : a = RestrictState(m, K) /\ b = RestrictState(r, K)
    OBVIOUS
  <2>5. Admit(m, seriality) = Ok(a) /\ Admit(r, seriality) = Ok(b)
    BY <2>2, <2>3, <2>4
  <2>6. FiniteState(a) /\ FiniteState(b)
    BY <1>1, <2>1, <2>4, RepairedStaysConsistent
  <2>7. K \in SUBSET m.W /\ K \in SUBSET r.W /\ IsState(m) /\ IsState(r)
    BY <1>1, <2>1, SerialCoreIsGreatest DEF FiniteState
  <2>8. /\ a.W = K /\ a.D = m.D \cap K
        /\ \A w \in K : a.V[w] = m.V[w]
        /\ \A i \in Agents : \A w \in K : a.R[i][w] = m.R[i][w] \cap K
    BY <2>4, <2>7, RestrictionIs
  <2>9. /\ b.W = K /\ b.D = r.D \cap K
        /\ \A w \in K : b.V[w] = r.V[w]
        /\ \A i \in Agents : \A w \in K : b.R[i][w] = r.R[i][w] \cap K
    BY <2>4, <2>7, RestrictionIs
  <2>10. PICK c : c = Rename(a, sw)
    OBVIOUS
  <2>11. /\ c.W = a.W /\ c.D = a.D /\ FiniteState(c)
         /\ \A w \in a.W : c.V[w] = {sw.atom[p] : p \in a.V[w]}
         /\ \A i \in Agents : c.R[i] = a.R[sw.agent[i]]
    BY <2>6, <2>10, RenameIs
  <2>12. \A w \in K : c.V[w] = b.V[w]
    <3>1. ASSUME NEW w \in K
          PROVE  c.V[w] = b.V[w]
      <4>1. w \in m.W /\ w \in a.W
        BY <2>7, <2>8
      <4>2. c.V[w] = {sw.atom[p] : p \in a.V[w]} /\ b.V[w] = {sw.atom[p] : p \in m.V[w]}
        BY <1>1, <2>9, <2>11, <4>1
      <4>3. a.V[w] = m.V[w]
        BY <2>8
      <4> QED BY <4>2, <4>3
    <3> QED BY <3>1
  <2>13. \A i \in Agents, w \in K : c.R[i][w] = b.R[i][w]
    <3>1. \A i \in Agents : sw.agent[i] \in Agents
      BY DEF IsRenaming
    <3>2. ASSUME NEW i \in Agents, NEW w \in K
          PROVE  c.R[i][w] = b.R[i][w]
      <4>1. c.R[i] = a.R[sw.agent[i]] /\ r.R[i] = m.R[sw.agent[i]]
        BY <1>1, <2>11
      <4>2. a.R[sw.agent[i]][w] = m.R[sw.agent[i]][w] \cap K
        BY <2>8, <3>1
      <4>3. b.R[i][w] = r.R[i][w] \cap K
        BY <2>9
      <4> QED BY <4>1, <4>2, <4>3
    <3> QED BY <3>2
  <2>14. Bisimilar(c, b)
    <3>1. c.W = b.W /\ c.D = b.D /\ c.W = K
      BY <1>1, <2>8, <2>9, <2>11
    <3> QED BY <2>6, <2>11, <2>12, <2>13, <3>1, SameLinked
  <2> QED BY <2>5, <2>6, <2>10, <2>14, OkIs
<1> QED BY <1>5, <1>6, <1>7 DEF Serialities

\* The swap makes action y of action x, their default relations included.
ImageOf(sw, x, y) == IsAction(x) /\ IsAction(y) /\ MapsAction(sw, x, y) /\ x.default = y.default

\* An agent is given the relation that the agent it is renamed to gets in the
\* image.
LEMMA RelationRenamed ==
  ASSUME NEW s, FiniteState(s), NEW sw, IsRenaming(sw), NEW r, r = Rename(s, sw),
         \A f \in Formulas : Meaningful(f),
         NEW x, NEW y, ImageOf(sw, x, y), NEW i \in Agents
  PROVE  EventRelation(r, y, sw.agent[i]) = EventRelation(s, x, i)
<1>1. PICK cx, cy, j : cx = Cases(x, i) /\ j = sw.agent[i] /\ cy = Cases(y, j)
  OBVIOUS
<1>2. j \in Agents /\ r.D = s.D
  BY <1>1, RenameIs DEF IsRenaming
<1>3. /\ Len(cx) = Len(cy)
      /\ \A c \in DOMAIN cx : cx[c].rel = cy[c].rel /\ RenamesTo(sw, cx[c].cond, cy[c].cond)
  BY <1>1 DEF ImageOf, MapsAction
<1>4. DOMAIN cx = 1 .. Len(cx) /\ \A c \in DOMAIN cx : cx[c].cond \in Formulas
  BY <1>1 DEF ImageOf, IsAction
<1>5. DOMAIN cy = 1 .. Len(cy) /\ \A c \in DOMAIN cy : cy[c].cond \in Formulas
  BY <1>1, <1>2 DEF ImageOf, IsAction
<1>6. DOMAIN cx = DOMAIN cy
  BY <1>3, <1>4, <1>5
<1>7. \A c \in DOMAIN cx : Satisfies(r, cy[c].cond) <=> Satisfies(s, cx[c].cond)
  <2>1. \A c \in DOMAIN cx : Sat(r)[cy[c].cond] = Sat(s)[cx[c].cond]
    BY <1>3, <1>4, <1>5, <1>6, SatRenamed
  <2> QED BY <1>2, <2>1 DEF Satisfies
<1>8. Holding(r, cy) = Holding(s, cx)
  BY <1>6, <1>7 DEF Holding
<1>9. /\ EventRelation(s, x, i) =
           IF Holding(s, cx) = {} THEN x.default ELSE cx[Min(Holding(s, cx))].rel
      /\ EventRelation(r, y, j) =
           IF Holding(r, cy) = {} THEN y.default ELSE cy[Min(Holding(r, cy))].rel
  BY <1>1 DEF EventRelation, Holding
<1>10. Holding(s, cx) # {} => Min(Holding(s, cx)) \in DOMAIN cx
  <2>1. Holding(s, cx) \in SUBSET Nat /\ Holding(s, cx) \subseteq DOMAIN cx
    BY <1>1, <1>4 DEF Holding, ImageOf, IsAction
  <2> QED BY <2>1, MinIs
<1>11. x.default = y.default
  BY DEF ImageOf
<1> QED BY <1>1, <1>3, <1>8, <1>9, <1>10, <1>11

\* The effects of the image at a world are the renamed effects.
LEMMA EffectsRenamed ==
  ASSUME NEW s, FiniteState(s), NEW sw, IsRenaming(sw), NEW r, r = Rename(s, sw),
         \A f \in Formulas : Meaningful(f),
         NEW a, NEW b, IsEffect(a), IsEffect(b), EffectsMatch(sw, a, b), NEW w
  PROVE  Fires(r, b, w) = {sw.atom[p] : p \in Fires(s, a, w)}
<1>1. /\ {sw.atom[p] : p \in DOMAIN a} = DOMAIN b
      /\ \A p \in DOMAIN a : RenamesTo(sw, a[p], b[sw.atom[p]])
  BY DEF EffectsMatch
<1>2. /\ DOMAIN a \subseteq Atoms /\ \A p \in DOMAIN a : a[p] \in Formulas
      /\ \A p \in DOMAIN b : b[p] \in Formulas
  BY DEF IsEffect
<1>3. \A p \in DOMAIN a : sw.atom[p] \in DOMAIN b
  BY <1>1
<1>4. \A p \in DOMAIN a : Sat(r)[b[sw.atom[p]]] = Sat(s)[a[p]]
  BY <1>1, <1>2, <1>3, SatRenamed
<1>5. \A q \in DOMAIN b : \E p \in DOMAIN a : q = sw.atom[p]
  BY <1>1
<1>6. ASSUME NEW q
      PROVE  q \in Fires(r, b, w) <=> q \in {sw.atom[p] : p \in Fires(s, a, w)}
  <2>1. q \in Fires(r, b, w) <=> q \in DOMAIN b /\ w \in Sat(r)[b[q]]
    BY DEF Fires
  <2>2. q \in {sw.atom[p] : p \in Fires(s, a, w)} <=>
          \E p \in DOMAIN a : q = sw.atom[p] /\ w \in Sat(s)[a[p]]
    BY DEF Fires
  <2> QED BY <1>3, <1>4, <1>5, <2>1, <2>2
<1> QED BY <1>6

\* The atoms true after the image of an event are the renamed ones.
LEMMA AfterRenamed ==
  ASSUME NEW s, FiniteState(s), NEW sw, IsRenaming(sw), NEW r, r = Rename(s, sw),
         \A f \in Formulas : Meaningful(f),
         NEW x, NEW y, ImageOf(sw, x, y), NEW e \in Events(x), NEW w \in s.W
  PROVE  After(r, y.events[e], w) = {sw.atom[p] : p \in After(s, x.events[e], w)}
<1>1. PICK u, v : u = x.events[e] /\ v = y.events[e]
  OBVIOUS
<1>2. e \in Events(y) /\ EffectsMatch(sw, u.add, v.add) /\ EffectsMatch(sw, u.del, v.del)
  BY <1>1 DEF ImageOf, MapsAction
<1>3. IsEffect(u.add) /\ IsEffect(v.add) /\ IsEffect(u.del) /\ IsEffect(v.del)
  BY <1>1, <1>2 DEF ImageOf, IsAction
<1>4. PICK A, D, V : A = Fires(s, u.add, w) /\ D = Fires(s, u.del, w) /\ V = s.V[w]
  OBVIOUS
<1>5. A \in SUBSET Atoms /\ D \in SUBSET Atoms /\ V \in SUBSET Atoms
  BY <1>3, <1>4 DEF Fires, IsEffect, FiniteState, IsState
<1>6. /\ Fires(r, v.add, w) = {sw.atom[p] : p \in A}
      /\ Fires(r, v.del, w) = {sw.atom[p] : p \in D}
  BY <1>3, <1>2, <1>4, EffectsRenamed
<1>7. r.V[w] = {sw.atom[p] : p \in V}
  BY <1>4, RenameIs
<1>8. \A p, q \in Atoms : sw.atom[p] = sw.atom[q] => p = q
  BY DEF IsRenaming
<1>9. ({sw.atom[p] : p \in V} \cup {sw.atom[p] : p \in A}) \ {sw.atom[p] : p \in D}
        = {sw.atom[p] : p \in (V \cup A) \ D}
  BY <1>5, <1>8
<1>10. After(s, u, w) = (V \cup A) \ D
  BY <1>4 DEF After
<1>11. After(r, v, w) = (r.V[w] \cup Fires(r, v.add, w)) \ Fires(r, v.del, w)
  BY DEF After
<1> QED BY <1>1, <1>6, <1>7, <1>9, <1>10, <1>11

\* Sets of pairs with the same pairs are equal.
LEMMA PairSets ==
  ASSUME NEW A, NEW B, \A z \in A : z = <<z[1], z[2]>>, \A z \in B : z = <<z[1], z[2]>>,
         \A w, e : <<w, e>> \in A <=> <<w, e>> \in B
  PROVE  A = B
<1>1. \A z \in A : <<z[1], z[2]>> \in A
  OBVIOUS
<1>2. \A z \in A : z \in B
  BY <1>1
<1>3. \A z \in B : <<z[1], z[2]>> \in B
  OBVIOUS
<1>4. \A z \in B : z \in A
  BY <1>3
<1> QED BY <1>2, <1>4

\* m is the product of s and a (product_update.cpp, compute_product).
IsProduct(m, s, a) ==
  /\ \A z \in m.W : z = <<z[1], z[2]>>
  /\ \A w, e : <<w, e>> \in m.W <=> e \in Events(a) /\ w \in Sat(s)[a.events[e].pre]
  /\ \A w, e : <<w, e>> \in m.W => m.V[<<w, e>>] = After(s, a.events[e], w)
  /\ \A w, e : <<w, e>> \in m.D <=> <<w, e>> \in m.W /\ w \in s.D /\ e \in a.designated
  /\ \A i \in Agents : \A w, e, u, g : <<w, e>> \in m.W =>
       (<<u, g>> \in m.R[i][<<w, e>>] <=>
          <<u, g>> \in m.W /\ u \in s.R[i][w] /\ g \in EventRelation(s, a, i)[e])
  /\ FiniteState(m)

\* What Product computes.
LEMMA ProductIsProduct ==
  ASSUME NEW s, FiniteState(s), NEW a, IsAction(a)
  PROVE  IsProduct(Product(s, a), s, a)
BY ProductIs DEF IsProduct

\* The product of the renamed state and the image is the renamed product
\* (symmetry.cpp, maps_action).
LEMMA ProductRenamed ==
  ASSUME NEW s, FiniteState(s), NEW sw, IsRenaming(sw), NEW r, r = Rename(s, sw),
         \A f \in Formulas : Meaningful(f),
         NEW x, NEW y, ImageOf(sw, x, y)
  PROVE  /\ Bisimilar(Rename(Product(s, x), sw), Product(r, y))
         /\ Applicable(s, x) => Applicable(r, y)
         /\ Pairs(r, y) = Pairs(s, x)
<1>1. IsAction(x) /\ IsAction(y) /\ Events(x) = Events(y) /\ x.designated = y.designated
  BY DEF ImageOf, MapsAction
<1>2. /\ FiniteState(r) /\ r.W = s.W /\ r.D = s.D
      /\ \A i \in Agents : r.R[sw.agent[i]] = s.R[i]
      /\ \A i \in Agents : sw.agent[i] \in Agents /\ sw.agent[sw.agent[i]] = i
  BY RenameIs DEF IsRenaming
<1>3. \A e \in Events(x) : /\ Sat(r)[y.events[e].pre] = Sat(s)[x.events[e].pre]
                           /\ Sat(s)[x.events[e].pre] \subseteq s.W
  <2>1. ASSUME NEW e \in Events(x)
        PROVE  /\ Sat(r)[y.events[e].pre] = Sat(s)[x.events[e].pre]
               /\ Sat(s)[x.events[e].pre] \subseteq s.W
    <3>1. RenamesTo(sw, x.events[e].pre, y.events[e].pre)
      BY DEF ImageOf, MapsAction
    <3>2. x.events[e].pre \in Formulas /\ y.events[e].pre \in Formulas
      BY <1>1 DEF IsAction
    <3> QED BY <3>1, <3>2, SatRenamed, SatEquations
  <2> QED BY <2>1
<1>4. PICK m, n : m = Product(s, x) /\ n = Product(r, y)
  OBVIOUS
<1>5. /\ \A z \in m.W : z = <<z[1], z[2]>>
      /\ \A w, e : <<w, e>> \in m.W <=> e \in Events(x) /\ w \in Sat(s)[x.events[e].pre]
      /\ \A w, e : <<w, e>> \in m.W => m.V[<<w, e>>] = After(s, x.events[e], w)
      /\ \A w, e : <<w, e>> \in m.D <=> <<w, e>> \in m.W /\ w \in s.D /\ e \in x.designated
      /\ \A i \in Agents : \A w, e, u, g : <<w, e>> \in m.W =>
           (<<u, g>> \in m.R[i][<<w, e>>] <=>
              <<u, g>> \in m.W /\ u \in s.R[i][w] /\ g \in EventRelation(s, x, i)[e])
      /\ FiniteState(m)
  <2>1. IsProduct(m, s, x)
    BY <1>1, <1>4, ProductIsProduct
  <2> QED BY <2>1 DEF IsProduct
<1>6. /\ \A z \in n.W : z = <<z[1], z[2]>>
      /\ \A w, e : <<w, e>> \in n.W <=> e \in Events(y) /\ w \in Sat(r)[y.events[e].pre]
      /\ \A w, e : <<w, e>> \in n.W => n.V[<<w, e>>] = After(r, y.events[e], w)
      /\ \A w, e : <<w, e>> \in n.D <=> <<w, e>> \in n.W /\ w \in r.D /\ e \in y.designated
      /\ \A i \in Agents : \A w, e, u, g : <<w, e>> \in n.W =>
           (<<u, g>> \in n.R[i][<<w, e>>] <=>
              <<u, g>> \in n.W /\ u \in r.R[i][w] /\ g \in EventRelation(r, y, i)[e])
      /\ FiniteState(n)
  <2>1. IsProduct(n, r, y)
    BY <1>1, <1>2, <1>4, ProductIsProduct
  <2> QED BY <2>1 DEF IsProduct
<1>7. PICK k : k = Rename(m, sw)
  OBVIOUS
<1>8. /\ k.W = m.W /\ k.D = m.D /\ FiniteState(k)
      /\ \A z \in m.W : k.V[z] = {sw.atom[p] : p \in m.V[z]}
      /\ \A i \in Agents : k.R[sw.agent[i]] = m.R[i]
  BY <1>5, <1>7, RenameIs
<1>9. /\ \A z \in m.D : z \in m.W
      /\ \A z \in n.D : z \in n.W
      /\ \A i \in Agents, z \in m.W : m.R[i][z] \subseteq m.W
      /\ \A i \in Agents, z \in n.W : n.R[i][z] \subseteq n.W
  BY <1>5, <1>6 DEF FiniteState, IsState
<1>10. \A w, e : <<w, e>> \in n.W <=> <<w, e>> \in m.W
  <2>1. \A w, e : <<w, e>> \in m.W <=> e \in Events(x) /\ w \in Sat(s)[x.events[e].pre]
    BY <1>5
  <2>2. \A w, e : <<w, e>> \in n.W <=> e \in Events(x) /\ w \in Sat(r)[y.events[e].pre]
    BY <1>1, <1>6
  <2> QED BY <1>3, <2>1, <2>2
<1>11. n.W = m.W
  BY <1>5, <1>6, <1>10, PairSets
<1>12. \A w, e : <<w, e>> \in n.D <=> <<w, e>> \in m.D
  <2>1. \A w, e : <<w, e>> \in m.D <=> <<w, e>> \in m.W /\ w \in s.D /\ e \in x.designated
    BY <1>5
  <2>2. \A w, e : <<w, e>> \in n.D <=> <<w, e>> \in n.W /\ w \in s.D /\ e \in x.designated
    BY <1>1, <1>2, <1>6
  <2> QED BY <1>10, <2>1, <2>2
<1>13. n.D = m.D
  <2>1. \A z \in m.D : z = <<z[1], z[2]>>
    BY <1>5, <1>9
  <2>2. \A z \in n.D : z = <<z[1], z[2]>>
    BY <1>6, <1>9
  <2> QED BY <1>12, <2>1, <2>2, PairSets
<1>14. ASSUME NEW z \in m.W
       PROVE  k.V[z] = n.V[z]
  <2>1. PICK w, e : z = <<w, e>> /\ e \in Events(x) /\ w \in s.W
    BY <1>3, <1>5
  <2>2. m.V[z] = After(s, x.events[e], w) /\ n.V[z] = After(r, y.events[e], w)
    BY <1>5, <1>6, <1>11, <2>1
  <2>3. After(r, y.events[e], w) = {sw.atom[p] : p \in After(s, x.events[e], w)}
    BY <2>1, AfterRenamed
  <2> QED BY <1>8, <2>2, <2>3
<1>15. ASSUME NEW i \in Agents, NEW z \in m.W
       PROVE  k.R[sw.agent[i]][z] = n.R[sw.agent[i]][z]
  <2>1. PICK w, e : z = <<w, e>>
    BY <1>5
  <2>2. EventRelation(r, y, sw.agent[i]) = EventRelation(s, x, i)
    BY RelationRenamed
  <2>3. \A u, g : <<u, g>> \in m.R[i][z] <=>
                    <<u, g>> \in m.W /\ u \in s.R[i][w] /\ g \in EventRelation(s, x, i)[e]
    BY <1>5, <2>1
  <2>4. \A u, g : <<u, g>> \in n.R[sw.agent[i]][z] <=>
                    <<u, g>> \in n.W /\ u \in r.R[sw.agent[i]][w]
                      /\ g \in EventRelation(r, y, sw.agent[i])[e]
    BY <1>2, <1>6, <1>11, <2>1
  <2>5. \A u, g : <<u, g>> \in m.R[i][z] <=> <<u, g>> \in n.R[sw.agent[i]][z]
    BY <1>2, <1>11, <2>2, <2>3, <2>4
  <2>6. m.R[i][z] \subseteq m.W /\ n.R[sw.agent[i]][z] \subseteq m.W
    BY <1>2, <1>9, <1>11
  <2>7. m.R[i][z] = n.R[sw.agent[i]][z]
    <3>1. /\ \A v \in m.R[i][z] : v = <<v[1], v[2]>>
          /\ \A v \in n.R[sw.agent[i]][z] : v = <<v[1], v[2]>>
      BY <1>5, <2>6
    <3> QED BY <2>5, <3>1, PairSets
  <2> QED BY <1>8, <2>7
<1>16. \A i \in Agents, z \in m.W : k.R[i][z] = n.R[i][z]
  BY <1>2, <1>15
<1>17. Bisimilar(k, n)
  BY <1>6, <1>8, <1>11, <1>13, <1>14, <1>16, SameLinked
<1>18. Applicable(s, x) => Applicable(r, y)
  <2>1. x.designated \subseteq Events(x)
    BY <1>1 DEF IsAction
  <2>2. \A e \in x.designated : Sat(r)[y.events[e].pre] = Sat(s)[x.events[e].pre]
    BY <1>3, <2>1
  <2> QED BY <1>1, <1>2, <2>2 DEF Applicable
<1>19. Pairs(r, y) = Pairs(s, x)
  <2>1. Len(x.events) = Len(y.events)
    BY <1>1 DEF IsAction
  <2> QED BY <1>2, <2>1 DEF Pairs
<1> QED BY <1>4, <1>7, <1>17, <1>18, <1>19

\* A swap fixes a state exactly if the renamed state is bisimilar to it.
LEMMA FixesIs ==
  ASSUME NEW s, FiniteState(s), NEW sw, IsRenaming(sw)
  PROVE  Fixes(sw, s) <=> Bisimilar(Rename(s, sw), s)
<1>1. PICK r : r = Rename(s, sw) /\ FiniteState(r)
  BY RenameIs
<1>2. Bisimilar(r, s) => Fixes(sw, s)
  BY <1>1, ContractionIsCanonical DEF Fixes
<1>3. ASSUME Fixes(sw, s)
      PROVE  Bisimilar(r, s)
  <2>1. PICK q : q = BisimContract(r) /\ q = BisimContract(s)
    BY <1>1, <1>3 DEF Fixes
  <2>2. FiniteState(q) /\ Bisimilar(r, q) /\ Bisimilar(s, q)
    BY <1>1, <2>1, ContractionIs
  <2>3. Bisimilar(q, s)
    BY <2>2, BisimilarSymmetric
  <2> QED BY <2>2, <2>3, BisimilarTransitive
<1> QED BY <1>1, <1>2, <1>3

\* An update within the limit on worlds is the consistency step on the product.
LEMMA UpdateIs ==
  ASSUME NEW s, NEW a, NEW seriality, NEW cap
  PROVE  /\ ~(Pairs(s, a) > cap) =>
              ProductUpdate(s, a, seriality, cap) = Admit(Product(s, a), seriality)
         /\ ProductUpdate(s, a, seriality, cap).ok => ~(Pairs(s, a) > cap)
BY OkIs DEF ProductUpdate

\* The successor of an applicable action is the contracted update.
LEMMA SuccessorIs ==
  ASSUME NEW s, NEW a, NEW seriality, NEW cap
  PROVE  LET n == Successor(s, a, seriality, cap)
             u == ProductUpdate(s, a, seriality, cap)
         IN  /\ n.ok => Applicable(s, a) /\ u.ok
             /\ Applicable(s, a) /\ u.ok => n.ok /\ n.state = BisimContract(u.state)
<1>1. CASE ~Applicable(s, a)
  BY <1>1, OkIs DEF Successor
<1>2. CASE Applicable(s, a)
  BY <1>2, OkIs DEF Successor, ContractedUpdate
<1> QED BY <1>1, <1>2

\* An applicable action leaves a designated world.
LEMMA ProductDesignates ==
  ASSUME NEW s, FiniteState(s), NEW a, IsAction(a), Applicable(s, a)
  PROVE  Product(s, a).D # {}
<1>1. PICK m : m = Product(s, a) /\ IsProduct(m, s, a)
  BY ProductIsProduct
<1>2. PICK w \in s.D : TRUE
  BY DEF Applicable
<1>3. PICK e \in a.designated : w \in Sat(s)[a.events[e].pre]
  BY <1>2 DEF Applicable
<1>4. <<w, e>> \in m.D
  BY <1>1, <1>2, <1>3 DEF IsAction, IsProduct
<1> QED BY <1>1, <1>4

(***************************************************************************)
(* A swap that fixes the state makes of the successor by an action the     *)
(* successor by its image.                                                 *)
(***************************************************************************)
LEMMA SuccessorRenamed ==
  ASSUME NEW s, FiniteState(s), NEW sw, IsRenaming(sw), Fixes(sw, s),
         \A f \in Formulas : Meaningful(f),
         NEW x, NEW y, ImageOf(sw, x, y), NEW seriality \in Serialities, NEW cap,
         Successor(s, x, seriality, cap).ok
  PROVE  /\ Successor(s, y, seriality, cap).ok
         /\ Successor(s, y, seriality, cap).state
              = BisimContract(Rename(Successor(s, x, seriality, cap).state, sw))
<1>1. PICK r : r = Rename(s, sw) /\ FiniteState(r) /\ r.W = s.W
  BY RenameIs
<1>2. IsAction(x) /\ IsAction(y)
  BY DEF ImageOf
<1>3. PICK m, n : m = Product(s, x) /\ n = Product(r, y)
  OBVIOUS
<1>4. /\ Applicable(s, x) /\ ProductUpdate(s, x, seriality, cap).ok
      /\ Successor(s, x, seriality, cap).state = BisimContract(ProductUpdate(s, x, seriality, cap).state)
  BY SuccessorIs
<1>5. /\ ~(Pairs(s, x) > cap) /\ Admit(m, seriality).ok
      /\ ProductUpdate(s, x, seriality, cap) = Admit(m, seriality)
  BY <1>3, <1>4, UpdateIs
<1>6. FiniteState(m) /\ FiniteState(n) /\ m.D # {}
  <2>1. IsProduct(m, s, x) /\ IsProduct(n, r, y)
    BY <1>1, <1>2, <1>3, ProductIsProduct
  <2> QED BY <1>2, <1>3, <1>4, <2>1, ProductDesignates DEF IsProduct
<1>7. PICK k : k = Rename(m, sw) /\ FiniteState(k) /\ k.D # {}
  BY <1>6, RenameIs
<1>8. Bisimilar(k, n) /\ Applicable(r, y) /\ Pairs(r, y) = Pairs(s, x)
  BY <1>1, <1>3, <1>4, <1>7, ProductRenamed
<1>9. PICK a, b : /\ a = Admit(m, seriality).state /\ b = Admit(k, seriality).state
                  /\ Admit(k, seriality).ok /\ FiniteState(a) /\ FiniteState(b)
                  /\ Bisimilar(Rename(a, sw), b)
  BY <1>5, <1>6, <1>7, AdmitRenamed
<1>10. PICK c : /\ c = Admit(n, seriality).state /\ Admit(n, seriality).ok /\ FiniteState(c)
                /\ Bisimilar(b, c)
  <2>1. PICK Z : Linked(k, n, Z)
    BY <1>8 DEF Bisimilar
  <2>2. SameResult(Z, seriality, Admit(k, seriality), Admit(n, seriality))
    BY <1>6, <1>7, <2>1, AdmitAgrees
  <2> QED BY <1>9, <2>2 DEF SameResult, Bisimilar
<1>11. ProductUpdate(r, y, seriality, cap).ok /\ ProductUpdate(r, y, seriality, cap).state = c
  BY <1>3, <1>5, <1>8, <1>10, UpdateIs
<1>12. Bisimilar(r, s)
  BY <1>1, FixesIs
<1>13. PICK d : /\ d = ProductUpdate(s, y, seriality, Pairs(s, y)).state
                /\ ProductUpdate(s, y, seriality, Pairs(s, y)).ok
                /\ FiniteState(d) /\ Bisimilar(c, d)
  <2>1. PICK Z : SameResult(Z, seriality, ProductUpdate(r, y, seriality, cap),
                            ProductUpdate(s, y, seriality, Pairs(s, y)))
    BY <1>1, <1>2, <1>8, <1>11, <1>12, UpdateAgrees
  <2> QED BY <1>11, <2>1 DEF SameResult, Bisimilar
<1>14. ProductUpdate(s, y, seriality, cap) = ProductUpdate(s, y, seriality, Pairs(s, y))
  <2>1. ~(Pairs(s, y) > cap)
    BY <1>1, <1>5, <1>8 DEF Pairs
  <2>2. ~(Pairs(s, y) > Pairs(s, y))
    BY <1>13, UpdateIs
  <2>3. \A l : ~(Pairs(s, y) > l) =>
                  ProductUpdate(s, y, seriality, l) = Admit(Product(s, y), seriality)
    BY UpdateIs
  <2> QED BY <2>1, <2>2, <2>3
<1>15. Applicable(s, y)
  <2>1. PICK Z : Linked(r, s, Z)
    BY <1>12 DEF Bisimilar
  <2> QED BY <1>1, <1>2, <1>8, <2>1, ApplicableAgrees
<1>16. Successor(s, y, seriality, cap).ok /\ Successor(s, y, seriality, cap).state = BisimContract(d)
  BY <1>13, <1>14, <1>15, SuccessorIs
<1>17. PICK q : q = BisimContract(a) /\ FiniteState(q) /\ Bisimilar(a, q)
  BY <1>9, ContractionIs
<1>18. PICK ra, rq : /\ ra = Rename(a, sw) /\ rq = Rename(q, sw)
                     /\ FiniteState(ra) /\ FiniteState(rq) /\ Bisimilar(ra, rq)
  BY <1>9, <1>17, RenameIs, RenameAgrees
<1>19. Bisimilar(rq, d)
  <2>1. Bisimilar(rq, ra)
    BY <1>18, BisimilarSymmetric
  <2>2. Bisimilar(ra, b)
    BY <1>9, <1>18
  <2> QED BY <1>10, <1>13, <2>1, <2>2, BisimilarTransitive
<1>20. BisimContract(rq) = BisimContract(d)
  BY <1>13, <1>18, <1>19, ContractionIsCanonical
<1> QED BY <1>4, <1>5, <1>9, <1>16, <1>17, <1>18, <1>20

\* Exchanging two agents in a name.
Exchanged(name, a, b, k) == IF name[k] = a THEN b ELSE IF name[k] = b THEN a ELSE name[k]

\* What exchanging two agents makes of a name.
LEMMA SwapTokensIs ==
  ASSUME NEW x, IsName(x), NEW a, NEW b
  PROVE  /\ SwapTokens(x, a, b) = [k \in 1 .. Len(x) |-> Exchanged(x, a, b, k)]
         /\ DOMAIN SwapTokens(x, a, b) = DOMAIN x /\ DOMAIN x = 1 .. Len(x)
         /\ \A k \in DOMAIN x : SwapTokens(x, a, b)[k] = Exchanged(x, a, b, k)
<1>1. DOMAIN x = 1 .. Len(x)
  BY DEF IsName
<1>2. \A k : (CASE x[k] = a -> b [] x[k] = b -> a [] OTHER -> x[k]) = Exchanged(x, a, b, k)
  BY DEF Exchanged
<1> QED BY <1>1, <1>2 DEF SwapTokens

\* Exchanging twice restores the name.
LEMMA SwapTokensTwice ==
  ASSUME NEW x, IsName(x), NEW y, IsName(y), NEW a, NEW b,
         SwapTokens(x, a, b) = SwapTokens(y, a, b)
  PROVE  x = y
<1>1. DOMAIN x = DOMAIN y
  BY SwapTokensIs
<1>2. \A k \in DOMAIN x : Exchanged(x, a, b, k) = Exchanged(y, a, b, k)
  BY <1>1, SwapTokensIs
<1>3. \A k \in DOMAIN x : x[k] = y[k]
  BY <1>2 DEF Exchanged
<1>4. x = [k \in DOMAIN x |-> x[k]] /\ y = [k \in DOMAIN y |-> y[k]]
  BY DEF IsName
<1> QED BY <1>1, <1>3, <1>4

\* Exchanging a and c is exchanging a and b, then b and c, then a and b.
LEMMA SwapTokensThrough ==
  ASSUME NEW x, NEW a, NEW b, NEW c, a # b, b # c, a # c, IsName(x),
         NEW y, y = SwapTokens(x, a, b), IsName(y),
         NEW z, z = SwapTokens(y, b, c), IsName(z)
  PROVE  SwapTokens(z, a, b) = SwapTokens(x, a, c)
<1>1. /\ DOMAIN y = DOMAIN x /\ DOMAIN z = DOMAIN x
      /\ DOMAIN SwapTokens(z, a, b) = DOMAIN x /\ DOMAIN SwapTokens(x, a, c) = DOMAIN x
  BY SwapTokensIs
<1>2. \A k \in DOMAIN x : /\ y[k] = Exchanged(x, a, b, k) /\ z[k] = Exchanged(y, b, c, k)
                          /\ SwapTokens(z, a, b)[k] = Exchanged(z, a, b, k)
                          /\ SwapTokens(x, a, c)[k] = Exchanged(x, a, c, k)
  BY <1>1, SwapTokensIs
<1>3. \A k \in DOMAIN x : SwapTokens(z, a, b)[k] = SwapTokens(x, a, c)[k]
  BY <1>2 DEF Exchanged
<1>4. \A n, i, j : SwapTokens(n, i, j) = [k \in DOMAIN SwapTokens(n, i, j) |-> SwapTokens(n, i, j)[k]]
  BY DEF SwapTokens
<1> QED BY <1>1, <1>3, <1>4

\* The order of the two agents does not matter, and nothing happens if they are
\* the same.
LEMMA SwapTokensEither ==
  ASSUME NEW x, IsName(x), NEW a, NEW b
  PROVE  SwapTokens(x, a, b) = SwapTokens(x, b, a) /\ SwapTokens(x, a, a) = x
<1>1. \A k : Exchanged(x, a, b, k) = Exchanged(x, b, a, k) /\ Exchanged(x, a, a, k) = x[k]
  BY DEF Exchanged
<1> QED BY <1>1, SwapTokensIs DEF IsName

\* The swaps that detect finds rename agents, atoms and actions without losing
\* any (symmetry.cpp, make_swap).
LEMMA SwapRenames ==
  ASSUME NEW t, SwapsAreSymmetries(t), NEW sw \in Detect(t)
  PROVE  /\ IsRenaming(sw)
         /\ \A x \in DOMAIN t.actions : MapsAction(sw, t.actions[x], t.actions[sw.action[x]])
         /\ \E a, b \in Agents :
              /\ \A i \in Agents : sw.agent[i] = IF i = a THEN b ELSE IF i = b THEN a ELSE i
              /\ \A x \in DOMAIN t.actions : /\ sw.action[x] = SwapTokens(x, a, b)
                                             /\ sw.action[x] \in DOMAIN t.actions
<1>1. PICK a, b \in Agents : SwapExists(t, a, b) /\ sw = MakeSwap(t, a, b)
  BY DEF Detect
<1>2. PICK nm : nm = t.atomNames
  OBVIOUS
<1>3. /\ sw.agent = [i \in Agents |-> CASE i = a -> b [] i = b -> a [] OTHER -> i]
      /\ sw.atom = [p \in Atoms |-> CHOOSE q \in Atoms : nm[q] = SwapTokens(nm[p], a, b)]
      /\ sw.action = [x \in DOMAIN t.actions |-> SwapTokens(x, a, b)]
  BY <1>1, <1>2, TableIs DEF MakeSwap
<1>4. \A i \in Agents : sw.agent[i] = IF i = a THEN b ELSE IF i = b THEN a ELSE i
  BY <1>3
<1>5. /\ sw.agent \in [Agents -> Agents]
      /\ \A i, j \in Agents : sw.agent[i] = sw.agent[j] => i = j
      /\ \A i \in Agents : sw.agent[sw.agent[i]] = i
  BY <1>1, <1>3, <1>4
<1>6. \A p \in Atoms : \E q \in Atoms : nm[q] = SwapTokens(nm[p], a, b)
  BY <1>1, <1>2 DEF SwapExists, SwapsAreSymmetries, Range
<1>7. \A p \in Atoms : sw.atom[p] \in Atoms /\ nm[sw.atom[p]] = SwapTokens(nm[p], a, b)
  BY <1>3, <1>6
<1>8. \A p, q \in Atoms : sw.atom[p] = sw.atom[q] => p = q
  <2>1. \A p, q \in Atoms : IsName(nm[p]) /\ (nm[p] = nm[q] => p = q)
    BY <1>2 DEF SwapsAreSymmetries
  <2> QED BY <1>7, <2>1, SwapTokensTwice
<1>9. sw.atom \in [Atoms -> Atoms]
  BY <1>3, <1>7
<1>10. \A x \in DOMAIN t.actions : sw.action[x] = SwapTokens(x, a, b) /\ sw.action[x] \in DOMAIN t.actions
  BY <1>1, <1>3 DEF SwapExists
<1>11. \A x \in DOMAIN t.actions : MapsAction(sw, t.actions[x], t.actions[sw.action[x]])
  BY DEF Detect
<1> QED BY <1>1, <1>4, <1>5, <1>8, <1>9, <1>10, <1>11 DEF IsRenaming

\* A round of a loop that only adds members of a finite set, and the function
\* that runs the loop.
Augments(W, grow) ==
  /\ IsFiniteSet(W) /\ grow \in [SUBSET W -> SUBSET W]
  /\ \A X \in SUBSET W : X \subseteq grow[X]
Augmented(W, grow, g) == g = [X \in SUBSET W |-> IF grow[X] = X THEN X ELSE g[grow[X]]]

\* A loop that adds to a set until nothing is new ends, and keeps what a round
\* keeps.
LEMMA GrowthEnds ==
  ASSUME NEW W, NEW grow, Augments(W, grow)
  PROVE  /\ \E g : Augmented(W, grow, g)
         /\ \A g, P : Augmented(W, grow, g) /\ P \in SUBSET SUBSET W /\ (\A X \in P : grow[X] \in P)
              => \A X \in P : g[X] \in P /\ grow[g[X]] = g[X]
<1> DEFINE S == SUBSET W
           stop == {X \in S : grow[X] = X}
           m == [X \in S |-> Cardinality(W) - Cardinality(X)]
<1>1. Iteration(S, stop, grow, m)
  <2>1. ASSUME NEW X \in S, X \notin stop
        PROVE  m[grow[X]] < m[X]
    <3>1. grow[X] \in S /\ X \subseteq grow[X] /\ X # grow[X]
      BY <2>1 DEF Augments
    <3>2. /\ Cardinality(X) < Cardinality(grow[X]) /\ Cardinality(X) \in Nat
          /\ Cardinality(grow[X]) \in Nat /\ Cardinality(W) \in Nat
      BY <3>1, Subsets DEF Augments
    <3> QED BY <3>1, <3>2
  <2>2. m \in [S -> Nat]
    BY Subsets DEF Augments
  <2>3. grow \in [S -> S]
    BY DEF Augments
  <2> QED BY <2>1, <2>2, <2>3 DEF Iteration
<1>2. \A g : Iterates(S, stop, grow, g) <=> Augmented(W, grow, g)
  <2>1. TAKE g
  <2>2. [X \in S |-> IF X \in stop THEN X ELSE g[grow[X]]]
      = [X \in S |-> IF grow[X] = X THEN X ELSE g[grow[X]]]
    OBVIOUS
  <2> QED BY <2>2 DEF Iterates, Augmented
<1>3. \E g : Augmented(W, grow, g)
  <2> HIDE DEF S, stop, m
  <2> QED BY <1>1, <1>2, IterationExists
<1>4. ASSUME NEW g, NEW P, Augmented(W, grow, g), P \in SUBSET SUBSET W, \A X \in P : grow[X] \in P,
             NEW X \in P
      PROVE  g[X] \in P /\ grow[g[X]] = g[X]
  <2>1. P \in SUBSET S /\ \A Y \in P : Y \notin stop => grow[Y] \in P
    BY <1>4
  <2>2. Iterates(S, stop, grow, g)
    BY <1>2, <1>4
  <2>3. \A Y \in P : g[Y] \in P /\ g[Y] \in stop
    <3> HIDE DEF S, stop, m
    <3> QED BY <1>1, <2>1, <2>2, IterationKeeps
  <2>4. \A Y \in stop : grow[Y] = Y
    OBVIOUS
  <2> QED BY <1>4, <2>3, <2>4
<1> QED BY <1>3, <1>4

\* The agents that are exchanged with a member of C.
Partners(stab, C) == {sw.agent[j] : sw \in stab, j \in C}

\* The component of an agent holds the agent and no one but those that a chain
\* of swaps connects it with (symmetry.cpp, stabiliser).
LEMMA ComponentIs ==
  ASSUME NEW stab, \A sw \in stab : IsRenaming(sw), NEW i \in Agents
  PROVE  /\ i \in Component(stab, i) /\ Component(stab, i) \in SUBSET Agents
         /\ \A P \in SUBSET Agents :
              i \in P /\ Partners(stab, P) \subseteq P => Component(stab, i) \subseteq P
<1> DEFINE grow == [C \in SUBSET Agents |-> C \cup Partners(stab, C)]
           Computes(g) == g = [C \in SUBSET Agents |->
                             IF C \cup Partners(stab, C) = C THEN C ELSE g[C \cup Partners(stab, C)]]
<1>1. \A C \in SUBSET Agents : Partners(stab, C) \in SUBSET Agents
  BY DEF Partners, IsRenaming
<1>2. Augments(Agents, grow)
  <2>1. grow \in [SUBSET Agents -> SUBSET Agents]
    BY <1>1
  <2>2. \A X \in SUBSET Agents : X \subseteq grow[X]
    OBVIOUS
  <2> HIDE DEF grow
  <2> QED BY <2>1, <2>2, AgentsAssumption DEF Augments
<1>3. \A g : Augmented(Agents, grow, g) <=> Computes(g)
  <2>1. TAKE g
  <2>2. [X \in SUBSET Agents |-> IF grow[X] = X THEN X ELSE g[grow[X]]]
      = [C \in SUBSET Agents |->
           IF C \cup Partners(stab, C) = C THEN C ELSE g[C \cup Partners(stab, C)]]
    OBVIOUS
  <2> QED BY <2>2 DEF Augmented
<1>4. Component(stab, i) = (CHOOSE g : Computes(g))[{i}]
  BY DEF Component, Partners
<1>5. PICK g : g = (CHOOSE f : Computes(f)) /\ Computes(g)
  <2>1. \E g : Computes(g)
    <3> HIDE DEF Computes, grow
    <3> QED BY <1>2, <1>3, GrowthEnds
  <2> HIDE DEF Computes
  <2> QED BY <2>1
<1>6. Augmented(Agents, grow, g) /\ Component(stab, i) = g[{i}]
  <2> HIDE DEF Computes, grow
  <2> QED BY <1>3, <1>4, <1>5
<1>7. ASSUME NEW Q \in SUBSET SUBSET Agents, {i} \in Q, \A C \in Q : C \cup Partners(stab, C) \in Q
      PROVE  Component(stab, i) \in Q
  <2>1. \A C \in Q : grow[C] \in Q
    BY <1>7
  <2> HIDE DEF Computes, grow
  <2> QED BY <1>2, <1>6, <1>7, <2>1, GrowthEnds
<1> HIDE DEF Computes, grow
<1>8. i \in Component(stab, i) /\ Component(stab, i) \in SUBSET Agents
  <2> DEFINE Q == {C \in SUBSET Agents : i \in C}
  <2>1. \A C \in Q : C \cup Partners(stab, C) \in Q
    BY <1>1
  <2>2. {i} \in Q /\ Q \in SUBSET SUBSET Agents
    OBVIOUS
  <2>3. Component(stab, i) \in Q
    <3> HIDE DEF Q
    <3> QED BY <1>7, <2>1, <2>2
  <2> QED BY <2>3
<1>9. ASSUME NEW P \in SUBSET Agents, i \in P, Partners(stab, P) \subseteq P
      PROVE  Component(stab, i) \subseteq P
  <2> DEFINE Q == SUBSET P
  <2>1. \A C \in Q : Partners(stab, C) \subseteq Partners(stab, P)
    BY DEF Partners
  <2>2. \A C \in Q : C \cup Partners(stab, C) \in Q
    BY <1>9, <2>1
  <2>3. {i} \in Q /\ Q \in SUBSET SUBSET Agents
    BY <1>9
  <2>4. Component(stab, i) \in Q
    <3> HIDE DEF Q
    <3> QED BY <1>7, <2>2, <2>3
  <2> QED BY <2>4
<1> QED BY <1>8, <1>9

\* The states that one swap of stab makes of a member of Q.
RenamedStates(stab, Q) == {BisimContract(Rename(q, sw)) : q \in Q, sw \in stab}

\* The orbit of a state of S holds it, and what swaps make of a member, if that
\* is in S.
LEMMA OrbitIs ==
  ASSUME NEW stab, NEW S, IsFiniteSet(S), NEW s \in S
  PROVE  /\ s \in Orbit(stab, S, s)
         /\ \A q \in Orbit(stab, S, s), sw \in stab :
              BisimContract(Rename(q, sw)) \in S =>
                 BisimContract(Rename(q, sw)) \in Orbit(stab, S, s)
<1> DEFINE Round(Q) == Q \cup (RenamedStates(stab, Q) \cap S)
           grow == [Q \in SUBSET S |-> Round(Q)]
           Computes(g) == g = [Q \in SUBSET S |-> IF Round(Q) = Q THEN Q ELSE g[Round(Q)]]
<1>1. Augments(S, grow)
  <2>1. grow \in [SUBSET S -> SUBSET S] /\ \A X \in SUBSET S : X \subseteq grow[X]
    OBVIOUS
  <2> HIDE DEF grow
  <2> QED BY <2>1 DEF Augments
<1>2. \A g : Augmented(S, grow, g) <=> Computes(g)
  <2>1. TAKE g
  <2>2. [X \in SUBSET S |-> IF grow[X] = X THEN X ELSE g[grow[X]]]
      = [Q \in SUBSET S |-> IF Round(Q) = Q THEN Q ELSE g[Round(Q)]]
    OBVIOUS
  <2> QED BY <2>2 DEF Augmented
<1>3. Orbit(stab, S, s) = (CHOOSE g : Computes(g))[{s}]
  BY DEF Orbit, RenamedStates
<1>4. PICK g : g = (CHOOSE f : Computes(f)) /\ Computes(g)
  <2>1. \E g : Computes(g)
    <3> HIDE DEF Computes, grow
    <3> QED BY <1>1, <1>2, GrowthEnds
  <2> HIDE DEF Computes
  <2> QED BY <2>1
<1>5. Augmented(S, grow, g) /\ Orbit(stab, S, s) = g[{s}]
  <2> HIDE DEF Computes, grow
  <2> QED BY <1>2, <1>3, <1>4
<1> DEFINE P == {Q \in SUBSET S : s \in Q}
<1>6. {s} \in P /\ P \in SUBSET SUBSET S /\ \A X \in P : grow[X] \in P
  OBVIOUS
<1>7. g[{s}] \in P /\ grow[g[{s}]] = g[{s}]
  <2> HIDE DEF Computes, grow, P
  <2> QED BY <1>1, <1>5, <1>6, GrowthEnds
<1>8. s \in g[{s}] /\ RenamedStates(stab, g[{s}]) \cap S \subseteq g[{s}]
  <2>1. g[{s}] \in SUBSET S
    BY <1>7
  <2>2. grow[g[{s}]] = Round(g[{s}])
    BY <2>1
  <2> HIDE DEF Computes, grow
  <2> QED BY <1>7, <2>2
<1> HIDE DEF Computes, grow, P
<1> QED BY <1>5, <1>8 DEF RenamedStates

\* A strict order on a finite set has a minimal member.
LEMMA MinimalExists ==
  ASSUME NEW G, IsFiniteSet(G), G # {}, NEW R,
         \A x \in G : <<x, x>> \notin R,
         \A x, y, z \in G : <<x, y>> \in R /\ <<y, z>> \in R => <<x, z>> \in R
  PROVE  \E y \in G : \A z \in G : <<z, y>> \notin R
<1> DEFINE Down(y) == {z \in G : <<z, y>> \in R}
           Sizes == {Cardinality(Down(y)) : y \in G}
<1>1. \A y \in G : Cardinality(Down(y)) \in Nat
  BY Subsets
<1>2. PICK n \in Sizes : \A k \in Sizes : n <= k
  <2>1. Sizes \in SUBSET Nat /\ Sizes # {}
    <3> HIDE DEF Down
    <3> QED BY <1>1
  <2> HIDE DEF Sizes
  <2> QED BY <2>1, LeastNatural
<1>3. PICK y \in G : n = Cardinality(Down(y))
  OBVIOUS
<1>4. ASSUME NEW z \in G, <<z, y>> \in R
      PROVE  FALSE
  <2>1. Down(z) \in SUBSET Down(y) /\ Down(z) # Down(y) /\ Down(y) \in SUBSET G
    BY <1>4
  <2>2. Cardinality(Down(z)) < Cardinality(Down(y))
    <3> HIDE DEF Down
    <3> QED BY <2>1, Subsets
  <2>3. n <= Cardinality(Down(z))
    <3> HIDE DEF Down
    <3> QED BY <1>2
  <2> HIDE DEF Down
  <2> QED BY <1>1, <1>3, <2>2, <2>3
<1> QED BY <1>4

\* z has a smaller number where it first differs from y.
Before(z, y) ==
  \E k \in DOMAIN y : /\ z[k] \in Nat /\ y[k] \in Nat /\ z[k] < y[k]
                      /\ \A j \in 1 .. k - 1 : z[j] = y[j]

\* Among finitely many names some are first.
LEMMA FirstName ==
  ASSUME NEW G, IsFiniteSet(G), G # {}, \A x \in G : IsName(x),
         \A x, y \in G : DOMAIN x = DOMAIN y
  PROVE  \E y \in G : \A z \in G : ~Before(z, y)
<1> DEFINE R == {p \in G \X G : Before(p[1], p[2])}
<1>1. \A x, y \in G : <<x, y>> \in R <=> Before(x, y)
  OBVIOUS
<1> HIDE DEF R
<1>2. \A x \in G : <<x, x>> \notin R
  BY <1>1 DEF Before
<1>3. ASSUME NEW x \in G, NEW y \in G, NEW z \in G, <<x, y>> \in R, <<y, z>> \in R
      PROVE  <<x, z>> \in R
  <2>1. PICK k \in DOMAIN y : /\ x[k] \in Nat /\ y[k] \in Nat /\ x[k] < y[k]
                              /\ \A j \in 1 .. k - 1 : x[j] = y[j]
    BY <1>1, <1>3 DEF Before
  <2>2. PICK l \in DOMAIN z : /\ y[l] \in Nat /\ z[l] \in Nat /\ y[l] < z[l]
                              /\ \A j \in 1 .. l - 1 : y[j] = z[j]
    BY <1>1, <1>3 DEF Before
  <2>3. k \in DOMAIN z /\ k \in Nat /\ l \in Nat /\ k > 0 /\ l > 0
    BY DEF IsName
  <2>4. CASE k < l
    <3>1. y[k] = z[k] /\ \A j \in 1 .. k - 1 : y[j] = z[j]
      BY <2>2, <2>3, <2>4
    <3> QED BY <1>1, <2>1, <2>3, <3>1 DEF Before
  <2>5. CASE k = l
    <3>1. x[k] < z[k] /\ x[k] \in Nat /\ z[k] \in Nat /\ \A j \in 1 .. k - 1 : x[j] = z[j]
      BY <2>1, <2>2, <2>5
    <3> QED BY <1>1, <2>3, <3>1 DEF Before
  <2>6. CASE l < k
    <3>1. x[l] = y[l] /\ \A j \in 1 .. l - 1 : x[j] = y[j]
      BY <2>1, <2>3, <2>6
    <3>2. x[l] < z[l] /\ x[l] \in Nat /\ z[l] \in Nat /\ \A j \in 1 .. l - 1 : x[j] = z[j]
      BY <2>2, <3>1
    <3> QED BY <1>1, <2>2, <3>2 DEF Before
  <2> QED BY <2>3, <2>4, <2>5, <2>6
<1> QED BY <1>1, <1>2, <1>3, MinimalExists

\* Exchanging any two agents of a component leads from a name of G to one of G.
Interchangeable(G, a, b) == \A y \in G : SwapTokens(y, a, b) \in G

\* If the swaps lead from names of G to names of G, so do all exchanges within a
\* component (symmetry.cpp, stabiliser: a component is where the swaps give
\* every permutation).
LEMMA ComponentsInterchange ==
  ASSUME NEW G, \A y \in G : IsName(y), NEW stab, \A sw \in stab : IsRenaming(sw),
         \A sw \in stab : \E a, b \in Agents :
            /\ \A i \in Agents : sw.agent[i] = IF i = a THEN b ELSE IF i = b THEN a ELSE i
            /\ Interchangeable(G, a, b),
         NEW i \in Agents, NEW j \in Component(stab, i)
  PROVE  Interchangeable(G, i, j)
<1> DEFINE P == {k \in Agents : Interchangeable(G, i, k)}
<1>1. Interchangeable(G, i, i)
  BY SwapTokensEither DEF Interchangeable
<1>2. ASSUME NEW a, NEW b, Interchangeable(G, a, b)
      PROVE  Interchangeable(G, b, a)
  BY <1>2, SwapTokensEither DEF Interchangeable
<1>3. ASSUME NEW a, NEW b, Interchangeable(G, i, a), Interchangeable(G, a, b)
      PROVE  Interchangeable(G, i, b)
  <2>1. CASE i # a /\ a # b /\ i # b
    <3>1. ASSUME NEW x \in G
          PROVE  SwapTokens(x, i, b) \in G
      <4>1. PICK y \in G : y = SwapTokens(x, i, a)
        BY <1>3 DEF Interchangeable
      <4>2. PICK z \in G : z = SwapTokens(y, a, b)
        BY <1>3 DEF Interchangeable
      <4>3. SwapTokens(z, i, a) \in G
        BY <1>3 DEF Interchangeable
      <4> QED BY <2>1, <4>1, <4>2, <4>3, SwapTokensThrough
    <3> QED BY <3>1 DEF Interchangeable
  <2> QED BY <1>1, <1>3, <2>1
<1>4. ASSUME NEW sw \in stab, NEW k \in P
      PROVE  sw.agent[k] \in P
  <2>1. PICK a, b \in Agents :
            /\ \A l \in Agents : sw.agent[l] = IF l = a THEN b ELSE IF l = b THEN a ELSE l
            /\ Interchangeable(G, a, b)
    OBVIOUS
  <2>2. Interchangeable(G, i, k) /\ k \in Agents
    BY <1>4
  <2>3. CASE k = a
    BY <1>3, <2>1, <2>2, <2>3
  <2>4. CASE k = b
    BY <1>2, <1>3, <2>1, <2>2, <2>4
  <2>5. CASE k # a /\ k # b
    BY <2>1, <2>2, <2>5
  <2> QED BY <2>3, <2>4, <2>5
<1>5. Partners(stab, P) \subseteq P
  BY <1>4 DEF Partners
<1>6. i \in P /\ P \in SUBSET Agents
  BY <1>1
<1>7. Component(stab, i) \subseteq P
  <2> HIDE DEF P
  <2> QED BY <1>5, <1>6, ComponentIs
<1> QED BY <1>7

\* A first name among those that exchanges lead to is kept.
LEMMA FirstNameIsKept ==
  ASSUME NEW G, \A y \in G : IsName(y), NEW stab, \A sw \in stab : IsRenaming(sw),
         \A sw \in stab : \E a, b \in Agents :
            /\ \A i \in Agents : sw.agent[i] = IF i = a THEN b ELSE IF i = b THEN a ELSE i
            /\ Interchangeable(G, a, b),
         NEW y \in G, \A z \in G : ~Before(z, y)
  PROVE  Keep(stab, y)
<1>1. SUFFICES ASSUME NEW k \in DOMAIN y, y[k] \in Agents,
                      y[k] \notin {y[j] : j \in 1 .. k - 1},
                      y[k] # Min(Component(stab, y[k]) \ {y[j] : j \in 1 .. k - 1})
               PROVE  FALSE
  BY DEF Keep
<1>2. PICK C, earlier, m : /\ C = Component(stab, y[k]) /\ earlier = {y[j] : j \in 1 .. k - 1}
                           /\ m = Min(C \ earlier)
  OBVIOUS
<1>3. C \in SUBSET Agents /\ y[k] \in C
  BY <1>1, <1>2, ComponentIs
<1>4. m \in C /\ m \notin earlier /\ m < y[k] /\ m \in Nat /\ y[k] \in Nat
  <2>1. IsFiniteSet(C \ earlier) /\ C \ earlier \in SUBSET Nat /\ y[k] \in C \ earlier
    BY <1>1, <1>2, <1>3, AgentsAssumption, FS_Subset
  <2>2. m \in C \ earlier /\ \A n \in C \ earlier : m <= n
    BY <1>2, <2>1, MinIs
  <2>3. m # y[k]
    BY <1>1, <1>2
  <2>4. m \in Nat /\ y[k] \in Nat /\ m <= y[k]
    BY <2>1, <2>2
  <2> QED BY <2>2, <2>3, <2>4
<1>5. PICK z \in G : z = SwapTokens(y, y[k], m)
  <2>1. Interchangeable(G, y[k], m)
    BY <1>1, <1>2, <1>4, ComponentsInterchange
  <2> QED BY <2>1 DEF Interchangeable
<1>6. /\ DOMAIN y = 1 .. Len(y) /\ Len(y) \in Nat
      /\ \A j \in DOMAIN y : z[j] = Exchanged(y, y[k], m, j)
  BY <1>5, SwapTokensIs DEF IsName
<1>7. z[k] = m
  BY <1>6 DEF Exchanged
<1>8. ASSUME NEW j \in 1 .. k - 1
      PROVE  z[j] = y[j]
  <2>1. j \in DOMAIN y /\ y[j] \in earlier
    BY <1>2, <1>6
  <2> QED BY <1>1, <1>2, <1>4, <1>6, <2>1 DEF Exchanged
<1>9. Before(z, y)
  BY <1>4, <1>7, <1>8 DEF Before
<1> QED BY <1>9

\* In a task whose swaps are symmetries, no state loses a successor to pruning.
LEMMA PruningLosesNothing ==
  ASSUME task \in Tasks, SwapsAreSymmetries(T), FiniteState(state)
  PROVE  SymmetryLosesNothing
<1> DEFINE next == [x \in DOMAIN T.actions |->
                      Successor(state, T.actions[x], T.seriality, T.cap)]
           able == {x \in DOMAIN T.actions : next[x].ok}
           successors == {next[x].state : x \in able}
<1>1. SUFFICES ASSUME NEW stab \in SUBSET Stabiliser(Detect(T), state), NEW x \in able
               PROVE  \E y \in able : /\ Keep(stab, y)
                                      /\ next[y].state \in Orbit(stab, successors, next[x].state)
  BY DEF SymmetryLosesNothing
<1>2. /\ T.seriality \in Serialities /\ IsFiniteSet(DOMAIN T.actions)
      /\ \A y \in DOMAIN T.actions : IsAction(T.actions[y]) /\ IsName(y)
      /\ \A f \in Formulas : Meaningful(f)
  BY TaskIs DEF SwapsAreSymmetries
<1>3. \A sw \in stab : /\ sw \in Detect(T) /\ Fixes(sw, state) /\ IsRenaming(sw)
                       /\ \A y \in DOMAIN T.actions :
                            sw.action[y] \in DOMAIN T.actions
                              => ImageOf(sw, T.actions[y], T.actions[sw.action[y]])
  <2>1. \A sw \in stab : sw \in Detect(T) /\ Fixes(sw, state)
    BY <1>1 DEF Stabiliser
  <2>2. ASSUME NEW sw \in stab, NEW y \in DOMAIN T.actions, sw.action[y] \in DOMAIN T.actions
        PROVE  ImageOf(sw, T.actions[y], T.actions[sw.action[y]])
    <3>1. MapsAction(sw, T.actions[y], T.actions[sw.action[y]])
      BY <2>1, SwapRenames
    <3>2. T.actions[y].default = T.actions[sw.action[y]].default
      BY <2>1 DEF SwapsAreSymmetries
    <3> QED BY <1>2, <2>2, <3>1, <3>2 DEF ImageOf
  <2> QED BY <2>1, <2>2, SwapRenames
<1>4. PICK O : O = Orbit(stab, successors, next[x].state)
  OBVIOUS
<1>5. /\ next[x].state \in O
      /\ \A q \in O, sw \in stab :
           BisimContract(Rename(q, sw)) \in successors => BisimContract(Rename(q, sw)) \in O
  <2>1. IsFiniteSet(successors)
    <3>1. IsFiniteSet(able)
      BY <1>2, FS_Subset
    <3>2. [y \in able |-> next[y].state] \in Surjection(able, successors)
      <4> HIDE DEF able, next
      <4> QED BY DEF Surjection
    <3> HIDE DEF able, next, successors
    <3> QED BY <3>1, <3>2, FS_Surjection
  <2>2. next[x].state \in successors
    OBVIOUS
  <2> HIDE DEF next, able, successors
  <2> QED BY <1>4, <2>1, <2>2, OrbitIs
<1> DEFINE G == {y \in able : next[y].state \in O /\ DOMAIN y = DOMAIN x}
<1>6. ASSUME NEW sw \in stab
      PROVE  \E a, b \in Agents :
               /\ \A i \in Agents : sw.agent[i] = IF i = a THEN b ELSE IF i = b THEN a ELSE i
               /\ Interchangeable(G, a, b)
  <2>1. PICK a, b \in Agents :
          /\ \A i \in Agents : sw.agent[i] = IF i = a THEN b ELSE IF i = b THEN a ELSE i
          /\ \A y \in DOMAIN T.actions : /\ sw.action[y] = SwapTokens(y, a, b)
                                         /\ sw.action[y] \in DOMAIN T.actions
    BY <1>3, SwapRenames
  <2>2. ASSUME NEW y \in G
        PROVE  SwapTokens(y, a, b) \in G
    <3>1. PICK z \in DOMAIN T.actions : z = SwapTokens(y, a, b) /\ z = sw.action[y]
      BY <2>1
    <3>2. /\ next[z].ok
          /\ next[z].state = BisimContract(Rename(next[y].state, sw))
      <4>1. ImageOf(sw, T.actions[y], T.actions[z])
        BY <1>3, <3>1
      <4>2. Successor(state, T.actions[y], T.seriality, T.cap).ok
        OBVIOUS
      <4>3. /\ Successor(state, T.actions[z], T.seriality, T.cap).ok
            /\ Successor(state, T.actions[z], T.seriality, T.cap).state
                 = BisimContract(Rename(Successor(state, T.actions[y], T.seriality, T.cap).state, sw))
        <5> HIDE DEF G, able, next, successors
        <5> QED BY <1>2, <1>3, <4>1, <4>2, SuccessorRenamed
      <4> QED BY <4>3
    <3>3. z \in able /\ next[z].state \in successors
      BY <3>2
    <3>4. next[z].state \in O
      <4>1. next[y].state \in O
        OBVIOUS
      <4>2. BisimContract(Rename(next[y].state, sw)) \in successors
        BY <3>2, <3>3
      <4> HIDE DEF G, able, next, successors
      <4> QED BY <1>5, <3>2, <4>1, <4>2
    <3>5. DOMAIN z = DOMAIN y /\ DOMAIN y = DOMAIN x
      <4>1. IsName(y) /\ DOMAIN y = DOMAIN x
        BY <1>2
      <4>2. DOMAIN SwapTokens(y, a, b) = DOMAIN y
        <5> HIDE DEF G, able, next, successors
        <5> QED BY <4>1, SwapTokensIs
      <4> QED BY <3>1, <4>1, <4>2
    <3> QED BY <3>1, <3>3, <3>4, <3>5
  <2> HIDE DEF G
  <2> QED BY <2>1, <2>2 DEF Interchangeable
<1>7. PICK y \in G : \A z \in G : ~Before(z, y)
  <2>1. IsFiniteSet(G)
    BY <1>2, FS_Subset
  <2>2. x \in G /\ (\A y \in G : IsName(y)) /\ \A y, z \in G : DOMAIN y = DOMAIN z
    BY <1>2, <1>5
  <2> HIDE DEF G
  <2> QED BY <2>1, <2>2, FirstName
<1>8. Keep(stab, y)
  <2>1. (\A z \in G : IsName(z)) /\ \A sw \in stab : IsRenaming(sw)
    BY <1>2, <1>3
  <2> HIDE DEF G
  <2> QED BY <1>6, <1>7, <2>1, FirstNameIsKept
<1> QED BY <1>4, <1>7, <1>8

\* In every task whose swaps are symmetries, at every state a search reaches,
\* each successor it skips for symmetry is one it builds, up to exchanging
\* agents, however few of the swaps it knows (symmetry.cpp, stabiliser and keep).
THEOREM SymmetrySound ==
  ASSUME \A t \in Tasks : SwapsAreSymmetries(Task[t])
  PROVE  Spec => []SymmetryLosesNothing
<1>1. PathInv => SymmetryLosesNothing
  <2> SUFFICES ASSUME PathInv
               PROVE  SymmetryLosesNothing
    OBVIOUS
  <2>1. task \in Tasks /\ FiniteState(state)
    BY PathInvMeans DEF PathInv
  <2>2. SwapsAreSymmetries(T)
    BY <2>1 DEF T
  <2> QED BY <2>1, <2>2, PruningLosesNothing
<1> QED BY <1>1, PathInvariant, PTL

-----------------------------------------------------------------------------
\* Replaying policies

\* Contracted outcomes are named as the outcomes.
LEMMA ContractedOutcomesAre ==
  ASSUME NEW split
  PROVE  /\ DOMAIN ContractedOutcomes(split) = DOMAIN split
         /\ \A e \in DOMAIN split : ContractedOutcomes(split)[e] = BisimContract(split[e])
BY DEF ContractedOutcomes

\* The validator, which asks for consistency elsewhere and knows no limit,
\* replays a step that AO* takes to the same outcomes, all of them consistent
\* (search.cpp, ao_star's expand; validator.cpp, replay).
LEMMA StepReplays ==
  ASSUME NEW t, NEW s, FiniteState(s), t.seriality \in Serialities,
         NEW a, IsAction(a), DOMAIN Branches(s, a, t.seriality, t.cap) # {}
  PROVE  LET next == Branches(s, a, t.seriality, t.cap)
         IN  /\ Applicable(s, a)
             /\ ReplayedOutcomes(t, s, a) = next
             /\ \A e \in DOMAIN next : FiniteState(next[e]) /\ ~Contradicts(t, next[e])
<1>1. PICK m, u : m = Product(s, a) /\ u = ProductUpdate(s, a, t.seriality, t.cap)
  OBVIOUS
<1>2. Applicable(s, a)
  <2>1. DOMAIN << >> = {}
    OBVIOUS
  <2> QED BY <2>1 DEF Branches
<1>3. Branches(s, a, t.seriality, t.cap) = ContractedOutcomes(SplitOf(u, a))
  BY <1>1, <1>2 DEF Branches, ProductUpdateSplit
<1>4. u.ok
  <2>1. DOMAIN << >> = {}
    OBVIOUS
  <2> QED BY <1>3, <2>1, ContractedOutcomesAre DEF SplitOf
<1>5. SplitOf(u, a) = Outcomes(u.state, a)
  BY <1>4 DEF SplitOf
<1>6. u = Admit(m, t.seriality)
  BY <1>1, <1>4, UpdateIs
<1>7. FiniteState(m) /\ m.D # {} /\ m.W # {}
  <2>1. IsProduct(m, s, a)
    BY <1>1, ProductIsProduct
  <2>2. m.D # {}
    BY <1>1, <1>2, ProductDesignates
  <2> QED BY <2>1, <2>2 DEF IsProduct, FiniteState, IsState
<1>8. PICK Z : SameResult(Z, t.seriality, u, u)
  <2>1. PICK Z : Linked(m, m, Z)
    BY <1>7, SameLinked DEF Bisimilar
  <2> QED BY <1>6, <1>7, <2>1, AdmitAgrees
<1>9. FiniteState(u.state) /\ (t.seriality # "Ignore" => ~Collapses(u.state))
  BY <1>4, <1>8 DEF SameResult
<1>10. PICK seriality : seriality = IF t.seriality = "Require" THEN "Ignore" ELSE t.seriality
  OBVIOUS
<1>11. Admit(m, seriality) = u
  <2>1. CASE t.seriality = "Require"
    <3>1. u = IF Collapses(m) THEN Pruned("Inconsistent") ELSE Ok(m)
      BY <1>6, <1>7, <2>1, AdmitIs
    <3>2. u = Ok(m)
      BY <1>4, <3>1, OkIs
    <3> QED BY <1>7, <1>10, <2>1, <3>2, AdmitIs
  <2> QED BY <1>6, <1>10, <2>1
<1>12. ProductUpdate(s, a, seriality, Pairs(s, a)) = u
  <2>1. ~(Pairs(s, a) > Pairs(s, a))
    <3>1. Pairs(s, a) \in Nat
      <4>1. Cardinality(s.W) \in Nat /\ Len(a.events) \in Nat
        BY FS_CardinalityType DEF FiniteState, IsAction
      <4> QED BY <4>1 DEF Pairs
    <3> QED BY <3>1
  <2> QED BY <1>1, <1>11, <2>1, UpdateIs
<1>13. ReplayedOutcomes(t, s, a) = Branches(s, a, t.seriality, t.cap)
  BY <1>3, <1>10, <1>12 DEF ReplayedOutcomes, ProductUpdateSplit
<1>14. ASSUME NEW e \in DOMAIN Branches(s, a, t.seriality, t.cap)
       PROVE  LET next == Branches(s, a, t.seriality, t.cap)
              IN  FiniteState(next[e]) /\ ~Contradicts(t, next[e])
  <2>1. PICK o : o = Outcomes(u.state, a)
    OBVIOUS
  <2>2. e \in DOMAIN o /\ Branches(s, a, t.seriality, t.cap)[e] = BisimContract(o[e])
    <3>1. Branches(s, a, t.seriality, t.cap) = ContractedOutcomes(o)
      BY <1>3, <1>5, <2>1
    <3>2. DOMAIN ContractedOutcomes(o) = DOMAIN o
      BY ContractedOutcomesAre
    <3>3. e \in DOMAIN o
      BY <3>1, <3>2
    <3>4. ContractedOutcomes(o)[e] = BisimContract(o[e])
      BY <3>3, ContractedOutcomesAre
    <3> QED BY <3>1, <3>3, <3>4
  <2>3. PICK X : X = Happened(u.state, e) /\ o[e] = Designating(u.state, X)
    <3>1. o[e] = Designating(u.state, Happened(u.state, e))
      <4>1. e \in DOMAIN Outcomes(u.state, a)
        BY <2>1, <2>2
      <4> QED BY <2>1, <4>1, OutcomesAre
    <3> QED BY <3>1
  <2>4. X \in SUBSET u.state.D
    BY <2>3 DEF Happened
  <2>5. FiniteState(o[e])
    BY <1>9, <2>3, <2>4 DEF Designating, FiniteState, IsState
  <2>6. FiniteState(BisimContract(o[e])) /\ Bisimilar(o[e], BisimContract(o[e]))
    BY <2>5, ContractionIs
  <2>7. t.seriality = "Require" => ~Collapses(o[e])
    BY <1>9, <2>3, <2>4, DesignatingStaysConsistent
  <2>8. t.seriality = "Require" => ~Collapses(BisimContract(o[e]))
    BY <2>5, <2>6, <2>7, CollapsesAgrees
  <2> QED BY <2>2, <2>6, <2>8 DEF Contradicts
<1> QED BY <1>2, <1>13, <1>14

(***************************************************************************)
(* pairs relates states to policies that AO* may return for them, of any   *)
(* size: the goal holds, or every outcome of an action has a policy        *)
(* (search.cpp, ao_star's dfs and extract_plan).                           *)
(***************************************************************************)
AOStarPolicies(t, pairs) ==
  \A p \in pairs :
     \/ p[2] = Goal /\ Satisfies(p[1], t.goal)
     \/ /\ p[2] # Goal /\ p[2].action \in DOMAIN t.actions
        /\ LET next == Branches(p[1], t.actions[p[2].action], t.seriality, t.cap)
           IN  /\ DOMAIN next # {} /\ DOMAIN p[2].branches = DOMAIN next
               /\ \A e \in DOMAIN next : <<next[e], p[2].branches[e]>> \in pairs

\* Every policy that AO* may return for a state is replayed without an error from
\* there.
PoliciesSucceed ==
  \A pairs : AOStarPolicies(T, pairs) =>
     \A plan : <<state, plan>> \in pairs =>
        \E visited \in SUBSET pairs : <<state, plan>> \in visited /\ ReplaySucceeds(T, visited)

\* The pairs of finite, consistent states and their policies are such a set.
LEMMA PoliciesReplay ==
  ASSUME NEW t, t.seriality \in Serialities, \A x \in DOMAIN t.actions : IsAction(t.actions[x]),
         NEW pairs, AOStarPolicies(t, pairs)
  PROVE  ReplaySucceeds(t, {p \in pairs : FiniteState(p[1]) /\ ~Contradicts(t, p[1])})
<1> DEFINE visited == {p \in pairs : FiniteState(p[1]) /\ ~Contradicts(t, p[1])}
<1>1. SUFFICES ASSUME NEW v \in visited
               PROVE  /\ Fits(t, v[1], v[2])
                      /\ \A e \in DOMAIN v[2].branches :
                           <<ReplayedOutcomes(t, v[1], t.actions[v[2].action])[e], v[2].branches[e]>>
                             \in visited
  BY DEF ReplaySucceeds
<1>2. FiniteState(v[1]) /\ ~Contradicts(t, v[1]) /\ v \in pairs
  OBVIOUS
<1>3. PICK s, plan : s = v[1] /\ plan = v[2]
  OBVIOUS
<1>4. CASE plan = Goal
  <2>1. Satisfies(s, t.goal)
    BY <1>2, <1>3, <1>4 DEF AOStarPolicies
  <2>2. DOMAIN plan.branches = {}
    BY <1>4 DEF Goal
  <2>3. Fits(t, s, plan)
    BY <1>2, <1>3, <1>4, <2>1 DEF Fits
  <2> QED BY <1>3, <2>2, <2>3
<1>5. CASE plan # Goal
  <2>1. PICK a : a = t.actions[plan.action]
    OBVIOUS
  <2>2. PICK next : next = Branches(s, a, t.seriality, t.cap)
    OBVIOUS
  <2>3. /\ plan.action \in DOMAIN t.actions /\ DOMAIN next # {} /\ DOMAIN plan.branches = DOMAIN next
        /\ \A e \in DOMAIN next : <<next[e], plan.branches[e]>> \in pairs
    BY <1>2, <1>3, <1>5, <2>1, <2>2 DEF AOStarPolicies
  <2>4. IsAction(a) /\ FiniteState(s)
    BY <1>2, <1>3, <2>1, <2>3
  <2>5. /\ Applicable(s, a) /\ ReplayedOutcomes(t, s, a) = next
        /\ \A e \in DOMAIN next : FiniteState(next[e]) /\ ~Contradicts(t, next[e])
    BY <2>2, <2>3, <2>4, StepReplays
  <2>6. Fits(t, s, plan)
    BY <1>2, <1>3, <1>5, <2>1, <2>3, <2>5 DEF Fits
  <2>7. \A e \in DOMAIN plan.branches : <<next[e], plan.branches[e]>> \in visited
    BY <2>3, <2>5
  <2> QED BY <1>3, <2>1, <2>5, <2>6, <2>7
<1> QED BY <1>4, <1>5

(***************************************************************************)
(* Whatever policy AO* returns for a state on its path, of any size, the   *)
(* validator replays it from there without finding an error, if the task   *)
(* does not require of a contradictory initial state that it be consistent *)
(* (validator.cpp, replay).                                                *)
(***************************************************************************)
THEOREM PoliciesValidate ==
  ASSUME \A t \in Tasks : ~Contradicts(Task[t], Task[t].init)
  PROVE  Spec => []PoliciesSucceed
<1>1. PathInv => PoliciesSucceed
  <2> SUFFICES ASSUME PathInv, NEW pairs, AOStarPolicies(T, pairs),
                      NEW plan, <<state, plan>> \in pairs
               PROVE  \E visited \in SUBSET pairs :
                         <<state, plan>> \in visited /\ ReplaySucceeds(T, visited)
    BY DEF PoliciesSucceed
  <2>1. FiniteState(state) /\ task \in Tasks
    BY PathInvMeans DEF PathInv
  <2>2. ~Contradicts(T, state)
    <3>1. ~Contradicts(T, T.init)
      BY <2>1 DEF T
    <3> QED BY <3>1 DEF PathInv, BeliefsStayConsistent, Contradicts
  <2>3. T.seriality \in Serialities /\ \A x \in DOMAIN T.actions : IsAction(T.actions[x])
    BY <2>1, TaskIs
  <2> DEFINE visited == {p \in pairs : FiniteState(p[1]) /\ ~Contradicts(T, p[1])}
  <2>4. <<state, plan>> \in visited /\ visited \in SUBSET pairs
    BY <2>1, <2>2
  <2>5. ReplaySucceeds(T, visited)
    BY <2>3, PoliciesReplay
  <2> QED BY <2>4, <2>5
<1> QED BY <1>1, PathInvariant, PTL
=============================================================================
