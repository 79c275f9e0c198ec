---------------------------- MODULE TaskFamilies ----------------------------
(***************************************************************************)
(* Families of small tasks on which the searches are model-checked.  A     *)
(* state is a number, the search starts in state 1 and the goal is the     *)
(* last state.  The tasks of a family are numbered.                        *)
(***************************************************************************)
EXTENDS Naturals, Sequences

CONSTANT Size     \* the number of states of a task

States == 1..Size

\* Actions by their outcomes: deterministic ones, and sensing ones with two.
Ontic == {<<x>> : x \in States}
Sensing == {<<p[1], p[2]>> : p \in {q \in States \X States : q[1] < q[2]}}

\* Sorted lists of actions, enumerated.
None == {<<>>}
One(A) == {<<a>> : a \in A}
Two(A, B) == {<<a, b>> : a \in A, b \in B}
RECURSIVE Listed(_)
Listed(S) == IF S = {} THEN <<>>
             ELSE LET x == CHOOSE x \in S : TRUE IN <<x>> \o Listed(S \ {x})

\* A state of odd number without actions is one that h^Delta reports as dead.
Task(actions) ==
  [init |-> 1, goal |-> {Size}, actions |-> actions,
   dead |-> {s \in 1..(Size - 1) : s % 2 = 1 /\ actions[s] = <<>>}]

\* The numbered tasks of four states with these lists of actions.
Family(first, second, third) ==
  LET p == Len(first)  q == Len(second)  n == p * q * Len(third) IN
    SubSeq([i \in 1..n |->
              Task(<<first[((i - 1) % p) + 1],
                     second[(((i - 1) \div p) % q) + 1],
                     third[((i - 1) \div (p * q)) + 1],
                     <<>> >>)], 1, n)

\* Sensing in every state, next to an ontic action in states 1 and 2.
MixedLists == Listed(Two(Ontic, Sensing) \cup Two(Sensing, Ontic))
WideLists == Listed(None \cup One(Ontic \cup Sensing) \cup Two(Ontic, Ontic))
ShortLists == Listed(None \cup One(Ontic \cup Sensing))
ContingentGraph == Family(MixedLists, WideLists, ShortLists)

\* No action has more than one outcome.
OnticLists == Listed(None \cup One(Ontic) \cup Two(Ontic, Ontic))
LinearGraph == Family(OnticLists, OnticLists, Listed(None \cup One(Ontic)))

AtGoalGraph == [Task(<<<<>>, <<>>, <<>>, <<>>>>) EXCEPT !.init = Size]
=============================================================================
