--------------------------- MODULE MCAOStarChain ---------------------------
(***************************************************************************)
(* One task: a chain 1, 2, 3, 4, 5 in which state 1 can also sense, which  *)
(* leads to 3 or to 2.  Following the chain is a plan of four actions.     *)
(***************************************************************************)
EXTENDS AOStar

States == 1..5
Ranks == 1..4
TaskNumbers == {1}

ChainGraph(t) ==
  [init |-> 1, goal |-> {5}, dead |-> {},
   actions |-> << << <<2>>, <<3, 2>> >>, << <<3>> >>, << <<4>> >>, << <<5>> >>, <<>> >>]

NoLimit(t) == 0

HeightTable == SubSeq([s \in States |-> PolicyHeights(1, s)], 1, 5)
ChainHeights(t, s) == HeightTable[s]
=============================================================================
