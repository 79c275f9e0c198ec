------------------------------- MODULE MCEHC --------------------------------
(***************************************************************************)
(* EHC with every heuristic of three values on a family of tasks with five *)
(* states: state 1 leads to 2, perhaps also to 3, and these lead to each   *)
(* other, back, on to 4, to the goal 5 or nowhere; part of them with a     *)
(* limit.                                                                  *)
(***************************************************************************)
EXTENDS EHC, TaskFamilies

Lists(first, second) ==
  Listed(None \cup One(Ontic) \cup {<< <<x>>, <<y>> >> : x \in first, y \in second})

Starts == << << <<2>> >>, << <<2>>, <<3>> >> >>
Fourths == << <<>>, << <<1>> >>, << <<3>> >>, << <<5>> >> >>

Climb(second, third) ==
  LET p == Len(second)  q == Len(third)  n == 8 * p * q IN
    SubSeq([i \in 1..n |->
              LET k == (i - 1) \div 8 IN
                Task(<<Starts[((i - 1) % 2) + 1],
                       second[(k % p) + 1],
                       third[(k \div p) + 1],
                       Fourths[(((i - 1) \div 2) % 4) + 1],
                       <<>> >>)], 1, n)

FreeGraph == Climb(Lists({1, 3}, {4}), Lists({2, 4}, {4, 5}))
LimitedGraph == SubSeq(FreeGraph, 100, 200)

SearchTable ==
  Append(FreeGraph \o LimitedGraph,
         [Task(<< <<>>, <<>>, <<>>, <<>>, <<>> >>) EXCEPT !.init = Size])
SearchNumbers == 1..Len(SearchTable)
SearchGraph(t) == SearchTable[t]
NodeLimit(t) == IF t <= Len(FreeGraph) THEN 0 ELSE 2
=============================================================================
