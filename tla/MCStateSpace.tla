---------------------------- MODULE MCStateSpace ----------------------------
(***************************************************************************)
(* Small planning tasks for StateSpace: the coin under each treatment of   *)
(* contradictory beliefs, and agents who call each other to tell secrets.  *)
(***************************************************************************)
EXTENDS PlanReplay, EpistemicTasks

MCAgents == {1, 2, 3}
MCAtoms == {0, 1, 2}

CoinGoal   == And(<<B(1, At(0)), No(B(2, At(0))), No(Kw(3, At(0)))>>)
BoldGoal   == And(<<B(1, No(B(2, At(0)))), Kw(1, At(0))>>)
GossipGoal == And(<<Kw(1, At(1)), Kw(2, At(0)), Kw(3, At(0)), Kw(3, At(1))>>)
OpenGoal   == <<"Or", <<Common({1, 2, 3}, At(0)), Common({1, 2, 3}, No(At(0)))>> >>

MCFormulas ==
  {Top, <<"Bot">>} \cup {At(p) : p \in MCAtoms} \cup {No(At(p)) : p \in MCAtoms}
  \cup {B(i, At(p)) : i \in MCAgents, p \in {0}} \cup {Kw(i, At(p)) : i \in MCAgents, p \in MCAtoms}
  \cup {No(B(2, At(0))), No(Kw(3, At(0))), B(1, No(B(2, At(0))))}
  \cup {Common(MCAgents, At(0)), Common(MCAgents, No(At(0)))}
  \cup {CoinGoal, BoldGoal, GossipGoal, OpenGoal}

\* Nobody knows how the coin lies; 1 and 2 watch each other.  Two of the six
\* worlds are copies, and two cannot be reached.
Unknown ==
  [W |-> 0 .. 5, D |-> {0, 2},
   V |-> <<{1, 2}, {0, 1, 2}, {0, 1, 2}, {}, {0}>> @@ (0 :> {0, 1, 2}),
   R |-> [i \in MCAgents |-> [w \in 0 .. 5 |-> IF w < 4 THEN 0 .. 3 ELSE {w}]]]

\* Agent 1 has peeked; agent 3 does not know whether 2 noticed (world 0) or
\* not (world 1): only the second look at neighbours tells these apart.
Noticed ==
  [W |-> 0 .. 5, D |-> {0, 1},
   V |-> [w \in 0 .. 5 |-> IF w \in {3, 5} THEN {1, 2} ELSE {0, 1, 2}],
   R |-> <<[w \in 0 .. 5 |-> IF w < 4 THEN {w} ELSE {4, 5}],
           [w \in 0 .. 5 |-> IF w \in {0, 2, 3} THEN {2, 3} ELSE {4, 5}],
           [w \in 0 .. 5 |-> IF w < 2 THEN {0, 1} ELSE {2 * (w \div 2), 2 * (w \div 2) + 1}]>>]

Coin(init, seriality, goal, names) ==
  [init |-> init, goal |-> goal, seriality |-> seriality,
   cap |-> 1000000, atomNames |-> <<<<100, 1>>, <<100, 2>>>> @@ (0 :> <<101>>),
   actions |-> [x \in names |-> CASE x[1] = 200 -> Peek(x[2]) [] x[1] = 201 -> Flip(x[2])
                                  [] x[1] = 202 -> Lie(x[2]) [] OTHER -> Open]]

\* Agents 1 and 2 have a secret each, and call each other and agent 3.
Gossip ==
  [init |-> [W |-> 0 .. 3, D |-> 0 .. 3, V |-> [w \in 0 .. 3 |-> {p \in {0, 1} : w = 3 \/ w = p + 1}],
             R |-> [i \in MCAgents |-> [w \in 0 .. 3 |->
                      CASE i = 1 -> {v \in 0 .. 3 : v % 2 = w % 2}
                        [] i = 2 -> {v \in 0 .. 3 : v \div 2 = w \div 2}
                        [] OTHER -> 0 .. 3]]],
   goal |-> GossipGoal, seriality |-> "Ignore", cap |-> 1000000,
   atomNames |-> <<<<300, 2>>, <<301>>>> @@ (0 :> <<300, 1>>),
   actions |-> [x \in {<<400, 1, 2>>, <<400, 2, 1>>, <<400, 1, 3>>, <<400, 2, 3>>} |->
                  Tell(x[2], x[3], x[2] - 1)]]

MCTasks == {"ignore", "require", "repair", "gossip"}
CoinActions == {<<200, 1>>, <<200, 2>>, <<201, 1>>, <<201, 2>>, <<202, 3>>}
CoinIgnore  == Coin(Noticed, "Ignore", CoinGoal, {<<200, 1>>, <<200, 2>>, <<201, 1>>, <<201, 2>>, <<203>>})
CoinRequire == Coin(Unknown, "Require", BoldGoal, CoinActions)
CoinRepair  == Coin(Unknown, "Repair", OpenGoal, CoinActions)
MCTask == ("ignore" :> CoinIgnore) @@ ("require" :> CoinRequire)
          @@ ("repair" :> CoinRepair) @@ ("gossip" :> Gossip)

ASSUME TasksAreConsistent == \A t \in MCTasks : ~Contradicts(MCTask[t], MCTask[t].init)
ASSUME TasksAreSymmetric == \A t \in MCTasks : SwapsAreSymmetries(MCTask[t])
=============================================================================
