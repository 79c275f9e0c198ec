------------------------------ MODULE MCHDelta ------------------------------
(***************************************************************************)
(* Small planning tasks for HDelta: two muddy children, whose answers are  *)
(* public and decided by their own attitudes; secrets told by telephone;   *)
(* the coin in a box, whose agents come to hold false beliefs; and a row   *)
(* of switches, whose goal takes more updates than the relaxation computes *)
(* layers.  Some goals cannot be reached.                                  *)
(***************************************************************************)
EXTENDS HDelta, EpistemicTasks

MCAgents == {1, 2, 3}
MCAtoms == 0 .. 4

\* Child i is muddy if atom i is true.
Somebody   == <<"Or", <<At(1), At(2)>> >>
MuddyGoal  == And(<<Kw(1, At(1)), Kw(2, At(2))>>)
CallGoal   == And(<<B(1, At(1)), Kw(3, Kw(1, At(1)))>>)
DeafGoal   == And(<<Kw(3, At(1)), Kw(3, At(2))>>)
DoubtGoal  == And(<<Kw(1, At(1)), Kw(2, At(2)), No(B(3, At(1)))>>)
CoinGoal   == And(<<B(1, At(0)), No(B(2, At(0))), Kw(3, At(0))>>)
SecretGoal == And(<<Kw(1, At(0)), B(2, No(Kw(1, At(0))))>>)
SwitchGoal == And(<<At(4), Kw(3, At(3))>>)

\* Common belief is asked about only where every agent's frame is reflexive.
Plain ==
  {Top, <<"Bot">>} \cup {At(p) : p \in MCAtoms} \cup {No(At(p)) : p \in MCAtoms}
  \cup {B(i, At(0)) : i \in MCAgents} \cup {B(i, At(1)) : i \in MCAgents} \cup {No(B(3, At(1)))} \cup {B(2, At(2))}
  \cup {Kw(i, At(0)) : i \in MCAgents} \cup {Kw(i, At(i)) : i \in {1, 2}}
  \cup {No(B(2, At(0))), No(Kw(1, At(0))), B(2, No(Kw(1, At(0)))), No(Kw(1, At(1))), No(Kw(2, At(2)))}
  \cup {Kw(3, At(1)), Kw(3, At(3)), Kw(3, At(2)), Kw(3, Kw(1, At(1))), No(B(1, At(1))), No(B(2, At(1)))}
  \cup {Somebody, MuddyGoal, DoubtGoal, CallGoal, DeafGoal, CoinGoal, SecretGoal, SwitchGoal}
MistakenGoal == And(<<Kw(1, At(1)), No(Common({1, 2}, At(0)))>>)
Shared == {Common({1, 2}, Somebody), Common({1, 3}, At(1)), Common({2, 3}, No(At(1)))}
MCFormulas == Plain \cup Shared \cup {MistakenGoal, MistakenGoal[2][2], Common({1, 2}, At(0))}

\* An announcement of f, and the answer of everybody's hearing whether f.
Announce(f) ==
  [events |-> <<Event(f)>>, designated |-> {1}, obs |-> NoCases, default |-> Identity(1)]
Answers(f) ==
  [events |-> <<Event(f), Event(No(f))>>, designated |-> {1, 2},
   obs |-> NoCases, default |-> Identity(2)]
\* Agent i tells j whether it believes atom p; agent 3 sees them call.
Report(i, j, p) ==
  [Tell(i, j, p) EXCEPT !.events = <<Event(B(i, At(p))), Event(No(B(i, At(p))))>>]
\* Agent 2 says whether atom 1 is true; agent 3 may have missed that it is not.
Mumble ==
  [events |-> <<Event(At(1)), Event(No(At(1)))>>, designated |-> {1, 2},
   obs |-> [NoCases EXCEPT ![3] = Case(Top, <<{1, 2}, {2}>>)], default |-> Identity(2)]
\* Everybody sees a switch thrown that throws the next one, if it can.
Throw ==
  [events |-> <<[pre |-> Top, del |-> << >>,
                 add |-> [p \in 1 .. 4 |-> IF p = 1 THEN Top ELSE At(p - 1)]]>>,
   designated |-> {1}, obs |-> NoCases, default |-> Identity(1)]

\* Child 1 sees atom 2, child 2 atom 1, and agent 3 neither.
Muddy(D) ==
  [W |-> 0 .. 3, D |-> D, V |-> [w \in 0 .. 3 |-> {p \in {1, 2} : w = 3 \/ w = p}],
   R |-> [i \in MCAgents |-> [w \in 0 .. 3 |->
            CASE i = 1 -> {v \in 0 .. 3 : v \div 2 = w \div 2}
              [] i = 2 -> {v \in 0 .. 3 : v % 2 = w % 2}
              [] OTHER -> 0 .. 3]]]
Blind(D) ==
  [W |-> {0, 1}, D |-> D, V |-> [w \in {0, 1} |-> IF w = 0 THEN {1, 2} ELSE {0, 1, 2}],
   R |-> [i \in MCAgents |-> [w \in {0, 1} |-> {0, 1}]]]

TaskOf(init, goal, asked, actions) ==
  [init |-> init, goal |-> goal, seriality |-> "Ignore", cap |-> 1000000,
   asked |-> asked, actions |-> actions]

MCTasks == {"muddy", "fatherless", "call", "deaf", "doubt", "coin", "secret", "switch"}

Answered == [x \in {"first", "second"} |->
               IF x = "first" THEN Answers(Kw(1, At(1))) ELSE Answers(Kw(2, At(2)))]
MuddyTask  == TaskOf(Muddy({3}), MuddyGoal, MCFormulas, Answered @@ ("father" :> Announce(Somebody)))
Fatherless == TaskOf(Muddy({3}), MuddyGoal, MCFormulas, Answered)
Calls == [x \in {"tell", "report", "no"} |->
            CASE x = "tell"   -> Tell(2, 3, 1)
              [] x = "report" -> Report(2, 1, 1)
              [] x = "no"     -> Announce(No(B(1, At(1))))]
CallTask == TaskOf(Muddy({0, 1, 3}), CallGoal, MCFormulas, Calls)
DeafTask == TaskOf(Muddy({0, 1, 3}), DeafGoal, MCFormulas, Calls)
DoubtTask == TaskOf(Muddy({1, 3}), DoubtGoal, Plain,
  [x \in {"mumble", "ask", "father"} |->
     CASE x = "mumble" -> Mumble
       [] x = "ask"    -> Answers(B(3, At(1)))
       [] x = "father" -> Announce(Somebody)])
CoinTask == [TaskOf(Blind({1}), CoinGoal, Plain,
  [x \in {"peek", "flip", "lie"} |->
     CASE x = "peek" -> Peek(1) [] x = "flip" -> Flip(2) [] x = "lie" -> Lie(3)])
  EXCEPT !.seriality = "Require"]
SecretTask == TaskOf(Blind({0, 1}), SecretGoal, Plain,
  [x \in {"peek", "open", "flip"} |->
     CASE x = "peek" -> Peek(1) [] x = "open" -> Open [] x = "flip" -> Flip(2)])
SwitchTask == TaskOf([Blind({0, 1}) EXCEPT !.V = [w \in {0, 1} |-> {w} \cap {0}]],
                     SwitchGoal, MCFormulas, "throw" :> Throw)

\* Everybody wrongly believes atom 0, and it can be told whether atom 1 holds:
\* one announcement reaches the goal.
MistakenTasks == {"mistaken"}
MistakenTask ==
  TaskOf([W |-> 0 .. 2, D |-> {0}, V |-> <<{0, 1}, {0}>> @@ (0 :> {1}),
          R |-> [i \in MCAgents |-> [w \in 0 .. 2 |-> {1, 2}]]],
         MistakenGoal, {}, "tell" :> Answers(At(1)))

MCTask == ("muddy" :> MuddyTask) @@ ("fatherless" :> Fatherless) @@ ("call" :> CallTask)
          @@ ("deaf" :> DeafTask) @@ ("doubt" :> DoubtTask) @@ ("coin" :> CoinTask)
          @@ ("secret" :> SecretTask) @@ ("switch" :> SwitchTask) @@ ("mistaken" :> MistakenTask)

\* The relaxation is made for the eight tasks, but not for the mistaken one.
ASSUME TasksInScope ==
  /\ \A t \in MCTasks : InScope(MCTask[t])
  /\ ~InScope(MCTask["mistaken"])
=============================================================================
