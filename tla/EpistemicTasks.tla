--------------------------- MODULE EpistemicTasks ---------------------------
(***************************************************************************)
(* Building blocks of the small planning tasks on which the epistemic      *)
(* modules are model-checked: a coin in a box that agents may peek at,     *)
(* turn over and lie about, and agents who call each other.                *)
(***************************************************************************)
EXTENDS Update

\* Formulas.
Top == <<"Top">>
At(p) == <<"Atom", p>>
No(f) == <<"Not", f>>
B(i, f) == <<"Belief", i, f>>
Kw(i, f) == <<"Kw", i, f>>
And(fs) == <<"And", fs>>
Common(G, f) == <<"Common", G, f>>

\* Event relations over n events.
Identity(n) == [e \in 1 .. n |-> {e}]
Constant(n, E) == [e \in 1 .. n |-> E]

Event(pre) == [pre |-> pre, add |-> << >>, del |-> << >>]
NoCases == [i \in Agents |-> << >>]
Case(cond, rel) == <<[cond |-> cond, rel |-> rel]>>

\* Agent i looks into the box.  Agent j, if it watches (atom j - 1 of the two
\* that are not the coin), sees it peek; the others notice nothing.
Peek(i) ==
  [events |-> <<Event(At(0)), Event(No(At(0))), Event(Top)>>, designated |-> {1, 2},
   obs |-> [j \in Agents |->
              IF j = i THEN Case(Top, Identity(3))
              ELSE IF j = 3 THEN << >>
              ELSE Case(At(j), [e \in 1 .. 3 |-> IF e = 3 THEN {3} ELSE {1, 2}])],
   default |-> Constant(3, {3})]
\* Agent i turns the coin over, unseen by the others.
Flip(i) ==
  [events |-> <<[pre |-> Top, add |-> (0 :> No(At(0))), del |-> (0 :> At(0))], Event(Top)>>,
   designated |-> {1},
   obs |-> [NoCases EXCEPT ![i] = Case(Top, Identity(2))],
   default |-> Constant(2, {2})]
\* Agent i says heads although it believes tails; the others take it for true.
Lie(i) ==
  [events |-> <<Event(No(B(2, At(0)))), Event(At(0))>>, designated |-> {1},
   obs |-> [NoCases EXCEPT ![i] = Case(Top, Identity(2))],
   default |-> Constant(2, {2})]
\* The box is opened in front of everybody.
Open ==
  [events |-> <<Event(At(0)), Event(No(At(0)))>>, designated |-> {1, 2},
   obs |-> NoCases, default |-> Identity(2)]
\* Agent i tells j what it knows of atom p; the third one sees them call.
Tell(i, j, p) ==
  [events |-> <<Event(At(p)), Event(No(At(p)))>>, designated |-> {1, 2},
   obs |-> [k \in Agents |-> IF k \in {i, j} THEN Case(Top, Identity(2)) ELSE << >>],
   default |-> Constant(2, {1, 2})]
=============================================================================
