------------------------------- MODULE Update -------------------------------
(***************************************************************************)
(* Event models and the product update (action.cpp, product_update.cpp).   *)
(*                                                                         *)
(* An action is a record                                                   *)
(*     events      a sequence of events, each with a precondition pre and  *)
(*                 conditional effects: add and del map an atom to the     *)
(*                 formula under which it becomes true or false            *)
(*     designated  the numbers of the events that may really happen        *)
(*     obs[i]      the observability cases of agent i in order, each a     *)
(*                 condition cond and an event relation rel                *)
(*     default     the event relation of an agent no case applies to       *)
(* An event relation maps an event to the set of events it is taken for.   *)
(***************************************************************************)
EXTENDS Kripke

Events(a) == DOMAIN a.events

\* The observability cases of agent i.
Cases(a, i) == IF i \in DOMAIN a.obs THEN a.obs[i] ELSE << >>

EventRelations(a) == [Events(a) -> SUBSET Events(a)]

\* The effects of an event give formulas to atoms.
IsEffect(eff) == DOMAIN eff \subseteq Atoms /\ \A p \in DOMAIN eff : eff[p] \in Formulas
IsAction(a) ==
  /\ Len(a.events) \in Nat
  /\ Events(a) = 1 .. Len(a.events)
  /\ \A e \in Events(a) :
        LET event == a.events[e]
        IN  event.pre \in Formulas /\ IsEffect(event.add) /\ IsEffect(event.del)
  /\ a.designated \subseteq Events(a)
  /\ a.default \in EventRelations(a)
  /\ \A i \in Agents :
        /\ Len(Cases(a, i)) \in Nat
        /\ DOMAIN Cases(a, i) = 1 .. Len(Cases(a, i))
        /\ \A k \in DOMAIN Cases(a, i) :
              Cases(a, i)[k].cond \in Formulas /\ Cases(a, i)[k].rel \in EventRelations(a)

IsOntic(a) == Cardinality(a.designated) = 1

\* Every designated world meets the precondition of some designated event.
Applicable(s, a) ==
  LET sat == Sat(s)
  IN  /\ a.designated # {}
      /\ s.D # {}
      /\ s.D \subseteq UNION {sat[a.events[e].pre] : e \in a.designated}

\* Some designated world does: good enough to rank actions.
ApplicableWeak(s, a) ==
  LET sat == Sat(s)
  IN  \E e \in a.designated : s.D \cap sat[a.events[e].pre] # {}

-----------------------------------------------------------------------------
(***************************************************************************)
(* The product                                                             *)
(***************************************************************************)

\* The event relation of agent i is chosen for the whole state: the first
\* case that holds at every designated world.
EventRelation(s, a, i) ==
  LET hold == {k \in DOMAIN Cases(a, i) : Satisfies(s, Cases(a, i)[k].cond)}
  IN  IF hold = {} THEN a.default ELSE Cases(a, i)[Min(hold)].rel

Product(s, a) ==
  LET sat    == Sat(s)
      worlds == UNION { sat[a.events[e].pre] \X {e} : e \in Events(a) }
      \* The effects of event e whose condition holds at w.
      fires(eff, w) == {p \in DOMAIN eff : w \in sat[eff[p]]}
      \* One relation per agent, one successor set per source set and row.
      rel    == Table([i \in Agents |-> EventRelation(s, a, i)])
  IN  [W |-> worlds,
       V |-> Table([x \in worlds |->
                LET e == a.events[x[2]]
                IN  (s.V[x[1]] \cup fires(e.add, x[1])) \ fires(e.del, x[1])]),
       D |-> worlds \cap (s.D \X a.designated),
       R |-> Table([i \in Agents |->
                Table([x \in worlds |-> worlds \cap (s.R[i][x[1]] \X rel[i][x[2]])])])]

\* Fault: worlds whose successors were all deleted stay.
SerialSweep(s) == {w \in s.W : \A i \in Agents : s.R[i][w] # {}}

\* The largest set of worlds in which every agent keeps a successor.
SerialCore(s) ==
  LET alive[X \in SUBSET s.W] ==
        LET Y == {w \in X : \A i \in Agents : s.R[i][w] \cap X # {}}
        IN  IF Y = X THEN X ELSE alive[Y]
  IN  alive[s.W]

\* Some agent considers no world possible at a world the designated reach.
Collapses(s) == \E w \in Reachable(s), i \in Agents : s.R[i][w] = {}

Ok(s) == [ok |-> TRUE, state |-> s]
Pruned(reason) == [ok |-> FALSE, reason |-> reason]

\* What the update does under each treatment of agents left without a world:
\* Ignore keeps them, Require refuses the update, Repair deletes the worlds.
\* The designated worlds cannot run out before: the action is applicable.
Admit(m, seriality) ==
  LET core == SerialCore(m)
  IN  IF m.W = {} THEN Pruned("Inapplicable")
      ELSE CASE seriality = "Ignore"  -> Ok(m)
             [] seriality = "Require" -> IF Collapses(m) THEN Pruned("Inconsistent") ELSE Ok(m)
             [] seriality = "Repair"  -> IF m.D \cap core = {} THEN Pruned("NonSerial")
                                         ELSE Ok(RestrictState(m, core))

\* The pairs of a world and an event, which the cap limits.
Pairs(s, a) == Cardinality(s.W) * Len(a.events)

ProductUpdate(s, a, seriality, cap) ==
  IF Pairs(s, a) > cap
  THEN Pruned("WorldCapExceeded")
  ELSE Admit(Product(s, a), seriality)

\* m with other designated worlds.
Designating(m, X) == [W |-> m.W, D |-> X, V |-> m.V, R |-> m.R]

\* The outcomes of a sensing action share one product; each designates the
\* worlds in which its own event happened.  An event that happened in none of
\* them is not an outcome.
Outcomes(m, a) ==
  LET des(e) == {w \in m.D : w[2] = e}
  IN  [e \in {d \in a.designated : des(d) # {}} |-> Designating(m, des(e))]

SplitOf(full, a) == IF full.ok THEN Outcomes(full.state, a) ELSE << >>

ProductUpdateSplit(s, a, seriality, cap) == SplitOf(ProductUpdate(s, a, seriality, cap), a)

\* The successor a linear search builds: every outcome at once, contracted.
ContractedUpdate(next) == IF next.ok THEN Ok(BisimContract(next.state)) ELSE next

Successor(s, a, seriality, cap) ==
  IF Applicable(s, a) THEN ContractedUpdate(ProductUpdate(s, a, seriality, cap))
                      ELSE Pruned("Inapplicable")

ContractedOutcomes(split) == [e \in DOMAIN split |-> BisimContract(split[e])]

\* Fault: the search forgets that the task requires consistency.
BranchesLeniently(s, a, seriality, cap) ==
  IF Applicable(s, a) THEN ContractedOutcomes(ProductUpdateSplit(s, a, "Ignore", cap)) ELSE << >>

\* The successors AO* builds: one per outcome, each contracted.
Branches(s, a, seriality, cap) ==
  IF Applicable(s, a) THEN ContractedOutcomes(ProductUpdateSplit(s, a, seriality, cap)) ELSE << >>
=============================================================================
