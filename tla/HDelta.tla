------------------------------- MODULE HDelta -------------------------------
(***************************************************************************)
(* The distinguishability relaxation (hdelta.cpp).  From a state, start,   *)
(* it computes layers of what a path of updates can make true, false, cut  *)
(* or drop, and answers with the first layer that may reach the goal, or   *)
(* with infinity: no plan and no policy exists.  Explore follows the real  *)
(* updates afterwards, and the properties compare the two.                 *)
(*                                                                         *)
(* A layer is a record over the worlds of start                            *)
(*     canT[p], canF[p]    where atom p may be true, false                 *)
(*     elim                worlds that may have no descendant              *)
(*     elimD               designated worlds that may have no designated   *)
(*                         descendant                                      *)
(*     genT[g], genF[g]    where the precondition of event g may hold, fail*)
(*     app                 actions that may be applicable                  *)
(*     types               event relations an agent may be given: <<action,*)
(*                         agent, k>>, the k-th case, 0 for the default    *)
(*     cut[i][x]           worlds y such that agent i may stop confusing x *)
(*                         with y                                          *)
(*     tv[f]               where formula f may be true (T), false (F)      *)
(* The last two are caches that the code fills on demand in each layer.    *)
(***************************************************************************)
EXTENDS TaskPath

CONSTANT MaxLayers   \* the relaxation gives up after so many layers

ASSUME MaxLayersAssumption == MaxLayers \in Nat

VARIABLES start,    \* the state the estimate is for, where the path of raw begins
          frame,    \* facts about it that updates preserve
          layers,   \* the layers computed so far, the first one of start itself
          status,   \* of the computation: running, done, or out of time
          h,        \* the estimate, infinite until one is found
          anc       \* the world of start that each world of raw descends from

estimateVars == <<task, start, frame, layers, status, h, raw, anc, depth>>

AllEvents(t) == UNION {{<<x, e>> : e \in Events(t.actions[x])} : x \in DOMAIN t.actions}
EventOf(t, g) == t.actions[g[1]].events[g[2]]
Kinds(a, i) == {0} \cup DOMAIN Cases(a, i)
Relation(a, i, k) == IF k = 0 THEN a.default ELSE Cases(a, i)[k].rel

Infinity == MaxLayers + 1

-----------------------------------------------------------------------------
(***************************************************************************)
(* Facts about frames that updates preserve                                *)
(***************************************************************************)

\* f speaks of agent i's own attitudes only, own being what its subformulas do.
OwnClause(own, f, i) ==
  CASE f[1] \in {"Top", "Bot"}   -> TRUE
    [] f[1] \in {"Belief", "Kw"} -> f[2] = i
    [] f[1] = "Not"              -> own[f[2]]
    [] f[1] \in {"And", "Or"}    -> \A c \in Range(f[2]) : own[c]
    [] OTHER                     -> FALSE
Introspective(f, i) == LET own[g \in Formulas] == OwnClause(own, g, i) IN own[f]

IsReflexiveOn(R) == \A w \in DOMAIN R : w \in R[w]
IsK45(R) == \A w \in DOMAIN R : \A v \in R[w] : R[v] = R[w]
RelationsOf(t, i) ==
  UNION {{Relation(t.actions[x], i, k) : k \in Kinds(t.actions[x], i)} : x \in DOMAIN t.actions}

\* Nothing is assumed under repair, which deletes worlds.
Reflexive(t, s) ==
  {i \in Agents : /\ t.seriality # "Repair"
                  /\ \A R \in RelationsOf(t, i) \cup {s.R[i]} : IsReflexiveOn(R)}
\* Fault: only the start is looked at.
K45AtFirst(t, s) == {i \in Agents : IsK45(s.R[i])}

K45Agents(t, s) ==
  {i \in Agents : /\ t.seriality # "Repair"
                  /\ \A R \in RelationsOf(t, i) \cup {s.R[i]} : IsK45(R)}
Public(t) ==
  /\ t.seriality # "Repair"
  /\ \A i \in Agents : \A R \in RelationsOf(t, i) : \A e \in DOMAIN R : R[e] = {e}

\* The agents whose own attitudes decide event g.
Intro(t, s) ==
  Table([g \in AllEvents(t) |->
           {i \in K45Agents(t, s) : Introspective(EventOf(t, g).pre, i)}])

Frame(t, s) == [refl |-> Reflexive(t, s), intro |-> Intro(t, s), public |-> Public(t)]

-----------------------------------------------------------------------------
(***************************************************************************)
(* What may happen in a layer                                              *)
(***************************************************************************)

\* Fault: every agent is taken to observe by default.
SeparatedByDefault(t, s, fr, L, g, i) ==
  {y \in s.W : \A f \in t.actions[g[1]].default[g[2]] : y \in L.genF[<<g[1], f>>]}

\* The worlds that agent i, by one of its possible relations, tells apart from
\* one where event g happens: none of the events it takes g for need happen
\* there.  A relation that shows i an event decided by its own attitudes tells
\* nothing apart (R2).
Separated(t, s, fr, L, g, i) ==
  LET a == t.actions[g[1]]
      kinds == { k \in Kinds(a, i) :
                   /\ <<g[1], i, k>> \in L.types
                   /\ ~(i \in fr.intro[g] /\ g[2] \in Relation(a, i, k)[g[2]]) }
  IN  UNION { {y \in s.W : \A f \in Relation(a, i, k)[g[2]] : y \in L.genF[<<g[1], f>>]}
              : k \in kinds }

\* If all events are public, one decided by agent j's attitudes cuts no edge
\* between worlds that j confuses (R4).
CutRows(t, s, fr, L) ==
  LET sep == Table([p \in AllEvents(t) \X Agents |-> Separated(t, s, fr, L, p[1], p[2])])
      happen(x) == {g \in AllEvents(t) : g[1] \in L.app /\ x \in L.genT[g]}
      spared(g, x) == IF fr.public THEN UNION {s.R[j][x] : j \in fr.intro[g]} ELSE {}
  IN  Table([i \in Agents |->
         Table([x \in s.W |-> UNION {sep[<<g, i>>] \ spared(g, x) : g \in happen(x)}])])

\* A reflexive agent never loses the edge from a world to itself (R1).
PossiblyCut(fr, cut, i, x, y) == y \in cut[i][x] /\ ~(x = y /\ i \in fr.refl)

\* Where an attitude to a formula may be true, or false, may being where the
\* formula may.  [i] may come true where every successor may be cut off, dropped
\* or satisfy the formula, and may be false where some successor may falsify it.
MayBelieve(s, fr, L, cut, i, may) ==
  {x \in s.W : /\ s.R[i][x] \subseteq L.elim \cup may \cup cut[i][x]
               /\ i \in fr.refl => x \in L.elim \cup may}
MayDoubt(s, i, may) == {x \in s.W : s.R[i][x] \cap may # {}}

\* Common belief of G may come true where every edge that surely stays leads to
\* such a world again and to one that may satisfy the formula.
MayShare(s, fr, L, cut, G, may) ==
  LET stays(i, x) == {y \in s.R[i][x] : y \notin L.elim /\ ~PossiblyCut(fr, cut, i, x, y)}
      share[X \in SUBSET s.W] ==
        LET Y == {x \in X : \A i \in G : stays(i, x) \subseteq may \cap X}
        IN  IF Y = X THEN X ELSE share[Y]
  IN  share[s.W]

\* It may be false where some path of edges, of at least one edge, leads to a
\* world that may falsify the formula.
MayNotShare(s, G, may) ==
  LET leave[Y \in SUBSET s.W] ==
        LET Z == Y \cup {x \in s.W : \E i \in G : s.R[i][x] \cap (may \cup Y) # {}}
        IN  IF Z = Y THEN Y ELSE leave[Z]
  IN  leave[{}]

TV(T0, F0) == [T |-> T0, F |-> F0]

\* Where f may be true and where it may be false, ev being where its subformulas
\* may.
MayClause(s, fr, L, cut, ev, f) ==
  CASE f[1] = "Top"    -> TV(s.W, {})
    [] f[1] = "Bot"    -> TV({}, s.W)
    [] f[1] = "Atom"   -> TV(L.canT[f[2]], L.canF[f[2]])
    [] f[1] = "Not"    -> TV(ev[f[2]].F, ev[f[2]].T)
    [] f[1] = "And"    -> TV(s.W \ UNION {s.W \ ev[c].T : c \in Range(f[2])},
                             UNION {ev[c].F : c \in Range(f[2])})
    [] f[1] = "Or"     -> TV(UNION {ev[c].T : c \in Range(f[2])},
                             s.W \ UNION {s.W \ ev[c].F : c \in Range(f[2])})
    [] f[1] = "Belief" -> TV(MayBelieve(s, fr, L, cut, f[2], ev[f[3]].T),
                             MayDoubt(s, f[2], ev[f[3]].F))
    [] f[1] = "Kw"     -> TV(MayBelieve(s, fr, L, cut, f[2], ev[f[3]].T)
                               \cup MayBelieve(s, fr, L, cut, f[2], ev[f[3]].F),
                             MayDoubt(s, f[2], ev[f[3]].F) \cap MayDoubt(s, f[2], ev[f[3]].T))
    [] f[1] = "Common" -> TV(MayShare(s, fr, L, cut, f[2], ev[f[3]].T),
                             MayNotShare(s, f[2], ev[f[3]].F))

Eval(s, fr, L, cut) ==
  LET ev[f \in Formulas] == MayClause(s, fr, L, cut, ev, f) IN Table(ev)

\* No update made.
FirstLayer(t, s) ==
  [canT |-> Table([p \in Atoms |-> {w \in s.W : p \in s.V[w]}]),
   canF |-> Table([p \in Atoms |-> {w \in s.W : p \notin s.V[w]}]),
   elim |-> {}, elimD |-> {},
   genT |-> Table([g \in AllEvents(t) |-> {}]), genF |-> Table([g \in AllEvents(t) |-> {}]),
   app |-> {}, types |-> {}]

-----------------------------------------------------------------------------
(***************************************************************************)
(* The next layer                                                          *)
(***************************************************************************)

\* With one designated event, decided by i's attitudes, applicability makes its
\* precondition true wherever a designated world's surviving edges lead (R3).
SurelySpared(t, s, fr, L, x) ==
  LET a == t.actions[x]
      es == CHOOSE e \in a.designated : TRUE
  IN  IF ~IsOntic(a) THEN {}
      ELSE {y \in s.W \ L.elim :
              \E i \in fr.intro[<<x, es>>], d \in s.D \ L.elimD :
                 y \in s.R[i][d] /\ ~PossiblyCut(fr, L.cut, i, d, y)}

\* Where the precondition of an event may have held, or failed.
MayHappen(t, L) ==
  Table([g \in AllEvents(t) |-> L.genT[g] \cup L.tv[EventOf(t, g).pre].T])
MayFail(t, L) ==
  Table([g \in AllEvents(t) |-> L.genF[g] \cup L.tv[EventOf(t, g).pre].F])

\* An action needs a designated event that happens at a designated world.
MayApply(t, s, L, genT) ==
  L.app \cup {x \in DOMAIN t.actions :
                 \E e \in t.actions[x].designated : s.D \cap genT[<<x, e>>] # {}}

\* A case needs a designated world at which its condition holds.
MayObserve(t, s, L, app) ==
  L.types \cup UNION {{<<x, i, k>> : k \in {j \in Kinds(t.actions[x], i) :
                          j = 0 \/ s.D \cap L.tv[Cases(t.actions[x], i)[j].cond].T # {}}}
                     : x \in app, i \in Agents}

\* Where an event may make atom p true, or false.
MayAdd(t, L, genT, app, p) ==
  UNION {L.tv[EventOf(t, g).add[p]].T \cap genT[g]
         : g \in {k \in AllEvents(t) : k[1] \in app /\ p \in DOMAIN EventOf(t, k).add}}
MayDelete(t, L, genT, app, p) ==
  UNION {L.tv[EventOf(t, g).del[p]].T \cap genT[g]
         : g \in {k \in AllEvents(t) : k[1] \in app /\ p \in DOMAIN EventOf(t, k).del}}

\* The worlds in which all events of action x may fail.  A designated world that
\* surely stays designated has a descendant.
MayDrop(t, s, fr, L, genF, x) ==
  {w \in s.W : \A e \in Events(t.actions[x]) : w \in genF[<<x, e>>]}
  \ (SurelySpared(t, s, fr, L, x) \cup (s.D \ L.elimD))

\* Only an outcome of an action with several can leave out a designated world.
MayLeaveOut(t, s, genF, app) ==
  UNION {s.D \cap genF[g] : g \in {k \in AllEvents(t) : /\ k[1] \in app
                                                       /\ ~IsOntic(t.actions[k[1]])
                                                       /\ k[2] \in t.actions[k[1]].designated}}

StepLayer(t, s, fr, L) ==
  LET genT  == MayHappen(t, L)
      genF  == MayFail(t, L)
      app   == MayApply(t, s, L, genT)
      elim  == L.elim \cup UNION {MayDrop(t, s, fr, L, genF, x) : x \in app}
  IN  [canT |-> Table([p \in Atoms |-> L.canT[p] \cup MayAdd(t, L, genT, app, p)]),
       canF |-> Table([p \in Atoms |-> L.canF[p] \cup MayDelete(t, L, genT, app, p)]),
       elim |-> elim,
       elimD |-> L.elimD \cup (elim \cap s.D) \cup MayLeaveOut(t, s, genF, app),
       genT |-> genT, genF |-> genF, app |-> app, types |-> MayObserve(t, s, L, app)]

\* Layer M with its caches.
Cached(s, fr, M, cut) ==
  [canT |-> M.canT, canF |-> M.canF, elim |-> M.elim, elimD |-> M.elimD,
   genT |-> M.genT, genF |-> M.genF, app |-> M.app, types |-> M.types,
   cut |-> cut, tv |-> Eval(s, fr, M, cut)]

\* Fault: no world is expected to leave the designated set.
ReachedEverywhere(s, L, f) == s.D \subseteq L.tv[f].T

\* The formula may hold at some designated world, and at every other one that
\* may not have left the designated set.
Reached(s, L, f) ==
  /\ s.D \subseteq L.tv[f].T \cup L.elimD
  /\ s.D \cap L.tv[f].T # {}

-----------------------------------------------------------------------------
(***************************************************************************)
(* h_delta_until, then the updates                                         *)
(***************************************************************************)

Layer == layers[Len(layers)]
GoalReached == Reached(start, Layer, T.goal)

\* s with worlds <<w>>: what an update makes of a world is a longer tuple.
Copy(s) ==
  LET tag(X) == {<<w>> : w \in X}
  IN  [W |-> tag(s.W), D |-> tag(s.D), V |-> Table([x \in tag(s.W) |-> s.V[x[1]]]),
       R |-> Table([i \in Agents |-> Table([x \in tag(s.W) |-> tag(s.R[i][x[1]])])])]

\* The states of search nodes: the initial one and its successors.
Starts(t) ==
  LET s0 == BisimContract(t.init)
      branches == [x \in DOMAIN t.actions |-> Branches(s0, t.actions[x], t.seriality, t.cap)]
  IN  {s0} \cup UNION {Range(branches[x]) : x \in DOMAIN t.actions}

EstimateInit ==
  /\ task \in Tasks
  /\ start \in Starts(Task[task])
  /\ frame = Frame(Task[task], start)
  /\ \E M \in {FirstLayer(Task[task], start)} :
       \E cut \in {CutRows(Task[task], start, frame, M)} : layers = <<Cached(start, frame, M, cut)>>
  /\ status = "running" /\ h = Infinity
  /\ raw = Copy(start) /\ anc = [x \in raw.W |-> x[1]] /\ depth = 0

Answer ==
  /\ status = "running" /\ GoalReached
  /\ status' = "done" /\ h' = Len(layers) - 1
  /\ UNCHANGED <<task, start, frame, layers, raw, anc, depth>>

GiveUp ==
  /\ status = "running" /\ ~GoalReached
  /\ Len(layers) - 1 >= MaxLayers
  /\ status' = "done"
  /\ UNCHANGED <<task, start, frame, layers, h, raw, anc, depth>>

\* A layer that brings nothing new ends the computation.
Step ==
  /\ status = "running" /\ ~GoalReached
  /\ Len(layers) - 1 < MaxLayers
  /\ \E M \in {StepLayer(T, start, frame, Layer)} :
       \E cut \in {CutRows(T, start, frame, M)} :
         layers' = Append(layers, Cached(start, frame, M, cut))
  /\ status' = IF layers'[Len(layers')] = Layer THEN "done" ELSE "running"
  /\ UNCHANGED <<task, start, frame, h, raw, anc, depth>>

TimeOut ==
  /\ status = "running" /\ ~GoalReached
  /\ Len(layers) - 1 < MaxLayers
  /\ status' = "timed out"
  /\ UNCHANGED <<task, start, frame, layers, h, raw, anc, depth>>

\* An update of the state, with all outcomes or with one of them.
Explore(x) ==
  LET a == T.actions[x]
      all == ProductUpdate(raw, a, T.seriality, T.cap)
      one == ProductUpdateSplit(raw, a, T.seriality, T.cap)
  IN  /\ status = "done"
      /\ depth < MaxDepth
      /\ Applicable(raw, a)
      /\ all.ok
      /\ \/ raw' = all.state
         \/ \E e \in DOMAIN one : raw' = one[e]
      /\ anc' = [w \in raw'.W |-> anc[w[1]]]
      /\ depth' = depth + 1
      /\ UNCHANGED <<task, start, frame, layers, status, h>>

EstimateNext == Answer \/ GiveUp \/ Step \/ TimeOut \/ \E x \in DOMAIN T.actions : Explore(x)

EstimateSpec == EstimateInit /\ [][EstimateNext]_estimateVars

-----------------------------------------------------------------------------
(***************************************************************************)
(* Properties                                                              *)
(***************************************************************************)

(***************************************************************************)
(* What the relaxation presumes of a task: no seriality repair, which      *)
(* deletes worlds it does not model; and, where common belief is asked     *)
(* for, an agent of the group that keeps a world in its own sight, because *)
(* a group that may be mistaken about the world it is in is not evaluated  *)
(* as the model checker does.                                              *)
(***************************************************************************)
Consulted(a) ==
  (UNION {{v.pre} \cup {v.add[p] : p \in DOMAIN v.add} \cup {v.del[p] : p \in DOMAIN v.del}
          : v \in {a.events[e] : e \in Events(a)}})
  \cup {Cases(a, c[1])[c[2]].cond : c \in UNION {{i} \X DOMAIN Cases(a, i) : i \in Agents}}
InScope(t) ==
  /\ t.seriality # "Repair" /\ t.init.D # {}
  /\ \A f \in Formulas : Meaningful(f)
  /\ t.goal \in t.asked /\ \A x \in DOMAIN t.actions : Consulted(t.actions[x]) \subseteq t.asked
  /\ \A f \in t.asked : f \in Formulas /\ Subformulas(f) \subseteq t.asked
  /\ \A s \in Starts(t), f \in t.asked : f[1] = "Common" => f[2] \cap Reflexive(t, s) # {}

EstimateTypeOK ==
  /\ IsState(start) /\ IsState(raw)
  /\ anc \in [raw.W -> start.W]
  /\ status \in {"running", "done", "timed out"}
  /\ h \in 0 .. Infinity /\ (status # "done" => h = Infinity)
  /\ Len(layers) \in 1 .. MaxLayers + 1

\* The layer that stands for states depth updates away, if there is one: past
\* the fixed point it is the last.
FixedPoint == Len(layers) > 1 /\ layers[Len(layers) - 1] = Layer
HasLayer == depth < Len(layers) \/ FixedPoint
Current == IF depth < Len(layers) THEN layers[depth + 1] ELSE Layer

\* Layer k over-approximates every state that at most k updates reach: what
\* holds at a descendant of a world may be true there, what fails may be false.
FormulasCovered ==
  HasLayer => LET sat == Sat(raw)
              IN  \A f \in T.asked : \A w \in raw.W :
                     IF w \in sat[f] THEN anc[w] \in Current.tv[f].T
                                     ELSE anc[w] \in Current.tv[f].F

\* Frame facts read off the start and the event relations hold for good.
FramesKept ==
  /\ \A i \in frame.refl : IsReflexiveOn(raw.R[i])
  /\ \A i \in K45Agents(T, start) : IsK45(raw.R[i])

\* What an update takes away is foreseen: a world without descendants may be
\* eliminated, a designated world without designated descendants may be left
\* out, and an edge that no descendant keeps may be cut, except for what the
\* frame facts promise, which hold for good.
LossesCovered ==
  /\ FramesKept
  /\ HasLayer =>
       /\ start.W \ Range(anc) \subseteq Current.elim
       /\ start.D \ {anc[w] : w \in raw.D} \subseteq Current.elimD
       /\ \A i \in Agents, w \in raw.W :
            \A y \in start.R[i][anc[w]] \ {anc[v] : v \in raw.R[i][w]} :
               y \in Current.elim \/ PossiblyCut(frame, Current.cut, i, anc[w], y)

\* The estimate is admissible, and infinity at a fixed point is a proof: no
\* number of updates reaches the goal.
GoalNotBeforeEstimate ==
  status = "done" /\ Satisfies(raw, T.goal) => depth >= h /\ ~(h = Infinity /\ FixedPoint)

=============================================================================
