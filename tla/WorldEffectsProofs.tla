-------------------------- MODULE WorldEffectsProofs --------------------------
(***************************************************************************)
(* What the handlers of both rule sets do to the working state, for every  *)
(* cast of rules, schedules and goals: types, how the plans of the NPCs    *)
(* and the ends of those plans belong together, and what a handler leaves  *)
(* alone and tells of the rest.                                            *)
(***************************************************************************)
EXTENDS WorldAdvance, SequenceTheorems, WellFoundedInduction, TLAPS

EffectStatuses == Outcomes \cup {"raises"}
EffectType == [world : WorldType, status : EffectStatuses, news : Seq(FactKinds),
               derived : SUBSET StepType, interrupts : BOOLEAN]
EndKinds == {"npc_travel_arrive", "npc_wait_complete"}
Completing == "player_continuous_complete"
\* what step s of the turn does
Doing(s) == ApplyStep(work, s)

\* d is the occurrence of a rule of the story
IsRuleStep(d) == d.ref \in DOMAIN Rules /\ d = RuleStep(d.ref, d.tick)
\* d ends a plan that was begun between the states v and w
IsEndStep(d, v, w) ==
  /\ d.kind \in EndKinds /\ d.actor \in Npcs
  /\ v.plan[d.actor].gen < d.ref /\ d.ref <= w.plan[d.actor].gen
\* d is the end that plan p of actor a waits for
Ends(d, a, p) == d.kind = EndOf(p.status) /\ d.actor = a /\ d.ref = p.gen /\ d.tick = p.until
SamePlan(p, q) == p.status = q.status /\ p.gen = q.gen /\ p.until = q.until

\* An effect e on state w is typed; generations grow; what it derives are occurrences of
\* rules and ends of new plans, each with a key of its own; and a plan that is under way
\* was so before or has its end among them.
Follows(w, e) ==
  /\ e \in EffectType
  /\ \A a \in Npcs : w.plan[a].gen <= e.world.plan[a].gen
  /\ \A d \in e.derived : IsRuleStep(d) \/ IsEndStep(d, w, e.world)
  /\ \A c, d \in e.derived : Key(c) = Key(d) => c = d
  /\ \A a \in Npcs : e.world.plan[a].status \in UnderWay =>
       \/ SamePlan(e.world.plan[a], w.plan[a])
       \/ \E d \in e.derived : IsEndStep(d, w, e.world) /\ Ends(d, a, e.world.plan[a])

-----------------------------------------------------------------------------
(* States.                                                                  *)

LEMMA WorldFields ==
  ASSUME NEW w \in WorldType, NEW a \in Npcs
  PROVE  /\ w.plan[a] \in PlanType /\ w.at[a] \in Places /\ w.goal[a] \in Nat
         /\ w.plan[a].gen \in Nat /\ w.plan[a].until \in Nat /\ w.plan[a].status \in PlanStatuses
PROOF BY DEF WorldType, PlanType

LEMMA EffectParts ==
  ASSUME NEW v \in WorldType, NEW status \in EffectStatuses, NEW told \in Seq(FactKinds),
         NEW derived \in SUBSET StepType
  PROVE  /\ Effect(v, status, told, derived) \in EffectType
         /\ Effect(v, status, told, derived).world = v
         /\ Effect(v, status, told, derived).derived = derived
         /\ Effect(v, status, told, derived).news = told
         /\ Effect(v, status, told, derived).status = status
PROOF BY DEF Effect, EffectType

LEMMA StatusNames ==
  {"applied", "blocked", "cancelled", "raises"} \subseteq EffectStatuses
PROOF BY DEF EffectStatuses, Outcomes

\* An effect that leaves the plans alone.
LEMMA QuietFollows ==
  ASSUME NEW w \in WorldType, NEW v \in WorldType, v.plan = w.plan,
         NEW status \in EffectStatuses, NEW told \in Seq(FactKinds)
  PROVE  Follows(w, Effect(v, status, told, {}))
PROOF
<1>1. Effect(v, status, told, {}) \in EffectType
  BY DEF Effect, EffectType
<1>2. \A a \in Npcs : w.plan[a].gen \in Nat
  BY WorldFields
<1> QED BY <1>1, <1>2 DEF Effect, Follows, SamePlan

LEMMA Words ==
  /\ <<>> \in Seq(FactKinds)
  /\ \A s \in FactKinds : <<s>> \in Seq(FactKinds)
  /\ \A s, t \in FactKinds : <<s, t>> \in Seq(FactKinds)
  /\ \A s, t \in Seq(FactKinds) : s \o t \in Seq(FactKinds)
PROOF BY ConcatProperties

\* A plan takes another status that is not under way.
LEMMA BecomeFollows ==
  ASSUME NEW w \in WorldType, NEW a \in Npcs, NEW st \in PlanStatuses \ UnderWay,
         NEW status \in EffectStatuses, NEW told \in Seq(FactKinds)
  PROVE  /\ Become(w, a, st) \in WorldType
         /\ Become(w, a, st).plan[a].status \notin UnderWay \/ w.plan[a].status = "none"
         /\ Become(w, a, st).at = w.at
         /\ Follows(w, Effect(Become(w, a, st), status, told, {}))
PROOF
<1> DEFINE v == Become(w, a, st)
           p == [w.plan[a] EXCEPT !.status = st]
<1>1. /\ v \in WorldType /\ v.at = w.at
      /\ v.plan[a].status \notin UnderWay \/ w.plan[a].status = "none"
      /\ \A b \in Npcs : v.plan[b].gen = w.plan[b].gen /\ w.plan[b].gen \in Nat
      /\ \A b \in Npcs : v.plan[b].status \in UnderWay => SamePlan(v.plan[b], w.plan[b])
  <2>1. CASE w.plan[a].status = "none"
    BY <2>1, WorldFields DEF Become, SamePlan
  <2>2. CASE w.plan[a].status # "none"
    <3>0. w.plan[a] \in PlanType
      BY WorldFields
    <3>1. p \in PlanType /\ p.status = st /\ p.gen = w.plan[a].gen
      BY <3>0 DEF PlanType
    <3>2. w.plan \in [Npcs -> PlanType] /\ v = [w EXCEPT !.plan = [w.plan EXCEPT ![a] = p]]
      BY <2>2 DEF Become, WorldType
    <3> HIDE DEF v, p
    <3>7. [w.plan EXCEPT ![a] = p] \in [Npcs -> PlanType]
      BY <3>1, <3>2
    <3>8. v \in WorldType /\ v.at = w.at /\ v.plan = [w.plan EXCEPT ![a] = p]
      BY <3>7, <3>2 DEF WorldType
    <3>3. v.plan[a] = p /\ \A b \in Npcs : b # a => v.plan[b] = w.plan[b]
      BY <3>8, <3>2
    <3>4. \A b \in Npcs : w.plan[b].gen \in Nat
      BY WorldFields
    <3>5. v.plan[a].status \notin UnderWay /\ v.plan[a].gen = w.plan[a].gen
      BY <3>1, <3>3
    <3>6. \A b \in Npcs : b # a => SamePlan(v.plan[b], w.plan[b])
      BY <3>3 DEF SamePlan
    <3> QED BY <3>8, <3>4, <3>5, <3>6 DEF SamePlan
  <2> QED BY <2>1, <2>2
<1>4. Effect(v, status, told, {}) \in EffectType
  BY <1>1 DEF Effect, EffectType
<1>5. Follows(w, Effect(v, status, told, {}))
  BY <1>1, <1>4 DEF Effect, Follows
<1> QED BY <1>1, <1>5
-----------------------------------------------------------------------------
(* The story and the steps derived from it.                                 *)

LEMMA StoryParts ==
  /\ DOMAIN Rules \subseteq Nat /\ \A r \in DOMAIN Rules : Rules[r] \in RuleType
  /\ DOMAIN Schedules \subseteq Nat /\ \A i \in DOMAIN Schedules : Schedules[i] \in ScheduleType
  /\ DOMAIN Goals \subseteq Nat /\ \A g \in DOMAIN Goals : Goals[g] \in GoalType
PROOF BY StoryAssumption

LEMMA RuleStepType ==
  ASSUME NEW r \in DOMAIN Rules, NEW t \in Nat
  PROVE  /\ RuleStep(r, t) \in StepType
         /\ RuleStep(r, t).kind = "content_rule_fire"
         /\ RuleStep(r, t).ref = r /\ RuleStep(r, t).tick = t
         /\ IsRuleStep(RuleStep(r, t))
PROOF
<1>1. Rules[r].phase \in Phases /\ r \in Nat
  BY StoryParts DEF RuleType
<1>2. RuleStep(r, t) \in StepType
  BY <1>1 DEF RuleStep, Step, StepType, Actors, Kinds
<1> QED BY <1>2 DEF RuleStep, Step, IsRuleStep

LEMMA RuleStepKey ==
  /\ \A d : IsRuleStep(d) => d.kind = "content_rule_fire"
  /\ \A c, d : IsRuleStep(c) /\ IsRuleStep(d) /\ Key(c) = Key(d) => c = d
PROOF
<1>1. \A d : IsRuleStep(d) => d.kind = "content_rule_fire"
  BY DEF IsRuleStep, RuleStep, Step
<1>2. ASSUME NEW c, NEW d, IsRuleStep(c), IsRuleStep(d), Key(c) = Key(d) PROVE c = d
  <2>1. c.ref = d.ref /\ c.tick = d.tick
    BY <1>2 DEF Key
  <2> QED BY <1>2, <2>1 DEF IsRuleStep
<1> QED BY <1>1, <1>2

LEMMA KeyParts ==
  ASSUME NEW c, NEW d, Key(c) = Key(d)
  PROVE  c.kind = d.kind /\ c.actor = d.actor /\ c.ref = d.ref /\ c.tick = d.tick
PROOF BY DEF Key

\* Two effects in a row.
LEMMA Compose ==
  ASSUME NEW w \in WorldType, NEW e, NEW f, NEW g \in EffectType,
         Follows(w, e), Follows(e.world, f),
         g.world = f.world, g.derived = e.derived \cup f.derived
  PROVE  Follows(w, g)
PROOF
<1>1. e.world \in WorldType /\ f.world \in WorldType /\ e.derived \subseteq StepType /\ f.derived \subseteq StepType
  BY DEF Follows, EffectType
<1>2. \A a \in Npcs : w.plan[a].gen \in Nat /\ e.world.plan[a].gen \in Nat /\ f.world.plan[a].gen \in Nat
  BY <1>1, WorldFields
<1>3. \A d \in StepType : d.ref \in Nat
  BY DEF StepType
<1>4. \A a \in Npcs : w.plan[a].gen <= e.world.plan[a].gen /\ e.world.plan[a].gen <= f.world.plan[a].gen
  BY DEF Follows
<1>5. ASSUME NEW d \in e.derived, IsEndStep(d, w, e.world) PROVE IsEndStep(d, w, f.world)
  BY <1>1, <1>2, <1>3, <1>4, <1>5 DEF IsEndStep
<1>6. ASSUME NEW d \in f.derived, IsEndStep(d, e.world, f.world) PROVE IsEndStep(d, w, f.world)
  BY <1>1, <1>2, <1>3, <1>4, <1>6 DEF IsEndStep
<1>7. \A d \in g.derived : IsRuleStep(d) \/ IsEndStep(d, w, g.world)
  BY <1>5, <1>6 DEF Follows
<1>8. ASSUME NEW c \in e.derived, NEW d \in f.derived, Key(c) = Key(d) PROVE c = d
  <2>1. c.kind = d.kind /\ c.actor = d.actor /\ c.ref = d.ref
    BY <1>8, KeyParts
  <2>2. IsRuleStep(c) \/ IsEndStep(c, w, e.world)
    BY DEF Follows
  <2>3. IsRuleStep(d) \/ IsEndStep(d, e.world, f.world)
    BY DEF Follows
  <2>4. ~(IsRuleStep(c) /\ IsEndStep(d, e.world, f.world))
    BY <2>1, RuleStepKey DEF IsEndStep, EndKinds
  <2>5. ~(IsRuleStep(d) /\ IsEndStep(c, w, e.world))
    BY <2>1, RuleStepKey DEF IsEndStep, EndKinds
  <2>6. ~(IsEndStep(c, w, e.world) /\ IsEndStep(d, e.world, f.world))
    BY <2>1, <1>1, <1>2, <1>3 DEF IsEndStep
  <2> QED BY <1>8, <2>2, <2>3, <2>4, <2>5, <2>6, RuleStepKey
<1>9. \A c, d \in g.derived : Key(c) = Key(d) => c = d
  <2>1. \A c, d \in e.derived : Key(c) = Key(d) => c = d
    BY DEF Follows
  <2>2. \A c, d \in f.derived : Key(c) = Key(d) => c = d
    BY DEF Follows
  <2> QED BY <1>8, <2>1, <2>2
<1>10. ASSUME NEW a \in Npcs, g.world.plan[a].status \in UnderWay
       PROVE  \/ SamePlan(g.world.plan[a], w.plan[a])
              \/ \E d \in g.derived : IsEndStep(d, w, g.world) /\ Ends(d, a, g.world.plan[a])
  <2>1. CASE SamePlan(f.world.plan[a], e.world.plan[a])
    <3>1. \/ SamePlan(e.world.plan[a], w.plan[a])
          \/ \E d \in e.derived : IsEndStep(d, w, e.world) /\ Ends(d, a, e.world.plan[a])
      BY <1>10, <2>1 DEF Follows, SamePlan
    <3> QED BY <2>1, <3>1, <1>5 DEF SamePlan, Ends
  <2>2. CASE \E d \in f.derived : IsEndStep(d, e.world, f.world) /\ Ends(d, a, f.world.plan[a])
    BY <2>2, <1>6
  <2> QED BY <1>10, <2>1, <2>2 DEF Follows
<1> QED BY <1>2, <1>4, <1>7, <1>9, <1>10 DEF Follows
-----------------------------------------------------------------------------
(* Actions of NPCs.                                                         *)

LEMMA BeginFields ==
  ASSUME NEW w \in WorldType, NEW a \in Npcs, NEW st \in PlanStatuses,
         NEW to \in Places \cup {None}, NEW until \in Nat, NEW goal \in Nat
  PROVE  /\ Begin(w, a, st, to, until, goal) \in WorldType
         /\ Begin(w, a, st, to, until, goal).at = w.at
         /\ Begin(w, a, st, to, until, goal).plan[a].status = st
         /\ Begin(w, a, st, to, until, goal).plan[a].gen = w.plan[a].gen + 1
         /\ Begin(w, a, st, to, until, goal).plan[a].until = until
         /\ \A b \in Npcs : b # a => Begin(w, a, st, to, until, goal).plan[b] = w.plan[b]
PROOF
<1> DEFINE v == Begin(w, a, st, to, until, goal)
           p == NewPlan(w, a, st, to, until, goal)
           g == [w.goal EXCEPT ![a] = goal]
<1>1. w.at[a] \in Places /\ w.plan[a].gen \in Nat
  BY WorldFields
<1>2. p \in PlanType /\ p.status = st /\ p.gen = w.plan[a].gen + 1 /\ p.until = until
  BY <1>1 DEF NewPlan, PlanType
<1>3. g \in [Npcs -> Nat] /\ v = [w EXCEPT !.plan = [w.plan EXCEPT ![a] = p], !.goal = g]
  BY DEF Begin, WorldType
<1> HIDE DEF v, p, g
<1>4. w.plan \in [Npcs -> PlanType] /\ [w.plan EXCEPT ![a] = p] \in [Npcs -> PlanType]
  BY <1>2 DEF WorldType
<1>5. v \in WorldType /\ v.at = w.at /\ v.plan = [w.plan EXCEPT ![a] = p]
  BY <1>3, <1>4 DEF WorldType
<1>6. v.plan[a] = p /\ \A b \in Npcs : b # a => v.plan[b] = w.plan[b]
  BY <1>4, <1>5
<1> QED BY <1>2, <1>5, <1>6 DEF v

\* An actor sets out, and the end of his plan is derived.
LEMMA BeginFollows ==
  ASSUME NEW w \in WorldType, NEW a \in Npcs, NEW st \in UnderWay,
         NEW to \in Places \cup {None}, NEW until \in Nat, NEW goal \in Nat,
         NEW d \in StepType, d.kind = EndOf(st), d.actor = a,
         d.ref = w.plan[a].gen + 1, d.tick = until, NEW told \in Seq(FactKinds)
  PROVE  Follows(w, Applied(Begin(w, a, st, to, until, goal), told, {d}))
PROOF
<1> DEFINE v == Begin(w, a, st, to, until, goal)
           e == Applied(v, told, {d})
<1>1. st \in PlanStatuses /\ \A b \in Npcs : w.plan[b].gen \in Nat
  BY WorldFields DEF UnderWay, PlanStatuses
<1>2. /\ v \in WorldType /\ v.plan[a].status = st /\ v.plan[a].gen = w.plan[a].gen + 1
      /\ v.plan[a].until = until /\ \A b \in Npcs : b # a => v.plan[b] = w.plan[b]
  BY <1>1, BeginFields
<1> HIDE DEF v
<1>3. e \in EffectType /\ e.world = v /\ e.derived = {d}
  <2>1. {d} \in SUBSET StepType /\ "applied" \in EffectStatuses
    BY StatusNames
  <2> QED BY <1>2, <2>1, EffectParts DEF Applied
<1> HIDE DEF e
<1>4. d.kind \in EndKinds
  BY DEF EndOf, EndKinds
<1>5. IsEndStep(d, w, v) /\ Ends(d, a, v.plan[a])
  BY <1>1, <1>2, <1>4 DEF IsEndStep, Ends
<1>6. \A b \in Npcs : w.plan[b].gen <= v.plan[b].gen
  BY <1>1, <1>2
<1>7. \A b \in Npcs : b # a => SamePlan(v.plan[b], w.plan[b])
  BY <1>2 DEF SamePlan
<1> QED BY <1>3, <1>5, <1>6, <1>7 DEF Follows, e, v

\* The step that ends a plan.
LEMMA EndStep ==
  ASSUME NEW t \in Nat, NEW a \in Npcs, NEW kind \in Kinds, NEW ref \in Nat,
         NEW from \in Places \cup {None}, NEW to \in Places \cup {None}
  PROVE  LET d == Journey(Step(t, NpcMove, a, kind, ref), from, to, 0)
         IN  d \in StepType /\ d.kind = kind /\ d.actor = a /\ d.ref = ref /\ d.tick = t
             /\ d.phase = NpcMove
PROOF
<1>1. a \in Actors /\ NpcMove \in Phases
  BY DEF Actors, NpcMove, Phases
<1> QED BY <1>1 DEF Journey, Step, StepType

LEMMA RefusedFollows ==
  ASSUME NEW w \in WorldType, NEW told \in Seq(FactKinds)
  PROVE  Follows(w, Refused(w, told))
PROOF BY QuietFollows, StatusNames DEF Refused

LEMMA RaisesFollows ==
  ASSUME NEW w \in WorldType
  PROVE  Follows(w, Raises(w)) /\ Raises(w).status = "raises"
PROOF
<1>1. <<>> \in Seq(FactKinds) /\ "raises" \in EffectStatuses
  BY StatusNames, Words
<1> QED BY <1>1, QuietFollows DEF Raises, Effect

LEMMA CancelledFollows ==
  ASSUME NEW w \in WorldType
  PROVE  Follows(w, Cancelled(w))
PROOF
<1>1. <<>> \in Seq(FactKinds) /\ "cancelled" \in EffectStatuses
  BY StatusNames, Words
<1> QED BY <1>1, QuietFollows DEF Cancelled

LEMMA AppliedFollows ==
  ASSUME NEW w \in WorldType, NEW v \in WorldType, v.plan = w.plan, NEW told \in Seq(FactKinds)
  PROVE  Follows(w, Applied(v, told, {}))
PROOF BY QuietFollows, StatusNames DEF Applied

LEMMA StartMoveFollows ==
  ASSUME NEW w \in WorldType, NEW s \in StepType, NEW a \in Npcs, NEW to,
         NEW ticks \in Nat, NEW goal \in Nat
  PROVE  Follows(w, StartMove(w, s, a, to, ticks, goal))
PROOF
<1>1. CASE to \notin Places \/ w.plan[a].status \in UnderWay
  <2>1. StartMove(w, s, a, to, ticks, goal) = Refused(w, <<>>)
    BY <1>1 DEF StartMove
  <2> QED BY <2>1, RefusedFollows, Words
<1>2. CASE to \in Places /\ w.plan[a].status \notin UnderWay /\ ~IsOpen(w, w.at[a], to)
  <2> DEFINE told == <<"npc_travel_failed">>
                       \o (IF w.plan[a].status = "none" THEN <<>> ELSE <<"plan_failed">>)
  <2>1. StartMove(w, s, a, to, ticks, goal)
          = Effect(Become(w, a, "failed"), "blocked", told, {})
    BY <1>2 DEF StartMove, TravelFailure, Refused
  <2>2. "failed" \in PlanStatuses \ UnderWay /\ "blocked" \in EffectStatuses
    BY StatusNames DEF PlanStatuses, UnderWay
  <2>3. told \in Seq(FactKinds)
    <3>1. "npc_travel_failed" \in FactKinds /\ "plan_failed" \in FactKinds
      BY DEF FactKinds
    <3>2. <<"npc_travel_failed">> \in Seq(FactKinds) /\ <<"plan_failed">> \in Seq(FactKinds)
      BY <3>1
    <3> QED BY <3>2, Words
  <2> HIDE DEF told
  <2> QED BY <2>1, <2>2, <2>3, BecomeFollows
<1>3. CASE to \in Places /\ w.plan[a].status \notin UnderWay /\ IsOpen(w, w.at[a], to)
  <2> DEFINE until == s.tick + ticks
             gen == w.plan[a].gen + 1
             d == Journey(Step(until, NpcMove, a, "npc_travel_arrive", gen),
                          w.at[a], to, 0)
  <2>1. s.tick \in Nat /\ w.plan[a].gen \in Nat /\ w.at[a] \in Places
    BY WorldFields DEF StepType
  <2>2. until \in Nat /\ gen \in Nat /\ "npc_travel_arrive" \in Kinds
    BY <2>1 DEF Kinds
  <2>4. StartMove(w, s, a, to, ticks, goal)
          = Applied(Begin(w, a, "traveling", to, until, goal), <<"npc_travel_started">>, {d})
    BY <1>3 DEF StartMove
  <2>8. gen = w.plan[a].gen + 1
    OBVIOUS
  <2> HIDE DEF until, gen
  <2>3. d \in StepType /\ d.kind = "npc_travel_arrive" /\ d.actor = a /\ d.ref = gen /\ d.tick = until
    BY <1>3, <2>1, <2>2, EndStep
  <2>5. <<"npc_travel_started">> \in Seq(FactKinds) /\ "traveling" \in UnderWay
    <3>1. "npc_travel_started" \in FactKinds
      BY DEF FactKinds
    <3> QED BY <3>1 DEF UnderWay
  <2>6. d.kind = EndOf("traveling")
    BY <2>3 DEF EndOf
  <2> HIDE DEF d
  <2>7. Follows(w, Applied(Begin(w, a, "traveling", to, until, goal), <<"npc_travel_started">>, {d}))
    BY <1>3, <2>2, <2>3, <2>5, <2>6, <2>8, BeginFollows
  <2> QED BY <2>4, <2>7
<1> QED BY <1>1, <1>2, <1>3

LEMMA StartWaitFollows ==
  ASSUME NEW w \in WorldType, NEW s \in StepType, NEW a \in Npcs, NEW to \in Places \cup {None},
         NEW ticks \in Nat, NEW goal \in Nat
  PROVE  Follows(w, StartWait(w, s, a, to, ticks, goal))
PROOF
<1>1. CASE w.plan[a].status \in UnderWay
  <2>1. StartWait(w, s, a, to, ticks, goal) = Refused(w, <<>>)
    BY <1>1 DEF StartWait
  <2> QED BY <2>1, RefusedFollows, Words
<1>2. CASE w.plan[a].status \notin UnderWay
  <2> DEFINE until == s.tick + ticks
             gen == w.plan[a].gen + 1
             d == Journey(Step(until, NpcMove, a, "npc_wait_complete", gen),
                          w.at[a], None, 0)
  <2>1. s.tick \in Nat /\ w.plan[a].gen \in Nat /\ w.at[a] \in Places
    BY WorldFields DEF StepType
  <2>2. until \in Nat /\ gen \in Nat /\ "npc_wait_complete" \in Kinds
    BY <2>1 DEF Kinds
  <2>4. StartWait(w, s, a, to, ticks, goal)
          = Applied(Begin(w, a, "waiting", to, until, goal), <<"npc_wait_started">>, {d})
    BY <1>2 DEF StartWait
  <2>8. gen = w.plan[a].gen + 1
    OBVIOUS
  <2> HIDE DEF until, gen
  <2>3. d \in StepType /\ d.kind = "npc_wait_complete" /\ d.actor = a /\ d.ref = gen /\ d.tick = until
    BY <2>1, <2>2, EndStep
  <2>5. <<"npc_wait_started">> \in Seq(FactKinds) /\ "waiting" \in UnderWay
    <3>1. "npc_wait_started" \in FactKinds
      BY DEF FactKinds
    <3> QED BY <3>1 DEF UnderWay
  <2>6. d.kind = EndOf("waiting")
    BY <2>3 DEF EndOf
  <2> HIDE DEF d
  <2>7. Follows(w, Applied(Begin(w, a, "waiting", to, until, goal), <<"npc_wait_started">>, {d}))
    BY <2>2, <2>3, <2>5, <2>6, <2>8, BeginFollows
  <2> QED BY <2>4, <2>7
<1> QED BY <1>1, <1>2
\* An effect on a state that has changed quietly before.
LEMMA After ==
  ASSUME NEW w \in WorldType, NEW v \in WorldType, NEW f,
         Follows(w, Applied(v, <<>>, {})), Follows(v, f)
  PROVE  Follows(w, f)
PROOF
<1> DEFINE e == Applied(v, <<>>, {})
<1>1. e.world = v /\ e.derived = {}
  BY DEF Applied, Effect
<1>2. f \in EffectType
  BY DEF Follows
<1>3. f.derived = e.derived \cup f.derived
  BY <1>1
<1> HIDE DEF e
<1>4. Follows(w, e)
  BY DEF e
<1> QED BY <1>1, <1>2, <1>3, <1>4, Compose

LEMMA TransferFollows ==
  ASSUME NEW w \in WorldType, NEW s, NEW to \in Owners
  PROVE  Follows(w, Transfer(w, s, to))
PROOF
<1>1. CASE CanTransfer(w, s, to)
  <2> DEFINE v == [w EXCEPT !.owner = to]
  <2>1. v \in WorldType /\ v.plan = w.plan
    BY DEF WorldType
  <2>2. <<"item_acquired">> \in Seq(FactKinds)
    <3>1. "item_acquired" \in FactKinds
      BY DEF FactKinds
    <3> QED BY <3>1
  <2>3. Transfer(w, s, to) = Applied(v, <<"item_acquired">>, {})
    BY <1>1 DEF Transfer
  <2> HIDE DEF v
  <2> QED BY <2>1, <2>2, <2>3, AppliedFollows
<1>2. CASE ~CanTransfer(w, s, to)
  <2>1. "item_take_failed" \in FactKinds
    BY DEF FactKinds
  <2>2. <<"item_take_failed">> \in Seq(FactKinds)
    BY <2>1
  <2>3. Transfer(w, s, to) = Refused(w, <<"item_take_failed">>)
    BY <1>2 DEF Transfer
  <2> QED BY <2>2, <2>3, RefusedFollows
<1> QED BY <1>1, <1>2

LEMMA MarkFields ==
  ASSUME NEW w \in WorldType, NEW m \in Marks
  PROVE  Mark(w, m) \in WorldType /\ Mark(w, m).plan = w.plan
PROOF BY DEF Mark, WorldType

LEMMA UseItemFollows ==
  ASSUME NEW w \in WorldType, NEW a \in Npcs \cup {"player"}
  PROVE  Follows(w, UseItem(w, a))
PROOF
<1>1. CASE w.owner = a /\ Used(a) \notin w.fired
  <2>1. Used(a) \in Marks
    BY DEF Used, Marks, Actors
  <2>2. Mark(w, Used(a)) \in WorldType /\ Mark(w, Used(a)).plan = w.plan
    BY <2>1, MarkFields
  <2>3. <<"item_used">> \in Seq(FactKinds)
    <3>1. "item_used" \in FactKinds
      BY DEF FactKinds
    <3> QED BY <3>1
  <2>4. UseItem(w, a) = Applied(Mark(w, Used(a)), <<"item_used">>, {})
    BY <1>1 DEF UseItem
  <2> QED BY <2>2, <2>3, <2>4, AppliedFollows
<1>2. CASE ~(w.owner = a /\ Used(a) \notin w.fired)
  <2>1. "item_use_failed" \in FactKinds
    BY DEF FactKinds
  <2>2. <<"item_use_failed">> \in Seq(FactKinds)
    BY <2>1
  <2>3. UseItem(w, a) = Refused(w, <<"item_use_failed">>)
    BY <1>2 DEF UseItem
  <2> QED BY <2>2, <2>3, RefusedFollows
<1> QED BY <1>1, <1>2

LEMMA StartItemFollows ==
  ASSUME NEW w \in WorldType, NEW s \in StepType, NEW a \in Npcs, NEW action, NEW goal \in Nat
  PROVE  Follows(w, StartItem(w, s, a, action, goal))
PROOF
<1> DEFINE v == Begin(w, a, "active", None, s.tick, goal)
           e == Applied(v, <<>>, {})
<1>1. s.tick \in Nat /\ "active" \in PlanStatuses /\ "active" \notin UnderWay
  BY DEF StepType, PlanStatuses, UnderWay
<1>2. /\ v \in WorldType /\ v.plan[a].status = "active" /\ v.plan[a].gen = w.plan[a].gen + 1
      /\ \A b \in Npcs : b # a => v.plan[b] = w.plan[b]
  BY <1>1, BeginFields
<1>3. <<>> \in Seq(FactKinds) /\ {} \in SUBSET StepType /\ "applied" \in EffectStatuses
  BY Words, StatusNames
<1>4. StartItem(w, s, a, action, goal)
        = CASE action = "take" -> Transfer(v, s, a)
            [] action = "use" -> UseItem(v, a)
            [] OTHER -> Transfer(v, s, w.at[a])
  BY DEF StartItem
<1> HIDE DEF v
<1>5. e \in EffectType /\ e.world = v /\ e.derived = {}
  BY <1>2, <1>3 DEF Applied, Effect, EffectType
<1> HIDE DEF e
<1>6. \A b \in Npcs : w.plan[b].gen \in Nat
  BY WorldFields
<1>7. Follows(w, e)
  BY <1>1, <1>2, <1>5, <1>6 DEF Follows, SamePlan
<1>8. a \in Owners /\ w.at[a] \in Owners
  BY WorldFields DEF Owners
<1>9. Follows(v, StartItem(w, s, a, action, goal))
  BY <1>2, <1>4, <1>8, TransferFollows, UseItemFollows
<1> QED BY <1>2, <1>7, <1>9, After DEF e

LEMMA TravelTicksType ==
  ASSUME NEW w, NEW a, NEW to
  PROVE  TravelTicks(w, a, to) \in Nat
PROOF BY StoryAssumption DEF TravelTicks

LEMMA StartActionFollows ==
  ASSUME NEW w \in WorldType, NEW s \in StepType, NEW a \in Npcs, NEW action,
         NEW to \in Places \cup {None}, NEW ticks \in Nat, NEW goal \in Nat
  PROVE  Follows(w, StartAction(w, s, a, action, to, ticks, goal))
PROOF
<1>1. CASE action = "move"
  <2> DEFINE n == IF ticks = 0 THEN TravelTicks(w, a, to) ELSE ticks
  <2>1. n \in Nat
    BY TravelTicksType
  <2>2. StartAction(w, s, a, action, to, ticks, goal) = StartMove(w, s, a, to, n, goal)
    BY <1>1 DEF StartAction
  <2> HIDE DEF n
  <2> QED BY <2>1, <2>2, StartMoveFollows
<1>2. CASE action = "wait"
  <2>1. StartAction(w, s, a, action, to, ticks, goal) = StartWait(w, s, a, to, ticks, goal)
    BY <1>2 DEF StartAction
  <2> QED BY <2>1, StartWaitFollows
<1>3. CASE action # "move" /\ action # "wait"
  <2>1. StartAction(w, s, a, action, to, ticks, goal) = StartItem(w, s, a, action, goal)
    BY <1>3 DEF StartAction
  <2> QED BY <2>1, StartItemFollows
<1> QED BY <1>1, <1>2, <1>3
-----------------------------------------------------------------------------
(* The choice of a plan.                                                    *)

\* A set of numbers that is not empty has a smallest one.
LEMMA Smallest ==
  ASSUME NEW S \in SUBSET Nat, S # {}
  PROVE  \E m \in S : \A n \in S : m <= n
PROOF
<1>1. PICK m \in S : \A n \in S : <<n, m>> \notin OpToRel(<, Nat)
  BY NatLessThanWellFounded, WFMin
<1>2. \A n \in S : ~(n < m)
  BY <1>1 DEF OpToRel
<1> QED BY <1>2

LEMMA FirstOfType ==
  ASSUME NEW S \in SUBSET DOMAIN Schedules, S # {}
  PROVE  FirstOf(S) \in DOMAIN Schedules
PROOF
<1>1. S \in SUBSET Nat
  BY StoryParts
<1>2. \E i \in S : \A j \in S : i <= j
  BY <1>1, Smallest
<1> QED BY <1>2 DEF FirstOf

LEMMA BestType ==
  ASSUME NEW S \in SUBSET DOMAIN Goals, S # {}
  PROVE  Best(S) \in DOMAIN Goals
PROOF
<1> DEFINE Better(g, h) == \/ Goals[g].priority > Goals[h].priority
                           \/ Goals[g].priority = Goals[h].priority /\ g <= h
           Upto(n) == {g \in S : g <= n}
           HasBest(n) == \E g \in Upto(n) : \A h \in Upto(n) : Better(g, h)
           Bad == {n \in Nat : Upto(n) # {} /\ ~HasBest(n)}
<1>1. \A g \in S : g \in Nat \ {0} /\ Goals[g].priority \in Nat
  <2>1. DOMAIN Goals = 1..Len(Goals) /\ Len(Goals) \in Nat
    BY StoryAssumption
  <2>2. \A g \in DOMAIN Goals : Goals[g] \in GoalType
    BY StoryParts
  <2>3. \A goal \in GoalType : goal.priority \in Nat
    BY DEF GoalType
  <2> QED BY <2>1, <2>2, <2>3
<1>2. Bad = {}
  <2>1. SUFFICES ASSUME Bad # {} PROVE FALSE
    OBVIOUS
  <2>2. PICK m \in Bad : \A n \in Bad : m <= n
    BY <2>1, Smallest
  <2>3. m \in Nat /\ Upto(m) # {} /\ ~HasBest(m)
    OBVIOUS
  <2>4. m # 0
    BY <1>1, <2>3
  <2>5. m - 1 \in Nat /\ m - 1 \notin Bad
    BY <2>2, <2>3, <2>4
  <2>6. m \in S
    <3>1. SUFFICES ASSUME m \notin S PROVE FALSE
      OBVIOUS
    <3>2. Upto(m) = Upto(m - 1)
      BY <1>1, <2>3, <3>1
    <3> QED BY <2>3, <2>5, <3>2
  <2>7. Upto(m) = Upto(m - 1) \cup {m}
    BY <1>1, <2>3, <2>6
  <2>8. CASE Upto(m - 1) = {}
    BY <1>1, <2>3, <2>6, <2>7, <2>8
  <2>9. CASE Upto(m - 1) # {}
    <3>1. PICK b \in Upto(m - 1) : \A h \in Upto(m - 1) : Better(b, h)
      BY <2>5, <2>9
    <3>2. b \in S /\ b <= m
      BY <1>1, <2>3
    <3>3. CASE Better(b, m)
      BY <2>3, <2>7, <3>1, <3>3
    <3>4. CASE ~Better(b, m)
      <4>1. Goals[m].priority > Goals[b].priority
        BY <1>1, <2>6, <3>2, <3>4
      <4>2. \A h \in Upto(m - 1) : Better(m, h)
        BY <1>1, <2>6, <3>1, <3>2, <4>1
      <4>3. Better(m, m)
        BY <2>3
      <4> QED BY <2>3, <2>7, <4>2, <4>3
    <3> QED BY <3>3, <3>4
  <2> QED BY <2>8, <2>9
<1>3. Len(Goals) \in Nat /\ Upto(Len(Goals)) = S
  BY <1>1, StoryAssumption
<1>4. \E g \in S : \A h \in S : Better(g, h)
  BY <1>2, <1>3
<1> QED BY <1>4 DEF Best
\* What matters to a plan is the same in two states, in two effects.
LEMMA SamePlansFollow ==
  ASSUME NEW w \in WorldType, NEW v \in WorldType, v.plan = w.plan, NEW e, Follows(v, e)
  PROVE  Follows(w, e)
PROOF
<1>1. \A d, u : IsEndStep(d, v, u) <=> IsEndStep(d, w, u)
  BY DEF IsEndStep
<1> QED BY <1>1 DEF Follows

LEMMA SameEffectFollows ==
  ASSUME NEW w \in WorldType, NEW e, Follows(w, e), NEW g \in EffectType,
         g.world = e.world, g.derived = e.derived
  PROVE  Follows(w, g)
PROOF BY DEF Follows

LEMMA ToldFollows ==
  ASSUME NEW w \in WorldType, NEW e, Follows(w, e)
  PROVE  Follows(w, Told(e))
PROOF
<1>1. e.world \in WorldType /\ e.derived \in SUBSET StepType /\ e.news \in Seq(FactKinds)
  BY DEF Follows, EffectType
<1>2. "plan_selected" \in FactKinds
  BY DEF FactKinds
<1>3. <<"plan_selected">> \in Seq(FactKinds)
  BY <1>2
<1>4. <<"plan_selected">> \o e.news \in Seq(FactKinds)
  BY <1>1, <1>3, Words
<1> DEFINE told == <<"plan_selected">> \o e.news
<1>5. Told(e) = Effect(e.world, "applied", told, e.derived) /\ told \in Seq(FactKinds)
  BY <1>4 DEF Told, Applied
<1> HIDE DEF told
<1>6. Told(e) \in EffectType /\ Told(e).world = e.world /\ Told(e).derived = e.derived
  BY <1>1, <1>5, EffectParts, StatusNames
<1> QED BY <1>6, SameEffectFollows

LEMMA GoalFields ==
  ASSUME NEW w \in WorldType, NEW a \in Npcs, NEW g \in Nat
  PROVE  [w EXCEPT !.goal[a] = g] \in WorldType /\ [w EXCEPT !.goal[a] = g].plan = w.plan
PROOF BY DEF WorldType

LEMMA PursueFollows ==
  ASSUME NEW w \in WorldType, NEW s \in StepType, NEW a \in Npcs, NEW g \in DOMAIN Goals
  PROVE  Follows(w, Pursue(w, s, a, g))
PROOF
<1> DEFINE v == [w EXCEPT !.goal[a] = g]
           ticks == IF Goals[g].ticks # 0 THEN Goals[g].ticks
                    ELSE IF Goals[g].action = "move" THEN TravelTicks(w, a, Goals[g].to) ELSE 1
           e == StartAction(v, s, a, Goals[g].action, Goals[g].to, ticks, g)
<1>1. g \in Nat /\ Goals[g].ticks \in Nat /\ Goals[g].to \in Places \cup {None}
  BY StoryParts DEF GoalType
<1>2. v \in WorldType /\ v.plan = w.plan
  BY <1>1, GoalFields
<1>3. ticks \in Nat
  BY <1>1, TravelTicksType
<1>4. Pursue(w, s, a, g) = Told(e)
  BY DEF Pursue
<1> HIDE DEF v, ticks
<1>5. Follows(v, e)
  BY <1>1, <1>2, <1>3, StartActionFollows
<1> HIDE DEF e
<1>6. Follows(w, e)
  BY <1>2, <1>5, SamePlansFollow
<1> QED BY <1>4, <1>6, ToldFollows

LEMMA FollowScheduleFollows ==
  ASSUME NEW w \in WorldType, NEW s \in StepType, NEW a \in Npcs, NEW i \in DOMAIN Schedules
  PROVE  Follows(w, FollowSchedule(w, s, a, i))
PROOF
<1> DEFINE v == [w EXCEPT !.goal[a] = 0]
           place == Schedules[i].place
           window == Schedules[i].window
           ticks == TravelTicks(w, a, place)
           e == IF w.at[a] = place THEN StartWait(v, s, a, None, window, 0)
                ELSE StartMove(v, s, a, place, ticks, 0)
<1>1. window \in Nat
  BY StoryParts DEF ScheduleType
<1>2. v \in WorldType /\ v.plan = w.plan
  BY GoalFields
<1>3. ticks \in Nat
  BY TravelTicksType
<1>4. FollowSchedule(w, s, a, i) = Told(e)
  BY DEF FollowSchedule
<1> HIDE DEF v, place, window, ticks
<1>5. Follows(v, StartWait(v, s, a, None, window, 0))
  BY <1>1, <1>2, StartWaitFollows
<1>6. Follows(v, StartMove(v, s, a, place, ticks, 0))
  BY <1>2, <1>3, StartMoveFollows
<1>7. Follows(v, e)
  BY <1>5, <1>6
<1> HIDE DEF e
<1>8. Follows(w, e)
  BY <1>2, <1>7, SamePlansFollow
<1> QED BY <1>4, <1>8, ToldFollows

LEMMA DecideFollows ==
  ASSUME NEW w \in WorldType, NEW s \in StepType, NEW a \in Npcs, NEW goals \in SUBSET DOMAIN Goals
  PROVE  Follows(w, Decide(w, s, a, goals))
PROOF
<1> DEFINE candidates == Candidates(w, a, goals)
           hours == OpenSchedules(a, s.tick)
           reached == w.goal[a] \in DOMAIN Goals /\ AllHold(w, Goals[w.goal[a]].done)
           achieved == Effect(Become(w, a, "achieved"), "applied",
                              IF w.plan[a].status = "achieved" THEN <<>> ELSE <<"plan_achieved">>, {})
           blocked == Effect(Become(w, a, "blocked"), "applied", <<"plan_blocked">>, {})
<1>1. /\ "achieved" \in PlanStatuses \ UnderWay /\ "blocked" \in PlanStatuses \ UnderWay
      /\ "applied" \in EffectStatuses
  BY StatusNames DEF PlanStatuses, UnderWay
<1>2. "plan_achieved" \in FactKinds /\ "plan_blocked" \in FactKinds
  BY DEF FactKinds
<1>3. <<"plan_achieved">> \in Seq(FactKinds) /\ <<"plan_blocked">> \in Seq(FactKinds)
  BY <1>2
<1>4. (IF w.plan[a].status = "achieved" THEN <<>> ELSE <<"plan_achieved">>) \in Seq(FactKinds)
  BY <1>3, Words
<1>5. Follows(w, achieved)
  BY <1>1, <1>4, BecomeFollows
<1>6. Follows(w, blocked)
  BY <1>1, <1>3, BecomeFollows
<1>7. candidates \in SUBSET DOMAIN Goals /\ hours \in SUBSET DOMAIN Schedules
  BY DEF Candidates, OpenSchedules
<1>8. Decide(w, s, a, goals)
        = IF reached THEN achieved
          ELSE IF candidates # {} THEN Pursue(w, s, a, Best(candidates))
          ELSE IF hours # {} /\ CanFollow(w, a, FirstOf(hours))
            THEN FollowSchedule(w, s, a, FirstOf(hours))
          ELSE blocked
  BY DEF Decide, Applied
<1> HIDE DEF candidates, hours, reached, achieved, blocked
<1>9. candidates # {} => Follows(w, Pursue(w, s, a, Best(candidates)))
  BY <1>7, BestType, PursueFollows
<1>10. hours # {} => Follows(w, FollowSchedule(w, s, a, FirstOf(hours)))
  BY <1>7, FirstOfType, FollowScheduleFollows
<1> QED BY <1>5, <1>6, <1>8, <1>9, <1>10

LEMMA KeyType ==
  ASSUME NEW s \in StepType
  PROVE  Key(s) \in Kinds \X Actors \X Nat \X Nat
PROOF BY DEF Key, StepType

LEMMA ReevaluateFollows ==
  ASSUME NEW w \in WorldType, NEW s \in StepType, NEW a \in Npcs, NEW goals \in SUBSET DOMAIN Goals
  PROVE  Follows(w, Reevaluate(w, s, a, goals))
PROOF
<1>1. Counted(w, s, a) \in WorldType /\ Counted(w, s, a).plan = w.plan
  BY KeyType DEF Counted, WorldType
<1>2. Follows(Counted(w, s, a), Decide(Counted(w, s, a), s, a, goals))
  BY <1>1, DecideFollows
<1>3. Follows(w, Decide(Counted(w, s, a), s, a, goals))
  BY <1>1, <1>2, SamePlansFollow
<1>4. Follows(w, Raises(w))
  BY RaisesFollows
<1> QED BY <1>3, <1>4 DEF Reevaluate
-----------------------------------------------------------------------------
(* Rules.                                                                   *)

\* what the compiler accepts of an effect
Accepted(e) ==
  /\ e \in Effects
  /\ e.type = "plan" => e.goal \in DOMAIN Goals
  /\ e.type = "schedule" => e.rule \in DOMAIN Rules

LEMMA EffectFields ==
  ASSUME NEW e \in Effects
  PROVE  /\ e.type = "flag" => e.flag \in Flags
         /\ e.type = "action" => e.actor \in Npcs /\ e.to \in Places \cup {None} /\ e.ticks \in Nat
         /\ e.type = "plan" => e.actor \in Npcs /\ e.goal \in Nat
         /\ e.type = "transfer" => e.to \in Owners
         /\ e.type = "use" => e.actor \in Npcs \cup {"player"}
         /\ e.type \notin {"flag", "route", "action", "plan", "transfer", "use", "interrupt", "emit"}
              => e.at \in Nat
PROOF BY DEF Effects

LEMMA RuleParts ==
  ASSUME NEW r \in DOMAIN Rules
  PROVE  /\ Rules[r].do \in Seq(Effects) /\ Len(Rules[r].do) <= MaxEffects
         /\ \A i \in 1..Len(Rules[r].do) : Accepted(Rules[r].do[i])
PROOF
<1>1. Rules[r].do \in Seq(Effects)
  BY StoryParts DEF RuleType
<1>2. DOMAIN Rules[r].do = 1..Len(Rules[r].do) /\ \A i \in DOMAIN Rules[r].do : Rules[r].do[i] \in Effects
  BY <1>1
<1>3. /\ Len(Rules[r].do) <= MaxEffects
      /\ \A i \in DOMAIN Rules[r].do :
           /\ Rules[r].do[i].type = "plan" => Rules[r].do[i].goal \in DOMAIN Goals
           /\ Rules[r].do[i].type = "schedule" => Rules[r].do[i].rule \in DOMAIN Rules
  BY StoryAssumption
<1> QED BY <1>1, <1>2, <1>3 DEF Accepted

LEMMA SetFlagFollows ==
  ASSUME NEW w \in WorldType, NEW e, e.flag \in Flags
  PROVE  Follows(w, SetFlag(w, e))
PROOF
<1> DEFINE v == [w EXCEPT !.flags = IF e.yes THEN @ \cup {e.flag} ELSE @ \ {e.flag}]
<1>1. v \in WorldType /\ v.plan = w.plan
  BY DEF WorldType
<1>2. "flag_changed" \in FactKinds
  BY DEF FactKinds
<1>3. <<"flag_changed">> \in Seq(FactKinds)
  BY <1>2
<1>4. SetFlag(w, e) = Applied(v, <<"flag_changed">>, {})
  BY DEF SetFlag
<1> HIDE DEF v
<1> QED BY <1>1, <1>3, <1>4, AppliedFollows

LEMMA SetRouteFollows ==
  ASSUME NEW w \in WorldType, NEW e
  PROVE  Follows(w, SetRoute(w, e))
PROOF
<1> DEFINE route == <<e.from, e.to>>
           v == [w EXCEPT !.open = IF e.yes THEN @ \cup {route} ELSE @ \ {route}]
<1>1. CASE route \notin DOMAIN Travel
  BY <1>1, RefusedFollows, Words DEF SetRoute
<1>2. CASE route \in DOMAIN Travel
  <2>1. route \in Places \X Places
    BY <1>2, StoryAssumption
  <2>2. SetRoute(w, e) = Applied(v, <<"route_changed">>, {})
    BY <1>2 DEF SetRoute
  <2> HIDE DEF route
  <2>3. v \in WorldType /\ v.plan = w.plan
    BY <2>1 DEF WorldType
  <2>4. "route_changed" \in FactKinds
    BY DEF FactKinds
  <2>5. <<"route_changed">> \in Seq(FactKinds)
    BY <2>4
  <2> HIDE DEF v
  <2> QED BY <2>2, <2>3, <2>5, AppliedFollows
<1> QED BY <1>1, <1>2

LEMMA InterruptFollows ==
  ASSUME NEW w \in WorldType, NEW told \in Seq(FactKinds)
  PROVE  Follows(w, [Applied(w, told, {}) EXCEPT !.interrupts = TRUE])
PROOF
<1> DEFINE e == Applied(w, told, {})
           g == [e EXCEPT !.interrupts = TRUE]
<1>1. Follows(w, e)
  BY AppliedFollows
<1> HIDE DEF e
<1>2. g \in EffectType /\ g.world = e.world /\ g.derived = e.derived
  BY <1>1 DEF Follows, EffectType
<1>3. Follows(w, g)
  BY <1>1, <1>2, SameEffectFollows
<1> QED BY <1>3 DEF e

LEMMA ScheduleRuleFollows ==
  ASSUME NEW w \in WorldType, NEW s \in StepType, NEW e, e.rule \in DOMAIN Rules, e.at \in Nat
  PROVE  Follows(w, ScheduleRule(w, s, e))
PROOF
<1>1. CASE e.at <= s.tick
  BY <1>1, RaisesFollows DEF ScheduleRule
<1>2. CASE ~(e.at <= s.tick)
  <2> DEFINE d == RuleStep(e.rule, e.at)
  <2>1. d \in StepType /\ IsRuleStep(d)
    BY RuleStepType
  <2>2. ScheduleRule(w, s, e) = Effect(w, "applied", <<>>, {d})
    BY <1>2 DEF ScheduleRule, Applied
  <2> HIDE DEF d
  <2>3. {d} \in SUBSET StepType /\ <<>> \in Seq(FactKinds) /\ "applied" \in EffectStatuses
    BY <2>1, Words, StatusNames
  <2> DEFINE f == Effect(w, "applied", <<>>, {d})
  <2>4. f \in EffectType /\ f.world = w /\ f.derived = {d}
    BY <2>3 DEF Effect, EffectType
  <2> HIDE DEF f
  <2>5. \A a \in Npcs : w.plan[a].gen \in Nat
    BY WorldFields
  <2>6. Follows(w, f)
    BY <2>1, <2>4, <2>5 DEF Follows, SamePlan
  <2> QED BY <2>2, <2>6 DEF f
<1> QED BY <1>1, <1>2

LEMMA ApplyEffectFollows ==
  ASSUME NEW w \in WorldType, NEW s \in StepType, NEW e, Accepted(e)
  PROVE  Follows(w, ApplyEffect(w, s, e))
PROOF
<1>0. e \in Effects
  BY DEF Accepted
<1>1. CASE e.type = "flag"
  BY <1>0, <1>1, EffectFields, SetFlagFollows DEF ApplyEffect
<1>2. CASE e.type = "route"
  BY <1>2, SetRouteFollows DEF ApplyEffect
<1>3. CASE e.type = "action"
  <2>1. w.goal[e.actor] \in Nat
    BY <1>0, <1>3, EffectFields, WorldFields
  <2>2. e.actor \in Npcs /\ e.to \in Places \cup {None} /\ e.ticks \in Nat
    BY <1>0, <1>3, EffectFields
  <2>3. ApplyEffect(w, s, e) = StartAction(w, s, e.actor, e.action, e.to, e.ticks, w.goal[e.actor])
    BY <1>3 DEF ApplyEffect
  <2> QED BY <2>1, <2>2, <2>3, StartActionFollows
<1>4. CASE e.type = "plan"
  <2> DEFINE v == [w EXCEPT !.goal[e.actor] = e.goal]
  <2>1. e.actor \in Npcs /\ e.goal \in Nat /\ {e.goal} \in SUBSET DOMAIN Goals
    BY <1>0, <1>4, EffectFields DEF Accepted
  <2>2. v \in WorldType /\ v.plan = w.plan
    BY <2>1, GoalFields
  <2>3. ApplyEffect(w, s, e) = Reevaluate(v, s, e.actor, {e.goal})
    BY <1>4 DEF ApplyEffect, StartPlan
  <2> HIDE DEF v
  <2>4. Follows(v, Reevaluate(v, s, e.actor, {e.goal}))
    BY <2>1, <2>2, ReevaluateFollows
  <2> QED BY <2>2, <2>3, <2>4, SamePlansFollow
<1>5. CASE e.type = "transfer"
  BY <1>0, <1>5, EffectFields, TransferFollows DEF ApplyEffect
<1>6. CASE e.type = "use"
  BY <1>0, <1>6, EffectFields, UseItemFollows DEF ApplyEffect
<1>7. CASE e.type = "interrupt"
  <2>1. "world_interrupt" \in FactKinds
    BY DEF FactKinds
  <2>2. <<"world_interrupt">> \in Seq(FactKinds)
    BY <2>1
  <2> QED BY <1>7, <2>2, InterruptFollows DEF ApplyEffect, Interrupt
<1>8. CASE e.type = "emit"
  <2>1. "emitted" \in FactKinds
    BY DEF FactKinds
  <2>2. <<"emitted">> \in Seq(FactKinds)
    BY <2>1
  <2> QED BY <1>8, <2>2, AppliedFollows DEF ApplyEffect
<1>9. CASE e.type \notin {"flag", "route", "action", "plan", "transfer", "use", "interrupt", "emit"}
  <2>1. e.at \in Nat
    BY <1>0, <1>9, EffectFields
  <2>2. e.type = "schedule"
    BY <1>0, <1>9 DEF Effects
  <2>3. e.rule \in DOMAIN Rules
    BY <2>2 DEF Accepted
  <2>4. ApplyEffect(w, s, e) = ScheduleRule(w, s, e)
    BY <1>9 DEF ApplyEffect
  <2> QED BY <2>1, <2>3, <2>4, ScheduleRuleFollows
<1> QED BY <1>1, <1>2, <1>3, <1>4, <1>5, <1>6, <1>7, <1>8, <1>9
\* One more effect of a group.
LEMMA ThenFollows ==
  ASSUME NEW w \in WorldType, NEW s \in StepType, NEW group,
         \A i \in 1..Len(group) : Accepted(group[i]), Len(group) \in Nat,
         NEW so_far, Follows(w, so_far), NEW n \in Nat \ {0}
  PROVE  Follows(w, Then(w, s, group, so_far, n))
PROOF
<1> DEFINE e == ApplyEffect(so_far.world, s, group[n])
           told == so_far.news \o e.news
           derived == so_far.derived \cup e.derived
           interrupts == so_far.interrupts \/ e.interrupts
           g == [e EXCEPT !.news = told, !.derived = derived, !.interrupts = interrupts]
<1>1. so_far \in EffectType
  BY DEF Follows
<1>2. /\ so_far.world \in WorldType /\ so_far.news \in Seq(FactKinds)
      /\ so_far.derived \in SUBSET StepType
  BY <1>1 DEF EffectType
<1>3. Then(w, s, group, so_far, n)
        = IF n > Len(group) \/ so_far.status # "applied" THEN so_far
          ELSE IF e.status = "applied" THEN g
          ELSE Effect(w, e.status, e.news, {})
  BY DEF Then, Undone
<1>4. CASE n > Len(group) \/ so_far.status # "applied"
  BY <1>3, <1>4
<1>5. CASE n <= Len(group) /\ so_far.status = "applied"
  <2>1. Accepted(group[n])
    BY <1>5
  <2>2. Follows(so_far.world, e)
    BY <1>2, <2>1, ApplyEffectFollows
  <2> HIDE DEF e
  <2>3. e \in EffectType
    BY <2>2 DEF Follows
  <2>4. e.news \in Seq(FactKinds) /\ e.derived \in SUBSET StepType /\ e.status \in EffectStatuses
    BY <2>3 DEF EffectType
  <2>5. told \in Seq(FactKinds) /\ derived \in SUBSET StepType /\ interrupts \in BOOLEAN
    BY <1>2, <2>4, Words
  <2>6. derived = so_far.derived \cup e.derived
    OBVIOUS
  <2> HIDE DEF told, derived, interrupts
  <2>7. g \in EffectType /\ g.world = e.world /\ g.derived = derived
    BY <2>3, <2>5 DEF EffectType
  <2> HIDE DEF g
  <2>8. Follows(w, g)
    BY <1>1, <2>2, <2>6, <2>7, Compose
  <2>9. Follows(w, Effect(w, e.status, e.news, {}))
    BY <2>4, QuietFollows
  <2>10. Then(w, s, group, so_far, n) = g \/ Then(w, s, group, so_far, n) = Effect(w, e.status, e.news, {})
    BY <1>3, <1>5
  <2> QED BY <2>8, <2>9, <2>10
<1>6. n > Len(group) \/ n <= Len(group)
  OBVIOUS
<1> QED BY <1>4, <1>5, <1>6

LEMMA GroupFollows ==
  ASSUME NEW w \in WorldType, NEW s \in StepType, NEW group,
         \A i \in 1..Len(group) : Accepted(group[i]), Len(group) \in Nat
  PROVE  Follows(w, Group(w, s, group))
PROOF
<1> DEFINE e0 == Applied(w, <<>>, {})
           e1 == Then(w, s, group, e0, 1)
           e2 == Then(w, s, group, e1, 2)
<1>0. Group(w, s, group) = Then(w, s, group, e2, 3)
  BY DEF Group, MaxEffects
<1>1. Follows(w, e0)
  BY AppliedFollows, Words
<1> HIDE DEF e0
<1>2. Follows(w, e1)
  BY <1>1, ThenFollows
<1> HIDE DEF e1
<1>3. Follows(w, e2)
  BY <1>2, ThenFollows
<1> HIDE DEF e2
<1>4. Follows(w, Then(w, s, group, e2, 3))
  BY <1>3, ThenFollows
<1> QED BY <1>0, <1>4

LEMMA FireRuleFollows ==
  ASSUME NEW w \in WorldType, NEW s \in StepType
  PROVE  Follows(w, FireRule(w, s))
PROOF
<1> DEFINE v == Mark(w, Consumed(s.ref, s.tick))
           e == Group(v, s, Rules[s.ref].do)
           told == e.news \o <<"content_rule_fired">>
           g == [e EXCEPT !.news = told]
<1>1. CASE s.ref \notin DOMAIN Rules
  BY <1>1, RaisesFollows DEF FireRule
<1>2. CASE s.ref \in DOMAIN Rules
  <2>1. Consumed(s.ref, s.tick) \in Marks
    BY DEF Consumed, FiredOnce, FiredAt, Marks, StepType, Actors
  <2>2. v \in WorldType /\ v.plan = w.plan
    BY <2>1, MarkFields
  <2>3. FireRule(w, s) = IF Consumed(s.ref, s.tick) \in w.fired THEN Cancelled(w)
                         ELSE IF ~AllHold(v, Rules[s.ref].if) THEN Cancelled(v)
                         ELSE IF e.status = "applied" THEN g
                         ELSE e
    BY <1>2 DEF FireRule
  <2> HIDE DEF v
  <2>4. Follows(w, Cancelled(w)) /\ Follows(w, Cancelled(v))
    BY <2>2, CancelledFollows, SamePlansFollow
  <2>5. /\ \A i \in 1..Len(Rules[s.ref].do) : Accepted(Rules[s.ref].do[i])
        /\ Len(Rules[s.ref].do) \in Nat
    BY <1>2, RuleParts
  <2>6. Follows(v, e)
    BY <2>2, <2>5, GroupFollows
  <2> HIDE DEF e
  <2>7. Follows(w, e)
    BY <2>2, <2>6, SamePlansFollow
  <2>8. e \in EffectType
    BY <2>7 DEF Follows
  <2>9. told \in Seq(FactKinds)
    <3>1. "content_rule_fired" \in FactKinds
      BY DEF FactKinds
    <3>2. <<"content_rule_fired">> \in Seq(FactKinds)
      BY <3>1
    <3>3. e.news \in Seq(FactKinds)
      BY <2>8 DEF EffectType
    <3> QED BY <3>2, <3>3, Words
  <2> HIDE DEF told
  <2>10. g \in EffectType /\ g.world = e.world /\ g.derived = e.derived
    BY <2>8, <2>9 DEF EffectType
  <2> HIDE DEF g
  <2>11. Follows(w, g)
    BY <2>7, <2>10, SameEffectFollows
  <2> QED BY <2>3, <2>4, <2>7, <2>11
<1> QED BY <1>1, <1>2
-----------------------------------------------------------------------------
(* Steps of plans and of the player.                                        *)

LEMMA CompletionRulesType ==
  ASSUME NEW actor, NEW action, NEW place, NEW t \in Nat
  PROVE  /\ CompletionRules(actor, action, place, t) \in SUBSET StepType
         /\ \A d \in CompletionRules(actor, action, place, t) : IsRuleStep(d)
PROOF BY RuleStepType DEF CompletionRules

\* An effect that derives rules only.
LEMMA RulesFollow ==
  ASSUME NEW w \in WorldType, NEW v \in WorldType, v.plan = w.plan, NEW status \in EffectStatuses,
         NEW told \in Seq(FactKinds), NEW derived \in SUBSET StepType, \A d \in derived : IsRuleStep(d)
  PROVE  Follows(w, Effect(v, status, told, derived))
PROOF
<1> DEFINE e == Effect(v, status, told, derived)
<1>1. e \in EffectType /\ e.world = v /\ e.derived = derived
  BY EffectParts
<1> HIDE DEF e
<1>2. \A a \in Npcs : w.plan[a].gen \in Nat
  BY WorldFields
<1>3. Follows(w, e)
  BY <1>1, <1>2, RuleStepKey DEF Follows, SamePlan
<1> QED BY <1>3 DEF e

LEMMA AndReevaluateFollows ==
  ASSUME NEW w \in WorldType, NEW s \in StepType, s.actor \in Npcs, NEW status \in EffectStatuses,
         NEW told \in Seq(FactKinds), NEW derived \in SUBSET StepType, \A d \in derived : IsRuleStep(d)
  PROVE  Follows(w, AndReevaluate(w, s, status, told, derived))
PROOF
<1> DEFINE e == Reevaluate(w, s, s.actor, DOMAIN Goals)
           words == told \o e.news
           all == derived \cup e.derived
           f == Effect(w, status, told, derived)
           g == Effect(e.world, status, words, all)
<1>1. AndReevaluate(w, s, status, told, derived) = IF e.status = "raises" THEN e ELSE g
  BY DEF AndReevaluate
<1>2. Follows(w, e)
  BY ReevaluateFollows
<1> HIDE DEF e
<1>3. e.world \in WorldType /\ e.news \in Seq(FactKinds) /\ e.derived \in SUBSET StepType
  BY <1>2 DEF Follows, EffectType
<1>4. words \in Seq(FactKinds) /\ all \in SUBSET StepType /\ all = derived \cup e.derived
  BY <1>3, Words
<1> HIDE DEF words, all
<1>5. g \in EffectType /\ g.world = e.world /\ g.derived = all
  BY <1>3, <1>4, EffectParts
<1> HIDE DEF g
<1>6. Follows(w, f) /\ f.world = w /\ f.derived = derived
  BY RulesFollow, EffectParts
<1> HIDE DEF f
<1>7. Follows(w, g)
  BY <1>2, <1>4, <1>5, <1>6, Compose
<1> QED BY <1>1, <1>2, <1>7

\* What ends the plan of an actor: the plan is no longer under way, or it is a new one
\* that has its own end.
EndsPlan(w, e, a) ==
  e.world.plan[a].status \in UnderWay =>
    \E d \in e.derived : IsEndStep(d, w, e.world) /\ Ends(d, a, e.world.plan[a])

LEMMA LeftBehind ==
  ASSUME NEW w \in WorldType, NEW v \in WorldType, NEW a \in Npcs, NEW f,
         Follows(w, Applied(v, <<>>, {})), Follows(v, f), v.plan[a].status \notin UnderWay
  PROVE  Follows(w, f) /\ EndsPlan(w, f, a)
PROOF
<1>1. Follows(w, f)
  BY After
<1>2. w.plan[a].gen <= v.plan[a].gen
  BY DEF Follows, Applied, Effect
<1>3. \A b \in Npcs : w.plan[b].gen <= v.plan[b].gen
  BY DEF Follows, Applied, Effect
<1>4. \A b \in Npcs : w.plan[b].gen \in Nat /\ v.plan[b].gen \in Nat
  BY WorldFields
<1>5. f.derived \subseteq StepType
  BY DEF Follows, EffectType
<1>6. ASSUME NEW d \in f.derived, IsEndStep(d, v, f.world) PROVE IsEndStep(d, w, f.world)
  <2>1. d.ref \in Nat
    BY <1>5 DEF StepType
  <2> QED BY <1>3, <1>4, <1>6, <2>1 DEF IsEndStep
<1>7. EndsPlan(w, f, a)
  BY <1>6 DEF Follows, SamePlan, EndsPlan
<1> QED BY <1>1, <1>7

LEMMA BecomeQuiet ==
  ASSUME NEW w \in WorldType, NEW a \in Npcs, w.plan[a].status # "none", NEW st \in PlanStatuses \ UnderWay
  PROVE  /\ Become(w, a, st) \in WorldType /\ Become(w, a, st).at = w.at
         /\ Become(w, a, st).open = w.open
         /\ Become(w, a, st).plan[a].status \notin UnderWay
         /\ Follows(w, Applied(Become(w, a, st), <<>>, {}))
PROOF
<1>1. <<>> \in Seq(FactKinds) /\ "applied" \in EffectStatuses
  BY Words, StatusNames
<1>2. Become(w, a, st).open = w.open
  BY DEF Become, WorldType
<1> QED BY <1>1, <1>2, BecomeFollows DEF Applied

LEMMA FailsFollows ==
  ASSUME NEW w \in WorldType, NEW s \in StepType, s.actor \in Npcs, w.plan[s.actor].status # "none"
  PROVE  Follows(w, Fails(w, s)) /\ EndsPlan(w, Fails(w, s), s.actor)
PROOF
<1> DEFINE v == Become(w, s.actor, "failed")
           told == <<"npc_travel_failed", "plan_failed">>
<1>1. "failed" \in PlanStatuses \ UnderWay /\ "blocked" \in EffectStatuses
  BY StatusNames DEF PlanStatuses, UnderWay
<1>2. v \in WorldType /\ v.plan[s.actor].status \notin UnderWay /\ Follows(w, Applied(v, <<>>, {}))
  BY <1>1, BecomeQuiet
<1>3. told \in Seq(FactKinds)
  <2>1. "npc_travel_failed" \in FactKinds /\ "plan_failed" \in FactKinds
    BY DEF FactKinds
  <2> QED BY <2>1, Words
<1>4. Fails(w, s) = AndReevaluate(v, s, "blocked", told, {})
  BY DEF Fails
<1> HIDE DEF v, told
<1>5. Follows(v, AndReevaluate(v, s, "blocked", told, {}))
  BY <1>1, <1>2, <1>3, AndReevaluateFollows
<1> QED BY <1>2, <1>4, <1>5, LeftBehind

LEMMA ContentScheduleFollows ==
  ASSUME NEW w \in WorldType, NEW s \in StepType
  PROVE  Follows(w, ContentSchedule(w, s))
PROOF
<1>1. CASE s.ref \notin DOMAIN Schedules \/ s.actor \notin Npcs
  BY <1>1, RaisesFollows DEF ContentSchedule
<1>2. CASE s.ref \in DOMAIN Schedules /\ s.actor \in Npcs
  <2>1. <<>> \in Seq(FactKinds) /\ "applied" \in EffectStatuses
    BY Words, StatusNames
  <2>2. ContentSchedule(w, s) = AndReevaluate(w, s, "applied", <<>>, {})
    BY <1>2 DEF ContentSchedule
  <2> QED BY <1>2, <2>1, <2>2, AndReevaluateFollows
<1> QED BY <1>1, <1>2
LEMMA ContentArriveFollows ==
  ASSUME NEW w \in WorldType, NEW s \in StepType
  PROVE  /\ Follows(w, ContentArrive(w, s))
         /\ ContentArrive(w, s).status # "raises" => EndsPlan(w, ContentArrive(w, s), s.actor)
PROOF
<1> DEFINE a == s.actor
           to == w.plan[a].to
           rules == CompletionRules(a, "move", to, s.tick)
           u == Become(w, a, "active")
           v == Reached(w, a, to)
<1>1. CASE ~Expected(w, s, "traveling")
  BY <1>1, RaisesFollows DEF ContentArrive
<1>2. CASE Expected(w, s, "traveling") /\ (w.at[a] # s.from \/ ~IsOpen(w, w.at[a], to))
  <2>1. a \in Npcs /\ w.plan[a].status # "none"
    BY <1>2 DEF Expected
  <2>2. ContentArrive(w, s) = Fails(w, s)
    BY <1>2 DEF ContentArrive
  <2> QED BY <2>1, <2>2, FailsFollows
<1>3. CASE Expected(w, s, "traveling") /\ w.at[a] = s.from /\ IsOpen(w, w.at[a], to)
  <2>1. a \in Npcs /\ w.plan[a].status # "none" /\ s.tick \in Nat
    BY <1>3 DEF Expected, StepType
  <2>2. <<w.at[a], to>> \in Places \X Places
    BY <1>3 DEF IsOpen, WorldType
  <2>3. "active" \in PlanStatuses \ UnderWay /\ "applied" \in EffectStatuses
    BY StatusNames DEF PlanStatuses, UnderWay
  <2>4. u \in WorldType /\ u.plan[a].status \notin UnderWay /\ Follows(w, Applied(u, <<>>, {}))
    BY <2>1, <2>3, BecomeQuiet
  <2>5. v = [u EXCEPT !.at[a] = to]
    BY DEF Reached
  <2>6. ContentArrive(w, s) = AndReevaluate(v, s, "applied", <<"npc_arrived">>, rules)
    BY <1>3 DEF ContentArrive
  <2>7. rules \in SUBSET StepType /\ \A d \in rules : IsRuleStep(d)
    BY <2>1, CompletionRulesType
  <2> HIDE DEF to, u, v, rules
  <2>8. v \in WorldType /\ v.plan = u.plan
    BY <2>1, <2>2, <2>4, <2>5 DEF WorldType
  <2>9. Follows(w, Applied(v, <<>>, {}))
    <3>1. Follows(u, Applied(v, <<>>, {}))
      BY <2>4, <2>8, AppliedFollows, Words
    <3> QED BY <2>4, <3>1, After
  <2>10. <<"npc_arrived">> \in Seq(FactKinds)
    <3>1. "npc_arrived" \in FactKinds
      BY DEF FactKinds
    <3> QED BY <3>1
  <2>11. Follows(v, AndReevaluate(v, s, "applied", <<"npc_arrived">>, rules))
    BY <2>1, <2>3, <2>7, <2>8, <2>10, AndReevaluateFollows
  <2> QED BY <2>1, <2>4, <2>6, <2>8, <2>9, <2>11, LeftBehind
<1> QED BY <1>1, <1>2, <1>3

LEMMA ContentWaitedFollows ==
  ASSUME NEW w \in WorldType, NEW s \in StepType
  PROVE  /\ Follows(w, ContentWaited(w, s))
         /\ ContentWaited(w, s).status # "raises" => EndsPlan(w, ContentWaited(w, s), s.actor)
PROOF
<1> DEFINE a == s.actor
           rules == CompletionRules(a, "idle", w.at[a], s.tick)
           v == Become(w, a, "active")
<1>1. CASE ~Expected(w, s, "waiting")
  BY <1>1, RaisesFollows DEF ContentWaited
<1>2. CASE Expected(w, s, "waiting") /\ w.at[a] # s.from
  <2>1. a \in Npcs /\ w.plan[a].status # "none"
    BY <1>2 DEF Expected
  <2>2. ContentWaited(w, s) = Fails(w, s)
    BY <1>2 DEF ContentWaited
  <2> QED BY <2>1, <2>2, FailsFollows
<1>3. CASE Expected(w, s, "waiting") /\ w.at[a] = s.from
  <2>1. a \in Npcs /\ w.plan[a].status # "none" /\ s.tick \in Nat
    BY <1>3 DEF Expected, StepType
  <2>2. "active" \in PlanStatuses \ UnderWay /\ "applied" \in EffectStatuses
    BY StatusNames DEF PlanStatuses, UnderWay
  <2>3. v \in WorldType /\ v.plan[a].status \notin UnderWay /\ Follows(w, Applied(v, <<>>, {}))
    BY <2>1, <2>2, BecomeQuiet
  <2>4. ContentWaited(w, s) = AndReevaluate(v, s, "applied", <<"npc_wait_completed">>, rules)
    BY <1>3 DEF ContentWaited
  <2>5. rules \in SUBSET StepType /\ \A d \in rules : IsRuleStep(d)
    BY <2>1, CompletionRulesType
  <2> HIDE DEF v, rules
  <2>6. <<"npc_wait_completed">> \in Seq(FactKinds)
    <3>1. "npc_wait_completed" \in FactKinds
      BY DEF FactKinds
    <3> QED BY <3>1
  <2>7. Follows(v, AndReevaluate(v, s, "applied", <<"npc_wait_completed">>, rules))
    BY <2>1, <2>2, <2>3, <2>5, <2>6, AndReevaluateFollows
  <2> QED BY <2>1, <2>3, <2>4, <2>7, LeftBehind
<1> QED BY <1>1, <1>2, <1>3

LEMMA ContentCompleteFollows ==
  ASSUME NEW w \in WorldType, NEW s \in StepType, NEW p
  PROVE  Follows(w, ContentComplete(w, s, p))
PROOF
<1>0. s.tick \in Nat /\ "applied" \in EffectStatuses
  BY StatusNames DEF StepType
<1>1. CASE p.kind = "idle"
  <2> DEFINE rules == CompletionRules("player", "idle", w.player, s.tick)
  <2>1. rules \in SUBSET StepType /\ \A d \in rules : IsRuleStep(d)
    BY <1>0, CompletionRulesType
  <2>2. ContentComplete(w, s, p) = Effect(w, "applied", <<"player_action_completed">>, rules)
    BY <1>1 DEF ContentComplete, Applied
  <2> HIDE DEF rules
  <2>3. <<"player_action_completed">> \in Seq(FactKinds)
    <3>1. "player_action_completed" \in FactKinds
      BY DEF FactKinds
    <3> QED BY <3>1
  <2> QED BY <1>0, <2>1, <2>2, <2>3, RulesFollow
<1>2. CASE p.kind # "idle" /\ (p.to = None \/ ~IsOpen(w, w.player, p.to))
  <2>1. ContentComplete(w, s, p) = Refused(w, <<>>)
    BY <1>2 DEF ContentComplete
  <2> QED BY <2>1, RefusedFollows, Words
<1>3. CASE p.kind # "idle" /\ p.to # None /\ IsOpen(w, w.player, p.to)
  <2> DEFINE rules == CompletionRules("player", "move", p.to, s.tick)
             v == [w EXCEPT !.player = p.to]
  <2>1. rules \in SUBSET StepType /\ \A d \in rules : IsRuleStep(d)
    BY <1>0, CompletionRulesType
  <2>2. ContentComplete(w, s, p) = Effect(v, "applied", <<"player_move_completed">>, rules)
    BY <1>3 DEF ContentComplete, Applied
  <2>3. <<w.player, p.to>> \in Places \X Places
    BY <1>3 DEF IsOpen, WorldType
  <2>4. v \in WorldType /\ v.plan = w.plan
    BY <2>3 DEF WorldType
  <2> HIDE DEF rules, v
  <2>5. <<"player_move_completed">> \in Seq(FactKinds)
    <3>1. "player_move_completed" \in FactKinds
      BY DEF FactKinds
    <3> QED BY <3>1
  <2> QED BY <1>0, <2>1, <2>2, <2>4, <2>5, RulesFollow
<1> QED BY <1>1, <1>2, <1>3

\* Every step of a content pack; and the step at which a plan ends leaves the actor with no
\* plan under way, or with a new one.
LEMMA ContentStepFollows ==
  ASSUME NEW w \in WorldType, NEW s \in StepType, NEW p
  PROVE  /\ Follows(w, ContentStep(w, s, p))
         /\ (s.kind \in EndKinds /\ ContentStep(w, s, p).status # "raises")
              => EndsPlan(w, ContentStep(w, s, p), s.actor)
PROOF
<1>1. CASE s.kind = "content_rule_fire"
  BY <1>1, FireRuleFollows DEF ContentStep, EndKinds
<1>2. CASE s.kind = "schedule"
  BY <1>2, ContentScheduleFollows DEF ContentStep, EndKinds
<1>3. CASE s.kind = "npc_travel_arrive"
  BY <1>3, ContentArriveFollows DEF ContentStep
<1>4. CASE s.kind = "npc_wait_complete"
  BY <1>4, ContentWaitedFollows DEF ContentStep
<1>5. CASE s.kind = "player_continuous_complete"
  BY <1>5, ContentCompleteFollows DEF ContentStep, EndKinds
<1>6. CASE s.kind \notin {"content_rule_fire", "schedule", "npc_travel_arrive",
                          "npc_wait_complete", "player_continuous_complete"}
  BY <1>6, RaisesFollows DEF ContentStep
<1> QED BY <1>1, <1>2, <1>3, <1>4, <1>5, <1>6
-----------------------------------------------------------------------------
(* The trial.                                                               *)

\* The steps of the NPCs belong to NPCs.
Cast(s) ==
  s.kind \in {"npc_travel_start", "npc_travel_arrive", "npc_take_item", "npc_use_item"}
    => s.actor \in Npcs

\* An effect e of step s: a start derives its own arrival and nothing else derives, and a
\* plan that is under way was so before and does not end with s, or has its end among them.
TrialFollows(w, s, e) ==
  /\ e \in EffectType
  /\ \A d \in e.derived : /\ s.kind = "npc_travel_start" /\ d.kind = "npc_travel_arrive"
                          /\ d.actor = s.actor /\ d.ref = s.tick /\ d.tick = s.until
                          /\ d.phase = NpcMove
  /\ \A c, d \in e.derived : c = d
  /\ \A a \in Npcs : e.world.plan[a].status \in UnderWay =>
       \/ SamePlan(e.world.plan[a], w.plan[a]) /\ ~Ends(s, a, w.plan[a])
       \/ \E d \in e.derived : Ends(d, a, e.world.plan[a])

LEMMA TrialQuiet ==
  ASSUME NEW w \in WorldType, NEW s \in StepType, NEW v \in WorldType, NEW status \in EffectStatuses,
         NEW told \in Seq(FactKinds),
         \A a \in Npcs : v.plan[a].status \in UnderWay =>
           SamePlan(v.plan[a], w.plan[a]) /\ ~Ends(s, a, w.plan[a])
  PROVE  TrialFollows(w, s, Effect(v, status, told, {}))
PROOF
<1> DEFINE e == Effect(v, status, told, {})
<1>1. e \in EffectType /\ e.world = v /\ e.derived = {}
  BY DEF Effect, EffectType
<1> HIDE DEF e
<1>2. TrialFollows(w, s, e)
  BY <1>1 DEF TrialFollows
<1> QED BY <1>2 DEF e

LEMMA NotAnEnd ==
  ASSUME NEW s, s.kind \notin EndKinds, NEW a, NEW p
  PROVE  ~Ends(s, a, p)
PROOF BY DEF Ends, EndKinds, EndOf

LEMMA TrialSame ==
  ASSUME NEW w \in WorldType, NEW s \in StepType, s.kind \notin EndKinds, NEW v \in WorldType,
         v.plan = w.plan, NEW status \in EffectStatuses, NEW told \in Seq(FactKinds)
  PROVE  TrialFollows(w, s, Effect(v, status, told, {}))
PROOF
<1>1. \A a \in Npcs : SamePlan(v.plan[a], w.plan[a]) /\ ~Ends(s, a, w.plan[a])
  BY NotAnEnd DEF SamePlan
<1> QED BY <1>1, TrialQuiet

LEMMA TrialBlockedFollows ==
  ASSUME NEW w \in WorldType, NEW s \in StepType, s.kind \notin EndKinds
  PROVE  TrialFollows(w, s, TrialBlocked(w)) /\ TrialFollows(w, s, Cancelled(w))
PROOF
<1>1. <<"step_blocked">> \in Seq(FactKinds)
  <2>1. "step_blocked" \in FactKinds
    BY DEF FactKinds
  <2> QED BY <2>1
<1>2. "blocked" \in EffectStatuses /\ "cancelled" \in EffectStatuses /\ <<>> \in Seq(FactKinds)
  BY StatusNames, Words
<1> QED BY <1>1, <1>2, TrialSame DEF TrialBlocked, Refused, Cancelled

LEMMA TrialStartFollows ==
  ASSUME NEW w \in WorldType, NEW s \in StepType, s.kind = "npc_travel_start", s.actor \in Npcs
  PROVE  TrialFollows(w, s, TrialStart(w, s))
PROOF
<1>0. s.kind \notin EndKinds
  BY DEF EndKinds
<1>1. CASE w.at[s.actor] # s.from \/ ~IsOpen(w, s.from, s.to) \/ w.plan[s.actor].status = "traveling"
  BY <1>0, <1>1, TrialBlockedFollows DEF TrialStart
<1>2. CASE ~(w.at[s.actor] # s.from \/ ~IsOpen(w, s.from, s.to) \/ w.plan[s.actor].status = "traveling")
  <2> DEFINE a == s.actor
             from == s.from
             to == s.to
             until == s.until
             gen == s.tick
             p == [status |-> "traveling", gen |-> s.tick, from |-> s.from, to |-> s.to,
                   until |-> s.until, goal |-> 0]
             v == [w EXCEPT !.plan[a] = p]
             d == Journey(Step(until, NpcMove, a, "npc_travel_arrive", gen), from, to, 0)
             e == Applied(v, <<"npc_travel_started">>, {d})
  <2>1. TrialStart(w, s) = e
    BY <1>2 DEF TrialStart
  <2>2. s.tick \in Nat /\ s.until \in Nat /\ s.from \in Places \cup {None} /\ s.to \in Places \cup {None}
    BY DEF StepType
  <2>3. p \in PlanType /\ p.status = "traveling" /\ p.gen = s.tick /\ p.until = s.until
    BY <2>2 DEF PlanType, PlanStatuses
  <2>4. w.plan \in [Npcs -> PlanType] /\ v = [w EXCEPT !.plan = [w.plan EXCEPT ![a] = p]]
    BY DEF WorldType
  <2>5. "npc_travel_arrive" \in Kinds
    BY DEF Kinds
  <2>6. /\ d \in StepType /\ d.kind = "npc_travel_arrive" /\ d.actor = a /\ d.ref = gen
        /\ d.tick = until /\ d.phase = NpcMove
    <3>1. a \in Npcs /\ until \in Nat /\ gen \in Nat /\ from \in Places \cup {None} /\ to \in Places \cup {None}
      BY <2>2
    <3> HIDE DEF a, until, gen, from, to
    <3> QED BY <2>5, <3>1, EndStep
  <2> HIDE DEF p, v, d
  <2>7. [w.plan EXCEPT ![a] = p] \in [Npcs -> PlanType]
    BY <2>3, <2>4
  <2>8. v \in WorldType /\ v.plan = [w.plan EXCEPT ![a] = p]
    BY <2>4, <2>7 DEF WorldType
  <2>9. v.plan[a] = p /\ \A b \in Npcs : b # a => v.plan[b] = w.plan[b]
    BY <2>4, <2>8
  <2>10. <<"npc_travel_started">> \in Seq(FactKinds) /\ {d} \in SUBSET StepType /\ "applied" \in EffectStatuses
    <3>1. "npc_travel_started" \in FactKinds
      BY DEF FactKinds
    <3> QED BY <2>6, <3>1, StatusNames
  <2>11. e \in EffectType /\ e.world = v /\ e.derived = {d}
    BY <2>8, <2>10 DEF Applied, Effect, EffectType
  <2> HIDE DEF e
  <2>12. Ends(d, a, v.plan[a])
    BY <2>3, <2>6, <2>9 DEF Ends, EndOf
  <2>13. \A b \in Npcs : b # a => SamePlan(v.plan[b], w.plan[b]) /\ ~Ends(s, b, w.plan[b])
    BY <1>0, <2>9, NotAnEnd DEF SamePlan
  <2>14. TrialFollows(w, s, e)
    BY <2>6, <2>11, <2>12, <2>13 DEF TrialFollows
  <2> QED BY <2>1, <2>14
<1> QED BY <1>1, <1>2
\* At an arrival the plan takes another status that is not under way, and the traveller
\* may have moved.
LEMMA TrialBecome ==
  ASSUME NEW w \in WorldType, NEW s \in StepType, NEW a \in Npcs, s.actor = a,
         NEW st \in PlanStatuses \ UnderWay,
         NEW at \in [Npcs -> Places], NEW status \in EffectStatuses, NEW told \in Seq(FactKinds),
         NEW v, v = [w EXCEPT !.plan = [w.plan EXCEPT ![a] = [w.plan[a] EXCEPT !.status = st]], !.at = at]
  PROVE  TrialFollows(w, s, Effect(v, status, told, {}))
PROOF
<1> DEFINE p == [w.plan[a] EXCEPT !.status = st]
<1>1. w.plan[a] \in PlanType
  BY WorldFields
<1>2. p \in PlanType /\ p.status = st
  BY <1>1 DEF PlanType
<1> HIDE DEF p
<1>3. w.plan \in [Npcs -> PlanType] /\ v = [w EXCEPT !.plan = [w.plan EXCEPT ![a] = p], !.at = at]
  BY DEF WorldType, p
<1>4. [w.plan EXCEPT ![a] = p] \in [Npcs -> PlanType]
  BY <1>2, <1>3
<1>5. v \in WorldType /\ v.plan = [w.plan EXCEPT ![a] = p]
  BY <1>3, <1>4 DEF WorldType
<1>6. v.plan[a] = p /\ \A b \in Npcs : b # a => v.plan[b] = w.plan[b]
  BY <1>3, <1>5
<1>7. \A b \in Npcs : b # a => SamePlan(v.plan[b], w.plan[b]) /\ ~Ends(s, b, w.plan[b])
  BY <1>6 DEF SamePlan, Ends
<1>8. v.plan[a].status \notin UnderWay
  BY <1>2, <1>6
<1> QED BY <1>5, <1>7, <1>8, TrialQuiet

LEMMA TrialArriveFollows ==
  ASSUME NEW w \in WorldType, NEW s \in StepType, s.kind = "npc_travel_arrive", s.actor \in Npcs
  PROVE  TrialFollows(w, s, TrialArrive(w, s))
PROOF
<1> DEFINE a == s.actor
           plan == w.plan[a]
           Past(st) == [w EXCEPT !.plan[a].status = st]
<1>0. <<"step_blocked">> \in Seq(FactKinds) /\ <<"npc_arrived">> \in Seq(FactKinds)
  <2>1. "step_blocked" \in FactKinds /\ "npc_arrived" \in FactKinds
    BY DEF FactKinds
  <2> QED BY <2>1
<1>1. /\ {"blocked", "cancelled", "arrived"} \subseteq PlanStatuses \ UnderWay
      /\ "blocked" \in EffectStatuses /\ "applied" \in EffectStatuses
  BY StatusNames DEF PlanStatuses, UnderWay
<1>2. CASE plan.status = "none" \/ plan.gen # s.ref
  <2>1. TrialArrive(w, s) = Effect(w, "blocked", <<"step_blocked">>, {})
    BY <1>2 DEF TrialArrive, TrialBlocked, Refused
  <2>2. \A b \in Npcs : w.plan[b].status \in UnderWay =>
          SamePlan(w.plan[b], w.plan[b]) /\ ~Ends(s, b, w.plan[b])
    BY <1>2 DEF SamePlan, Ends, UnderWay
  <2> QED BY <1>0, <1>1, <2>1, <2>2, TrialQuiet
<1>3. w \in WorldType /\ w.at \in [Npcs -> Places] /\ w.open \subseteq Places \X Places
  BY DEF WorldType
<1>4. CASE plan.status # "none" /\ plan.gen = s.ref
           /\ (w.at[a] # plan.from \/ ~IsOpen(w, plan.from, plan.to))
  <2>1. PICK st \in {"blocked", "cancelled"} : TrialArrive(w, s) = TrialBlocked(Past(st))
    BY <1>4 DEF TrialArrive
  <2> DEFINE v == Past(st)
             at == w.at
  <2>2. v = [w EXCEPT !.plan = [w.plan EXCEPT ![a] = [w.plan[a] EXCEPT !.status = st]], !.at = at]
    BY <1>3 DEF WorldType
  <2>3. st \in PlanStatuses \ UnderWay /\ at \in [Npcs -> Places]
    BY <1>1, <1>3
  <2>4. TrialArrive(w, s) = Effect(v, "blocked", <<"step_blocked">>, {})
    BY <2>1 DEF TrialBlocked, Refused
  <2> HIDE DEF v, at
  <2>5. TrialFollows(w, s, Effect(v, "blocked", <<"step_blocked">>, {}))
    BY <1>0, <1>1, <2>2, <2>3, TrialBecome
  <2> QED BY <2>4, <2>5
<1>5. CASE plan.status # "none" /\ plan.gen = s.ref
           /\ w.at[a] = plan.from /\ IsOpen(w, plan.from, plan.to)
  <2> DEFINE at == [w.at EXCEPT ![a] = plan.to]
             v == [Past("arrived") EXCEPT !.at[a] = plan.to]
  <2>1. plan.to \in Places
    BY <1>3, <1>5 DEF IsOpen
  <2>2. at \in [Npcs -> Places]
    BY <1>3, <2>1
  <2>3. v = [w EXCEPT !.plan = [w.plan EXCEPT ![a] = [w.plan[a] EXCEPT !.status = "arrived"]], !.at = at]
    BY <1>3 DEF WorldType
  <2>4. TrialArrive(w, s) = Effect(v, "applied", <<"npc_arrived">>, {})
    BY <1>5 DEF TrialArrive, Applied
  <2> HIDE DEF v, at
  <2>5. "arrived" \in PlanStatuses \ UnderWay
    BY <1>1
  <2>6. TrialFollows(w, s, Effect(v, "applied", <<"npc_arrived">>, {}))
    BY <1>0, <1>1, <2>2, <2>3, <2>5, TrialBecome
  <2> QED BY <2>4, <2>6
<1> QED BY <1>2, <1>4, <1>5
LEMMA TrialTakeFollows ==
  ASSUME NEW w \in WorldType, NEW s \in StepType, s.kind = "npc_take_item", s.actor \in Npcs
  PROVE  TrialFollows(w, s, TrialTake(w, s))
PROOF
<1>0. s.kind \notin EndKinds
  BY DEF EndKinds
<1>1. <<"item_take_failed">> \in Seq(FactKinds) /\ <<"item_acquired">> \in Seq(FactKinds)
  <2>1. "item_take_failed" \in FactKinds /\ "item_acquired" \in FactKinds
    BY DEF FactKinds
  <2> QED BY <2>1
<1>2. "blocked" \in EffectStatuses /\ "applied" \in EffectStatuses
  BY StatusNames
<1>3. TrialFollows(w, s, Refused(w, <<"item_take_failed">>))
  BY <1>0, <1>1, <1>2, TrialSame DEF Refused
<1>4. TrialFollows(w, s, TrialBlocked(w))
  BY <1>0, TrialBlockedFollows
<1>5. TrialFollows(w, s, Applied([w EXCEPT !.owner = s.actor], <<"item_acquired">>, {}))
  <2> DEFINE v == [w EXCEPT !.owner = s.actor]
  <2>1. v \in WorldType /\ v.plan = w.plan
    BY DEF WorldType, Owners
  <2> HIDE DEF v
  <2>2. TrialFollows(w, s, Applied(v, <<"item_acquired">>, {}))
    BY <1>0, <1>1, <1>2, <2>1, TrialSame DEF Applied
  <2> QED BY <2>2 DEF v
<1> QED BY <1>3, <1>4, <1>5 DEF TrialTake

LEMMA TrialUseFollows ==
  ASSUME NEW w \in WorldType, NEW s \in StepType, s.kind = "npc_use_item"
  PROVE  TrialFollows(w, s, TrialUse(w, s))
PROOF
<1>0. s.kind \notin EndKinds
  BY DEF EndKinds
<1>1. <<"item_use_failed">> \in Seq(FactKinds) /\ <<"item_used">> \in Seq(FactKinds)
  <2>1. "item_use_failed" \in FactKinds /\ "item_used" \in FactKinds
    BY DEF FactKinds
  <2> QED BY <2>1
<1>2. "blocked" \in EffectStatuses /\ "applied" \in EffectStatuses
  BY StatusNames
<1>3. TrialFollows(w, s, Refused(w, <<"item_use_failed">>))
  BY <1>0, <1>1, <1>2, TrialSame DEF Refused
<1>4. TrialFollows(w, s, Cancelled(w))
  BY <1>0, TrialBlockedFollows
<1>5. TrialFollows(w, s, Applied(Mark(w, Used(s.actor)), <<"item_used">>, {}))
  <2>1. Used(s.actor) \in Marks
    BY DEF Used, Marks, StepType
  <2>2. Mark(w, Used(s.actor)) \in WorldType /\ Mark(w, Used(s.actor)).plan = w.plan
    BY <2>1, MarkFields
  <2> QED BY <1>0, <1>1, <1>2, <2>2, TrialSame DEF Applied
<1> QED BY <1>3, <1>4, <1>5 DEF TrialUse

LEMMA TrialBellFollows ==
  ASSUME NEW w \in WorldType, NEW s \in StepType, s.kind = "environment_interrupt"
  PROVE  TrialFollows(w, s, TrialBell(w))
PROOF
<1>0. s.kind \notin EndKinds
  BY DEF EndKinds
<1>1. CASE Bell \in w.fired
  BY <1>0, <1>1, TrialBlockedFollows DEF TrialBell
<1>2. CASE Bell \notin w.fired
  <2> DEFINE v == Mark(w, Bell)
             e == Applied(v, <<"world_interrupt">>, {})
             g == [e EXCEPT !.interrupts = TRUE]
  <2>1. Bell \in Marks
    BY DEF Bell, Marks, Actors
  <2>2. v \in WorldType /\ v.plan = w.plan
    BY <2>1, MarkFields
  <2>3. TrialBell(w) = g
    BY <1>2 DEF TrialBell
  <2> HIDE DEF v
  <2>4. <<"world_interrupt">> \in Seq(FactKinds) /\ "applied" \in EffectStatuses
    <3>1. "world_interrupt" \in FactKinds
      BY DEF FactKinds
    <3> QED BY <3>1, StatusNames
  <2>5. TrialFollows(w, s, e)
    BY <1>0, <2>2, <2>4, TrialSame DEF Applied
  <2> HIDE DEF e
  <2>6. g \in EffectType /\ g.world = e.world /\ g.derived = e.derived
    BY <2>5 DEF TrialFollows, EffectType
  <2> HIDE DEF g
  <2> QED BY <2>3, <2>5, <2>6 DEF TrialFollows
<1> QED BY <1>1, <1>2

LEMMA TrialCompleteFollows ==
  ASSUME NEW w \in WorldType, NEW s \in StepType, s.kind = "player_continuous_complete", NEW p
  PROVE  TrialFollows(w, s, TrialComplete(w, p))
PROOF
<1>0. s.kind \notin EndKinds
  BY DEF EndKinds
<1>1. <<"player_action_completed">> \in Seq(FactKinds) /\ <<"player_move_completed">> \in Seq(FactKinds)
  <2>1. "player_action_completed" \in FactKinds /\ "player_move_completed" \in FactKinds
    BY DEF FactKinds
  <2> QED BY <2>1
<1>2. "blocked" \in EffectStatuses /\ "applied" \in EffectStatuses
  BY StatusNames
<1>3. CASE p.kind = "idle"
  <2>1. TrialComplete(w, p) = Effect(w, "applied", <<"player_action_completed">>, {})
    BY <1>3 DEF TrialComplete, Applied
  <2> QED BY <1>0, <1>1, <1>2, <2>1, TrialSame
<1>4. CASE p.kind # "idle" /\ (p.to = None \/ ~IsOpen(w, w.player, p.to))
  BY <1>0, <1>4, TrialBlockedFollows DEF TrialComplete
<1>5. CASE p.kind # "idle" /\ p.to # None /\ IsOpen(w, w.player, p.to)
  <2> DEFINE v == [w EXCEPT !.player = p.to]
  <2>1. <<w.player, p.to>> \in Places \X Places
    BY <1>5 DEF IsOpen, WorldType
  <2>2. v \in WorldType /\ v.plan = w.plan
    BY <2>1 DEF WorldType
  <2>3. TrialComplete(w, p) = Effect(v, "applied", <<"player_move_completed">>, {})
    BY <1>5 DEF TrialComplete, Applied
  <2> HIDE DEF v
  <2> QED BY <1>0, <1>1, <1>2, <2>2, <2>3, TrialSame
<1> QED BY <1>3, <1>4, <1>5

\* Every step of the trial.
LEMMA TrialStepFollows ==
  ASSUME NEW w \in WorldType, NEW s \in StepType, Cast(s), NEW p
  PROVE  \/ TrialFollows(w, s, TrialStep(w, s, p))
         \/ TrialStep(w, s, p).status = "raises"
PROOF
<1>1. CASE s.kind = "npc_travel_start"
  BY <1>1, TrialStartFollows DEF TrialStep, Cast
<1>2. CASE s.kind = "npc_travel_arrive"
  BY <1>2, TrialArriveFollows DEF TrialStep, Cast
<1>3. CASE s.kind = "npc_take_item"
  BY <1>3, TrialTakeFollows DEF TrialStep, Cast
<1>4. CASE s.kind = "npc_use_item"
  BY <1>4, TrialUseFollows DEF TrialStep
<1>5. CASE s.kind = "environment_interrupt"
  BY <1>5, TrialBellFollows DEF TrialStep
<1>6. CASE s.kind = "player_continuous_complete"
  BY <1>6, TrialCompleteFollows DEF TrialStep
<1>7. CASE s.kind \notin {"npc_travel_start", "npc_travel_arrive", "npc_take_item",
                          "npc_use_item", "environment_interrupt", "player_continuous_complete"}
  BY <1>7, RaisesFollows DEF TrialStep
<1> QED BY <1>1, <1>2, <1>3, <1>4, <1>5, <1>6, <1>7
-----------------------------------------------------------------------------
(* What a world starts with.                                                *)

LEMMA FirstStepsType ==
  ASSUME NEW p
  PROVE  FirstSteps(p) \subseteq StepType
PROOF
<1>1. TrialSteps \subseteq StepType
  <2>1. \A t \in Nat, ph \in Phases, a \in Actors, k \in Kinds : Step(t, ph, a, k, 0) \in StepType
    BY DEF Step, StepType
  <2>2. \A s \in StepType, from, to \in Places, until \in Nat : Journey(s, from, to, until) \in StepType
    BY DEF Journey, StepType
  <2>3. /\ {"npc_a", "npc_b", "world"} \subseteq Actors /\ {"plaza", "trial_peak"} \subseteq Places
        /\ {Environment, NpcMove, ItemPhase} \subseteq Phases
        /\ {"npc_travel_start", "npc_take_item", "npc_use_item", "environment_interrupt"} \subseteq Kinds
    BY DEF Actors, Npcs, Places, Environment, NpcMove, ItemPhase, Phases, Kinds
  <2>4. /\ Step(2, NpcMove, "npc_a", "npc_travel_start", 0) \in StepType
        /\ Step(5, ItemPhase, "npc_a", "npc_take_item", 0) \in StepType
        /\ Step(5, ItemPhase, "npc_b", "npc_take_item", 0) \in StepType
        /\ Step(6, ItemPhase, "npc_b", "npc_use_item", 0) \in StepType
        /\ Step(7, Environment, "world", "environment_interrupt", 0) \in StepType
        /\ Step(8, NpcMove, "npc_b", "npc_travel_start", 0) \in StepType
    BY <2>1, <2>3
  <2>5. /\ Journey(Step(2, NpcMove, "npc_a", "npc_travel_start", 0), "plaza", "trial_peak", 5) \in StepType
        /\ Journey(Step(8, NpcMove, "npc_b", "npc_travel_start", 0), "trial_peak", "plaza", 9) \in StepType
    BY <2>2, <2>3, <2>4
  <2> QED BY <2>4, <2>5 DEF TrialSteps
<1>2. ContentSteps \subseteq StepType
  <2>1. ASSUME NEW r \in DOMAIN Rules PROVE RuleStep(r, Rules[r].due) \in StepType
    <3>1. Rules[r].due \in Nat
      BY StoryParts DEF RuleType
    <3> QED BY <3>1, RuleStepType
  <2>2. ASSUME NEW i \in DOMAIN Schedules
        PROVE  Step(Schedules[i].at, NpcMove, Schedules[i].actor, "schedule", i) \in StepType
    <3>1. Schedules[i].at \in Nat /\ Schedules[i].actor \in Npcs /\ i \in Nat
      BY StoryParts DEF ScheduleType
    <3> QED BY <3>1 DEF Step, StepType, NpcMove, Phases, Actors, Kinds
  <2> QED BY <2>1, <2>2 DEF ContentSteps
<1> QED BY <1>1, <1>2 DEF FirstSteps

LEMMA FirstCast ==
  \A s \in TrialSteps : Cast(s)
PROOF
<1>1. \A t, ph, a, k, r : Step(t, ph, a, k, r).kind = k /\ Step(t, ph, a, k, r).actor = a
  BY DEF Step
<1>2. \A t, ph, a, k, r, from, to, until :
        /\ Journey(Step(t, ph, a, k, r), from, to, until).kind = k
        /\ Journey(Step(t, ph, a, k, r), from, to, until).actor = a
  BY DEF Journey, Step
<1>3. {"npc_a", "npc_b"} \subseteq Npcs
  BY DEF Npcs
<1> QED BY <1>1, <1>2, <1>3 DEF TrialSteps, Cast

LEMMA FirstWorldType ==
  ASSUME NEW p
  PROVE  FirstWorld(p) \in WorldType
PROOF
<1>1. NoPlan \in PlanType
  BY DEF NoPlan, PlanType, PlanStatuses
<1>2. TrialBeginning \in WorldType
  <2>1. [npc_a |-> "plaza", npc_b |-> "trial_peak"] \in [Npcs -> Places]
    <3>1. "plaza" \in Places /\ "trial_peak" \in Places
      BY DEF Places
    <3> QED BY <3>1 DEF Npcs
  <2>2. TrialRoutes \subseteq Places \X Places
    BY DEF TrialRoutes, TrialPath, Places
  <2>3. "mountain_gate" \in Places /\ "trial_peak" \in Owners
    BY DEF Places, Owners
  <2> QED BY <1>1, <2>1, <2>2, <2>3 DEF TrialBeginning, WorldType
<1>3. ContentBeginning \in WorldType
  <2>1. /\ Beginning.player \in Places /\ Beginning.at \in [Npcs -> Places]
        /\ Beginning.owner \in Owners
    BY StoryAssumption
  <2>2. InitialGoal \in [Npcs -> Nat] /\ OpenAtStart \subseteq Places \X Places
    BY StoryAssumption
  <2> QED BY <1>1, <2>1, <2>2 DEF ContentBeginning, WorldType
<1> QED BY <1>2, <1>3 DEF FirstWorld
-----------------------------------------------------------------------------
(* Types.                                                                   *)

Casts == profile = "trial" => \A s \in Pending \cup queue \cup later : Cast(s)

LEMMA PendingType ==
  ASSUME TypeOK
  PROVE  Pending \subseteq StepType /\ Settled \subseteq StepType
PROOF BY DEF TypeOK, Pending, Settled, StepsWith

LEMMA CompletionType ==
  ASSUME NEW p \in ActType
  PROVE  /\ Completion(p) \in StepType /\ Cast(Completion(p))
         /\ Completion(p).kind = "player_continuous_complete"
         /\ Completion(p).tick = p.end /\ Completion(p).actor = "player"
         /\ Completion(p).ref = 0 /\ Completion(p).phase = PlayerContinuous
PROOF
<1>1. p.end \in Nat
  BY DEF ActType, NoAct
<1> QED BY <1>1 DEF Completion, Step, StepType, PlayerContinuous, Phases, Actors, Kinds, Cast

\* What a step that a turn takes has done.
LEMMA StepEffect ==
  ASSUME TypeOK, Casts, NEW s \in queue, ApplyStep(work, s).status # "raises"
  PROVE  LET e == ApplyStep(work, s)
         IN  /\ e \in EffectType
             /\ profile = "trial" => TrialFollows(work, s, e) /\ \A d \in e.derived : Cast(d)
             /\ profile # "trial" => /\ Follows(work, e)
                                     /\ s.kind \in EndKinds => EndsPlan(work, e, s.actor)
PROOF
<1> DEFINE e == ApplyStep(work, s)
<1>1. work \in WorldType /\ s \in StepType
  BY DEF TypeOK
<1>2. CASE profile = "trial"
  <2>1. Cast(s)
    BY <1>2 DEF Casts
  <2>2. e = TrialStep(work, s, act)
    BY <1>2 DEF ApplyStep
  <2>3. TrialFollows(work, s, e)
    BY <1>1, <2>1, <2>2, TrialStepFollows
  <2> HIDE DEF e
  <2>4. \A d \in e.derived : Cast(d)
    BY <2>1, <2>3 DEF TrialFollows, Cast
  <2>5. e \in EffectType
    BY <2>3 DEF TrialFollows
  <2> QED BY <1>2, <2>3, <2>4, <2>5 DEF e
<1>3. CASE profile # "trial"
  <2>1. e = ContentStep(work, s, act)
    BY <1>3 DEF ApplyStep
  <2>2. Follows(work, e) /\ (s.kind \in EndKinds => EndsPlan(work, e, s.actor))
    BY <1>1, <2>1, ContentStepFollows
  <2> HIDE DEF e
  <2>3. e \in EffectType
    BY <2>2 DEF Follows
  <2> QED BY <1>3, <2>2, <2>3 DEF e
<1> QED BY <1>2, <1>3

LEMMA KeysType ==
  ASSUME NEW S \in SUBSET StepType
  PROVE  Keys(S) \in SUBSET (Kinds \X Actors \X Nat \X Nat)
PROOF BY KeyType DEF Keys

LEMMA FactsOfType ==
  ASSUME NEW s \in StepType, NEW e \in EffectType
  PROVE  /\ FactsOf(s, e) \in Seq(FactType) /\ Len(FactsOf(s, e)) = Len(e.news)
         /\ \A i \in 1..Len(FactsOf(s, e)) : FactsOf(s, e)[i].tick = s.tick /\ FactsOf(s, e)[i].phase = s.phase
PROOF
<1> DEFINE told == e.news
<1>1. told \in Seq(FactKinds)
  BY DEF EffectType
<1>2. FactsOf(s, e) = [i \in DOMAIN told |-> [tick |-> s.tick, phase |-> s.phase, what |-> told[i], step |-> Key(s)]]
  BY DEF FactsOf
<1>3. s.tick \in Nat /\ s.phase \in Phases /\ Key(s) \in Kinds \X Actors \X Nat \X Nat
  BY KeyType DEF StepType
<1> HIDE DEF told
<1>4. DOMAIN told = 1..Len(told) /\ Len(told) \in Nat /\ \A i \in 1..Len(told) : told[i] \in FactKinds
  BY <1>1
<1>5. \A i \in 1..Len(told) :
        [tick |-> s.tick, phase |-> s.phase, what |-> told[i], step |-> Key(s)] \in FactType
  BY <1>3, <1>4 DEF FactType
<1> QED BY <1>2, <1>4, <1>5 DEF told

LEMMA InitTypes == Init => TypeOK /\ Casts
PROOF
<1> SUFFICES ASSUME Init PROVE TypeOK /\ Casts
  OBVIOUS
<1>1. FirstSteps(profile) \subseteq StepType /\ FirstWorld(profile) \in WorldType
  BY FirstStepsType, FirstWorldType
<1>2. rows \in SUBSET [step : StepType, status : Statuses]
  BY <1>1 DEF Init, Statuses
<1>3. keys \in SUBSET (Kinds \X Actors \X Nat \X Nat)
  BY <1>1, KeysType DEF Init
<1>4. NoAct \in ActType /\ <<>> \in Seq(FactType)
  BY DEF ActType
<1>5. TypeOK
  BY <1>1, <1>2, <1>3, <1>4 DEF Init, Idle, TypeOK
<1>6. profile = "trial" => Pending \subseteq TrialSteps
  BY DEF Init, Pending, StepsWith, FirstSteps
<1>7. Casts
  BY <1>6, FirstCast DEF Init, Idle, Casts
<1> QED BY <1>5, <1>7

LEMMA BeginTypes ==
  ASSUME TypeOK, Casts, NEW a \in PlayerActions, BeginTurn(a)
  PROVE  TypeOK' /\ Casts'
PROOF
<1> DEFINE p == ActionSpec(a)
           open == {s \in Pending : Key(s) \notin Keys(Settled)}
           steps == open \cup (IF HasCompletion(p) THEN {Completion(p)} ELSE {})
<1>1. a \in ActionType
  BY AdvanceAssumption
<1>2. p \in ActType
  BY <1>1 DEF ActionSpec, ActionType, ActType, TypeOK
<1>3. steps \in SUBSET StepType /\ \A s \in steps : s \in Pending \/ s = Completion(p)
  BY <1>2, PendingType, CompletionType
<1>4. /\ act' = p /\ work' = Loaded
      /\ queue' = {s \in steps : s.tick <= p.end} /\ later' = {s \in steps : s.tick > p.end}
      /\ known' = Keys(Settled) \cup Keys(steps)
      /\ UNCHANGED <<profile, stored, closed, toggles, done, news, cut>>
  BY DEF BeginTurn
<1> HIDE DEF p, steps
<1>5. known' \in SUBSET (Kinds \X Actors \X Nat \X Nat)
  BY <1>3, <1>4, KeysType, PendingType
<1>6. Loaded \in WorldType
  <2>1. world \in WorldType
    BY DEF TypeOK
  <2>2. TrialRoutes \subseteq Places \X Places
    BY DEF TrialRoutes, TrialPath, Places
  <2> QED BY <2>1, <2>2 DEF Loaded, WorldType
<1>7. TypeOK'
  BY <1>2, <1>3, <1>4, <1>5, <1>6 DEF TypeOK, stored
<1>8. Pending' = Pending
  BY <1>4 DEF Pending, StepsWith, stored
<1>9. Casts'
  BY <1>2, <1>3, <1>4, <1>8, CompletionType DEF Casts
<1> QED BY <1>7, <1>9
LEMMA RunTypes ==
  ASSUME TypeOK, Casts, NEW s \in queue, RunStep(s)
  PROVE  TypeOK' /\ Casts'
PROOF
<1> DEFINE e == ApplyStep(work, s)
           fresh == Fresh(e.derived)
           taken == {s} \cup (IF Interrupts(s, e) THEN {Completion(act)} ELSE {})
           told == FactsOf(s, e)
<1>1. s \in StepType /\ act \in ActType
  BY DEF TypeOK
<1>2. e.status \in Outcomes /\ Take(s, e) /\ UNCHANGED <<profile, stored, closed, toggles, act>>
  BY DEF RunStep
<1>3. e.status # "raises"
  BY <1>2 DEF Outcomes
<1>4. e \in EffectType /\ (profile = "trial" => \A d \in e.derived : Cast(d))
  BY <1>3, StepEffect
<1> HIDE DEF e
<1>5. e.world \in WorldType /\ fresh \in SUBSET StepType /\ fresh \subseteq e.derived
  BY <1>4 DEF EffectType, Fresh
<1>6. taken \in SUBSET StepType
  BY <1>1, CompletionType
<1>7. told \in Seq(FactType)
  BY <1>1, <1>4, FactsOfType
<1>8. /\ work' = e.world
      /\ queue' = (queue \cup {d \in fresh : d.tick <= act.end}) \ taken
      /\ later' = later \cup {d \in fresh : d.tick > act.end}
      /\ known' = known \cup Keys(fresh)
      /\ done' = done \cup {[step |-> s, status |-> e.status]}
                      \cup {[step |-> t, status |-> "cancelled"] : t \in taken \ {s}}
      /\ news' = news \o told
      /\ cut' = IF Interrupts(s, e) THEN s.tick ELSE cut
  BY <1>2 DEF Take
<1> HIDE DEF fresh, taken, told
<1>9. queue' \in SUBSET StepType /\ later' \in SUBSET StepType
  BY <1>5, <1>8 DEF TypeOK
<1>10. known' \in SUBSET (Kinds \X Actors \X Nat \X Nat)
  BY <1>5, <1>8, KeysType DEF TypeOK
<1>11. done' \in SUBSET [step : StepType, status : Outcomes]
  <2>1. "cancelled" \in Outcomes
    BY DEF Outcomes
  <2> QED BY <1>1, <1>2, <1>6, <1>8, <2>1 DEF TypeOK
<1>12. news' \in Seq(FactType)
  BY <1>7, <1>8, ConcatProperties DEF TypeOK
<1>13. cut' \in Nat
  BY <1>1, <1>8 DEF TypeOK, StepType
<1>14. TypeOK'
  BY <1>2, <1>5, <1>8, <1>9, <1>10, <1>11, <1>12, <1>13 DEF TypeOK, stored
<1>15. Pending' = Pending /\ profile' = profile
  BY <1>2 DEF Pending, StepsWith, stored
<1>16. Casts'
  BY <1>4, <1>5, <1>8, <1>15 DEF Casts
<1> QED BY <1>14, <1>16

LEMMA ReadBackType ==
  ASSUME NEW w \in WorldType
  PROVE  ReadBack(w) \in WorldType /\ ReadBack(w).plan = w.plan
PROOF
<1> DEFINE g == [a \in Npcs |-> IF profile = "trial" THEN 0
                               ELSE IF w.plan[a].status = "none" THEN InitialGoal[a]
                               ELSE w.plan[a].goal]
<1>1. \A a \in Npcs : w.plan[a].goal \in Nat
  BY WorldFields DEF PlanType
<1>2. g \in [Npcs -> Nat]
  BY <1>1, StoryAssumption
<1>3. ReadBack(w) = [w EXCEPT !.choices = {}, !.goal = g]
  BY DEF ReadBack
<1> HIDE DEF g
<1> QED BY <1>2, <1>3 DEF WorldType

LEMMA RowsAfterType ==
  ASSUME TypeOK, NEW pending \in SUBSET (queue \cup later)
  PROVE  RowsAfter(pending) \in SUBSET [step : StepType, status : Statuses]
PROOF
<1>1. \A o \in Kept : o.step \in StepType
  BY DEF Kept, TypeOK
<1>2. \A st : Terminal(st) \in Statuses
  BY DEF Terminal, Statuses
<1>3. pending \subseteq StepType /\ "pending" \in Statuses
  BY DEF TypeOK, Statuses
<1> QED BY <1>1, <1>2, <1>3 DEF RowsAfter, TypeOK

LEMMA RowsAfterPending ==
  ASSUME NEW pending
  PROVE  /\ \A r \in RowsAfter(pending) :
              \/ r \in rows /\ \A o \in Kept : Key(o.step) # Key(r.step)
              \/ \E o \in Kept : r = [step |-> o.step, status |-> Terminal(o.status)]
              \/ /\ r.step \in pending /\ r.status = "pending"
                 /\ \A q \in rows : Key(q.step) # Key(r.step)
         /\ \A r \in rows : (\A o \in Kept : Key(o.step) # Key(r.step)) => r \in RowsAfter(pending)
         /\ \A o \in Kept : [step |-> o.step, status |-> Terminal(o.status)] \in RowsAfter(pending)
         /\ \A s \in pending : (\A q \in rows : Key(q.step) # Key(s))
              => [step |-> s, status |-> "pending"] \in RowsAfter(pending)
PROOF
<1> DEFINE kept == {r \in rows : \A o \in Kept : Key(o.step) # Key(r.step)}
           ended == {[step |-> o.step, status |-> Terminal(o.status)] : o \in Kept}
           fresh == {t \in pending : Key(t) \notin {Key(r.step) : r \in rows}}
           begun == {[step |-> s, status |-> "pending"] : s \in fresh}
<1>1. RowsAfter(pending) = kept \cup ended \cup begun
  BY DEF RowsAfter
<1>2. \A t : t \in fresh <=> t \in pending /\ \A q \in rows : Key(q.step) # Key(t)
  OBVIOUS
<1>3. \A r \in begun : r.step \in fresh /\ r.status = "pending"
  OBVIOUS
<1>4. \A s \in fresh : [step |-> s, status |-> "pending"] \in begun
  OBVIOUS
<1>5. \A r : r \in ended <=> \E o \in Kept : r = [step |-> o.step, status |-> Terminal(o.status)]
  OBVIOUS
<1>6. \A r : r \in kept <=> r \in rows /\ \A o \in Kept : Key(o.step) # Key(r.step)
  OBVIOUS
<1> HIDE DEF kept, ended, begun, fresh
<1> QED BY <1>1, <1>2, <1>3, <1>4, <1>5, <1>6

LEMMA CommitTypes ==
  ASSUME TypeOK, Casts, Commit
  PROVE  TypeOK' /\ Casts'
PROOF
<1> DEFINE pending == {s \in queue \cup later : s.tick > StopsAt}
<1>1. /\ tick' = StopsAt /\ cursor' = cursor + Len(news) /\ keys' = Keys(pending)
      /\ world' = ReadBack(work) /\ rows' = RowsAfter(pending) /\ facts' = facts \o news
      /\ EndTurn /\ UNCHANGED <<profile, closed, toggles>>
  BY DEF Commit
<1>2. pending \in SUBSET (queue \cup later) /\ pending \in SUBSET StepType
  BY DEF TypeOK
<1> HIDE DEF pending
<1>3. StopsAt \in Nat
  BY DEF StopsAt, TypeOK, ActType, NoAct
<1>4. Len(news) \in Nat
  BY DEF TypeOK
<1>5. facts' \in Seq(FactType)
  BY <1>1, ConcatProperties DEF TypeOK
<1>6. /\ world' \in WorldType /\ keys' \in SUBSET (Kinds \X Actors \X Nat \X Nat)
      /\ rows' \in SUBSET [step : StepType, status : Statuses]
  BY <1>1, <1>2, ReadBackType, KeysType, RowsAfterType DEF TypeOK
<1>7. NoAct \in ActType /\ <<>> \in Seq(FactType) /\ FirstWorld(profile) \in WorldType
  BY FirstWorldType DEF ActType
<1>8. TypeOK'
  BY <1>1, <1>3, <1>4, <1>5, <1>6, <1>7 DEF TypeOK, EndTurn
<1>9. Pending' \subseteq Pending \cup queue \cup later
  <2> SUFFICES ASSUME NEW r \in rows', r.status = "pending" PROVE r.step \in Pending \cup queue \cup later
    BY DEF Pending, StepsWith
  <2>1. \A st : Terminal(st) # "pending"
    BY DEF Terminal
  <2> QED BY <1>1, <1>2, <2>1, RowsAfterPending DEF Pending, StepsWith
<1>10. Casts'
  BY <1>1, <1>9 DEF Casts, EndTurn
<1> QED BY <1>8, <1>10

LEMMA AbandonTypes ==
  ASSUME TypeOK, Casts, Abandon
  PROVE  TypeOK' /\ Casts'
PROOF
<1>1. NoAct \in ActType /\ <<>> \in Seq(FactType) /\ FirstWorld(profile) \in WorldType
  BY FirstWorldType DEF ActType
<1>2. EndTurn /\ UNCHANGED <<profile, stored, closed, toggles>>
  BY DEF Abandon
<1>3. Pending' = Pending
  BY <1>2 DEF Pending, StepsWith, stored
<1> QED BY <1>1, <1>2, <1>3 DEF TypeOK, Casts, EndTurn, stored

LEMMA ToggleTypes ==
  ASSUME TypeOK, Casts, NEW p \in Places, Toggle(p)
  PROVE  TypeOK' /\ Casts'
PROOF
<1>1. UNCHANGED <<profile, stored, running>> /\ toggles' = toggles + 1
      /\ closed' = IF p \in closed THEN closed \ {p} ELSE closed \cup {p}
  BY DEF Toggle
<1>2. Pending' = Pending
  BY <1>1 DEF Pending, StepsWith, stored
<1> QED BY <1>1, <1>2 DEF TypeOK, Casts, stored, running

LEMMA StutterTypes ==
  ASSUME TypeOK, Casts, UNCHANGED vars
  PROVE  TypeOK' /\ Casts'
PROOF
<1>1. Pending' = Pending
  BY DEF Pending, StepsWith, vars, stored
<1> QED BY <1>1 DEF TypeOK, Casts, vars, stored, running

LEMMA TypesStep ==
  ASSUME TypeOK, Casts, [Next]_vars
  PROVE  TypeOK' /\ Casts'
PROOF BY BeginTypes, RunTypes, CommitTypes, AbandonTypes, ToggleTypes, StutterTypes DEF Next

\* Types, whatever the story: the working state, the rows and the steps of a turn stay what
\* the code declares, in particular every step that a rule, a plan or an arrival derives is a
\* step for an actor of the cast at a tick and a phase.
THEOREM WorldTypes == Spec => []TypeOK
PROOF
<1>1. Init => TypeOK /\ Casts
  BY InitTypes
<1>2. TypeOK /\ Casts /\ [Next]_vars => (TypeOK /\ Casts)'
  BY TypesStep
<1> QED BY <1>1, <1>2, PTL DEF Spec
-----------------------------------------------------------------------------
(* What no handler touches.                                                 *)

\* the facts that tell of what only a rule does, that it fired, or that the player is
\* interrupted, and all others
Loud == {"flag_changed", "route_changed", "emitted", "content_rule_fired", "world_interrupt"}
Plain == FactKinds \ Loud
Unfired == FactKinds \ {"content_rule_fired"}

\* From state w to v player and flags stay, and no mark is lost.
Calm(w, v) == v.player = w.player /\ v.flags = w.flags /\ w.fired \subseteq v.fired
\* An effect that is calm and tells nothing loud.
Modest(w, e) == Calm(w, e.world) /\ e.news \in Seq(Plain) /\ ~e.interrupts

LEMMA PlainWords ==
  /\ <<>> \in Seq(Plain)
  /\ \A s \in Plain : <<s>> \in Seq(Plain)
  /\ \A s, t \in Plain : <<s, t>> \in Seq(Plain)
  /\ \A s, t \in Seq(Plain) : s \o t \in Seq(Plain)
  /\ \A s \in FactKinds \ Loud : s \in Plain
PROOF BY ConcatProperties DEF Plain

LEMMA ModestEffect ==
  ASSUME NEW w, NEW v, Calm(w, v), NEW told \in Seq(Plain), NEW status, NEW derived
  PROVE  /\ Modest(w, Effect(v, status, told, derived))
         /\ status = "applied" => Modest(w, Applied(v, told, derived))
PROOF BY DEF Modest, Effect, Applied

LEMMA StillModest ==
  ASSUME NEW w
  PROVE  /\ Calm(w, w) /\ Modest(w, Raises(w)) /\ Modest(w, Cancelled(w))
         /\ \A told \in Seq(Plain) : Modest(w, Refused(w, told))
PROOF
<1>1. Calm(w, w) /\ <<>> \in Seq(Plain)
  BY PlainWords DEF Calm
<1> QED BY <1>1, ModestEffect DEF Raises, Cancelled, Refused

LEMMA CalmTrans ==
  ASSUME NEW u, NEW v, NEW w, Calm(u, v), Calm(v, w)
  PROVE  Calm(u, w)
PROOF BY DEF Calm

LEMMA ModestAfter ==
  ASSUME NEW w, NEW v, Calm(w, v), NEW e, Modest(v, e)
  PROVE  Modest(w, e)
PROOF BY CalmTrans DEF Modest

LEMMA CalmFields ==
  ASSUME NEW w \in WorldType
  PROVE  /\ \A a, st : Calm(w, Become(w, a, st))
         /\ \A a, st, to, until, goal : Calm(w, Begin(w, a, st, to, until, goal))
         /\ \A a, g : Calm(w, [w EXCEPT !.goal[a] = g])
         /\ \A to : Calm(w, [w EXCEPT !.owner = to])
         /\ \A m : Calm(w, Mark(w, m))
         /\ \A s, a : Calm(w, Counted(w, s, a))
PROOF
<1>1. \A a, st : Calm(w, Become(w, a, st))
  BY DEF Become, Calm, WorldType
<1>2. \A a, st, to, until, goal : Calm(w, Begin(w, a, st, to, until, goal))
  BY DEF Begin, Calm, WorldType
<1>3. \A a, g : Calm(w, [w EXCEPT !.goal[a] = g])
  BY DEF Calm, WorldType
<1>4. \A to : Calm(w, [w EXCEPT !.owner = to])
  BY DEF Calm, WorldType
<1>5. \A m : Calm(w, Mark(w, m))
  BY DEF Calm, Mark, WorldType
<1>6. \A s, a : Calm(w, Counted(w, s, a))
  BY DEF Calm, Counted, WorldType
<1> QED BY <1>1, <1>2, <1>3, <1>4, <1>5, <1>6

LEMMA PlainNames ==
  /\ "npc_travel_failed" \in Plain /\ "plan_failed" \in Plain /\ "npc_travel_started" \in Plain
  /\ "npc_wait_started" \in Plain /\ "item_acquired" \in Plain /\ "item_take_failed" \in Plain
  /\ "item_used" \in Plain /\ "item_use_failed" \in Plain /\ "plan_selected" \in Plain
  /\ "plan_achieved" \in Plain /\ "plan_blocked" \in Plain /\ "npc_arrived" \in Plain
  /\ "npc_wait_completed" \in Plain /\ "step_blocked" \in Plain
  /\ "player_action_completed" \in Plain /\ "player_move_completed" \in Plain
PROOF BY DEF Plain, FactKinds, Loud

LEMMA StartModest ==
  ASSUME NEW w \in WorldType, NEW s, NEW a, NEW to, NEW ticks, NEW goal
  PROVE  Modest(w, StartMove(w, s, a, to, ticks, goal)) /\ Modest(w, StartWait(w, s, a, to, ticks, goal))
PROOF
<1> DEFINE told == <<"npc_travel_failed">>
                     \o (IF w.plan[a].status = "none" THEN <<>> ELSE <<"plan_failed">>)
<1>1. <<>> \in Seq(Plain) /\ told \in Seq(Plain)
  BY PlainWords, PlainNames
<1>2. <<"npc_travel_started">> \in Seq(Plain) /\ <<"npc_wait_started">> \in Seq(Plain)
  BY PlainWords, PlainNames
<1>3. TravelFailure(w, a) = Effect(Become(w, a, "failed"), "blocked", told, {})
  BY DEF TravelFailure, Refused
<1> HIDE DEF told
<1>4. Modest(w, TravelFailure(w, a))
  BY <1>1, <1>3, CalmFields, ModestEffect
<1>5. \A status, t, until, derived :
        /\ Modest(w, Applied(Begin(w, a, status, t, until, goal), <<"npc_travel_started">>, derived))
        /\ Modest(w, Applied(Begin(w, a, status, t, until, goal), <<"npc_wait_started">>, derived))
  BY <1>2, CalmFields, ModestEffect
<1>6. Modest(w, Refused(w, <<>>))
  BY <1>1, StillModest
<1> QED BY <1>4, <1>5, <1>6 DEF StartMove, StartWait

LEMMA ItemModest ==
  ASSUME NEW w \in WorldType, NEW s, NEW to, NEW a
  PROVE  Modest(w, Transfer(w, s, to)) /\ Modest(w, UseItem(w, a))
PROOF
<1>1. /\ <<"item_acquired">> \in Seq(Plain) /\ <<"item_take_failed">> \in Seq(Plain)
      /\ <<"item_used">> \in Seq(Plain) /\ <<"item_use_failed">> \in Seq(Plain)
  BY PlainWords, PlainNames
<1>2. Calm(w, [w EXCEPT !.owner = to]) /\ Calm(w, Mark(w, Used(a)))
  BY CalmFields
<1>3. /\ Modest(w, Applied([w EXCEPT !.owner = to], <<"item_acquired">>, {}))
      /\ Modest(w, Applied(Mark(w, Used(a)), <<"item_used">>, {}))
  BY <1>1, <1>2, ModestEffect
<1>4. Modest(w, Refused(w, <<"item_take_failed">>)) /\ Modest(w, Refused(w, <<"item_use_failed">>))
  BY <1>1, StillModest
<1> QED BY <1>3, <1>4 DEF Transfer, UseItem

LEMMA ActionModest ==
  ASSUME NEW w \in WorldType, NEW s \in StepType, NEW a \in Npcs, NEW action, NEW to, NEW ticks,
         NEW goal \in Nat
  PROVE  Modest(w, StartAction(w, s, a, action, to, ticks, goal))
PROOF
<1> DEFINE v == Begin(w, a, "active", None, s.tick, goal)
<1>1. s.tick \in Nat /\ "active" \in PlanStatuses
  BY DEF StepType, PlanStatuses
<1>2. v \in WorldType /\ Calm(w, v)
  BY <1>1, BeginFields, CalmFields
<1>3. StartItem(w, s, a, action, goal)
        = CASE action = "take" -> Transfer(v, s, a)
            [] action = "use" -> UseItem(v, a)
            [] OTHER -> Transfer(v, s, w.at[a])
  BY DEF StartItem
<1> HIDE DEF v
<1>4. Modest(v, StartItem(w, s, a, action, goal))
  BY <1>2, <1>3, ItemModest
<1>5. Modest(w, StartItem(w, s, a, action, goal))
  BY <1>2, <1>4, ModestAfter
<1> QED BY <1>5, StartModest DEF StartAction

LEMMA ToldModest ==
  ASSUME NEW w, NEW e, Modest(w, e)
  PROVE  Modest(w, Told(e))
PROOF
<1>1. <<"plan_selected">> \o e.news \in Seq(Plain)
  BY PlainWords, PlainNames DEF Modest
<1>2. Calm(w, e.world)
  BY DEF Modest
<1> QED BY <1>1, <1>2, ModestEffect DEF Told

LEMMA DecideModest ==
  ASSUME NEW w \in WorldType, NEW s \in StepType, NEW a \in Npcs, NEW goals \in SUBSET DOMAIN Goals
  PROVE  Modest(w, Decide(w, s, a, goals))
PROOF
<1> DEFINE candidates == Candidates(w, a, goals)
           hours == OpenSchedules(a, s.tick)
           words == IF w.plan[a].status = "achieved" THEN <<>> ELSE <<"plan_achieved">>
<1>1. candidates \in SUBSET DOMAIN Goals
  BY DEF Candidates
<1>2. ASSUME NEW g \in DOMAIN Goals PROVE Modest(w, Pursue(w, s, a, g))
  <2> DEFINE v == [w EXCEPT !.goal[a] = g]
  <2>1. g \in Nat
    BY StoryParts
  <2>2. v \in WorldType /\ Calm(w, v)
    BY <2>1, GoalFields, CalmFields
  <2>3. \E action, to, ticks : Pursue(w, s, a, g) = Told(StartAction(v, s, a, action, to, ticks, g))
    BY DEF Pursue
  <2> HIDE DEF v
  <2>4. \A action, to, ticks : Modest(w, StartAction(v, s, a, action, to, ticks, g))
    BY <2>1, <2>2, ActionModest, ModestAfter
  <2> QED BY <2>3, <2>4, ToldModest
<1>3. ASSUME NEW i PROVE Modest(w, FollowSchedule(w, s, a, i))
  <2> DEFINE v == [w EXCEPT !.goal[a] = 0]
  <2>1. v \in WorldType /\ Calm(w, v)
    BY GoalFields, CalmFields
  <2>2. FollowSchedule(w, s, a, i)
          = Told(IF w.at[a] = Schedules[i].place
                 THEN StartWait(v, s, a, None, Schedules[i].window, 0)
                 ELSE StartMove(v, s, a, Schedules[i].place, TravelTicks(w, a, Schedules[i].place), 0))
    BY DEF FollowSchedule
  <2> HIDE DEF v
  <2>3. \A to, ticks : Modest(v, StartWait(v, s, a, to, ticks, 0)) /\ Modest(v, StartMove(v, s, a, to, ticks, 0))
    BY <2>1, StartModest
  <2>4. \A to, ticks : Modest(w, StartWait(v, s, a, to, ticks, 0)) /\ Modest(w, StartMove(v, s, a, to, ticks, 0))
    BY <2>1, <2>3, ModestAfter
  <2> QED BY <2>2, <2>4, ToldModest
<1>4. words \in Seq(Plain) /\ <<"plan_blocked">> \in Seq(Plain)
  BY PlainWords, PlainNames
<1>5. Decide(w, s, a, goals)
        = IF w.goal[a] \in DOMAIN Goals /\ AllHold(w, Goals[w.goal[a]].done)
          THEN Applied(Become(w, a, "achieved"), words, {})
          ELSE IF candidates # {} THEN Pursue(w, s, a, Best(candidates))
          ELSE IF hours # {} /\ CanFollow(w, a, FirstOf(hours))
            THEN FollowSchedule(w, s, a, FirstOf(hours))
          ELSE Applied(Become(w, a, "blocked"), <<"plan_blocked">>, {})
  BY DEF Decide
<1> HIDE DEF candidates, hours, words
<1>6. candidates # {} => Modest(w, Pursue(w, s, a, Best(candidates)))
  BY <1>1, <1>2, BestType
<1>7. /\ Modest(w, Applied(Become(w, a, "achieved"), words, {}))
      /\ Modest(w, Applied(Become(w, a, "blocked"), <<"plan_blocked">>, {}))
  BY <1>4, CalmFields, ModestEffect
<1> QED BY <1>3, <1>5, <1>6, <1>7

LEMMA ReevaluateModest ==
  ASSUME NEW w \in WorldType, NEW s \in StepType, NEW a \in Npcs, NEW goals \in SUBSET DOMAIN Goals
  PROVE  Modest(w, Reevaluate(w, s, a, goals))
PROOF
<1>1. Counted(w, s, a) \in WorldType
  BY KeyType DEF Counted, WorldType
<1>2. Modest(Counted(w, s, a), Decide(Counted(w, s, a), s, a, goals))
  BY <1>1, DecideModest
<1>3. Modest(w, Decide(Counted(w, s, a), s, a, goals))
  BY <1>2, CalmFields, ModestAfter
<1> QED BY <1>3, StillModest DEF Reevaluate

LEMMA AndReevaluateModest ==
  ASSUME NEW w \in WorldType, NEW s \in StepType, s.actor \in Npcs, NEW status,
         NEW told \in Seq(Plain), NEW derived
  PROVE  Modest(w, AndReevaluate(w, s, status, told, derived))
PROOF
<1> DEFINE e == Reevaluate(w, s, s.actor, DOMAIN Goals)
<1>1. Modest(w, e)
  BY ReevaluateModest
<1>2. AndReevaluate(w, s, status, told, derived)
        = IF e.status = "raises" THEN e ELSE Effect(e.world, status, told \o e.news, derived \cup e.derived)
  BY DEF AndReevaluate
<1> HIDE DEF e
<1>3. told \o e.news \in Seq(Plain) /\ Calm(w, e.world)
  BY <1>1, PlainWords DEF Modest
<1> QED BY <1>1, <1>2, <1>3, ModestEffect
-----------------------------------------------------------------------------
(* What a rule touches.                                                     *)

\* the player is interrupted: it is told
Tolls(told) == \E i \in DOMAIN told : told[i] = "world_interrupt"
\* the flags that an effect, or a group of them, may raise
Raised(e) == IF e.type = "flag" /\ e.yes THEN {e.flag} ELSE {}
RaisedIn(group) == UNION {Raised(group[i]) : i \in DOMAIN group}

\* An effect that may be loud: player and marks stay, an interruption is told, only the flags
\* F are raised, and if it fails it is modest.
Rash(w, e, F) ==
  /\ e.world.player = w.player /\ w.fired \subseteq e.world.fired
  /\ e.world.flags \subseteq w.flags \cup F
  /\ e.news \in Seq(Unfired)
  /\ e.interrupts \in BOOLEAN /\ (e.interrupts <=> Tolls(e.news))
  /\ e.status # "applied" => Modest(w, e)

LEMMA PlainTold ==
  ASSUME NEW told \in Seq(Plain)
  PROVE  told \in Seq(Unfired) /\ ~Tolls(told) /\ \A i \in DOMAIN told : told[i] \in Plain
PROOF
<1>1. \A i \in DOMAIN told : told[i] \in Plain
  OBVIOUS
<1>2. Plain \subseteq Unfired /\ "world_interrupt" \notin Plain
  BY DEF Plain, Unfired, Loud
<1>3. told \in Seq(Unfired)
  BY <1>2
<1> QED BY <1>1, <1>2, <1>3 DEF Tolls

LEMMA ModestRash ==
  ASSUME NEW w, NEW e, Modest(w, e), e.interrupts \in BOOLEAN, NEW F
  PROVE  Rash(w, e, F)
PROOF BY PlainTold DEF Rash, Modest, Calm

LEMMA TollsConcat ==
  ASSUME NEW f \in Seq(FactKinds), NEW g \in Seq(FactKinds)
  PROVE  Tolls(f \o g) <=> Tolls(f) \/ Tolls(g)
PROOF
<1>1. /\ Len(f \o g) = Len(f) + Len(g) /\ Len(f) \in Nat /\ Len(g) \in Nat
      /\ \A i \in 1..Len(f \o g) : (f \o g)[i] = IF i <= Len(f) THEN f[i] ELSE g[i - Len(f)]
      /\ f \o g \in Seq(FactKinds)
  BY ConcatProperties, LenProperties
<1>2. DOMAIN f = 1..Len(f) /\ DOMAIN g = 1..Len(g) /\ DOMAIN (f \o g) = 1..(Len(f) + Len(g))
  BY <1>1, LenProperties
<1>3. ASSUME Tolls(f) PROVE Tolls(f \o g)
  <2>1. PICK i \in DOMAIN f : f[i] = "world_interrupt"
    BY <1>3 DEF Tolls
  <2>2. i \in DOMAIN (f \o g) /\ (f \o g)[i] = f[i]
    BY <1>1, <1>2
  <2> QED BY <2>1, <2>2 DEF Tolls
<1>4. ASSUME Tolls(g) PROVE Tolls(f \o g)
  <2>1. PICK i \in DOMAIN g : g[i] = "world_interrupt"
    BY <1>4 DEF Tolls
  <2>2. Len(f) + i \in DOMAIN (f \o g) /\ (f \o g)[Len(f) + i] = g[i]
    BY <1>1, <1>2
  <2> QED BY <2>1, <2>2 DEF Tolls
<1>5. ASSUME Tolls(f \o g) PROVE Tolls(f) \/ Tolls(g)
  <2>1. PICK i \in DOMAIN (f \o g) : (f \o g)[i] = "world_interrupt"
    BY <1>5 DEF Tolls
  <2>2. CASE i <= Len(f)
    <3>1. i \in DOMAIN f /\ f[i] = "world_interrupt"
      BY <1>1, <1>2, <2>1, <2>2
    <3> QED BY <3>1 DEF Tolls
  <2>3. CASE i > Len(f)
    <3>1. i - Len(f) \in DOMAIN g /\ g[i - Len(f)] = "world_interrupt"
      BY <1>1, <1>2, <2>1, <2>3
    <3> QED BY <3>1 DEF Tolls
  <2> QED BY <1>1, <1>2, <2>2, <2>3
<1> QED BY <1>3, <1>4, <1>5

LEMMA LoudWords ==
  /\ <<"flag_changed">> \in Seq(Unfired) /\ ~Tolls(<<"flag_changed">>)
  /\ <<"route_changed">> \in Seq(Unfired) /\ ~Tolls(<<"route_changed">>)
  /\ <<"emitted">> \in Seq(Unfired) /\ ~Tolls(<<"emitted">>)
  /\ <<"world_interrupt">> \in Seq(Unfired) /\ Tolls(<<"world_interrupt">>)
PROOF
<1>1. \A x \in FactKinds \ {"content_rule_fired"} : <<x>> \in Seq(Unfired)
  BY DEF Unfired
<1>2. {"flag_changed", "route_changed", "emitted", "world_interrupt"} \subseteq FactKinds \ {"content_rule_fired"}
  BY DEF FactKinds
<1>3. \A x : DOMAIN <<x>> = {1} /\ <<x>>[1] = x
  OBVIOUS
<1> QED BY <1>1, <1>2, <1>3 DEF Tolls

LEMMA ApplyEffectRash ==
  ASSUME NEW w \in WorldType, NEW s \in StepType, NEW e, Accepted(e)
  PROVE  Rash(w, ApplyEffect(w, s, e), Raised(e))
PROOF
<1> DEFINE f == ApplyEffect(w, s, e)
<1>0. e \in Effects
  BY DEF Accepted
<1>a. f.interrupts \in BOOLEAN
  BY ApplyEffectFollows DEF Follows, EffectType
<1>b. ASSUME Modest(w, f) PROVE Rash(w, f, Raised(e))
  BY <1>a, <1>b, ModestRash
<1>1. CASE e.type = "flag"
  <2> DEFINE v == [w EXCEPT !.flags = IF e.yes THEN @ \cup {e.flag} ELSE @ \ {e.flag}]
  <2>1. f = Applied(v, <<"flag_changed">>, {})
    BY <1>1 DEF ApplyEffect, SetFlag
  <2>2. v.player = w.player /\ v.fired = w.fired /\ v.flags \subseteq w.flags \cup Raised(e)
    BY <1>1 DEF WorldType, Raised
  <2> HIDE DEF v
  <2>3. f.world = v /\ f.news = <<"flag_changed">> /\ f.status = "applied" /\ f.interrupts = FALSE
    BY <2>1 DEF Applied, Effect
  <2> QED BY <2>2, <2>3, LoudWords DEF Rash
<1>2. CASE e.type = "route"
  <2> DEFINE route == <<e.from, e.to>>
             v == [w EXCEPT !.open = IF e.yes THEN @ \cup {route} ELSE @ \ {route}]
  <2>1. CASE route \notin DOMAIN Travel
    <3>1. f = Refused(w, <<>>)
      BY <1>2, <2>1 DEF ApplyEffect, SetRoute
    <3>2. Modest(w, f)
      BY <3>1, StillModest, PlainWords
    <3> QED BY <1>b, <3>2
  <2>2. CASE route \in DOMAIN Travel
    <3>1. f = Applied(v, <<"route_changed">>, {})
      BY <1>2, <2>2 DEF ApplyEffect, SetRoute
    <3>2. v.player = w.player /\ v.fired = w.fired /\ v.flags = w.flags
      BY DEF WorldType
    <3> HIDE DEF v
    <3>3. f.world = v /\ f.news = <<"route_changed">> /\ f.status = "applied" /\ f.interrupts = FALSE
      BY <3>1 DEF Applied, Effect
    <3> QED BY <3>2, <3>3, LoudWords DEF Rash
  <2> QED BY <2>1, <2>2
<1>3. CASE e.type = "action"
  <2>1. w.goal[e.actor] \in Nat /\ e.actor \in Npcs
    BY <1>0, <1>3, EffectFields, WorldFields
  <2>2. f = StartAction(w, s, e.actor, e.action, e.to, e.ticks, w.goal[e.actor])
    BY <1>3 DEF ApplyEffect
  <2>3. Modest(w, f)
    BY <2>1, <2>2, ActionModest
  <2> QED BY <1>b, <2>3
<1>4. CASE e.type = "plan"
  <2> DEFINE v == [w EXCEPT !.goal[e.actor] = e.goal]
  <2>1. e.actor \in Npcs /\ e.goal \in Nat /\ {e.goal} \in SUBSET DOMAIN Goals
    BY <1>0, <1>4, EffectFields DEF Accepted
  <2>2. v \in WorldType /\ Calm(w, v)
    BY <2>1, GoalFields, CalmFields
  <2>3. f = Reevaluate(v, s, e.actor, {e.goal})
    BY <1>4 DEF ApplyEffect, StartPlan
  <2> HIDE DEF v
  <2>4. Modest(v, Reevaluate(v, s, e.actor, {e.goal}))
    BY <2>1, <2>2, ReevaluateModest
  <2>5. Modest(w, f)
    BY <2>2, <2>3, <2>4, ModestAfter
  <2> QED BY <1>b, <2>5
<1>5. CASE e.type = "transfer"
  <2>1. Modest(w, f)
    BY <1>5, ItemModest DEF ApplyEffect
  <2> QED BY <1>b, <2>1
<1>6. CASE e.type = "use"
  <2>1. Modest(w, f)
    BY <1>6, ItemModest DEF ApplyEffect
  <2> QED BY <1>b, <2>1
<1>7. CASE e.type = "interrupt"
  <2>1. f = [Applied(w, <<"world_interrupt">>, {}) EXCEPT !.interrupts = TRUE]
    BY <1>7 DEF ApplyEffect, Interrupt
  <2>2. f.world = w /\ f.news = <<"world_interrupt">> /\ f.status = "applied" /\ f.interrupts = TRUE
    BY <2>1 DEF Applied, Effect
  <2> QED BY <2>2, LoudWords DEF Rash
<1>8. CASE e.type = "emit"
  <2>1. f = Applied(w, <<"emitted">>, {})
    BY <1>8 DEF ApplyEffect
  <2>2. f.world = w /\ f.news = <<"emitted">> /\ f.status = "applied" /\ f.interrupts = FALSE
    BY <2>1 DEF Applied, Effect
  <2> QED BY <2>2, LoudWords DEF Rash
<1>9. CASE e.type \notin {"flag", "route", "action", "plan", "transfer", "use", "interrupt", "emit"}
  <2>1. f = ScheduleRule(w, s, e)
    BY <1>9 DEF ApplyEffect
  <2>2. Modest(w, Raises(w)) /\ \A d : Modest(w, Applied(w, <<>>, d))
    BY StillModest, ModestEffect, PlainWords
  <2>3. Modest(w, f)
    BY <2>1, <2>2 DEF ScheduleRule
  <2> QED BY <1>b, <2>3
<1> QED BY <1>1, <1>2, <1>3, <1>4, <1>5, <1>6, <1>7, <1>8, <1>9

LEMMA ThenRash ==
  ASSUME NEW w \in WorldType, NEW s \in StepType, NEW group,
         \A i \in 1..Len(group) : Accepted(group[i]), Len(group) \in Nat, DOMAIN group = 1..Len(group),
         NEW so_far, so_far \in EffectType, Rash(w, so_far, RaisedIn(group)), NEW n \in Nat \ {0}
  PROVE  Rash(w, Then(w, s, group, so_far, n), RaisedIn(group))
PROOF
<1> DEFINE e == ApplyEffect(so_far.world, s, group[n])
           told == so_far.news \o e.news
           derived == so_far.derived \cup e.derived
           interrupts == so_far.interrupts \/ e.interrupts
           g == [e EXCEPT !.news = told, !.derived = derived, !.interrupts = interrupts]
           F == RaisedIn(group)
<1>1. so_far.world \in WorldType
  BY DEF EffectType
<1>2. Then(w, s, group, so_far, n)
        = IF n > Len(group) \/ so_far.status # "applied" THEN so_far
          ELSE IF e.status = "applied" THEN g
          ELSE Effect(w, e.status, e.news, {})
  BY DEF Then, Undone
<1>3. CASE n > Len(group) \/ so_far.status # "applied"
  BY <1>2, <1>3
<1>4. CASE n <= Len(group) /\ so_far.status = "applied"
  <2>1. Accepted(group[n]) /\ Raised(group[n]) \subseteq F
    BY <1>4 DEF RaisedIn
  <2>2. Rash(so_far.world, e, Raised(group[n])) /\ e \in EffectType
    BY <1>1, <2>1, ApplyEffectRash, ApplyEffectFollows DEF Follows
  <2> HIDE DEF e, F
  <2>3. CASE e.status = "applied"
    <3>1. so_far.news \in Seq(Unfired) /\ e.news \in Seq(Unfired)
      BY <2>2 DEF Rash
    <3>2. told \in Seq(Unfired)
      BY <3>1, ConcatProperties
    <3>3. Tolls(told) <=> Tolls(so_far.news) \/ Tolls(e.news)
      BY <2>2, TollsConcat DEF EffectType
    <3>4. interrupts <=> Tolls(told)
      BY <2>2, <3>3 DEF Rash
    <3>5. interrupts \in BOOLEAN
      BY <2>2 DEF Rash
    <3>6. g.world = e.world /\ g.news = told /\ g.interrupts = interrupts /\ g.status = "applied"
      BY <2>2, <2>3 DEF EffectType
    <3> HIDE DEF g, told, interrupts
    <3>7. /\ e.world.player = w.player /\ w.fired \subseteq e.world.fired
          /\ e.world.flags \subseteq w.flags \cup F
      BY <2>1, <2>2 DEF Rash, F
    <3>8. Rash(w, g, F)
      BY <3>2, <3>4, <3>5, <3>6, <3>7 DEF Rash
    <3> QED BY <1>2, <1>4, <2>3, <3>8 DEF F
  <2>4. CASE e.status # "applied"
    <3>1. e.news \in Seq(Plain)
      BY <2>2, <2>4 DEF Rash, Modest
    <3>2. Modest(w, Effect(w, e.status, e.news, {}))
      BY <3>1, ModestEffect, StillModest
    <3>3. Effect(w, e.status, e.news, {}).interrupts \in BOOLEAN
      BY DEF Effect
    <3>4. Rash(w, Effect(w, e.status, e.news, {}), F)
      BY <3>2, <3>3, ModestRash
    <3> QED BY <1>2, <1>4, <2>4, <3>4 DEF F
  <2> QED BY <2>3, <2>4
<1>5. n > Len(group) \/ n <= Len(group)
  OBVIOUS
<1> QED BY <1>3, <1>4, <1>5

LEMMA GroupRash ==
  ASSUME NEW w \in WorldType, NEW s \in StepType, NEW group,
         \A i \in 1..Len(group) : Accepted(group[i]), Len(group) \in Nat, DOMAIN group = 1..Len(group)
  PROVE  Rash(w, Group(w, s, group), RaisedIn(group))
PROOF
<1> DEFINE e0 == Applied(w, <<>>, {})
           e1 == Then(w, s, group, e0, 1)
           e2 == Then(w, s, group, e1, 2)
<1>0. Group(w, s, group) = Then(w, s, group, e2, 3)
  BY DEF Group, MaxEffects
<1>1. Follows(w, e0) /\ Rash(w, e0, RaisedIn(group))
  <2>1. Modest(w, e0) /\ e0.interrupts \in BOOLEAN
    BY StillModest, ModestEffect, PlainWords DEF Applied, Effect
  <2> QED BY <2>1, AppliedFollows, Words, ModestRash
<1> HIDE DEF e0
<1>2. e0 \in EffectType
  BY <1>1 DEF Follows
<1>3. Follows(w, e1) /\ Rash(w, e1, RaisedIn(group))
  BY <1>1, <1>2, ThenFollows, ThenRash
<1> HIDE DEF e1
<1>4. e1 \in EffectType
  BY <1>3 DEF Follows
<1>5. Follows(w, e2) /\ Rash(w, e2, RaisedIn(group))
  BY <1>3, <1>4, ThenFollows, ThenRash
<1> HIDE DEF e2
<1>6. e2 \in EffectType
  BY <1>5 DEF Follows
<1>7. Rash(w, Then(w, s, group, e2, 3), RaisedIn(group))
  BY <1>5, <1>6, ThenRash
<1> QED BY <1>0, <1>7

\* Step s fires its rule: for the first time, and that is the last it tells.
Fires(w, s, e) ==
  /\ e.status = "applied" /\ s.ref \in DOMAIN Rules
  /\ Consumed(s.ref, s.tick) \notin w.fired /\ Consumed(s.ref, s.tick) \in e.world.fired
  /\ \E told \in Seq(Unfired) : e.news = told \o <<"content_rule_fired">>
  /\ e.world.flags \subseteq w.flags \cup RaisedBy(s.ref)

\* What a step of any kind does: no mark is lost, an interruption is told, only the end of the
\* player's action moves the player, and what is loud beyond an interruption is a rule that fires.
Framed(w, s, e) ==
  /\ w.fired \subseteq e.world.fired
  /\ e.interrupts <=> Tolls(e.news)
  /\ s.kind # Completing => e.world.player = w.player
  /\ \/ e.news \in Seq(Plain \cup {"world_interrupt"}) /\ e.world.flags = w.flags
     \/ profile # "trial" /\ Fires(w, s, e)

LEMMA ModestFramed ==
  ASSUME NEW w, NEW s, NEW e, Modest(w, e)
  PROVE  Framed(w, s, e)
PROOF
<1>1. e.news \in Seq(Plain \cup {"world_interrupt"}) /\ ~Tolls(e.news)
  BY PlainTold DEF Modest
<1> QED BY <1>1 DEF Framed, Modest, Calm

LEMMA FireRuleFramed ==
  ASSUME profile # "trial", NEW w \in WorldType, NEW s \in StepType
  PROVE  Framed(w, s, FireRule(w, s))
PROOF
<1> DEFINE m == Consumed(s.ref, s.tick)
           v == Mark(w, m)
           group == Rules[s.ref].do
           e == Group(v, s, group)
           told == e.news \o <<"content_rule_fired">>
           g == [e EXCEPT !.news = told]
<1>1. CASE s.ref \notin DOMAIN Rules
  <2>1. FireRule(w, s) = Raises(w)
    BY <1>1 DEF FireRule
  <2> QED BY <2>1, StillModest, ModestFramed
<1>2. CASE s.ref \in DOMAIN Rules
  <2>1. m \in Marks
    BY DEF Consumed, FiredOnce, FiredAt, Marks, StepType, Actors
  <2>2. v \in WorldType /\ Calm(w, v) /\ m \in v.fired
    BY <2>1, MarkFields, CalmFields DEF Mark, WorldType
  <2>3. FireRule(w, s) = IF m \in w.fired THEN Cancelled(w)
                         ELSE IF ~AllHold(v, Rules[s.ref].if) THEN Cancelled(v)
                         ELSE IF e.status = "applied" THEN g
                         ELSE e
    BY <1>2 DEF FireRule
  <2>4. /\ \A i \in 1..Len(group) : Accepted(group[i])
        /\ Len(group) \in Nat /\ DOMAIN group = 1..Len(group)
    BY <1>2, RuleParts
  <2>5. RaisedIn(group) \subseteq RaisedBy(s.ref)
    BY DEF RaisedIn, Raised, RaisedBy
  <2> HIDE DEF m, v, group
  <2>6. Follows(v, e) /\ Rash(v, e, RaisedIn(group))
    BY <2>2, <2>4, GroupFollows, GroupRash
  <2> HIDE DEF e
  <2>7. e \in EffectType
    BY <2>6 DEF Follows
  <2>8. CASE m \in w.fired
    <3>1. FireRule(w, s) = Cancelled(w)
      BY <2>3, <2>8
    <3> QED BY <3>1, StillModest, ModestFramed
  <2>9. CASE m \notin w.fired /\ ~AllHold(v, Rules[s.ref].if)
    <3>1. FireRule(w, s) = Cancelled(v)
      BY <2>3, <2>9
    <3>2. Modest(w, Cancelled(v))
      BY <2>2, StillModest, ModestAfter
    <3> QED BY <3>1, <3>2, ModestFramed
  <2>10. CASE m \notin w.fired /\ AllHold(v, Rules[s.ref].if) /\ e.status # "applied"
    <3>1. FireRule(w, s) = e
      BY <2>3, <2>10
    <3>2. Modest(v, e)
      BY <2>6, <2>10 DEF Rash
    <3>3. Modest(w, e)
      BY <2>2, <3>2, ModestAfter
    <3> QED BY <3>1, <3>3, ModestFramed
  <2>11. CASE m \notin w.fired /\ AllHold(v, Rules[s.ref].if) /\ e.status = "applied"
    <3>1. FireRule(w, s) = g
      BY <2>3, <2>11
    <3>2. /\ e.news \in Seq(Unfired) /\ e.news \in Seq(FactKinds)
          /\ e.interrupts <=> Tolls(e.news)
          /\ e.world.player = v.player /\ v.fired \subseteq e.world.fired
          /\ e.world.flags \subseteq v.flags \cup RaisedIn(group)
      BY <2>6, <2>7 DEF Rash, EffectType
    <3>3. <<"content_rule_fired">> \in Seq(FactKinds) /\ ~Tolls(<<"content_rule_fired">>)
      <4>1. "content_rule_fired" \in FactKinds
        BY DEF FactKinds
      <4>2. DOMAIN <<"content_rule_fired">> = {1} /\ <<"content_rule_fired">>[1] = "content_rule_fired"
        OBVIOUS
      <4> QED BY <4>1, <4>2 DEF Tolls
    <3>4. Tolls(told) <=> Tolls(e.news)
      BY <3>2, <3>3, TollsConcat
    <3>5. told = e.news \o <<"content_rule_fired">>
      OBVIOUS
    <3> HIDE DEF told
    <3>6. g.world = e.world /\ g.news = told /\ g.status = "applied" /\ g.interrupts = e.interrupts
      BY <2>7, <2>11 DEF EffectType
    <3> HIDE DEF g
    <3>7. Fires(w, s, g)
      BY <1>2, <2>2, <2>5, <2>11, <3>2, <3>5, <3>6 DEF Fires, m, Calm
    <3>8. w.fired \subseteq g.world.fired /\ g.world.player = w.player
      BY <2>2, <3>2, <3>6 DEF Calm
    <3> QED BY <3>1, <3>2, <3>4, <3>6, <3>7, <3>8 DEF Framed
  <2> QED BY <2>8, <2>9, <2>10, <2>11
<1> QED BY <1>1, <1>2

LEMMA FailsModest ==
  ASSUME NEW w \in WorldType, NEW s \in StepType, s.actor \in Npcs
  PROVE  Modest(w, Fails(w, s))
PROOF
<1> DEFINE v == Become(w, s.actor, "failed")
           told == <<"npc_travel_failed", "plan_failed">>
<1>1. "failed" \in PlanStatuses \ UnderWay /\ "blocked" \in EffectStatuses
  BY StatusNames DEF PlanStatuses, UnderWay
<1>2. v \in WorldType /\ Calm(w, v)
  BY <1>1, BecomeFollows, CalmFields, Words
<1>3. told \in Seq(Plain)
  BY PlainWords, PlainNames
<1>4. Fails(w, s) = AndReevaluate(v, s, "blocked", told, {})
  BY DEF Fails
<1> HIDE DEF v, told
<1> QED BY <1>2, <1>3, <1>4, AndReevaluateModest, ModestAfter

LEMMA PlanStepsModest ==
  ASSUME NEW w \in WorldType, NEW s \in StepType
  PROVE  Modest(w, ContentSchedule(w, s)) /\ Modest(w, ContentArrive(w, s)) /\ Modest(w, ContentWaited(w, s))
PROOF
<1>1. Modest(w, ContentSchedule(w, s))
  <2>1. s.actor \in Npcs => Modest(w, AndReevaluate(w, s, "applied", <<>>, {}))
    BY AndReevaluateModest, PlainWords
  <2> QED BY <2>1, StillModest DEF ContentSchedule
<1>a. "active" \in PlanStatuses \ UnderWay /\ "applied" \in EffectStatuses
  BY StatusNames DEF PlanStatuses, UnderWay
<1>b. <<"npc_arrived">> \in Seq(Plain) /\ <<"npc_wait_completed">> \in Seq(Plain)
  BY PlainWords, PlainNames
<1>2. Modest(w, ContentArrive(w, s))
  <2> DEFINE a == s.actor
             to == w.plan[a].to
             u == Become(w, a, "active")
             v == Reached(w, a, to)
             rules == CompletionRules(a, "move", to, s.tick)
  <2>1. CASE ~Expected(w, s, "traveling")
    BY <2>1, StillModest DEF ContentArrive
  <2>2. CASE Expected(w, s, "traveling") /\ (w.at[a] # s.from \/ ~IsOpen(w, w.at[a], to))
    <3>1. a \in Npcs
      BY <2>2 DEF Expected
    <3>2. ContentArrive(w, s) = Fails(w, s)
      BY <2>2 DEF ContentArrive
    <3> QED BY <3>1, <3>2, FailsModest
  <2>3. CASE Expected(w, s, "traveling") /\ w.at[a] = s.from /\ IsOpen(w, w.at[a], to)
    <3>1. a \in Npcs
      BY <2>3 DEF Expected
    <3>2. ContentArrive(w, s) = AndReevaluate(v, s, "applied", <<"npc_arrived">>, rules)
      BY <2>3 DEF ContentArrive
    <3>3. <<w.at[a], to>> \in Places \X Places
      BY <2>3 DEF IsOpen, WorldType
    <3>4. u \in WorldType /\ Calm(w, u)
      BY <1>a, <3>1, BecomeFollows, CalmFields, Words
    <3>5. v = [u EXCEPT !.at[a] = to]
      BY DEF Reached
    <3> HIDE DEF rules, u, v, to
    <3>6. v \in WorldType /\ Calm(u, v)
      BY <3>1, <3>3, <3>4, <3>5 DEF WorldType, Calm
    <3>7. Modest(v, AndReevaluate(v, s, "applied", <<"npc_arrived">>, rules))
      BY <1>b, <3>1, <3>6, AndReevaluateModest
    <3> QED BY <3>2, <3>4, <3>6, <3>7, CalmTrans, ModestAfter
  <2> QED BY <2>1, <2>2, <2>3
<1>3. Modest(w, ContentWaited(w, s))
  <2> DEFINE a == s.actor
             v == Become(w, a, "active")
             rules == CompletionRules(a, "idle", w.at[a], s.tick)
  <2>1. CASE ~Expected(w, s, "waiting")
    BY <2>1, StillModest DEF ContentWaited
  <2>2. CASE Expected(w, s, "waiting") /\ w.at[a] # s.from
    <3>1. a \in Npcs
      BY <2>2 DEF Expected
    <3>2. ContentWaited(w, s) = Fails(w, s)
      BY <2>2 DEF ContentWaited
    <3> QED BY <3>1, <3>2, FailsModest
  <2>3. CASE Expected(w, s, "waiting") /\ w.at[a] = s.from
    <3>1. a \in Npcs
      BY <2>3 DEF Expected
    <3>2. ContentWaited(w, s) = AndReevaluate(v, s, "applied", <<"npc_wait_completed">>, rules)
      BY <2>3 DEF ContentWaited
    <3>3. v \in WorldType /\ Calm(w, v)
      BY <1>a, <3>1, BecomeFollows, CalmFields, Words
    <3> HIDE DEF rules, v
    <3>4. Modest(v, AndReevaluate(v, s, "applied", <<"npc_wait_completed">>, rules))
      BY <1>b, <3>1, <3>3, AndReevaluateModest
    <3> QED BY <3>2, <3>3, <3>4, ModestAfter
  <2> QED BY <2>1, <2>2, <2>3
<1> QED BY <1>1, <1>2, <1>3

\* An effect that is calm but for the place of the player.
LEMMA CompletionFramed ==
  ASSUME NEW w, NEW v, v.flags = w.flags, w.fired \subseteq v.fired, NEW s, s.kind = Completing,
         NEW told \in Seq(Plain), NEW status, NEW derived
  PROVE  Framed(w, s, Effect(v, status, told, derived))
PROOF
<1> DEFINE e == Effect(v, status, told, derived)
<1>1. e.world = v /\ e.news = told /\ e.interrupts = FALSE
  BY DEF Effect
<1>2. told \in Seq(Plain \cup {"world_interrupt"}) /\ ~Tolls(told)
  BY PlainTold
<1> HIDE DEF e
<1>3. Framed(w, s, e)
  BY <1>1, <1>2 DEF Framed
<1> QED BY <1>3 DEF e

LEMMA ContentStepFramed ==
  ASSUME profile # "trial", NEW w \in WorldType, NEW s \in StepType, NEW p
  PROVE  Framed(w, s, ContentStep(w, s, p))
PROOF
<1>1. CASE s.kind = "content_rule_fire"
  BY <1>1, FireRuleFramed DEF ContentStep
<1>2. CASE s.kind = "schedule"
  BY <1>2, PlanStepsModest, ModestFramed DEF ContentStep
<1>3. CASE s.kind = "npc_travel_arrive"
  BY <1>3, PlanStepsModest, ModestFramed DEF ContentStep
<1>4. CASE s.kind = "npc_wait_complete"
  BY <1>4, PlanStepsModest, ModestFramed DEF ContentStep
<1>5. CASE s.kind = "player_continuous_complete"
  <2>1. ContentStep(w, s, p) = ContentComplete(w, s, p) /\ s.kind = Completing
    BY <1>5 DEF ContentStep, Completing
  <2>2. <<"player_action_completed">> \in Seq(Plain) /\ <<"player_move_completed">> \in Seq(Plain)
    BY PlainWords, PlainNames
  <2>3. \A to : [w EXCEPT !.player = to].flags = w.flags /\ [w EXCEPT !.player = to].fired = w.fired
    BY DEF WorldType
  <2>4. \A d : Framed(w, s, Effect(w, "applied", <<"player_action_completed">>, d))
    BY <2>1, <2>2, CompletionFramed
  <2>5. ASSUME NEW to, NEW d
        PROVE  Framed(w, s, Effect([w EXCEPT !.player = to], "applied", <<"player_move_completed">>, d))
    BY <2>1, <2>2, <2>3, CompletionFramed
  <2>6. Framed(w, s, Refused(w, <<>>))
    BY StillModest, ModestFramed, PlainWords
  <2> QED BY <2>1, <2>4, <2>5, <2>6 DEF ContentComplete, Applied
<1>6. CASE s.kind \notin {"content_rule_fire", "schedule", "npc_travel_arrive",
                          "npc_wait_complete", "player_continuous_complete"}
  BY <1>6, StillModest, ModestFramed DEF ContentStep
<1> QED BY <1>1, <1>2, <1>3, <1>4, <1>5, <1>6

LEMMA TrialStepFramed ==
  ASSUME NEW w \in WorldType, NEW s \in StepType, Cast(s), NEW p
  PROVE  Framed(w, s, TrialStep(w, s, p))
PROOF
<1>1. Modest(w, TrialBlocked(w))
  BY StillModest, PlainWords, PlainNames DEF TrialBlocked
<1>2. CASE s.kind = "npc_travel_start"
  <2> DEFINE plan == [status |-> "traveling", gen |-> s.tick, from |-> s.from, to |-> s.to,
                      until |-> s.until, goal |-> 0]
             v == [w EXCEPT !.plan[s.actor] = plan]
  <2>1. Calm(w, v)
    BY DEF Calm, WorldType
  <2>2. \E d : TrialStart(w, s) \in {TrialBlocked(w), Applied(v, <<"npc_travel_started">>, d)}
    BY DEF TrialStart
  <2> HIDE DEF v
  <2>3. <<"npc_travel_started">> \in Seq(Plain)
    BY PlainWords, PlainNames
  <2>4. \A d : Modest(w, Applied(v, <<"npc_travel_started">>, d))
    BY <2>1, <2>3, ModestEffect
  <2>5. Modest(w, TrialStart(w, s))
    BY <1>1, <2>2, <2>4
  <2> QED BY <1>2, <2>5, ModestFramed DEF TrialStep
<1>3. CASE s.kind = "npc_travel_arrive"
  <2> DEFINE u(st) == [w EXCEPT !.plan[s.actor].status = st]
             v == [u("arrived") EXCEPT !.at[s.actor] = w.plan[s.actor].to]
  <2>1. \A st : Calm(w, u(st))
    BY DEF Calm, WorldType
  <2>2. Calm(w, v)
    BY DEF Calm, WorldType
  <2>3. \/ TrialArrive(w, s) = TrialBlocked(w)
        \/ \E st : TrialArrive(w, s) = TrialBlocked(u(st))
        \/ TrialArrive(w, s) = Applied(v, <<"npc_arrived">>, {})
    BY DEF TrialArrive
  <2> HIDE DEF u, v
  <2>4. <<"npc_arrived">> \in Seq(Plain) /\ <<"step_blocked">> \in Seq(Plain)
    BY PlainWords, PlainNames
  <2>5. /\ Modest(w, Applied(v, <<"npc_arrived">>, {}))
        /\ \A st : Modest(w, TrialBlocked(u(st)))
    BY <2>1, <2>2, <2>4, ModestEffect DEF TrialBlocked, Refused
  <2>6. Modest(w, TrialArrive(w, s))
    BY <1>1, <2>3, <2>5
  <2> QED BY <1>3, <2>6, ModestFramed DEF TrialStep
<1>4. CASE s.kind = "npc_take_item"
  <2>1. <<"item_acquired">> \in Seq(Plain) /\ <<"item_take_failed">> \in Seq(Plain)
    BY PlainWords, PlainNames
  <2>2. Modest(w, Applied([w EXCEPT !.owner = s.actor], <<"item_acquired">>, {}))
    BY <2>1, CalmFields, ModestEffect
  <2>3. Modest(w, Refused(w, <<"item_take_failed">>))
    BY <2>1, StillModest
  <2>4. Modest(w, TrialTake(w, s))
    BY <1>1, <2>2, <2>3 DEF TrialTake
  <2> QED BY <1>4, <2>4, ModestFramed DEF TrialStep
<1>5. CASE s.kind = "npc_use_item"
  <2>1. <<"item_used">> \in Seq(Plain) /\ <<"item_use_failed">> \in Seq(Plain)
    BY PlainWords, PlainNames
  <2>2. Modest(w, Applied(Mark(w, Used(s.actor)), <<"item_used">>, {}))
    BY <2>1, CalmFields, ModestEffect
  <2>3. Modest(w, Refused(w, <<"item_use_failed">>)) /\ Modest(w, Cancelled(w))
    BY <2>1, StillModest
  <2>4. Modest(w, TrialUse(w, s))
    BY <2>2, <2>3 DEF TrialUse
  <2> QED BY <1>5, <2>4, ModestFramed DEF TrialStep
<1>6. CASE s.kind = "environment_interrupt"
  <2> DEFINE v == Mark(w, Bell)
             e == [Applied(v, <<"world_interrupt">>, {}) EXCEPT !.interrupts = TRUE]
  <2>1. TrialStep(w, s, p) = IF Bell \in w.fired THEN Cancelled(w) ELSE e
    BY <1>6 DEF TrialStep, TrialBell
  <2>2. Framed(w, s, Cancelled(w))
    BY StillModest, ModestFramed
  <2>3. Calm(w, v)
    BY CalmFields
  <2> HIDE DEF v
  <2>4. e.world = v /\ e.news = <<"world_interrupt">> /\ e.interrupts = TRUE
    BY DEF Applied, Effect
  <2> HIDE DEF e
  <2>5. <<"world_interrupt">> \in Seq(Plain \cup {"world_interrupt"}) /\ Tolls(<<"world_interrupt">>)
    BY LoudWords
  <2>6. Framed(w, s, e)
    BY <2>3, <2>4, <2>5 DEF Framed, Calm
  <2> QED BY <2>1, <2>2, <2>6
<1>7. CASE s.kind = "player_continuous_complete"
  <2>1. TrialStep(w, s, p) = TrialComplete(w, p) /\ s.kind = Completing
    BY <1>7 DEF TrialStep, Completing
  <2>2. <<"player_action_completed">> \in Seq(Plain) /\ <<"player_move_completed">> \in Seq(Plain)
    BY PlainWords, PlainNames
  <2>3. \A to : [w EXCEPT !.player = to].flags = w.flags /\ [w EXCEPT !.player = to].fired = w.fired
    BY DEF WorldType
  <2>4. \A d : Framed(w, s, Effect(w, "applied", <<"player_action_completed">>, d))
    BY <2>1, <2>2, CompletionFramed
  <2>5. ASSUME NEW to, NEW d
        PROVE  Framed(w, s, Effect([w EXCEPT !.player = to], "applied", <<"player_move_completed">>, d))
    BY <2>1, <2>2, <2>3, CompletionFramed
  <2>6. Framed(w, s, TrialBlocked(w))
    BY <1>1, ModestFramed
  <2> QED BY <2>1, <2>4, <2>5, <2>6 DEF TrialComplete, Applied
<1>8. CASE s.kind \notin {"npc_travel_start", "npc_travel_arrive", "npc_take_item", "npc_use_item",
                          "environment_interrupt", "player_continuous_complete"}
  BY <1>8, StillModest, ModestFramed DEF TrialStep
<1> QED BY <1>2, <1>3, <1>4, <1>5, <1>6, <1>7, <1>8

\* What a step that a turn takes touches.
LEMMA StepFramed ==
  ASSUME TypeOK, Casts, NEW s \in queue
  PROVE  Framed(work, s, Doing(s))
PROOF
<1>1. work \in WorldType /\ s \in StepType
  BY DEF TypeOK
<1>2. CASE profile = "trial"
  <2>1. Cast(s)
    BY <1>2 DEF Casts
  <2> QED BY <1>1, <1>2, <2>1, TrialStepFramed DEF Doing, ApplyStep
<1>3. CASE profile # "trial"
  BY <1>1, <1>3, ContentStepFramed DEF Doing, ApplyStep
<1> QED BY <1>2, <1>3
=============================================================================
