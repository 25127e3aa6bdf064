---------------------------- MODULE WorldAdvance ----------------------------
(***************************************************************************)
(* Advancing the simulated world by one turn of a player.                  *)
(*                                                                         *)
(* A turn loads the world's rows into a working state (load_simulation_    *)
(* context, load_content_runtime_context), lets WorldAdvancer.advance take *)
(* every step that is due until the player's action ends, and writes the   *)
(* result in its one transaction (apply_simulation_advance,                *)
(* apply_content_advance).  An interruption cuts the action short.  A turn *)
(* that fails anywhere writes nothing.                                     *)
(*                                                                         *)
(* The turns of a session follow one another (TurnClaim).  A world belongs *)
(* to one profile, the trial's or that of a content pack.  Administration  *)
(* opens and closes places of the trial world at any time; of a content    *)
(* pack every definition is frozen.                                        *)
(***************************************************************************)
EXTENDS TrialRules, ContentRules

CONSTANTS
  PlayerActions, \* what the player may do: how, for how long, where to, refused or not
  MaxSteps, \* steps of one advance (256)
  Horizon, \* bound: no turn begins at or after this tick
  MaxToggles \* bound: changes of the trial's places by administration

ActKinds == {"idle", "move", "instant"}
ActionType == [kind : ActKinds, minutes : Nat \ {0}, to : Places \cup {None}, refused : BOOLEAN]
ASSUME AdvanceAssumption ==
  /\ PlayerActions \subseteq ActionType
  /\ MaxSteps \in Nat /\ Horizon \in Nat /\ MaxToggles \in Nat

VARIABLES
  profile, \* of the world: "trial" or "content"
  tick, \* logical_tick of the run state
  cursor, \* next_event_seq of the run state
  keys, \* pending_steps of the run state of a content pack
  world, \* what the rows say of player, NPCs, item, flags, routes and marks
  rows, \* scheduled_events
  facts, \* game_events of the engine, in order
  closed, \* places of the trial world that administration has closed
  toggles, \* how often it has changed one
  act, \* the player's action of the running turn, or NoAct
  work, \* the working state
  queue, later, \* steps due within the action, steps after it
  known, \* keys of all steps seen
  done, \* outcomes of the steps taken
  news, \* the engine's facts of the turn
  cut \* tick of the interruption, 0 if there was none

stored == <<tick, cursor, keys, world, rows, facts>>
running == <<act, work, queue, later, known, done, news, cut>>
vars == <<profile, stored, closed, toggles, running>>

-----------------------------------------------------------------------------
Statuses == {"pending", "triggered", "cancelled"}
Outcomes == {"applied", "blocked", "cancelled"}
FactType == [tick : Nat, phase : Phases, what : FactKinds, step : Kinds \X Actors \X Nat \X Nat]
NoAct == [kind |-> "none", start |-> 0, end |-> 0, to |-> None, refused |-> FALSE]
ActType == [kind : ActKinds, start : Nat, end : Nat, to : Places \cup {None}, refused : BOOLEAN]
           \cup {NoAct}

StepsWith(status) == {r.step : r \in {q \in rows : q.status = status}}
Pending == StepsWith("pending")
Settled == StepsWith("triggered") \cup StepsWith("cancelled")

FirstSteps(p) == IF p = "trial" THEN TrialSteps ELSE ContentSteps
FirstWorld(p) == IF p = "trial" THEN TrialBeginning ELSE ContentBeginning

\* between two turns there is nothing in memory
Idle ==
  /\ act = NoAct /\ work = FirstWorld(profile) /\ queue = {} /\ later = {}
  /\ known = {} /\ done = {} /\ news = <<>> /\ cut = 0

\* the rows a session starts with: the baseline of the trial, an instance of the pack
Init ==
  /\ profile \in {"trial", "content"}
  /\ tick = 0 /\ cursor = 0
  /\ keys = Keys(FirstSteps(profile))
  /\ world = FirstWorld(profile)
  /\ rows = {[step |-> s, status |-> "pending"] : s \in FirstSteps(profile)}
  /\ facts = <<>> /\ closed = {} /\ toggles = 0
  /\ Idle

-----------------------------------------------------------------------------
(* A turn.                                                                  *)

\* what loading accepts: the cursor of the trial counts its facts, the run state of a pack
\* names its pending rows, and nothing pending is in the past
Readable ==
  /\ profile = "trial" => cursor = Len(facts)
  /\ profile = "content" => keys = Keys(Pending)
  /\ \A s \in Pending : Key(s) \notin Keys(Settled) => tick < s.tick

\* the routes of the trial are the access rules of the places they lead to
Loaded ==
  IF profile = "trial" THEN [world EXCEPT !.open = {r \in TrialRoutes : r[2] \notin closed}]
  ELSE world

\* build_player_action_spec, player_completion_step
ActionSpec(a) == [kind |-> a.kind, start |-> tick, end |-> tick + a.minutes,
             to |-> a.to, refused |-> a.refused]
HasCompletion(p) == p.kind \in {"idle", "move"} /\ ~p.refused
Completion(p) == Step(p.end, PlayerContinuous, "player", "player_continuous_complete", 0)

BeginTurn(a) ==
  LET p == ActionSpec(a)
      steps == {s \in Pending : Key(s) \notin Keys(Settled)}
               \cup (IF HasCompletion(p) THEN {Completion(p)} ELSE {})
  IN /\ act = NoAct /\ tick < Horizon
     /\ Readable
     /\ act' = p
     /\ work' = Loaded
     /\ queue' = {s \in steps : s.tick <= p.end}
     /\ later' = {s \in steps : s.tick > p.end}
     /\ known' = Keys(Settled) \cup Keys(steps)
     /\ UNCHANGED <<profile, stored, closed, toggles, done, news, cut>>

ApplyStep(w, s) ==
  IF profile = "trial" THEN TrialStep(w, s, act) ELSE ContentStep(w, s, act)

\* a derived step follows its source, and it is new
InOrder(s, d) == s.tick < d.tick \/ (s.tick = d.tick /\ s.phase <= d.phase)
Fresh(derived) == {d \in derived : Key(d) \notin known}

\* an interruption takes the completion of the player's action off the queue
Interrupts(s, e) ==
  e.interrupts /\ HasCompletion(act) /\ Completion(act) \in queue \ {s}
FactsOf(s, e) ==
  [i \in DOMAIN e.news |->
     [tick |-> s.tick, phase |-> s.phase, what |-> e.news[i], step |-> Key(s)]]

\* what taking step s changes, given its effect e
Take(s, e) ==
  LET fresh == Fresh(e.derived)
      taken == {s} \cup (IF Interrupts(s, e) THEN {Completion(act)} ELSE {})
  IN /\ work' = e.world
     /\ queue' = (queue \cup {d \in fresh : d.tick <= act.end}) \ taken
     /\ later' = later \cup {d \in fresh : d.tick > act.end}
     /\ known' = known \cup Keys(fresh)
     /\ done' = done \cup {[step |-> s, status |-> e.status]}
                     \cup {[step |-> t, status |-> "cancelled"] : t \in taken \ {s}}
     /\ news' = news \o FactsOf(s, e)
     /\ cut' = IF Interrupts(s, e) THEN s.tick ELSE cut

\* mutant: the loop goes on after an interruption
Due_AfterCut(s) == IsFirst(s, queue)
\* the first step due, unless the action was cut short before it
Due(s) == IsFirst(s, queue) /\ (cut # 0 => s.tick <= cut)
RunStep(s) ==
  LET e == ApplyStep(work, s)
  IN /\ act # NoAct /\ Due(s)
     /\ e.status \in Outcomes
     /\ \A d \in e.derived : InOrder(s, d) /\ act.start < d.tick
     /\ Take(s, e)
     /\ Cardinality(done') <= MaxSteps
     /\ UNCHANGED <<profile, stored, closed, toggles, act>>

\* mutant: the outcome is written as it is
Terminal_AsItIs(status) == status
\* _SCHEDULED_TERMINAL_STATUS
Terminal(status) == IF status = "applied" THEN "triggered" ELSE "cancelled"
\* the steps that have rows: the completion of an action never gets one
Kept == {o \in done : o.step.kind # "player_continuous_complete"}
\* mutant: steps derived in the turn get no row
RowsAfter_OldOnly(pending) ==
  {r \in rows : \A o \in Kept : Key(o.step) # Key(r.step)}
  \cup {[step |-> o.step, status |-> Terminal(o.status)] : o \in Kept}
\* a row is found by its key
RowsAfter(pending) ==
  {r \in rows : \A o \in Kept : Key(o.step) # Key(r.step)}
  \cup {[step |-> o.step, status |-> Terminal(o.status)] : o \in Kept}
  \cup {[step |-> s, status |-> "pending"] :
          s \in {t \in pending : Key(t) \notin {Key(r.step) : r \in rows}}}

\* mutant: the marks are not written
ReadBack_Unmarked(w) == [w EXCEPT !.choices = {}, !.fired = {}]
\* what the rows will say: the counts of choices are not kept, and the goal of an NPC with
\* a plan is the goal of the plan, that of another one the initial goal
ReadBack(w) ==
  [w EXCEPT !.choices = {},
            !.goal = [a \in Npcs |-> IF profile = "trial" THEN 0
                                     ELSE IF w.plan[a].status = "none" THEN InitialGoal[a]
                                     ELSE w.plan[a].goal]]

EndTurn ==
  /\ act' = NoAct /\ work' = FirstWorld(profile) /\ queue' = {} /\ later' = {}
  /\ known' = {} /\ done' = {} /\ news' = <<>> /\ cut' = 0

\* mutant: the clock moves to the end that was planned
StopsAt_AsPlanned == act.end
StopsAt == IF cut # 0 THEN cut ELSE act.end
Commit ==
  LET pending == {s \in queue \cup later : s.tick > StopsAt}
  IN /\ act # NoAct /\ \A s \in queue : ~Due(s)
     /\ tick' = StopsAt
     /\ cursor' = cursor + Len(news)
     /\ keys' = Keys(pending)
     /\ world' = ReadBack(work)
     /\ rows' = RowsAfter(pending)
     /\ facts' = facts \o news
     /\ EndTurn
     /\ UNCHANGED <<profile, closed, toggles>>

\* a stage fails, the process dies, a step raises or the budget is spent
Abandon ==
  /\ act # NoAct
  /\ EndTurn
  /\ UNCHANGED <<profile, stored, closed, toggles>>

\* an update of a location's access_rules; turns do not notice it
Toggle(p) ==
  /\ profile = "trial" /\ toggles < MaxToggles
  /\ toggles' = toggles + 1
  /\ closed' = IF p \in closed THEN closed \ {p} ELSE closed \cup {p}
  /\ UNCHANGED <<profile, stored, running>>

Next ==
  \/ \E a \in PlayerActions : BeginTurn(a)
  \/ \E s \in queue : RunStep(s)
  \/ Commit
  \/ Abandon
  \/ \E p \in Places : Toggle(p)

Spec == Init /\ [][Next]_vars
-----------------------------------------------------------------------------
(* Properties.                                                              *)

\* Types: of the rows, of the working state and of everything a turn holds.
TypeOK ==
  /\ profile \in {"trial", "content"}
  /\ tick \in Nat /\ cursor \in Nat /\ toggles \in Nat
  /\ world \in WorldType /\ work \in WorldType
  /\ rows \in SUBSET [step : StepType, status : Statuses]
  /\ done \in SUBSET [step : StepType, status : Outcomes]
  /\ queue \in SUBSET StepType /\ later \in SUBSET StepType
  /\ keys \in SUBSET (Kinds \X Actors \X Nat \X Nat)
  /\ known \in SUBSET (Kinds \X Actors \X Nat \X Nat)
  /\ facts \in Seq(FactType) /\ news \in Seq(FactType)
  /\ closed \in SUBSET Places /\ act \in ActType /\ cut \in Nat

AllFacts == facts \o news
Before(f, g) == f.tick < g.tick \/ (f.tick = g.tick /\ f.phase <= g.phase)

\* The facts of the engine are written in the order in which they happened, and a world
\* that stands at a tick knows no later ones: the kernel sorts its queue again after every
\* step, and the handlers derive steps of the tick at hand.
FactsInOrder ==
  /\ \A i \in 1..(Len(AllFacts) - 1) : Before(AllFacts[i], AllFacts[i + 1])
  /\ \A i \in DOMAIN facts : facts[i].tick <= tick

\* What a turn has committed the next one can load: the cursor, the names of the pending
\* steps and the rows, written at different places, agree.
StaysReadable == Readable /\ cursor = Len(facts)

\* An NPC that is under way arrives: its plan has one pending row, of its generation and
\* at its tick.
EndOf(status) == IF status = "traveling" THEN "npc_travel_arrive" ELSE "npc_wait_complete"
EndsOf(a) ==
  {s \in Pending : /\ s.kind = EndOf(world.plan[a].status) /\ s.actor = a
                   /\ s.ref = world.plan[a].gen /\ s.tick = world.plan[a].until}
PlansAreExpected ==
  \A a \in Npcs : world.plan[a].status \in UnderWay => Cardinality(EndsOf(a)) = 1

\* A rule fires once for each occurrence, and a rule that is once per instance fires once,
\* over all turns: its mark goes through the rows and back.
FiredFacts == {i \in DOMAIN AllFacts : AllFacts[i].what = "content_rule_fired"}
RulesFireOnce ==
  \A i, j \in FiredFacts :
    (i # j /\ AllFacts[i].step[3] = AllFacts[j].step[3])
      => /\ ~Rules[AllFacts[i].step[3]].once
         /\ AllFacts[i].tick # AllFacts[j].tick

\* The effects of a rule happen together or not at all: whatever a rule changes is followed
\* by the fact that the rule fired, and a flag that is up was raised by a rule that fired.
RaisedBy(r) ==
  {Rules[r].do[i].flag :
     i \in {n \in DOMAIN Rules[r].do : Rules[r].do[n].type = "flag" /\ Rules[r].do[n].yes}}
EffectsTogether ==
  /\ \A i \in DOMAIN AllFacts :
       AllFacts[i].what \in {"flag_changed", "route_changed", "emitted"}
         => \E j \in FiredFacts : i < j /\ AllFacts[i].step = AllFacts[j].step
  /\ \A f \in world.flags :
       \E i \in DOMAIN facts : i \in FiredFacts /\ f \in RaisedBy(facts[i].step[3])

\* Wherever the turns of the players cut it, and however often a turn is abandoned and
\* played again, the story of the trial has one course while its routes are open; and
\* when one closes, the token still goes to exactly one of the two.  That B ends at the
\* plaza is the code's timetable, which the tests and the specification of phase 4 share;
\* two comments in time_simulation_rules.py say that B arrives at the gate.
TrialTimetable ==
  profile = "trial" =>
    /\ world.owner = IF tick < 5 THEN "trial_peak"
                     ELSE IF world.at.npc_a = "trial_peak" THEN "npc_a" ELSE "npc_b"
    /\ Bell \in world.fired <=> tick >= 7
    /\ Used("npc_b") \in world.fired <=> world.owner = "npc_b" /\ tick >= 6
    /\ toggles = 0 => /\ world.at.npc_a = IF tick < 5 THEN "plaza" ELSE "trial_peak"
                      /\ world.at.npc_b = IF tick < 9 THEN "trial_peak" ELSE "plaza"

\* A plan may be given up or replaced while its arrival is pending (a schedule boundary
\* does not look whether the NPC is under way).  Such an arrival is never taken and never
\* dropped: every turn that would reach it fails, and the world's time stops before it.
Orphan(s) ==
  /\ profile = "content"
  /\ s.kind \in {"npc_travel_arrive", "npc_wait_complete"}
  /\ LET plan == world.plan[s.actor]
     IN plan.gen # s.ref \/ plan.status \notin UnderWay \/ EndOf(plan.status) # s.kind
OrphansStopTime ==
  [][\A s \in Pending : Orphan(s) => s \in Pending' /\ Orphan(s)' /\ tick' < s.tick]_vars

\* An action takes as long as it was to take, unless the world interrupts it before it is
\* completed: then the world stands at the tick of the interruption, the player has not
\* moved, and nothing of the rest of the action has happened.
NewFacts == {facts'[i] : i \in (Len(facts) + 1)..Len(facts')}
Rings == {f.tick : f \in {g \in NewFacts : g.what = "world_interrupt" /\ g.tick < act.end}}
CutShort ==
  [][tick' # tick =>
       IF HasCompletion(act) /\ Rings # {}
       THEN /\ \A t \in Rings : tick' <= t
            /\ tick' \in Rings
            /\ world'.player = world.player
            /\ \A f \in NewFacts : f.tick <= tick'
       ELSE tick' = act.end \/ (tick' = cut /\ cut = act.end)]_vars

\* The simulation keeps its agenda.
Agenda == INSTANCE WorldAgenda
            WITH Appointments <- StepType, now <- tick, open <- Pending, settled <- Settled
KeepsAgenda == Agenda!Spec
=============================================================================
