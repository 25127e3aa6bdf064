---------------------------- MODULE ContentRules ----------------------------
(***************************************************************************)
(* The rules of a content pack (profile content_v1): a published story is  *)
(* compiled into rules with conditions and effects, schedules, goals and   *)
(* routes, and CompiledContentRules interprets it step by step.            *)
(*                                                                         *)
(* A condition is a conjunction of literals; an effect group has at most   *)
(* MaxEffects effects.  A recipe is its first step, the only one the code  *)
(* ever takes.                                                             *)
(***************************************************************************)
EXTENDS WorldSteps

CONSTANTS
  Rules, \* the compiled rules, in the order of their names
  Schedules, \* the schedules, in the order of their names
  Goals, \* the goals, in the order of their names
  Travel, \* travel_ticks of every declared route, by <<from, to>>
  OpenAtStart, \* the routes that are open in the initial state
  InitialGoal, \* the goal of each NPC that is active in the initial state, or 0
  Beginning, \* the initial place of everyone and owner of the item
  MaxReevaluations \* choices of a plan in one advance (64)

MaxEffects == 3
Literals == [op : {"flag"}, what : Flags, yes : BOOLEAN]
            \cup [op : {"at"}, who : Npcs \cup {"player"}, what : Places, yes : BOOLEAN]
            \cup [op : {"route"}, from : Places, to : Places, yes : BOOLEAN]
            \cup [op : {"owner"}, who : Owners, yes : BOOLEAN]
            \cup [op : {"const"}, yes : BOOLEAN]
Actions == {"move", "wait", "take", "use", "transfer"}
Effects == [type : {"flag"}, flag : Flags, yes : BOOLEAN]
           \cup [type : {"route"}, from : Places, to : Places, yes : BOOLEAN]
           \cup [type : {"action"}, actor : Npcs, action : {"move", "wait"},
                 to : Places \cup {None}, ticks : Nat]
           \cup [type : {"plan"}, actor : Npcs, goal : Nat \ {0}]
           \cup [type : {"transfer"}, to : Owners]
           \cup [type : {"use"}, actor : Npcs \cup {"player"}]
           \cup [type : {"interrupt", "emit"}]
           \cup [type : {"schedule"}, rule : Nat \ {0}, at : Nat]
RuleType == [when : {"time", "action"}, due : Nat, phase : Phases, actor : Npcs \cup {"player"},
             action : {"move", "idle"}, place : Places \cup {None}, once : BOOLEAN,
             if : SUBSET Literals, do : Seq(Effects)]
ScheduleType == [actor : Npcs, at : Nat, place : Places, window : Nat \ {0}, default : BOOLEAN]
GoalType == [actor : Npcs \cup {None}, priority : Nat, if : SUBSET Literals,
             done : SUBSET Literals, action : Actions, to : Places \cup {None}, ticks : Nat]

\* what the compiler accepts: a story refers to what it declares, and a rule on the end of
\* an action belongs to the phase in which that action ends
ASSUME StoryAssumption ==
  /\ Rules \in Seq(RuleType) /\ Schedules \in Seq(ScheduleType) /\ Goals \in Seq(GoalType)
  /\ Travel \in [DOMAIN Travel -> Nat \ {0}]
  /\ DOMAIN Travel \subseteq Places \X Places /\ OpenAtStart \subseteq DOMAIN Travel
  /\ InitialGoal \in [Npcs -> Nat]
  /\ Beginning \in [player : Places, at : [Npcs -> Places], owner : Owners]
  /\ MaxReevaluations \in Nat
  /\ \A r \in DOMAIN Rules :
       /\ Len(Rules[r].do) <= MaxEffects
       /\ Rules[r].when = "action" =>
            Rules[r].phase = (IF Rules[r].actor = "player" THEN PlayerContinuous ELSE NpcMove)
       /\ \A i \in DOMAIN Rules[r].do :
            LET e == Rules[r].do[i]
            IN /\ e.type = "plan" => e.goal \in DOMAIN Goals
               /\ e.type = "schedule" => e.rule \in DOMAIN Rules
               /\ (e.type = "action" /\ e.action = "wait") => e.ticks > 0

-----------------------------------------------------------------------------
ContentBeginning ==
  [player |-> Beginning.player, at |-> Beginning.at, plan |-> [a \in Npcs |-> NoPlan],
   goal |-> InitialGoal, owner |-> Beginning.owner, flags |-> {}, open |-> OpenAtStart,
   fired |-> {}, choices |-> {}]

RuleStep(r, tick) == Step(tick, Rules[r].phase, "world", "content_rule_fire", r)

\* initial_steps: the rules with a due tick and the schedule boundaries
ContentSteps ==
  { RuleStep(r, Rules[r].due) :
      r \in {q \in DOMAIN Rules : Rules[q].when = "time" /\ Rules[q].due >= 1} }
  \cup { Step(Schedules[i].at, NpcMove, Schedules[i].actor, "schedule", i) :
           i \in {j \in DOMAIN Schedules : Schedules[j].at >= 1} }

\* evaluate_condition_value; nothing is UNKNOWN of what a story declares
Holds(w, l) ==
  l.yes = CASE l.op = "flag" -> l.what \in w.flags
            [] l.op = "at" -> Where(w, l.who) = l.what
            [] l.op = "route" -> IsOpen(w, l.from, l.to)
            [] l.op = "owner" -> w.owner = l.who
            [] OTHER -> TRUE
AllHold(w, literals) == \A l \in literals : Holds(w, l)

\* _completion_rule_events
CompletionRules(actor, action, place, tick) ==
  { RuleStep(r, tick) :
      r \in {q \in DOMAIN Rules :
               /\ Rules[q].when = "action"
               /\ Rules[q].actor = actor /\ Rules[q].action = action
               /\ Rules[q].place \in {None, place}} }

-----------------------------------------------------------------------------
(* Actions of NPCs.                                                         *)

\* the plan that replaces the one of actor a
NewPlan(w, a, status, to, until, goal) ==
  [status |-> status, gen |-> w.plan[a].gen + 1, from |-> w.at[a], to |-> to,
   until |-> until, goal |-> goal]
Begin(w, a, status, to, until, goal) ==
  [w EXCEPT !.plan[a] = NewPlan(w, a, status, to, until, goal), !.goal[a] = goal]
\* the plan a has, if any, takes another status
Become(w, a, status) ==
  IF w.plan[a].status = "none" THEN w ELSE [w EXCEPT !.plan[a].status = status]

TravelTicks(w, a, to) ==
  IF <<w.at[a], to>> \in DOMAIN Travel THEN Travel[<<w.at[a], to>>] ELSE 1

\* _travel_failure
TravelFailure(w, a) ==
  Refused(Become(w, a, "failed"),
          <<"npc_travel_failed">>
            \o (IF w.plan[a].status = "none" THEN <<>> ELSE <<"plan_failed">>))

StartMove(w, s, a, to, ticks, goal) ==
  LET until == s.tick + ticks
      arrival == Step(until, NpcMove, a, "npc_travel_arrive", w.plan[a].gen + 1)
  IN IF to \notin Places \/ w.plan[a].status \in UnderWay THEN Refused(w, <<>>)
     ELSE IF ~IsOpen(w, w.at[a], to) THEN TravelFailure(w, a)
     ELSE Applied(Begin(w, a, "traveling", to, until, goal), <<"npc_travel_started">>,
                  {Journey(arrival, w.at[a], to, 0)})

StartWait(w, s, a, to, ticks, goal) ==
  LET until == s.tick + ticks
      end == Step(until, NpcMove, a, "npc_wait_complete", w.plan[a].gen + 1)
  IN IF w.plan[a].status \in UnderWay THEN Refused(w, <<>>)
     ELSE Applied(Begin(w, a, "waiting", to, until, goal), <<"npc_wait_started">>,
                  {Journey(end, w.at[a], None, 0)})

\* _transfer_item: whoever holds the item puts it down where he stands, and who stands
\* where the item lies takes it; an item that lies about is put down by the actor of the step
Mover(w, s, to) ==
  IF to \notin Places THEN to ELSE IF w.owner \in Places THEN s.actor ELSE w.owner
CanTransfer(w, s, to) ==
  /\ to # w.owner
  /\ Mover(w, s, to) # "world"
  /\ to \notin Places => w.owner \in Places
  /\ Where(w, Mover(w, s, to)) = (IF to \in Places THEN to ELSE w.owner)
Transfer(w, s, to) ==
  IF CanTransfer(w, s, to) THEN Applied([w EXCEPT !.owner = to], <<"item_acquired">>, {})
  ELSE Refused(w, <<"item_take_failed">>)

\* _use_item
UseItem(w, actor) ==
  IF w.owner = actor /\ Used(actor) \notin w.fired
  THEN Applied(Mark(w, Used(actor)), <<"item_used">>, {})
  ELSE Refused(w, <<"item_use_failed">>)

\* an action on the item ends at once; it takes the place of whatever plan a has
StartItem(w, s, a, action, goal) ==
  LET v == Begin(w, a, "active", None, s.tick, goal)
  IN CASE action = "take" -> Transfer(v, s, a)
       [] action = "use" -> UseItem(v, a)
       [] OTHER -> Transfer(v, s, w.at[a])

\* _start_action
StartAction(w, s, a, action, to, ticks, goal) ==
  CASE action = "move" ->
         StartMove(w, s, a, to, IF ticks = 0 THEN TravelTicks(w, a, to) ELSE ticks, goal)
    [] action = "wait" -> StartWait(w, s, a, to, ticks, goal)
    [] OTHER -> StartItem(w, s, a, action, goal)

-----------------------------------------------------------------------------
(* The choice of a plan.                                                    *)

\* select_plan: the goals that a may pursue, and the first of them by priority and name
Candidates(w, a, goals) ==
  {g \in goals : /\ Goals[g].actor \in {None, a}
                 /\ AllHold(w, Goals[g].if) /\ ~AllHold(w, Goals[g].done)}
Best(goals) ==
  CHOOSE g \in goals : \A h \in goals : \/ Goals[g].priority > Goals[h].priority
                                        \/ Goals[g].priority = Goals[h].priority /\ g <= h

\* _default_schedule_selection: the first schedule whose window is open
OpenSchedules(a, tick) ==
  {i \in DOMAIN Schedules : /\ Schedules[i].actor = a /\ Schedules[i].default
                            /\ Schedules[i].at <= tick
                            /\ tick < Schedules[i].at + Schedules[i].window}
FirstOf(schedules) == CHOOSE i \in schedules : \A j \in schedules : i <= j
CanFollow(w, a, i) == w.at[a] = Schedules[i].place \/ IsOpen(w, w.at[a], Schedules[i].place)

\* the choice is told whether or not the action could be started
Told(start) == Applied(start.world, <<"plan_selected">> \o start.news, start.derived)
Pursue(w, s, a, g) ==
  LET ticks == IF Goals[g].ticks # 0 THEN Goals[g].ticks
               ELSE IF Goals[g].action = "move" THEN TravelTicks(w, a, Goals[g].to) ELSE 1
  IN Told(StartAction([w EXCEPT !.goal[a] = g], s, a, Goals[g].action, Goals[g].to, ticks, g))
FollowSchedule(w, s, a, i) ==
  LET v == [w EXCEPT !.goal[a] = 0]
  IN Told(IF w.at[a] = Schedules[i].place
          THEN StartWait(v, s, a, None, Schedules[i].window, 0)
          ELSE StartMove(v, s, a, Schedules[i].place, TravelTicks(w, a, Schedules[i].place), 0))

\* _count_plan_reevaluation
Counted(w, s, a) == [w EXCEPT !.choices = @ \cup {<<a, Key(s)>>}]
OverBudget(w, s, a) ==
  <<a, Key(s)>> \notin w.choices /\ Cardinality(w.choices) >= MaxReevaluations

\* what the choice comes to once it is counted: the current goal may be reached, else the
\* best candidate, else the schedule of the hour, else nothing
Decide(w, s, a, goals) ==
  LET candidates == Candidates(w, a, goals)
      hours == OpenSchedules(a, s.tick)
      reached == w.goal[a] \in DOMAIN Goals /\ AllHold(w, Goals[w.goal[a]].done)
  IN IF reached THEN Applied(Become(w, a, "achieved"),
                             IF w.plan[a].status = "achieved" THEN <<>> ELSE <<"plan_achieved">>, {})
     ELSE IF candidates # {} THEN Pursue(w, s, a, Best(candidates))
     ELSE IF hours # {} /\ CanFollow(w, a, FirstOf(hours))
       THEN FollowSchedule(w, s, a, FirstOf(hours))
     ELSE Applied(Become(w, a, "blocked"), <<"plan_blocked">>, {})

\* _reevaluate_plan
Reevaluate(w, s, a, goals) ==
  IF OverBudget(w, s, a) THEN Raises(w) ELSE Decide(Counted(w, s, a), s, a, goals)

-----------------------------------------------------------------------------
(* Rules.                                                                   *)

\* _apply_effect
SetFlag(w, e) ==
  Applied([w EXCEPT !.flags = IF e.yes THEN @ \cup {e.flag} ELSE @ \ {e.flag}],
          <<"flag_changed">>, {})
SetRoute(w, e) ==
  LET route == <<e.from, e.to>>
  IN IF route \notin DOMAIN Travel THEN Refused(w, <<>>)
     ELSE Applied([w EXCEPT !.open = IF e.yes THEN @ \cup {route} ELSE @ \ {route}],
                  <<"route_changed">>, {})
StartPlan(w, s, e) == Reevaluate([w EXCEPT !.goal[e.actor] = e.goal], s, e.actor, {e.goal})
Interrupt(w) == [Applied(w, <<"world_interrupt">>, {}) EXCEPT !.interrupts = TRUE]
ScheduleRule(w, s, e) ==
  IF e.at <= s.tick THEN Raises(w) ELSE Applied(w, <<>>, {RuleStep(e.rule, e.at)})
ApplyEffect(w, s, e) ==
  CASE e.type = "flag" -> SetFlag(w, e)
    [] e.type = "route" -> SetRoute(w, e)
    [] e.type = "action" -> StartAction(w, s, e.actor, e.action, e.to, e.ticks, w.goal[e.actor])
    [] e.type = "plan" -> StartPlan(w, s, e)
    [] e.type = "transfer" -> Transfer(w, s, e.to)
    [] e.type = "use" -> UseItem(w, e.actor)
    [] e.type = "interrupt" -> Interrupt(w)
    [] e.type = "emit" -> Applied(w, <<"emitted">>, {})
    [] OTHER -> ScheduleRule(w, s, e)

\* mutant: the effects before the one that fails stay
Undone_Not(w, tentative) == tentative
\* a group that fails is undone: its effects were tried on a copy
Undone(w, tentative) == w
\* the i-th effect after what the earlier ones came to; an effect that fails leaves
\* nothing of the group but its own news
Then(w, s, group, so_far, i) ==
  LET e == ApplyEffect(so_far.world, s, group[i])
  IN IF i > Len(group) \/ so_far.status # "applied" THEN so_far
     ELSE IF e.status = "applied"
       THEN [e EXCEPT !.news = so_far.news \o @, !.derived = so_far.derived \cup @,
                      !.interrupts = so_far.interrupts \/ @]
     ELSE Effect(Undone(w, so_far.world), e.status, e.news, {})
Group(w, s, group) ==
  Then(w, s, group,
       Then(w, s, group, Then(w, s, group, Applied(w, <<>>, {}), 1), 2), MaxEffects)

\* _rule_consumed_key
Consumed(r, tick) == IF Rules[r].once THEN FiredOnce(r) ELSE FiredAt(r, tick)
\* _fire_rule: the occurrence is used up before the condition is looked at
FireRule(w, s) ==
  LET v == Mark(w, Consumed(s.ref, s.tick))
      e == Group(v, s, Rules[s.ref].do)
  IN IF s.ref \notin DOMAIN Rules THEN Raises(w)
     ELSE IF Consumed(s.ref, s.tick) \in w.fired THEN Cancelled(w)
     ELSE IF ~AllHold(v, Rules[s.ref].if) THEN Cancelled(v)
     ELSE IF e.status = "applied" THEN [e EXCEPT !.news = @ \o <<"content_rule_fired">>]
     ELSE e

-----------------------------------------------------------------------------
(* Steps of plans and of the player.                                        *)

\* what a handler has done so far, and then the choice of a plan
AndReevaluate(w, s, status, news, derived) ==
  LET e == Reevaluate(w, s, s.actor, DOMAIN Goals)
  IN IF e.status = "raises" THEN e
     ELSE Effect(e.world, status, news \o e.news, derived \cup e.derived)

\* a schedule boundary never looks whether the NPC is under way
ContentSchedule(w, s) ==
  IF s.ref \notin DOMAIN Schedules \/ s.actor \notin Npcs THEN Raises(w)
  ELSE AndReevaluate(w, s, "applied", <<>>, {})

\* mutant: an arrival whose plan is gone is passed over
Expected_Anyway(w, s, status) == s.actor \in Npcs
Expected(w, s, status) ==
  s.actor \in Npcs /\ w.plan[s.actor].gen = s.ref /\ w.plan[s.actor].status = status
Fails(w, s) ==
  AndReevaluate(Become(w, s.actor, "failed"), s, "blocked",
                <<"npc_travel_failed", "plan_failed">>, {})

\* mutant: an NPC that has arrived is still under way
Reached_StillTraveling(w, a, to) == [w EXCEPT !.at[a] = to]
Reached(w, a, to) == [Become(w, a, "active") EXCEPT !.at[a] = to]
ContentArrive(w, s) ==
  LET a == s.actor
      to == w.plan[a].to
  IN IF ~Expected(w, s, "traveling") THEN Raises(w)
     ELSE IF w.at[a] # s.from \/ ~IsOpen(w, w.at[a], to) THEN Fails(w, s)
     ELSE AndReevaluate(Reached(w, a, to), s, "applied",
                        <<"npc_arrived">>, CompletionRules(a, "move", to, s.tick))

ContentWaited(w, s) ==
  LET a == s.actor
  IN IF ~Expected(w, s, "waiting") THEN Raises(w)
     ELSE IF w.at[a] # s.from THEN Fails(w, s)
     ELSE AndReevaluate(Become(w, a, "active"), s, "applied", <<"npc_wait_completed">>,
                        CompletionRules(a, "idle", w.at[a], s.tick))

ContentComplete(w, s, act) ==
  IF act.kind = "idle"
  THEN Applied(w, <<"player_action_completed">>, CompletionRules("player", "idle", w.player, s.tick))
  ELSE IF act.to = None \/ ~IsOpen(w, w.player, act.to) THEN Refused(w, <<>>)
  ELSE Applied([w EXCEPT !.player = act.to], <<"player_move_completed">>,
               CompletionRules("player", "move", act.to, s.tick))

\* apply_step
ContentStep(w, s, act) ==
  CASE s.kind = "content_rule_fire" -> FireRule(w, s)
    [] s.kind = "schedule" -> ContentSchedule(w, s)
    [] s.kind = "npc_travel_arrive" -> ContentArrive(w, s)
    [] s.kind = "npc_wait_complete" -> ContentWaited(w, s)
    [] s.kind = "player_continuous_complete" -> ContentComplete(w, s, act)
    [] OTHER -> Raises(w)
=============================================================================
