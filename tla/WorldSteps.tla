----------------------------- MODULE WorldSteps -----------------------------
(***************************************************************************)
(* The vocabulary of the world simulation: the cast, the steps a world     *)
(* schedules and the order in which the kernel takes them, the travel      *)
(* plans, the working state that the rules change, and what the handler of *)
(* a step reports.                                                         *)
(*                                                                         *)
(* Both rule sets play on the same cast, the one of the trial world.       *)
(* NPCs never die here: nothing in the code kills one after the session    *)
(* has begun.  A world has one unique item.  Visibility and wording of     *)
(* events, and the memories they leave, are left out.                      *)
(***************************************************************************)
EXTENDS Integers, Sequences, FiniteSets

CONSTANTS Flags \* the declared flags; all of them are Booleans

None == "none"
Npcs == {"npc_a", "npc_b"}
Places == {"mountain_gate", "plaza", "trial_peak"}
Actors == Npcs \cup {"player", "world"}
Owners == Places \cup Npcs \cup {"player"}

\* SimulationPhase
Environment == 1
NpcMove == 2
ItemPhase == 3
PlayerContinuous == 4
Phases == 1..4

-----------------------------------------------------------------------------
(* Steps.                                                                   *)

\* StepKind; a schedule boundary of a content pack is a travel start without a journey
Kinds == {"npc_travel_start", "npc_travel_arrive", "npc_take_item", "npc_use_item",
          "environment_interrupt", "player_continuous_complete",
          "content_rule_fire", "npc_wait_complete", "schedule"}

\* ref is the number of the rule or schedule, the generation of the plan that a content
\* arrival belongs to, or the start tick of the plan of a trial arrival
StepType == [tick : Nat, phase : Phases, actor : Actors, kind : Kinds, ref : Nat,
             from : Places \cup {None}, to : Places \cup {None}, until : Nat]

Step(tick, phase, actor, kind, ref) ==
  [tick |-> tick, phase |-> phase, actor |-> actor, kind |-> kind, ref |-> ref,
   from |-> None, to |-> None, until |-> 0]
Journey(step, from, to, until) ==
  [step EXCEPT !.from = from, !.to = to, !.until = until]

\* step_key, the identity of a step
Key(s) == <<s.kind, s.actor, s.ref, s.tick>>
Keys(steps) == {Key(s) : s \in steps}

\* names are compared by their rank
ActorRank == [npc_a |-> 1, npc_b |-> 2, player |-> 3, world |-> 4]
\* mutant: the phase does not count
Order_WithoutPhase(s) ==
  <<s.tick, ActorRank[s.actor], s.phase, IF s.kind = "schedule" THEN 2 ELSE 1, s.ref>>
\* order_key: tick, phase, actor, key
Order(s) ==
  <<s.tick, s.phase, ActorRank[s.actor], IF s.kind = "schedule" THEN 2 ELSE 1, s.ref>>
Precedes(s, t) ==
  \E i \in 1..5 : /\ Order(s)[i] < Order(t)[i]
                  /\ \A j \in 1..(i - 1) : Order(s)[j] = Order(t)[j]
IsFirst(s, steps) == s \in steps /\ \A t \in steps : ~Precedes(t, s)

-----------------------------------------------------------------------------
(* Plans and the working state.                                             *)

\* PlanStatus of both rule sets
PlanStatuses == {"none", "traveling", "waiting", "active", "arrived", "achieved",
                 "blocked", "failed", "cancelled"}
PlanType == [status : PlanStatuses, gen : Nat, from : Places \cup {None},
             to : Places \cup {None}, until : Nat, goal : Nat]
NoPlan == [status |-> "none", gen |-> 0, from |-> None, to |-> None, until |-> 0, goal |-> 0]
UnderWay == {"traveling", "waiting"}

\* one_shot: the bell, the item used by an actor, a rule or one occurrence of it
Bell == <<"bell", "world", 0, 0>>
Used(actor) == <<"used", actor, 0, 0>>
FiredOnce(rule) == <<"rule", "world", rule, 0>>
FiredAt(rule, tick) == <<"rule", "world", rule, tick>>
Marks == {"bell", "used", "rule"} \X Actors \X Nat \X Nat

\* WorkingState; goal is npc_goals (0: none of the pack's), open the routes that are open,
\* choices the marks that count the re-evaluations of plans in one advance
WorldType == [player : Places, at : [Npcs -> Places], plan : [Npcs -> PlanType],
              goal : [Npcs -> Nat], owner : Owners, flags : SUBSET Flags,
              open : SUBSET (Places \X Places), fired : SUBSET Marks,
              choices : SUBSET (Npcs \X (Kinds \X Actors \X Nat \X Nat))]

Where(w, actor) == IF actor = "player" THEN w.player ELSE w.at[actor]
IsOpen(w, from, to) == <<from, to>> \in w.open
Mark(w, mark) == [w EXCEPT !.fired = @ \cup {mark}]

-----------------------------------------------------------------------------
(* StepEffect: the changed state, the outcome, the events, the derived      *)
(* steps and whether the player is interrupted.                             *)

\* event_type of what the engine tells
FactKinds ==
  {"npc_travel_started", "npc_arrived", "npc_travel_failed", "npc_wait_started",
   "npc_wait_completed", "plan_selected", "plan_achieved", "plan_blocked", "plan_failed",
   "item_acquired", "item_take_failed", "item_used", "item_use_failed", "flag_changed",
   "route_changed", "emitted", "content_rule_fired", "world_interrupt", "step_blocked",
   "player_action_completed", "player_move_completed"}

Effect(w, status, news, derived) ==
  [world |-> w, status |-> status, news |-> news, derived |-> derived, interrupts |-> FALSE]
Applied(w, news, derived) == Effect(w, "applied", news, derived)
Refused(w, news) == Effect(w, "blocked", news, {})
Cancelled(w) == Effect(w, "cancelled", <<>>, {})
\* TimeSimulationStateError and the budget errors: the advance is given up
Raises(w) == Effect(w, "raises", <<>>, {})
=============================================================================
