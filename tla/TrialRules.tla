----------------------------- MODULE TrialRules -----------------------------
(***************************************************************************)
(* The fixed rules of the trial world (profile phase3_trial_v1): NPC A     *)
(* walks from the plaza up to the trial peak, A and B contend for the one  *)
(* token there, a bell rings, and B walks down again.                      *)
(***************************************************************************)
EXTENDS WorldSteps

TrialPath == {<<"mountain_gate", "plaza">>, <<"plaza", "trial_peak">>}
TrialRoutes == TrialPath \cup {<<r[2], r[1]>> : r \in TrialPath}

\* SCHEDULED_STEP_SPECS.  B's itinerary is what the table says: from the peak to the
\* plaza, there at 9.  The comments of the same file (time_simulation_rules.py:21 and
\* 80-82) send B to the gate instead.
TrialSteps ==
  { Journey(Step(2, NpcMove, "npc_a", "npc_travel_start", 0), "plaza", "trial_peak", 5),
    Step(5, ItemPhase, "npc_a", "npc_take_item", 0),
    Step(5, ItemPhase, "npc_b", "npc_take_item", 0),
    Step(6, ItemPhase, "npc_b", "npc_use_item", 0),
    Step(7, Environment, "world", "environment_interrupt", 0),
    Journey(Step(8, NpcMove, "npc_b", "npc_travel_start", 0), "trial_peak", "plaza", 9) }

TrialBeginning ==
  [player |-> "mountain_gate",
   at |-> [npc_a |-> "plaza", npc_b |-> "trial_peak"],
   plan |-> [a \in Npcs |-> NoPlan], goal |-> [a \in Npcs |-> 0],
   owner |-> "trial_peak", flags |-> {}, open |-> TrialRoutes, fired |-> {},
   choices |-> {}]

-----------------------------------------------------------------------------
\* a blocked step is terminal and leaves one hidden fact
TrialBlocked(w) == Refused(w, <<"step_blocked">>)

TrialStart(w, s) ==
  IF w.at[s.actor] # s.from \/ ~IsOpen(w, s.from, s.to) \/ w.plan[s.actor].status = "traveling"
  THEN TrialBlocked(w)
  ELSE Applied([w EXCEPT !.plan[s.actor] =
                  [status |-> "traveling", gen |-> s.tick, from |-> s.from, to |-> s.to,
                   until |-> s.until, goal |-> 0]],
               <<"npc_travel_started">>,
               {Journey(Step(s.until, NpcMove, s.actor, "npc_travel_arrive", s.tick),
                        s.from, s.to, 0)})

\* a route that closed on the way leaves the traveller where it set out
TrialArrive(w, s) ==
  LET plan == w.plan[s.actor]
      Become(status) == [w EXCEPT !.plan[s.actor].status = status]
  IN IF plan.status = "none" \/ plan.gen # s.ref THEN TrialBlocked(w)
     ELSE IF w.at[s.actor] # plan.from THEN TrialBlocked(Become("blocked"))
     ELSE IF ~IsOpen(w, plan.from, plan.to) THEN TrialBlocked(Become("cancelled"))
     ELSE Applied([Become("arrived") EXCEPT !.at[s.actor] = plan.to], <<"npc_arrived">>, {})

\* mutant: the owner is not looked at, only the place
TrialTake_WithoutOwner(w, s) ==
  IF w.at[s.actor] # "trial_peak" THEN TrialBlocked(w)
  ELSE Applied([w EXCEPT !.owner = s.actor], <<"item_acquired">>, {})
\* the one who finds the token where it lies takes it, every other one fails
TrialTake(w, s) ==
  IF w.owner \notin Places THEN Refused(w, <<"item_take_failed">>)
  ELSE IF w.at[s.actor] # w.owner THEN TrialBlocked(w)
  ELSE Applied([w EXCEPT !.owner = s.actor], <<"item_acquired">>, {})

TrialUse(w, s) ==
  IF w.owner # s.actor THEN Refused(w, <<"item_use_failed">>)
  ELSE IF Used(s.actor) \in w.fired THEN Cancelled(w)
  ELSE Applied(Mark(w, Used(s.actor)), <<"item_used">>, {})

TrialBell(w) ==
  IF Bell \in w.fired THEN Cancelled(w)
  ELSE [Applied(Mark(w, Bell), <<"world_interrupt">>, {}) EXCEPT !.interrupts = TRUE]

TrialComplete(w, act) ==
  IF act.kind = "idle" THEN Applied(w, <<"player_action_completed">>, {})
  ELSE IF act.to = None \/ ~IsOpen(w, w.player, act.to) THEN TrialBlocked(w)
  ELSE Applied([w EXCEPT !.player = act.to], <<"player_move_completed">>, {})

\* _HANDLERS
TrialStep(w, s, act) ==
  CASE s.kind = "npc_travel_start" -> TrialStart(w, s)
    [] s.kind = "npc_travel_arrive" -> TrialArrive(w, s)
    [] s.kind = "npc_take_item" -> TrialTake(w, s)
    [] s.kind = "npc_use_item" -> TrialUse(w, s)
    [] s.kind = "environment_interrupt" -> TrialBell(w)
    [] s.kind = "player_continuous_complete" -> TrialComplete(w, act)
    [] OTHER -> Raises(w)
=============================================================================
