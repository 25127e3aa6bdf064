--------------------------- MODULE MCWorldAdvance ---------------------------
(* A small story for the two NPCs, and what a player may do in it.          *)
EXTENDS WorldAdvance, TLC

Flag(f, yes) == [op |-> "flag", what |-> f, yes |-> yes]
At(who, place, yes) == [op |-> "at", who |-> who, what |-> place, yes |-> yes]
Never == [op |-> "const", yes |-> FALSE]
TimeRule(due, phase, once, if, do) ==
  [when |-> "time", due |-> due, phase |-> phase, actor |-> "player", action |-> "idle",
   place |-> None, once |-> once, if |-> if, do |-> do]
ActionRule(actor, action, place, once, if, do) ==
  [when |-> "action", due |-> 0, phase |-> IF actor = "player" THEN PlayerContinuous ELSE NpcMove,
   actor |-> actor, action |-> action, place |-> place, once |-> once, if |-> if, do |-> do]
Set(f) == [type |-> "flag", flag |-> f, yes |-> TRUE]
Plan(a, g) == [type |-> "plan", actor |-> a, goal |-> g]

\* 1: at 12 an alarm, if there was noise, interrupts everyone
\* 2: the player's waiting makes noise, the first time
\* 3: a player who comes to the plaza closes the way up and has the gong announced for 22
\* 4: the gong; it has no time of its own
\* 5: when npc_a reaches the peak, npc_b may wait and npc_a may take the token
\* 6: at 16 it gets late, if npc_b can take the token and use it
\* 7: whenever npc_a has moved, it uses the token
StoryRules == <<
  TimeRule(12, Environment, TRUE, {Flag("noise", TRUE)},
           <<Set("alarm"), [type |-> "interrupt"]>>),
  ActionRule("player", "idle", None, TRUE, {}, <<Set("noise")>>),
  ActionRule("player", "move", "plaza", FALSE, {},
             <<[type |-> "route", from |-> "plaza", to |-> "trial_peak", yes |-> FALSE],
               [type |-> "schedule", rule |-> 4, at |-> 22]>>),
  TimeRule(0, Environment, FALSE, {}, <<[type |-> "emit"]>>),
  ActionRule("npc_a", "move", "trial_peak", TRUE, {}, <<Plan("npc_b", 3), Plan("npc_a", 2)>>),
  TimeRule(16, ItemPhase, TRUE, {},
           <<Set("late"), [type |-> "transfer", to |-> "npc_b"], [type |-> "use", actor |-> "npc_b"]>>),
  ActionRule("npc_a", "move", None, FALSE, {Flag("alarm", FALSE)},
             <<[type |-> "use", actor |-> "npc_a"]>>) >>
StorySchedules == <<
  [actor |-> "npc_a", at |-> 11, place |-> "trial_peak", window |-> 1, default |-> FALSE],
  [actor |-> "npc_a", at |-> 13, place |-> "plaza", window |-> 1, default |-> FALSE],
  [actor |-> "npc_a", at |-> 21, place |-> "plaza", window |-> 2, default |-> TRUE],
  [actor |-> "npc_b", at |-> 11, place |-> "plaza", window |-> 6, default |-> TRUE] >>
\* 1: npc_a climbs unless there is an alarm; 2: it takes the token; 3: npc_b waits when
\* there is noise, over and over
StoryGoals == <<
  [actor |-> "npc_a", priority |-> 2, if |-> {Flag("alarm", FALSE)},
   done |-> {At("npc_a", "trial_peak", TRUE)}, action |-> "move", to |-> "trial_peak", ticks |-> 0],
  [actor |-> "npc_a", priority |-> 1, if |-> {At("npc_a", "trial_peak", TRUE)},
   done |-> {[op |-> "owner", who |-> "npc_a", yes |-> TRUE]}, action |-> "take", to |-> None,
   ticks |-> 0],
  [actor |-> "npc_b", priority |-> 1, if |-> {Flag("noise", TRUE)},
   done |-> {Never}, action |-> "wait", to |-> None, ticks |-> 2] >>
StoryTravel == [r \in TrialRoutes |-> IF r = <<"plaza", "trial_peak">> THEN 8 ELSE 2]
StoryStart == [player |-> "mountain_gate", at |-> [npc_a |-> "plaza", npc_b |-> "trial_peak"],
               owner |-> "trial_peak"]
StoryGoal == [npc_a |-> 1, npc_b |-> 0]

Act(kind, minutes, to, refused) ==
  [kind |-> kind, minutes |-> minutes, to |-> to, refused |-> refused]
StoryActions == {
  Act("instant", 5, None, FALSE), Act("instant", 8, None, TRUE), Act("idle", 3, None, FALSE),
  Act("idle", 10, None, FALSE),
  Act("move", 15, "plaza", FALSE), Act("move", 15, "trial_peak", FALSE),
  Act("move", 15, None, TRUE) }
=============================================================================
