SPECIFICATION Spec
CONSTANTS
  Flags = {"noise", "alarm", "late"}
  Rules <- StoryRules
  Schedules <- StorySchedules
  Goals <- StoryGoals
  Travel <- StoryTravel
  OpenAtStart <- TrialRoutes
  InitialGoal <- StoryGoal
  Beginning <- StoryStart
  MaxReevaluations = 7
  PlayerActions <- StoryActions
  MaxSteps = 9
  Horizon = 22
  MaxToggles = 2
INVARIANTS TypeOK FactsInOrder StaysReadable PlansAreExpected RulesFireOnce EffectsTogether
INVARIANTS TrialTimetable
PROPERTIES OrphansStopTime CutShort KeepsAgenda
CHECK_DEADLOCK FALSE
