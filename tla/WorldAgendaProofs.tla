-------------------------- MODULE WorldAgendaProofs --------------------------
(***************************************************************************)
(* The world keeps its agenda, for every story and every player: what a    *)
(* turn takes off the queue it has due, what it does not take stays to     *)
(* come, what it tells is in order, plans and their ends stay together,    *)
(* the facts of the rules and the marks agree, an interruption cuts the    *)
(* action short, and the trial keeps its timetable.                        *)
(***************************************************************************)
EXTENDS WorldEffectsProofs, FiniteSetTheorems

Todo == queue \cup later
TakenSteps == {o.step : o \in done}

\* Between two turns: a row is known by its key, the end of an action has none, what is
\* pending is still to come, and the run state agrees with the rows.
RowsInv ==
  /\ \A q, r \in rows : Key(q.step) = Key(r.step) => q = r
  /\ \A r \in rows : r.step.kind # Completing
  /\ \A s \in Pending : tick < s.tick
  /\ keys = Keys(Pending) /\ cursor = Len(facts)

\* Within a turn, of the steps to come and the steps taken: their ticks...
TicksInv ==
  /\ act.start = tick /\ tick < act.end
  /\ \A s \in queue : tick < s.tick /\ s.tick <= act.end
  /\ \A s \in later : act.end < s.tick
  /\ \A o \in Kept : /\ tick < o.step.tick /\ o.step.tick <= act.end
                     /\ \A s \in queue : o.step.tick <= s.tick
                     /\ cut # 0 => o.step.tick <= cut
  /\ cut # 0 => tick < cut /\ cut <= act.end

\* ...and their keys: each has one of its own, all of them are known, and one that has a row
\* is the step of that row, which is pending.
KeysInv ==
  /\ \A s, t \in Todo : Key(s) = Key(t) => s = t
  /\ \A o, p \in done : Key(o.step) = Key(p.step) => o = p
  /\ \A o \in done, s \in Todo : Key(o.step) # Key(s)
  /\ \A s \in Todo \cup TakenSteps : Key(s) \in known
  /\ \A r \in rows : Key(r.step) \in known
  /\ \A r \in rows, s \in Todo \cup TakenSteps :
       Key(r.step) = Key(s) => r.status = "pending" /\ r.step = s
  /\ Pending \subseteq Todo \cup TakenSteps
  /\ \A s \in Todo : s.kind = Completing => s = Completion(act) /\ cut = 0

IdleInv == queue = {} /\ later = {} /\ done = {} /\ news = <<>> /\ cut = 0

AgendaInv ==
  /\ RowsInv
  /\ act # NoAct => TicksInv /\ KeysInv
  /\ act = NoAct => IdleInv

-----------------------------------------------------------------------------
(* The queue has a first step.                                              *)

LEMMA LeastBy ==
  ASSUME NEW S, S # {}, NEW f \in [S -> Nat]
  PROVE  \E m \in S : \A n \in S : f[m] <= f[n]
PROOF
<1> DEFINE R == {f[s] : s \in S}
<1>1. R \in SUBSET Nat /\ R # {}
  OBVIOUS
<1>2. PICK k \in R : \A l \in R : k <= l
  BY <1>1, Smallest
<1>3. PICK m \in S : k = f[m]
  OBVIOUS
<1> QED BY <1>2, <1>3

LEMMA OrderType ==
  ASSUME NEW s \in StepType
  PROVE  /\ \A i \in 1..5 : Order(s)[i] \in Nat
         /\ Order(s)[1] = s.tick /\ Order(s)[2] = s.phase
PROOF
<1>1. s.tick \in Nat /\ s.phase \in Nat /\ s.ref \in Nat
  BY DEF StepType, Phases
<1>2. ActorRank[s.actor] \in Nat
  BY DEF ActorRank, StepType, Actors, Npcs
<1>3. Order(s)[1] = s.tick /\ Order(s)[2] = s.phase /\ Order(s)[3] = ActorRank[s.actor]
      /\ Order(s)[4] \in {1, 2} /\ Order(s)[5] = s.ref
  BY DEF Order
<1>4. \A i \in 1..5 : i = 1 \/ i = 2 \/ i = 3 \/ i = 4 \/ i = 5
  OBVIOUS
<1> QED BY <1>1, <1>2, <1>3, <1>4

\* the steps of a set that are least in one place of their order
Least(S, i) == {s \in S : \A t \in S : Order(s)[i] <= Order(t)[i]}

LEMMA LeastAt ==
  ASSUME NEW S \in SUBSET StepType, S # {}, NEW i \in 1..5
  PROVE  Least(S, i) # {} /\ Least(S, i) \subseteq S
PROOF
<1> DEFINE f == [s \in S |-> Order(s)[i]]
<1>1. f \in [S -> Nat]
  BY OrderType
<1>2. PICK m \in S : \A n \in S : f[m] <= f[n]
  BY <1>1, LeastBy
<1> QED BY <1>2 DEF Least

LEMMA FirstExists ==
  ASSUME NEW S \in SUBSET StepType, S # {}
  PROVE  \E f \in S : IsFirst(f, S)
PROOF
<1> DEFINE S1 == Least(S, 1)
           S2 == Least(S1, 2)
           S3 == Least(S2, 3)
           S4 == Least(S3, 4)
           S5 == Least(S4, 5)
<1>1. S1 # {} /\ S1 \subseteq S
  BY LeastAt
<1>2. S2 # {} /\ S2 \subseteq S1
  BY <1>1, LeastAt
<1>3. S3 # {} /\ S3 \subseteq S2
  BY <1>1, <1>2, LeastAt
<1>4. S4 # {} /\ S4 \subseteq S3
  BY <1>1, <1>2, <1>3, LeastAt
<1>5. S5 # {} /\ S5 \subseteq S4
  BY <1>1, <1>2, <1>3, <1>4, LeastAt
<1>6. PICK f \in S5 : TRUE
  BY <1>5
<1>7. ASSUME NEW t \in S, NEW i \in 1..5, Order(t)[i] < Order(f)[i],
             \A j \in 1..(i - 1) : Order(t)[j] = Order(f)[j]
      PROVE  FALSE
  <2>0. f \in StepType /\ t \in StepType /\ \A k \in 1..5 : Order(t)[k] \in Nat /\ Order(f)[k] \in Nat
    BY <1>1, <1>2, <1>3, <1>4, <1>5, OrderType
  <2>1. Order(f)[1] <= Order(t)[1] /\ (Order(t)[1] = Order(f)[1] => t \in S1)
    BY <1>1, <1>2, <1>3, <1>4, <1>5 DEF Least
  <2>2. t \in S1 => Order(f)[2] <= Order(t)[2] /\ (Order(t)[2] = Order(f)[2] => t \in S2)
    BY <1>2, <1>3, <1>4, <1>5 DEF Least
  <2>3. t \in S2 => Order(f)[3] <= Order(t)[3] /\ (Order(t)[3] = Order(f)[3] => t \in S3)
    BY <1>3, <1>4, <1>5 DEF Least
  <2>4. t \in S3 => Order(f)[4] <= Order(t)[4] /\ (Order(t)[4] = Order(f)[4] => t \in S4)
    BY <1>4, <1>5 DEF Least
  <2>5. t \in S4 => Order(f)[5] <= Order(t)[5]
    BY DEF Least
  <2> HIDE DEF S1, S2, S3, S4, S5
  <2>6. i = 1 \/ i = 2 \/ i = 3 \/ i = 4 \/ i = 5
    OBVIOUS
  <2> QED BY <1>7, <2>0, <2>1, <2>2, <2>3, <2>4, <2>5, <2>6
<1>8. f \in S
  BY <1>1, <1>2, <1>3, <1>4, <1>5
<1> QED BY <1>7, <1>8 DEF IsFirst, Precedes

\* No step is due before the first one.
LEMMA FirstFields ==
  ASSUME NEW S \in SUBSET StepType, NEW f, IsFirst(f, S), NEW t \in S
  PROVE  f.tick <= t.tick /\ InOrder(f, t)
PROOF
<1>1. f \in S /\ ~Precedes(t, f)
  BY DEF IsFirst
<1>2. f.tick \in Nat /\ t.tick \in Nat /\ f.phase \in Nat /\ t.phase \in Nat
  BY <1>1 DEF StepType, Phases
<1>3. ~(t.tick < f.tick)
  <2>1. SUFFICES ASSUME t.tick < f.tick PROVE Precedes(t, f)
    BY <1>1
  <2>2. Order(t)[1] < Order(f)[1] /\ \A j \in 1..(1 - 1) : Order(t)[j] = Order(f)[j]
    BY <1>1, <2>1, OrderType
  <2> QED BY <2>2 DEF Precedes
<1>4. ~(t.tick = f.tick /\ t.phase < f.phase)
  <2>1. SUFFICES ASSUME t.tick = f.tick, t.phase < f.phase PROVE Precedes(t, f)
    BY <1>1
  <2>2. Order(t)[2] < Order(f)[2] /\ \A j \in 1..(2 - 1) : Order(t)[j] = Order(f)[j]
    BY <1>1, <2>1, OrderType
  <2> QED BY <2>2 DEF Precedes
<1> QED BY <1>2, <1>3, <1>4 DEF InOrder
-----------------------------------------------------------------------------
(* The agenda through the steps of a turn.                                  *)

LEMMA RowsOfPending ==
  /\ \A s : s \in Pending <=> \E r \in rows : r.status = "pending" /\ r.step = s
  /\ \A s : s \in Settled <=> \E r \in rows : r.status \in {"triggered", "cancelled"} /\ r.step = s
PROOF BY DEF Pending, Settled, StepsWith

\* Nothing that is pending has been settled.
LEMMA PendingNotSettled ==
  ASSUME RowsInv, NEW s \in Pending
  PROVE  Key(s) \notin Keys(Settled)
PROOF
<1> SUFFICES ASSUME Key(s) \in Keys(Settled) PROVE FALSE
  OBVIOUS
<1>1. PICK t \in Settled : Key(s) = Key(t)
  BY DEF Keys
<1>2. PICK r \in rows : r.status = "pending" /\ r.step = s
  BY RowsOfPending
<1>3. PICK q \in rows : q.status \in {"triggered", "cancelled"} /\ q.step = t
  BY RowsOfPending
<1>4. q = r
  BY <1>1, <1>2, <1>3 DEF RowsInv
<1> QED BY <1>2, <1>3, <1>4

\* What a turn begins with: all pending steps, and perhaps the end of the action.
LEMMA BeginShape ==
  ASSUME TypeOK, RowsInv, act = NoAct => IdleInv, NEW a \in PlayerActions, BeginTurn(a)
  PROVE  /\ act = NoAct /\ act' = ActionSpec(a) /\ act' \in ActType /\ act' # NoAct
         /\ act'.start = tick /\ tick < act'.end
         /\ Pending \subseteq Todo'
         /\ \A s \in Todo' : s \in Pending \/ s = Completion(act')
         /\ \A s \in queue' : s.tick <= act'.end
         /\ \A s \in later' : act'.end < s.tick
         /\ \A s \in Todo' : Key(s) \in known'
         /\ \A r \in rows : Key(r.step) \in known'
         /\ \A k \in known' : (\E r \in rows : k = Key(r.step)) \/ k = Key(Completion(act'))
         /\ work' = Loaded
         /\ UNCHANGED <<profile, stored, closed, toggles, done, news, cut>>
PROOF
<1> DEFINE p == ActionSpec(a)
           open == {s \in Pending : Key(s) \notin Keys(Settled)}
           steps == open \cup (IF HasCompletion(p) THEN {Completion(p)} ELSE {})
<1>1. a \in ActionType /\ tick \in Nat
  BY AdvanceAssumption DEF TypeOK
<1>2. p \in ActType /\ p # NoAct /\ p.start = tick /\ p.end = tick + a.minutes /\ a.minutes \in Nat \ {0}
  BY <1>1 DEF ActionSpec, ActionType, ActType, NoAct, ActKinds
<1>3. open = Pending
  BY PendingNotSettled
<1>4. Pending \subseteq steps /\ \A s \in steps : s \in Pending \/ s = Completion(p)
  BY <1>3
<1>5. /\ act = NoAct /\ act' = p /\ work' = Loaded
      /\ queue' = {s \in steps : s.tick <= p.end} /\ later' = {s \in steps : s.tick > p.end}
      /\ known' = Keys(Settled) \cup Keys(steps)
      /\ UNCHANGED <<profile, stored, closed, toggles, done, news, cut>>
  BY DEF BeginTurn
<1> HIDE DEF p, open, steps
<1>6. steps \subseteq StepType
  BY <1>2, <1>4, PendingType, CompletionType
<1>7. \A s \in steps : s.tick \in Nat
  BY <1>6 DEF StepType
<1>8. p.end \in Nat /\ tick < p.end
  BY <1>1, <1>2
<1>9. Todo' = steps
  BY <1>5, <1>7, <1>8 DEF Todo
<1>10. \A s \in later' : p.end < s.tick
  BY <1>5, <1>7, <1>8
<1>11. \A s \in steps : Key(s) \in known'
  BY <1>5 DEF Keys
<1>12. ASSUME NEW r \in rows PROVE Key(r.step) \in known'
  <2>1. r.status \in {"pending", "triggered", "cancelled"}
    BY DEF TypeOK, Statuses
  <2>2. r.step \in Pending \/ r.step \in Settled
    BY <2>1, RowsOfPending
  <2> QED BY <1>4, <1>5, <2>2 DEF Keys
<1>13. ASSUME NEW k \in known' PROVE (\E r \in rows : k = Key(r.step)) \/ k = Key(Completion(p))
  <2>1. (\E s \in Settled : k = Key(s)) \/ \E s \in steps : k = Key(s)
    BY <1>5 DEF Keys
  <2> QED BY <1>4, <2>1, RowsOfPending
<1>14. p = ActionSpec(a)
  BY DEF p
<1> QED BY <1>2, <1>4, <1>5, <1>8, <1>9, <1>10, <1>11, <1>12, <1>13, <1>14

LEMMA AgendaBegin ==
  ASSUME TypeOK, AgendaInv, NEW a \in PlayerActions, BeginTurn(a)
  PROVE  AgendaInv'
PROOF
<1>1. RowsInv /\ (act = NoAct => IdleInv)
  BY DEF AgendaInv
<1>2. /\ act = NoAct /\ act' \in ActType /\ act' # NoAct /\ act'.start = tick /\ tick < act'.end
      /\ Pending \subseteq Todo'
      /\ \A s \in Todo' : s \in Pending \/ s = Completion(act')
      /\ \A s \in queue' : s.tick <= act'.end
      /\ \A s \in later' : act'.end < s.tick
      /\ \A s \in Todo' : Key(s) \in known'
      /\ \A r \in rows : Key(r.step) \in known'
      /\ UNCHANGED <<profile, stored, closed, toggles, done, news, cut>>
  BY <1>1, BeginShape
<1>3. UNCHANGED <<tick, cursor, keys, world, rows, facts>> /\ done' = {} /\ cut' = 0
  BY <1>1, <1>2 DEF stored, IdleInv
<1>4. Pending' = Pending /\ TakenSteps' = {} /\ Kept' = {}
  BY <1>3 DEF Pending, StepsWith, TakenSteps, Kept
<1>5. RowsInv'
  BY <1>1, <1>3, <1>4 DEF RowsInv
<1>6. /\ Completion(act').tick = act'.end /\ Completion(act').kind = Completing
      /\ act'.end \in Nat /\ tick \in Nat
  BY <1>2, CompletionType DEF Completing, ActType, NoAct, TypeOK
<1>7. TicksInv'
  <2>1. ASSUME NEW s \in queue' PROVE tick < s.tick
    <3>1. s \in Pending \/ s = Completion(act')
      BY <1>2 DEF Todo
    <3> QED BY <1>1, <1>2, <1>6, <3>1 DEF RowsInv
  <2> QED BY <1>2, <1>3, <1>4, <2>1 DEF TicksInv
<1>8. \A s \in Pending : s.kind # Completing
  BY <1>1, RowsOfPending DEF RowsInv
<1>9. ASSUME NEW s \in Todo', NEW t \in Todo', Key(s) = Key(t) PROVE s = t
  <2>1. s.kind = t.kind
    BY <1>9, KeyParts
  <2>2. s \in Pending /\ t \in Pending => s = t
    BY <1>1, <1>9, RowsOfPending DEF RowsInv
  <2> QED BY <1>2, <1>6, <1>8, <2>1, <2>2
<1>10. ASSUME NEW r \in rows, NEW s \in Todo', Key(r.step) = Key(s)
       PROVE  r.status = "pending" /\ r.step = s
  <2>1. r.step.kind = s.kind
    BY <1>10, KeyParts
  <2>2. s \in Pending
    BY <1>1, <1>2, <1>6, <2>1 DEF RowsInv
  <2>3. PICK q \in rows : q.status = "pending" /\ q.step = s
    BY <2>2, RowsOfPending
  <2> QED BY <1>1, <1>10, <2>3 DEF RowsInv
<1>11. KeysInv'
  <2>1. \A s \in Todo' : s.kind = Completing => s = Completion(act') /\ cut' = 0
    BY <1>2, <1>3, <1>8
  <2> QED BY <1>2, <1>3, <1>4, <1>9, <1>10, <2>1 DEF KeysInv
<1> QED BY <1>2, <1>5, <1>7, <1>11 DEF AgendaInv
\* what is new of what step s derives, and what it takes off the queue
New(s) == Fresh(Doing(s).derived)
Off(s) == {s} \cup (IF Interrupts(s, Doing(s)) THEN {Completion(act)} ELSE {})

\* What a step that is taken changes: it leaves the queue, perhaps with the end of the
\* action, and the new steps have keys of their own.
LEMMA RunShape ==
  ASSUME TypeOK, Casts, TicksInv, NEW s \in queue, RunStep(s)
  PROVE  LET e == Doing(s)
             fresh == New(s)
             taken == Off(s)
         IN
           /\ e \in EffectType /\ e.status \in Outcomes
           /\ fresh \subseteq StepType /\ fresh \subseteq e.derived
           /\ \A d \in e.derived : d \in fresh \/ Key(d) \in known
           /\ taken \subseteq queue /\ s \in taken
           /\ \A t \in taken : t = s \/ (t = Completion(act) /\ Interrupts(s, e))
           /\ \A d \in fresh : /\ Key(d) \notin known /\ d.kind # Completing
                               /\ InOrder(s, d) /\ act.start < d.tick
           /\ \A c, d \in fresh : Key(c) = Key(d) => c = d
           /\ act # NoAct /\ IsFirst(s, queue) /\ (cut # 0 => s.tick <= cut)
           /\ queue' = (queue \cup {d \in fresh : d.tick <= act.end}) \ taken
           /\ later' = later \cup {d \in fresh : d.tick > act.end}
           /\ \A t \in Todo' : (t \in Todo /\ t \notin taken) \/ t \in fresh
           /\ \A t \in Todo : t \in Todo' \/ t \in taken
           /\ \A d \in fresh : Key(d) \in known' /\ (d \in Todo' \/ d \in taken)
           /\ known' = known \cup Keys(fresh)
           /\ done' = done \cup {[step |-> s, status |-> e.status]}
                           \cup {[step |-> t, status |-> "cancelled"] : t \in taken \ {s}}
           /\ \A o \in done' : o \in done \/ (o.step = s /\ o.status = e.status)
                               \/ (o.step \in taken /\ o.step # s /\ o.status = "cancelled")
           /\ news' = news \o FactsOf(s, e)
           /\ cut' = (IF Interrupts(s, e) THEN s.tick ELSE cut)
           /\ work' = e.world
           /\ UNCHANGED <<profile, stored, closed, toggles, act>>
PROOF
<1> DEFINE e == Doing(s)
           fresh == New(s)
           taken == Off(s)
<1>1. s \in StepType /\ act \in ActType
  BY DEF TypeOK
<1>2. /\ e.status \in Outcomes /\ Take(s, e) /\ UNCHANGED <<profile, stored, closed, toggles, act>>
      /\ act # NoAct /\ Due(s) /\ \A d \in e.derived : InOrder(s, d) /\ act.start < d.tick
  BY DEF RunStep, Doing
<1>3. e.status # "raises"
  BY <1>2 DEF Outcomes
<1>4. /\ e \in EffectType
      /\ profile = "trial" => TrialFollows(work, s, e)
      /\ profile # "trial" => Follows(work, e)
  BY <1>3, StepEffect DEF Doing
<1>5. taken = {s} \cup (IF Interrupts(s, e) THEN {Completion(act)} ELSE {}) /\ fresh = Fresh(e.derived)
  BY DEF Off, New
<1> HIDE DEF e, fresh, taken
<1>6. /\ fresh \subseteq StepType /\ fresh \subseteq e.derived
      /\ \A d \in fresh : Key(d) \notin known
      /\ \A d \in e.derived : d \in fresh \/ Key(d) \in known
  BY <1>4, <1>5 DEF EffectType, Fresh
<1>7. \A d \in e.derived : d.kind # Completing
  <2>1. CASE profile = "trial"
    BY <1>4, <2>1 DEF TrialFollows, Completing
  <2>2. CASE profile # "trial"
    <3>1. \A d \in e.derived : IsRuleStep(d) \/ IsEndStep(d, work, e.world)
      BY <1>4, <2>2 DEF Follows
    <3> QED BY <3>1, RuleStepKey DEF IsEndStep, EndKinds, Completing
  <2> QED BY <2>1, <2>2
<1>8. \A c, d \in e.derived : Key(c) = Key(d) => c = d
  BY <1>4 DEF TrialFollows, Follows
<1>9. /\ taken \subseteq queue /\ s \in taken
      /\ \A t \in taken : t = s \/ (t = Completion(act) /\ Interrupts(s, e))
  BY <1>5 DEF Interrupts
<1>10. /\ work' = e.world
       /\ queue' = (queue \cup {d \in fresh : d.tick <= act.end}) \ taken
       /\ later' = later \cup {d \in fresh : d.tick > act.end}
       /\ known' = known \cup Keys(fresh)
       /\ done' = done \cup {[step |-> s, status |-> e.status]}
                       \cup {[step |-> t, status |-> "cancelled"] : t \in taken \ {s}}
       /\ news' = news \o FactsOf(s, e)
       /\ cut' = (IF Interrupts(s, e) THEN s.tick ELSE cut)
  BY <1>2, <1>5 DEF Take
<1>11. later \cap taken = {}
  BY <1>1, <1>9 DEF TicksInv, TypeOK, StepType, ActType, NoAct
<1>12. IsFirst(s, queue) /\ (cut # 0 => s.tick <= cut)
  BY <1>2 DEF Due
<1>13. act.end \in Nat /\ \A d \in fresh : d.tick \in Nat
  BY <1>1, <1>6 DEF ActType, NoAct, StepType
<1>14. \A d \in fresh : Key(d) \in known' /\ (d \in Todo' \/ d \in taken)
  BY <1>10, <1>13 DEF Keys, Todo
<1>15. \A t \in Todo : t \in Todo' \/ t \in taken
  BY <1>10 DEF Todo
<1>16. \A o \in done' : o \in done \/ (o.step = s /\ o.status = e.status)
                        \/ (o.step \in taken /\ o.step # s /\ o.status = "cancelled")
  BY <1>10
<1>17. \A t \in Todo' : (t \in Todo /\ t \notin taken) \/ t \in fresh
  BY <1>10, <1>11 DEF Todo
<1> QED BY <1>2, <1>4, <1>6, <1>7, <1>8, <1>9, <1>10, <1>12, <1>14, <1>15, <1>16, <1>17 DEF e, fresh, taken
LEMMA AgendaRun ==
  ASSUME TypeOK, Casts, AgendaInv, NEW s \in queue, RunStep(s)
  PROVE  AgendaInv'
PROOF
<1> DEFINE e == Doing(s)
           fresh == New(s)
           taken == Off(s)
<1>0. act # NoAct
  BY DEF RunStep
<1>1. RowsInv /\ TicksInv /\ KeysInv
  BY <1>0 DEF AgendaInv
<1>2. /\ fresh \subseteq StepType /\ taken \subseteq queue /\ s \in taken /\ e.status \in Outcomes
      /\ \A t \in taken : t = s \/ (t = Completion(act) /\ Interrupts(s, e))
      /\ \A d \in fresh : /\ Key(d) \notin known /\ d.kind # Completing
                          /\ InOrder(s, d) /\ act.start < d.tick
      /\ \A c, d \in fresh : Key(c) = Key(d) => c = d
      /\ IsFirst(s, queue) /\ (cut # 0 => s.tick <= cut)
      /\ queue' = (queue \cup {d \in fresh : d.tick <= act.end}) \ taken
      /\ later' = later \cup {d \in fresh : d.tick > act.end}
      /\ \A t \in Todo' : (t \in Todo /\ t \notin taken) \/ t \in fresh
      /\ \A t \in Todo : t \in Todo' \/ t \in taken
      /\ \A d \in fresh : Key(d) \in known' /\ (d \in Todo' \/ d \in taken)
      /\ known' = known \cup Keys(fresh)
      /\ done' = done \cup {[step |-> s, status |-> e.status]}
                      \cup {[step |-> t, status |-> "cancelled"] : t \in taken \ {s}}
      /\ \A o \in done' : o \in done \/ (o.step = s /\ o.status = e.status)
                          \/ (o.step \in taken /\ o.step # s /\ o.status = "cancelled")
      /\ cut' = (IF Interrupts(s, e) THEN s.tick ELSE cut)
      /\ UNCHANGED <<profile, stored, closed, toggles, act>>
  BY <1>1, RunShape
<1>3. /\ Interrupts(s, e) => Completion(act) \in queue /\ Completion(act) # s /\ cut = 0
      /\ Completion(act).kind = Completing /\ act.end \in Nat
  <2>1. act \in ActType
    BY DEF TypeOK
  <2>2. Completion(act).kind = Completing
    BY <2>1, CompletionType DEF Completing
  <2>3. Interrupts(s, e) => Completion(act) \in queue /\ Completion(act) # s
    BY DEF Interrupts
  <2> QED BY <1>1, <2>1, <2>2, <2>3 DEF KeysInv, Todo, ActType, NoAct
<1> HIDE DEF e, fresh, taken
<1>4. UNCHANGED <<tick, cursor, keys, world, rows, facts, act>>
  BY <1>2 DEF stored
<1>5. Pending' = Pending
  BY <1>4 DEF Pending, StepsWith
<1>6. RowsInv'
  BY <1>1, <1>4, <1>5 DEF RowsInv
<1>7. queue \subseteq StepType /\ later \subseteq StepType /\ tick \in Nat /\ cut \in Nat
  BY DEF TypeOK
<1>8. /\ \A t \in queue \cup later \cup fresh : t.tick \in Nat
      /\ \A t \in queue : s.tick <= t.tick
      /\ \A d \in fresh : s.tick <= d.tick
  <2>1. \A t \in queue \cup later \cup fresh : t.tick \in Nat
    BY <1>2, <1>7 DEF StepType
  <2>2. \A t \in queue : s.tick <= t.tick
    BY <1>2, <1>7, FirstFields
  <2>3. \A d \in fresh : s.tick <= d.tick
    BY <1>2, <2>1 DEF InOrder
  <2> QED BY <2>1, <2>2, <2>3
<1>9. \A o \in Kept' : o \in Kept \/ o.step = s
  <2> SUFFICES ASSUME NEW o \in Kept' PROVE o \in Kept \/ o.step = s
    OBVIOUS
  <2>1. o \in done' /\ o.step.kind # Completing
    BY DEF Kept, Completing
  <2> QED BY <1>2, <1>3, <2>1 DEF Kept, Completing
<1>10. TicksInv'
  <2>1. act'.start = tick' /\ tick' < act'.end
    BY <1>1, <1>4 DEF TicksInv
  <2>2. \A t \in queue' : tick' < t.tick /\ t.tick <= act'.end
    BY <1>1, <1>2, <1>4 DEF TicksInv
  <2>3. \A t \in later' : act'.end < t.tick
    BY <1>1, <1>2, <1>3, <1>4, <1>8 DEF TicksInv
  <2>4. ASSUME NEW o \in Kept'
        PROVE  /\ tick' < o.step.tick /\ o.step.tick <= act'.end
               /\ \A t \in queue' : o.step.tick <= t.tick
               /\ cut' # 0 => o.step.tick <= cut'
    <3>1. CASE o.step = s
      <4>1. tick' < s.tick /\ s.tick <= act'.end
        BY <1>1, <1>4 DEF TicksInv
      <4>2. \A t \in queue' : s.tick <= t.tick
        BY <1>2, <1>8
      <4>3. cut' # 0 => s.tick <= cut'
        BY <1>2, <1>8
      <4> QED BY <3>1, <4>1, <4>2, <4>3
    <3>2. CASE o \in Kept
      <4>0. o.step.tick \in Nat
        BY <3>2 DEF Kept, TypeOK, StepType
      <4>1. /\ tick < o.step.tick /\ o.step.tick <= act.end
            /\ \A t \in queue : o.step.tick <= t.tick
            /\ cut # 0 => o.step.tick <= cut
        BY <1>1, <3>2 DEF TicksInv
      <4>2. \A t \in queue' : o.step.tick <= t.tick
        BY <1>2, <1>8, <4>0, <4>1
      <4>3. cut' # 0 => o.step.tick <= cut'
        BY <1>2, <4>1
      <4> QED BY <1>4, <4>1, <4>2, <4>3
    <3> QED BY <1>9, <3>1, <3>2
  <2>5. cut' # 0 => tick' < cut' /\ cut' <= act'.end
    BY <1>1, <1>2, <1>4 DEF TicksInv
  <2> QED BY <2>1, <2>2, <2>3, <2>4, <2>5 DEF TicksInv
<1>11. KeysInv'
  <2>0. /\ \A t \in Todo : Key(t) \in known
        /\ \A o \in done : Key(o.step) \in known
        /\ \A t \in taken : t \in Todo
    BY <1>1, <1>2 DEF KeysInv, TakenSteps, Todo
  <2>1. \A t, u \in Todo' : Key(t) = Key(u) => t = u
    BY <1>1, <1>2, <2>0 DEF KeysInv
  <2>2. \A o, p \in done' : Key(o.step) = Key(p.step) => o = p
    <3> SUFFICES ASSUME NEW o \in done', NEW p \in done', Key(o.step) = Key(p.step) PROVE o = p
      OBVIOUS
    <3>1. /\ o = [step |-> o.step, status |-> o.status]
          /\ p = [step |-> p.step, status |-> p.status]
      <4>1. TypeOK'
        BY RunTypes
      <4>2. o \in [step : StepType, status : Outcomes] /\ p \in [step : StepType, status : Outcomes]
        BY <4>1 DEF TypeOK
      <4> QED BY <4>2
    <3>2. \A t \in taken, q \in done : Key(t) # Key(q.step)
      BY <1>1, <2>0 DEF KeysInv
    <3>3. (o \in done \/ o.step \in taken) /\ (p \in done \/ p.step \in taken)
      BY <1>2
    <3>4. CASE o \in done /\ p \in done
      BY <1>1, <3>4 DEF KeysInv
    <3>5. CASE o \in done <=> p \notin done
      BY <3>2, <3>3, <3>5
    <3>6. CASE o \notin done /\ p \notin done
      <4>1. o.step = p.step
        BY <1>1, <2>0, <3>3, <3>6 DEF KeysInv
      <4>2. o.status = p.status
        BY <1>2, <3>6, <4>1
      <4> QED BY <3>1, <4>1, <4>2
    <3> QED BY <3>4, <3>5, <3>6
  <2>3. \A o \in done', t \in Todo' : Key(o.step) # Key(t)
    <3> SUFFICES ASSUME NEW o \in done', NEW t \in Todo' PROVE Key(o.step) # Key(t)
      OBVIOUS
    <3>1. o \in done \/ o.step \in taken
      BY <1>2
    <3>2. Key(o.step) \in known
      BY <2>0, <3>1
    <3>3. (t \in Todo /\ t \notin taken) \/ t \in fresh
      BY <1>2
    <3>4. CASE t \in fresh
      BY <1>2, <3>2, <3>4
    <3>5. CASE t \in Todo /\ t \notin taken
      <4>1. \A u \in Todo : Key(u) = Key(t) => u = t
        BY <1>1, <3>5 DEF KeysInv
      <4> QED BY <1>1, <2>0, <3>1, <3>5, <4>1 DEF KeysInv
    <3> QED BY <3>3, <3>4, <3>5
  <2>4. \A t \in Todo' \cup TakenSteps' : t \in Todo \cup TakenSteps \/ t \in fresh
    BY <1>2, <2>0 DEF TakenSteps
  <2>5. \A t \in Todo' \cup TakenSteps' : Key(t) \in known'
    BY <1>2, <2>4, <1>1 DEF KeysInv
  <2>6. \A r \in rows' : Key(r.step) \in known'
    BY <1>1, <1>2, <1>4 DEF KeysInv
  <2>7. \A r \in rows', t \in Todo' \cup TakenSteps' :
          Key(r.step) = Key(t) => r.status = "pending" /\ r.step = t
    BY <1>1, <1>2, <1>4, <2>4 DEF KeysInv
  <2>8. TakenSteps \subseteq TakenSteps' /\ taken \subseteq TakenSteps'
    <3>1. TakenSteps \subseteq TakenSteps' /\ s \in TakenSteps'
      <4>1. done \subseteq done' /\ [step |-> s, status |-> e.status] \in done'
        BY <1>2
      <4>2. \E o \in done' : o.step = s
        BY <4>1
      <4> QED BY <4>1, <4>2 DEF TakenSteps
    <3>2. ASSUME NEW t \in taken, t # s PROVE t \in TakenSteps'
      <4>1. [step |-> t, status |-> "cancelled"] \in done'
        BY <1>2, <3>2
      <4> QED BY <4>1 DEF TakenSteps
    <3> QED BY <3>1, <3>2
  <2>9. Pending' \subseteq Todo' \cup TakenSteps'
    BY <1>1, <1>2, <1>5, <2>8 DEF KeysInv
  <2>10. \A t \in Todo' : t.kind = Completing => t = Completion(act') /\ cut' = 0
    <3> SUFFICES ASSUME NEW t \in Todo', t.kind = Completing PROVE t = Completion(act) /\ cut' = 0
      BY <1>4
    <3>1. t \in Todo /\ t \notin taken
      BY <1>2
    <3>2. t = Completion(act) /\ cut = 0
      BY <1>1, <3>1 DEF KeysInv
    <3>3. ~Interrupts(s, e)
      BY <3>1, <3>2 DEF Off, e, taken
    <3> QED BY <1>2, <3>2, <3>3
  <2> QED BY <2>1, <2>2, <2>3, <2>5, <2>6, <2>7, <2>9, <2>10 DEF KeysInv
<1> QED BY <1>0, <1>4, <1>6, <1>10, <1>11 DEF AgendaInv
\* What a turn leaves: the steps to come are beyond the tick at which the world stops, and
\* they are what is pending now; what was taken is settled.
LEMMA CommitShape ==
  ASSUME TypeOK, AgendaInv, Commit
  PROVE  /\ act # NoAct /\ tick < StopsAt /\ StopsAt \in Nat /\ tick' = StopsAt
         /\ \A s \in Todo : StopsAt < s.tick /\ s.kind # Completing
         /\ \A o \in Kept : tick < o.step.tick /\ o.step.tick <= StopsAt
         /\ \A r \in rows' :
              \/ r \in rows /\ \A o \in Kept : Key(o.step) # Key(r.step)
              \/ \E o \in Kept : r = [step |-> o.step, status |-> Terminal(o.status)]
              \/ /\ r.step \in Todo /\ r.status = "pending"
                 /\ \A q \in rows : Key(q.step) # Key(r.step)
         /\ Pending' = Todo
         /\ \A s : s \in Settled' <=> s \in Settled \/ \E o \in Kept : o.step = s
         /\ keys' = Keys(Todo) /\ world' = ReadBack(work) /\ facts' = facts \o news
         /\ cursor' = cursor + Len(news) /\ EndTurn /\ UNCHANGED <<profile, closed, toggles>>
PROOF
<1> DEFINE pending == {s \in queue \cup later : s.tick > StopsAt}
<1>0. act # NoAct
  BY DEF Commit
<1>1. RowsInv /\ TicksInv /\ KeysInv
  BY <1>0 DEF AgendaInv
<1>2. /\ tick' = StopsAt /\ cursor' = cursor + Len(news) /\ keys' = Keys(pending)
      /\ world' = ReadBack(work) /\ rows' = RowsAfter(pending) /\ facts' = facts \o news
      /\ EndTurn /\ UNCHANGED <<profile, closed, toggles>> /\ \A s \in queue : ~Due(s)
  BY DEF Commit
<1>3. /\ act.end \in Nat /\ cut \in Nat /\ tick \in Nat
      /\ queue \subseteq StepType /\ later \subseteq StepType /\ \A s \in Todo : s.tick \in Nat
  BY DEF TypeOK, ActType, NoAct, StepType, Todo
<1>4. tick < StopsAt /\ StopsAt \in Nat /\ StopsAt <= act.end
  BY <1>1, <1>3 DEF TicksInv, StopsAt
<1>5. ASSUME NEW s \in queue PROVE cut # 0 /\ cut < s.tick
  <2>1. PICK f \in queue : IsFirst(f, queue)
    BY <1>3, <1>5, FirstExists
  <2>2. cut # 0 /\ ~(f.tick <= cut)
    BY <1>2, <2>1 DEF Due
  <2>3. f.tick <= s.tick
    BY <1>3, <1>5, <2>1, FirstFields
  <2>4. f.tick \in Nat /\ s.tick \in Nat
    BY <1>3 DEF Todo
  <2> QED BY <1>3, <2>2, <2>3, <2>4
<1>6. ASSUME NEW s \in Todo PROVE StopsAt < s.tick
  <2>1. CASE s \in queue
    BY <1>5, <2>1 DEF StopsAt
  <2>2. CASE s \in later
    BY <1>1, <1>3, <1>4, <2>2 DEF TicksInv, Todo
  <2> QED BY <2>1, <2>2 DEF Todo
<1>7. pending = Todo
  BY <1>3, <1>4, <1>6 DEF Todo
<1> HIDE DEF pending
<1>8. ASSUME NEW s \in Todo, s.kind = Completing PROVE FALSE
  <2>1. s = Completion(act) /\ cut = 0
    BY <1>1, <1>8 DEF KeysInv
  <2>2. act \in ActType
    BY DEF TypeOK
  <2>3. s.tick = act.end
    BY <2>1, <2>2, CompletionType
  <2>4. StopsAt = act.end
    BY <2>1 DEF StopsAt
  <2> QED BY <1>3, <1>6, <2>3, <2>4
<1>9. \A o \in Kept : tick < o.step.tick /\ o.step.tick <= StopsAt
  BY <1>1 DEF TicksInv, StopsAt
<1>10. \A o \in Kept : o \in done
  BY DEF Kept
<1>11. \A o \in Kept, s \in Todo : Key(o.step) # Key(s)
  BY <1>1, <1>10 DEF KeysInv
<1>12. \A r \in rows' :
         \/ r \in rows /\ \A o \in Kept : Key(o.step) # Key(r.step)
         \/ \E o \in Kept : r = [step |-> o.step, status |-> Terminal(o.status)]
         \/ /\ r.step \in Todo /\ r.status = "pending"
            /\ \A q \in rows : Key(q.step) # Key(r.step)
  BY <1>2, <1>7, RowsAfterPending
<1>13. \A st : Terminal(st) \in {"triggered", "cancelled"}
  BY DEF Terminal
<1>14. /\ \A s : s \in Pending' <=> \E r \in rows' : r.status = "pending" /\ r.step = s
       /\ \A s : s \in Settled' <=> \E r \in rows' : r.status \in {"triggered", "cancelled"} /\ r.step = s
  BY DEF Pending, Settled, StepsWith
<1>15. ASSUME NEW s \in Pending' PROVE s \in Todo
  <2>1. PICK r \in rows' : r.status = "pending" /\ r.step = s
    BY <1>14
  <2>2. CASE r \in rows /\ \A o \in Kept : Key(o.step) # Key(r.step)
    <3>1. s \in Pending /\ s.kind # Completing
      BY <1>1, <2>1, <2>2, RowsOfPending DEF RowsInv
    <3>2. s \in Todo \/ s \in TakenSteps
      BY <1>1, <3>1 DEF KeysInv
    <3>3. s \notin TakenSteps
      BY <2>1, <2>2, <3>1 DEF TakenSteps, Kept, Completing
    <3> QED BY <3>2, <3>3
  <2>3. CASE ~(r \in rows /\ \A o \in Kept : Key(o.step) # Key(r.step))
    BY <1>12, <1>13, <2>1, <2>3
  <2> QED BY <2>2, <2>3
<1>16. ASSUME NEW s \in Todo PROVE s \in Pending'
  <2>1. CASE \A q \in rows : Key(q.step) # Key(s)
    <3>1. [step |-> s, status |-> "pending"] \in rows'
      BY <1>2, <1>7, <2>1, RowsAfterPending
    <3> QED BY <1>14, <3>1
  <2>2. CASE \E q \in rows : Key(q.step) = Key(s)
    <3>1. PICK q \in rows : Key(q.step) = Key(s)
      BY <2>2
    <3>2. q.status = "pending" /\ q.step = s
      BY <1>1, <3>1 DEF KeysInv
    <3>3. q \in rows'
      BY <1>2, <1>7, <1>11, <3>1, <3>2, RowsAfterPending
    <3> QED BY <1>14, <3>2, <3>3
  <2> QED BY <2>1, <2>2
<1>17. ASSUME NEW s PROVE s \in Settled' <=> s \in Settled \/ \E o \in Kept : o.step = s
  <2>1. ASSUME s \in Settled' PROVE s \in Settled \/ \E o \in Kept : o.step = s
    <3>1. PICK r \in rows' : r.status \in {"triggered", "cancelled"} /\ r.step = s
      BY <1>14, <2>1
    <3> QED BY <1>12, <3>1, RowsOfPending
  <2>2. ASSUME s \in Settled PROVE s \in Settled'
    <3>1. PICK r \in rows : r.status \in {"triggered", "cancelled"} /\ r.step = s
      BY <2>2, RowsOfPending
    <3>2. \A o \in Kept : Key(o.step) # Key(r.step)
      <4> SUFFICES ASSUME NEW o \in Kept, Key(o.step) = Key(r.step) PROVE FALSE
        OBVIOUS
      <4>1. o.step \in TakenSteps
        BY <1>10 DEF TakenSteps
      <4>2. r.status = "pending"
        BY <1>1, <4>1 DEF KeysInv
      <4> QED BY <3>1, <4>2
    <3>3. r \in rows'
      BY <1>2, <1>7, <3>2, RowsAfterPending
    <3> QED BY <1>14, <3>1, <3>3
  <2>3. ASSUME NEW o \in Kept, o.step = s PROVE s \in Settled'
    <3>1. [step |-> o.step, status |-> Terminal(o.status)] \in rows'
      BY <1>2, <1>7, RowsAfterPending
    <3> QED BY <1>13, <1>14, <2>3, <3>1
  <2> QED BY <2>1, <2>2, <2>3
<1> QED BY <1>0, <1>2, <1>4, <1>6, <1>7, <1>8, <1>9, <1>12, <1>15, <1>16, <1>17
LEMMA AgendaCommit ==
  ASSUME TypeOK, AgendaInv, Commit
  PROVE  AgendaInv'
PROOF
<1>1. /\ act # NoAct /\ tick < StopsAt /\ tick' = StopsAt
      /\ \A s \in Todo : StopsAt < s.tick /\ s.kind # Completing
      /\ \A r \in rows' :
           \/ r \in rows /\ \A o \in Kept : Key(o.step) # Key(r.step)
           \/ \E o \in Kept : r = [step |-> o.step, status |-> Terminal(o.status)]
           \/ /\ r.step \in Todo /\ r.status = "pending"
              /\ \A q \in rows : Key(q.step) # Key(r.step)
      /\ Pending' = Todo
      /\ keys' = Keys(Todo) /\ facts' = facts \o news /\ cursor' = cursor + Len(news) /\ EndTurn
  BY CommitShape
<1>2. RowsInv /\ KeysInv
  BY <1>1 DEF AgendaInv
<1>3. \A o \in Kept : o \in done /\ o.step.kind # Completing
  BY DEF Kept, Completing
<1>4. ASSUME NEW q \in rows', NEW r \in rows', Key(q.step) = Key(r.step) PROVE q = r
  <2>1. CASE q \in rows /\ \A o \in Kept : Key(o.step) # Key(q.step)
    <3>1. r \in rows
      <4>1. ~\E o \in Kept : r = [step |-> o.step, status |-> Terminal(o.status)]
        <5> SUFFICES ASSUME NEW o \in Kept, r = [step |-> o.step, status |-> Terminal(o.status)] PROVE FALSE
          OBVIOUS
        <5>1. r.step = o.step
          OBVIOUS
        <5> QED BY <1>4, <2>1, <5>1
      <4> QED BY <1>1, <1>4, <2>1, <4>1
    <3> QED BY <1>2, <1>4, <2>1, <3>1 DEF RowsInv
  <2>2. CASE \E o \in Kept : q = [step |-> o.step, status |-> Terminal(o.status)]
    <3>1. PICK o \in Kept : q = [step |-> o.step, status |-> Terminal(o.status)]
      BY <2>2
    <3>2. q.step = o.step
      BY <3>1
    <3>3. r \in rows => \E p \in Kept : r = [step |-> p.step, status |-> Terminal(p.status)]
      BY <1>1, <1>4, <3>2
    <3>4. r.step \notin Todo
      BY <1>2, <1>3, <1>4, <3>2 DEF KeysInv
    <3>5. PICK p \in Kept : r = [step |-> p.step, status |-> Terminal(p.status)]
      BY <1>1, <3>3, <3>4
    <3>6. r.step = p.step
      BY <3>5
    <3>7. o = p
      BY <1>2, <1>3, <1>4, <3>2, <3>6 DEF KeysInv
    <3> QED BY <3>1, <3>5, <3>7
  <2>3. CASE /\ q.step \in Todo /\ q.status = "pending"
             /\ \A p \in rows : Key(p.step) # Key(q.step)
    <3>1. r \notin rows
      BY <1>4, <2>3
    <3>2. ~\E o \in Kept : r = [step |-> o.step, status |-> Terminal(o.status)]
      <4> SUFFICES ASSUME NEW o \in Kept, r = [step |-> o.step, status |-> Terminal(o.status)] PROVE FALSE
        OBVIOUS
      <4>1. r.step = o.step
        OBVIOUS
      <4> QED BY <1>2, <1>3, <1>4, <2>3, <4>1 DEF KeysInv
    <3>3. r.step \in Todo /\ r.status = "pending"
      BY <1>1, <3>1, <3>2
    <3>4. r.step = q.step /\ r.status = q.status
      BY <1>2, <1>4, <2>3, <3>3 DEF KeysInv
    <3>5. q \in [step : StepType, status : Statuses] /\ r \in [step : StepType, status : Statuses]
      <4>1. rows' \in SUBSET [step : StepType, status : Statuses]
        <5>1. {s \in queue \cup later : s.tick > StopsAt} \in SUBSET (queue \cup later)
          OBVIOUS
        <5> QED BY <5>1, RowsAfterType DEF Commit
      <4> QED BY <4>1
    <3> QED BY <3>4, <3>5
  <2> QED BY <1>1, <2>1, <2>2, <2>3
<1>5. ASSUME NEW r \in rows' PROVE r.step.kind # Completing
  BY <1>1, <1>2, <1>3 DEF RowsInv
<1>6. cursor' = Len(facts')
  <2>1. facts \in Seq(FactType) /\ news \in Seq(FactType)
    BY DEF TypeOK
  <2>2. Len(facts \o news) = Len(facts) + Len(news)
    BY <2>1, ConcatProperties
  <2> QED BY <1>1, <1>2, <2>2 DEF RowsInv
<1>7. RowsInv'
  BY <1>1, <1>4, <1>5, <1>6 DEF RowsInv
<1>8. act' = NoAct /\ IdleInv'
  BY <1>1 DEF EndTurn, IdleInv
<1> QED BY <1>7, <1>8 DEF AgendaInv

LEMMA AgendaAbandon ==
  ASSUME AgendaInv, Abandon
  PROVE  AgendaInv'
PROOF
<1>1. EndTurn /\ UNCHANGED <<profile, stored, closed, toggles>>
  BY DEF Abandon
<1>2. Pending' = Pending
  BY <1>1 DEF Pending, StepsWith, stored
<1> QED BY <1>1, <1>2 DEF AgendaInv, RowsInv, EndTurn, IdleInv, stored

LEMMA AgendaStutter ==
  ASSUME AgendaInv, UNCHANGED <<stored, running>>
  PROVE  AgendaInv'
PROOF
<1>1. /\ Pending' = Pending /\ Todo' = Todo /\ TakenSteps' = TakenSteps /\ Kept' = Kept
      /\ UNCHANGED <<tick, cursor, keys, world, rows, facts, act, work, queue, later, known, done, news, cut>>
  BY DEF Pending, StepsWith, stored, running, Todo, TakenSteps, Kept
<1>2. RowsInv => RowsInv'
  BY <1>1 DEF RowsInv
<1>3. TicksInv => TicksInv'
  BY <1>1 DEF TicksInv
<1>4. KeysInv => KeysInv'
  BY <1>1 DEF KeysInv
<1>5. IdleInv => IdleInv'
  BY <1>1 DEF IdleInv
<1> QED BY <1>1, <1>2, <1>3, <1>4, <1>5 DEF AgendaInv

LEMMA AgendaInit == Init => AgendaInv
PROOF
<1> SUFFICES ASSUME Init PROVE AgendaInv
  OBVIOUS
<1>1. ASSUME NEW r \in rows
      PROVE  /\ r.status = "pending" /\ r.step \in FirstSteps(profile)
             /\ r = [step |-> r.step, status |-> r.status]
  <2>1. PICK s \in FirstSteps(profile) : r = [step |-> s, status |-> "pending"]
    BY DEF Init
  <2> QED BY <2>1
<1>2. Pending = FirstSteps(profile)
  <2>1. ASSUME NEW s \in FirstSteps(profile) PROVE s \in Pending
    <3>1. [step |-> s, status |-> "pending"] \in rows
      BY DEF Init
    <3> QED BY <3>1, RowsOfPending
  <2>2. \A s \in Pending : s \in FirstSteps(profile)
    BY <1>1, RowsOfPending
  <2> QED BY <2>1, <2>2
<1>3. /\ \A s, t \in FirstSteps(profile) : Key(s) = Key(t) => s = t
      /\ \A s \in FirstSteps(profile) : s.kind # Completing /\ 0 < s.tick
  <2>1. /\ \A t, ph, a, k, r : Step(t, ph, a, k, r).kind = k /\ Step(t, ph, a, k, r).tick = t
        /\ \A t, ph, a, k, r : Key(Step(t, ph, a, k, r)) = <<k, a, r, t>>
    BY DEF Step, Key
  <2>2. \A t, ph, a, k, r, from, to, until :
          /\ Journey(Step(t, ph, a, k, r), from, to, until).kind = k
          /\ Journey(Step(t, ph, a, k, r), from, to, until).tick = t
          /\ Key(Journey(Step(t, ph, a, k, r), from, to, until)) = <<k, a, r, t>>
    BY DEF Journey, Step, Key
  <2>3. CASE profile = "trial"
    <3>1. \A s, t \in TrialSteps : Key(s) = Key(t) => s = t
      BY <2>1, <2>2 DEF TrialSteps
    <3>2. \A s \in TrialSteps : s.kind # Completing /\ 0 < s.tick
      BY <2>1, <2>2 DEF TrialSteps, Completing
    <3> QED BY <2>3, <3>1, <3>2 DEF FirstSteps
  <2>4. CASE profile # "trial"
    <3>1. \A s \in ContentSteps :
            \/ IsRuleStep(s) /\ 0 < s.tick
            \/ \E i \in DOMAIN Schedules :
                 s = Step(Schedules[i].at, NpcMove, Schedules[i].actor, "schedule", i) /\ 0 < s.tick
      <4>1. ASSUME NEW r \in DOMAIN Rules, Rules[r].due >= 1
            PROVE  IsRuleStep(RuleStep(r, Rules[r].due)) /\ 0 < RuleStep(r, Rules[r].due).tick
        <5>1. Rules[r].due \in Nat
          BY StoryParts DEF RuleType
        <5> QED BY <4>1, <5>1, RuleStepType
      <4>2. ASSUME NEW i \in DOMAIN Schedules, Schedules[i].at >= 1
            PROVE  0 < Step(Schedules[i].at, NpcMove, Schedules[i].actor, "schedule", i).tick
        <5>1. Schedules[i].at \in Nat
          BY StoryParts DEF ScheduleType
        <5> QED BY <2>1, <4>2, <5>1
      <4> QED BY <4>1, <4>2 DEF ContentSteps
    <3>2. \A s \in ContentSteps : s.kind # Completing /\ 0 < s.tick
      BY <2>1, <3>1, RuleStepKey DEF Completing
    <3>3. ASSUME NEW s \in ContentSteps, NEW t \in ContentSteps, Key(s) = Key(t) PROVE s = t
      <4>1. s.kind = t.kind /\ s.ref = t.ref
        BY <3>3, KeyParts
      <4>2. CASE IsRuleStep(s) /\ IsRuleStep(t)
        BY <3>3, <4>2, RuleStepKey
      <4>3. CASE \E i \in DOMAIN Schedules :
                   s = Step(Schedules[i].at, NpcMove, Schedules[i].actor, "schedule", i)
        <5>1. PICK i \in DOMAIN Schedules :
                     s = Step(Schedules[i].at, NpcMove, Schedules[i].actor, "schedule", i)
          BY <4>3
        <5>2. s.kind = "schedule" /\ s.ref = i
          BY <5>1 DEF Step
        <5>3. PICK j \in DOMAIN Schedules :
                     t = Step(Schedules[j].at, NpcMove, Schedules[j].actor, "schedule", j)
          BY <3>1, <4>1, <5>2, RuleStepKey
        <5>4. t.ref = j
          BY <5>3 DEF Step
        <5> QED BY <4>1, <5>1, <5>2, <5>3, <5>4
      <4>4. CASE IsRuleStep(s) /\ ~IsRuleStep(t)
        <5>1. t.kind = "schedule"
          BY <2>1, <3>1, <4>4
        <5> QED BY <4>1, <4>4, <5>1, RuleStepKey
      <4> QED BY <3>1, <4>2, <4>3, <4>4
    <3> QED BY <2>4, <3>2, <3>3 DEF FirstSteps
  <2> QED BY <2>3, <2>4
<1>4. RowsInv
  <2>1. tick = 0 /\ cursor = 0 /\ facts = <<>> /\ keys = Keys(Pending)
    BY <1>2 DEF Init
  <2> QED BY <1>1, <1>2, <1>3, <2>1 DEF RowsInv
<1> QED BY <1>4 DEF Init, Idle, IdleInv, AgendaInv

LEMMA AgendaStep ==
  ASSUME TypeOK, Casts, AgendaInv, [Next]_vars
  PROVE  AgendaInv'
PROOF
<1>1. UNCHANGED vars => UNCHANGED <<stored, running>>
  BY DEF vars
<1>2. ASSUME NEW p \in Places, Toggle(p) PROVE UNCHANGED <<stored, running>>
  BY <1>2 DEF Toggle
<1> QED BY <1>1, <1>2, AgendaBegin, AgendaRun, AgendaCommit, AgendaAbandon, AgendaStutter DEF Next
-----------------------------------------------------------------------------
(* Theorems.                                                                *)

\* What the theorems below rest on, and that it always holds.
Sound == TypeOK /\ Casts /\ AgendaInv

LEMMA SoundStep ==
  ASSUME Sound, [Next]_vars
  PROVE  Sound'
PROOF BY TypesStep, AgendaStep DEF Sound

LEMMA AlwaysSound == Spec => []Sound
PROOF
<1>1. Init => Sound
  BY InitTypes, AgendaInit DEF Sound
<1>2. Sound /\ [Next]_vars => Sound'
  BY SoundStep
<1> QED BY <1>1, <1>2, PTL DEF Spec

\* What a turn has committed the next one can load, for every story and every player: the
\* cursor counts the facts, the run state of a pack names exactly the pending rows, and no
\* pending step is in the past, though the three are written at different places.
THEOREM TurnsCanBeLoaded == Spec => []StaysReadable
PROOF
<1>1. ASSUME Sound PROVE StaysReadable
  <2>1. RowsInv
    BY <1>1 DEF Sound, AgendaInv
  <2> QED BY <2>1 DEF RowsInv, StaysReadable, Readable
<1> QED BY <1>1, AlwaysSound, PTL

-----------------------------------------------------------------------------
(* The agenda is kept.                                                      *)

LEMMA SameAgenda ==
  ASSUME UNCHANGED <<tick, rows>>
  PROVE  UNCHANGED <<tick, Pending, Settled>>
PROOF BY DEF Pending, Settled, StepsWith

\* A turn that commits passes the time up to the tick at which it stops.
LEMMA CommitPasses ==
  ASSUME TypeOK, AgendaInv, Commit
  PROVE  Agenda!Pass
PROOF
<1>1. /\ act # NoAct /\ tick < StopsAt /\ StopsAt \in Nat /\ tick' = StopsAt
      /\ \A s \in Todo : StopsAt < s.tick /\ s.kind # Completing
      /\ \A o \in Kept : tick < o.step.tick /\ o.step.tick <= StopsAt
      /\ Pending' = Todo
      /\ \A s : s \in Settled' <=> s \in Settled \/ \E o \in Kept : o.step = s
  BY CommitShape
<1>2. RowsInv /\ KeysInv
  BY <1>1 DEF AgendaInv
<1>3. /\ Todo \subseteq StepType /\ \A o \in Kept : o.step \in StepType
      /\ \A s \in StepType : s.tick \in Nat
      /\ Settled \subseteq StepType
  <2>1. Todo \subseteq StepType
    BY DEF TypeOK, Todo
  <2>2. \A o \in Kept : o.step \in StepType
    BY DEF TypeOK, Kept
  <2>3. \A s \in Settled : s \in StepType
    BY RowsOfPending DEF TypeOK
  <2> QED BY <2>1, <2>2, <2>3 DEF StepType
<1>4. ASSUME NEW s \in Pending PROVE s \in Todo \/ \E o \in Kept : o.step = s
  <2>1. s.kind # Completing
    BY <1>2, RowsOfPending DEF RowsInv
  <2>2. s \in Todo \/ s \in TakenSteps
    BY <1>2 DEF KeysInv
  <2> QED BY <2>1, <2>2 DEF TakenSteps, Kept, Completing
<1>5. ASSUME NEW s \in Todo, s \in Settled' PROVE FALSE
  <2>1. s \notin Settled
    <3> SUFFICES ASSUME s \in Settled PROVE FALSE
      OBVIOUS
    <3>1. PICK r \in rows : r.status \in {"triggered", "cancelled"} /\ r.step = s
      BY RowsOfPending
    <3>2. r.status = "pending"
      BY <1>2, <3>1 DEF KeysInv
    <3> QED BY <3>1, <3>2
  <2>2. PICK o \in Kept : o.step = s
    BY <1>1, <1>5, <2>1
  <2>3. o \in done
    BY DEF Kept
  <2> QED BY <1>2, <2>2, <2>3 DEF KeysInv
<1> QED BY <1>1, <1>3, <1>4, <1>5 DEF Agenda!Pass
\* The simulation keeps its agenda, for every story and every player: whatever a turn takes
\* off its queue was due in it, whatever it leaves is still to come, whatever it settles
\* stays settled, and no pending step is lost, through interruptions and abandoned turns.
THEOREM AgendaKept == Spec => KeepsAgenda
PROOF
<1>1. Init => Agenda!Init
  <2> SUFFICES ASSUME Init PROVE Agenda!Init
    OBVIOUS
  <2>1. TypeOK /\ RowsInv
    BY InitTypes, AgendaInit DEF AgendaInv
  <2>2. Settled = {}
    <3>1. \A r \in rows : r.status = "pending"
      BY DEF Init
    <3> QED BY <3>1 DEF Settled, StepsWith
  <2> QED BY <2>1, <2>2, PendingType DEF Agenda!Init, RowsInv, Init
<1>2. Sound /\ [Next]_vars => [Agenda!Pass]_<<tick, Pending, Settled>>
  <2> SUFFICES ASSUME Sound, [Next]_vars, ~UNCHANGED <<tick, rows>> PROVE Agenda!Pass
    BY SameAgenda
  <2>1. CASE Commit
    BY <2>1, CommitPasses DEF Sound
  <2>2. \A a \in PlayerActions : ~BeginTurn(a)
    BY DEF BeginTurn, stored
  <2>3. \A s \in queue : ~RunStep(s)
    BY DEF RunStep, stored
  <2>4. ~Abandon /\ \A p \in Places : ~Toggle(p)
    BY DEF Abandon, Toggle, stored
  <2>5. ~UNCHANGED vars
    BY DEF vars, stored
  <2> QED BY <2>1, <2>2, <2>3, <2>4, <2>5 DEF Next
<1> QED BY <1>1, <1>2, AlwaysSound, PTL DEF Spec, KeepsAgenda, Agenda!Spec
-----------------------------------------------------------------------------
(* The facts are in order.                                                  *)

Ordered(f) == \A i \in 1..(Len(f) - 1) : Before(f[i], f[i + 1])

\* What has been told is over, and what the turn has told came before all it has still to do.
FactsInv ==
  /\ Ordered(facts) /\ Ordered(news)
  /\ \A i \in DOMAIN facts : facts[i].tick <= tick
  /\ act # NoAct =>
       \A i \in DOMAIN news :
         /\ tick < news[i].tick /\ news[i].tick <= act.end
         /\ cut # 0 => news[i].tick <= cut
         /\ \A s \in queue : InOrder(news[i], s)

LEMMA OrderedConcat ==
  ASSUME NEW f \in Seq(FactType), NEW g \in Seq(FactType), Ordered(f), Ordered(g),
         \A i \in DOMAIN f, j \in DOMAIN g : Before(f[i], g[j])
  PROVE  Ordered(f \o g)
PROOF
<1> DEFINE h == f \o g
<1>1. /\ Len(h) = Len(f) + Len(g) /\ Len(f) \in Nat /\ Len(g) \in Nat
      /\ \A i \in 1..Len(h) : h[i] = IF i <= Len(f) THEN f[i] ELSE g[i - Len(f)]
  BY ConcatProperties, LenProperties
<1>2. DOMAIN f = 1..Len(f) /\ DOMAIN g = 1..Len(g)
  BY LenProperties
<1> HIDE DEF h
<1> SUFFICES ASSUME NEW i \in 1..(Len(h) - 1) PROVE Before(h[i], h[i + 1])
  BY DEF Ordered, h
<1>3. CASE i + 1 <= Len(f)
  <2>1. h[i] = f[i] /\ h[i + 1] = f[i + 1] /\ i \in 1..(Len(f) - 1)
    BY <1>1, <1>3
  <2> QED BY <2>1 DEF Ordered
<1>4. CASE i = Len(f)
  <2>1. h[i] = f[i] /\ h[i + 1] = g[1] /\ i \in DOMAIN f /\ 1 \in DOMAIN g
    BY <1>1, <1>2, <1>4
  <2> QED BY <2>1
<1>5. CASE i > Len(f)
  <2>1. h[i] = g[i - Len(f)] /\ h[i + 1] = g[i - Len(f) + 1] /\ i - Len(f) \in 1..(Len(g) - 1)
    BY <1>1, <1>5
  <2> QED BY <2>1 DEF Ordered
<1> QED BY <1>1, <1>3, <1>4, <1>5

LEMMA ConcatMember ==
  ASSUME NEW f \in Seq(FactType), NEW g \in Seq(FactType), NEW i \in DOMAIN (f \o g)
  PROVE  \/ i \in DOMAIN f /\ (f \o g)[i] = f[i]
         \/ \E j \in DOMAIN g : (f \o g)[i] = g[j]
PROOF
<1>1. /\ Len(f \o g) = Len(f) + Len(g) /\ Len(f) \in Nat /\ Len(g) \in Nat
      /\ \A k \in 1..Len(f \o g) : (f \o g)[k] = IF k <= Len(f) THEN f[k] ELSE g[k - Len(f)]
      /\ f \o g \in Seq(FactType)
  BY ConcatProperties, LenProperties
<1>2. DOMAIN f = 1..Len(f) /\ DOMAIN g = 1..Len(g) /\ DOMAIN (f \o g) = 1..Len(f \o g)
  BY <1>1, LenProperties
<1>3. CASE i <= Len(f)
  BY <1>1, <1>2, <1>3
<1>4. CASE i > Len(f)
  <2>1. i - Len(f) \in DOMAIN g /\ (f \o g)[i] = g[i - Len(f)]
    BY <1>1, <1>2, <1>4
  <2> QED BY <2>1
<1> QED BY <1>1, <1>2, <1>3, <1>4

\* The facts of one step are of its tick and its phase.
LEMMA FactsOfStep ==
  ASSUME NEW s \in StepType, NEW e \in EffectType
  PROVE  /\ FactsOf(s, e) \in Seq(FactType) /\ Ordered(FactsOf(s, e))
         /\ \A i \in DOMAIN FactsOf(s, e) :
              FactsOf(s, e)[i].tick = s.tick /\ FactsOf(s, e)[i].phase = s.phase
PROOF
<1> DEFINE f == FactsOf(s, e)
<1>1. f \in Seq(FactType)
  BY FactsOfType
<1>2. \A i \in DOMAIN f : f[i].tick = s.tick /\ f[i].phase = s.phase
  BY DEF FactsOf
<1>3. DOMAIN f = 1..Len(f) /\ Len(f) \in Nat
  BY <1>1, LenProperties
<1>4. s.tick \in Nat /\ s.phase \in Nat
  BY DEF StepType, Phases
<1> HIDE DEF f
<1>5. ASSUME NEW i \in 1..(Len(f) - 1) PROVE Before(f[i], f[i + 1])
  <2>1. i \in DOMAIN f /\ i + 1 \in DOMAIN f
    BY <1>3
  <2> QED BY <1>2, <1>4, <2>1 DEF Before
<1> QED BY <1>1, <1>2, <1>5 DEF Ordered, f

LEMMA FactFields ==
  ASSUME TypeOK
  PROVE  /\ \A i \in DOMAIN facts : facts[i].tick \in Nat /\ facts[i].phase \in Nat
         /\ \A i \in DOMAIN news : news[i].tick \in Nat /\ news[i].phase \in Nat
PROOF
<1>1. facts \in Seq(FactType) /\ news \in Seq(FactType)
  BY DEF TypeOK
<1>2. /\ \A i \in DOMAIN facts : facts[i] \in FactType
      /\ \A i \in DOMAIN news : news[i] \in FactType
  BY <1>1, ElementOfSeq, LenProperties
<1> QED BY <1>2 DEF FactType, Phases

LEMMA FactsRun ==
  ASSUME Sound, FactsInv, NEW s \in queue, RunStep(s)
  PROVE  FactsInv'
PROOF
<1> DEFINE e == Doing(s)
           fresh == New(s)
           told == FactsOf(s, e)
<1>0. act # NoAct
  BY DEF RunStep
<1>1. TypeOK /\ Casts /\ TicksInv
  BY <1>0 DEF Sound, AgendaInv
<1>2. /\ e \in EffectType /\ fresh \subseteq StepType
      /\ \A d \in fresh : InOrder(s, d)
      /\ IsFirst(s, queue) /\ (cut # 0 => s.tick <= cut)
      /\ \A t \in queue' : t \in queue \/ t \in fresh
      /\ news' = news \o told
      /\ cut' = (IF Interrupts(s, e) THEN s.tick ELSE cut)
      /\ UNCHANGED <<profile, stored, closed, toggles, act>>
  BY <1>1, RunShape
<1>3. s \in StepType /\ queue \subseteq StepType /\ news \in Seq(FactType)
  BY <1>1 DEF TypeOK
<1>4. /\ told \in Seq(FactType) /\ Ordered(told)
      /\ \A i \in DOMAIN told : told[i].tick = s.tick /\ told[i].phase = s.phase
  BY <1>2, <1>3, FactsOfStep
<1> HIDE DEF e, fresh, told
<1>5. UNCHANGED <<tick, facts, act>>
  BY <1>2 DEF stored
<1>6. \A t \in queue' : InOrder(s, t) /\ t \in StepType
  BY <1>2, <1>3, FirstFields
<1>7. tick < s.tick /\ s.tick <= act.end
  BY <1>1 DEF TicksInv
<1>8. /\ s.tick \in Nat /\ s.phase \in Nat /\ \A t \in queue' : t.tick \in Nat /\ t.phase \in Nat
      /\ \A i \in DOMAIN news : news[i].tick \in Nat /\ news[i].phase \in Nat
      /\ cut \in Nat
  <2>1. cut \in Nat /\ \A t \in StepType : t.tick \in Nat /\ t.phase \in Nat
    BY <1>1 DEF StepType, Phases, TypeOK
  <2> QED BY <1>1, <1>3, <1>6, <2>1, FactFields
<1>9. \A i \in DOMAIN news :
        /\ tick < news[i].tick /\ news[i].tick <= act.end
        /\ cut # 0 => news[i].tick <= cut
        /\ InOrder(news[i], s)
  BY <1>0 DEF FactsInv
<1>10. Ordered(news')
  <2>1. \A i \in DOMAIN news, j \in DOMAIN told : Before(news[i], told[j])
    BY <1>4, <1>9 DEF Before, InOrder
  <2> QED BY <1>2, <1>3, <1>4, <2>1, OrderedConcat DEF FactsInv
<1>11. ASSUME NEW i \in DOMAIN news'
       PROVE  /\ tick' < news'[i].tick /\ news'[i].tick <= act'.end
              /\ cut' # 0 => news'[i].tick <= cut'
              /\ \A t \in queue' : InOrder(news'[i], t)
  <2>1. CASE i \in DOMAIN news /\ news'[i] = news[i]
    <3>1. \A t \in queue' : InOrder(news[i], t)
      BY <1>6, <1>8, <1>9, <2>1 DEF InOrder
    <3>2. cut' # 0 => news[i].tick <= cut'
      BY <1>2, <1>8, <1>9, <2>1 DEF InOrder
    <3> QED BY <1>5, <1>9, <2>1, <3>1, <3>2
  <2>2. CASE \E j \in DOMAIN told : news'[i] = told[j]
    <3>1. news'[i].tick = s.tick /\ news'[i].phase = s.phase
      BY <1>4, <2>2
    <3>2. \A t \in queue' : InOrder(news'[i], t)
      BY <1>6, <3>1 DEF InOrder
    <3>3. cut' # 0 => s.tick <= cut'
      BY <1>2, <1>8
    <3> QED BY <1>5, <1>7, <3>1, <3>2, <3>3
  <2> QED BY <1>2, <1>3, <1>4, <2>1, <2>2, ConcatMember
<1> QED BY <1>5, <1>10, <1>11 DEF FactsInv

LEMMA FactsCommit ==
  ASSUME Sound, FactsInv, Commit
  PROVE  FactsInv'
PROOF
<1>1. TypeOK /\ AgendaInv
  BY DEF Sound
<1>2. /\ act # NoAct /\ tick < StopsAt /\ StopsAt \in Nat /\ tick' = StopsAt
      /\ facts' = facts \o news /\ EndTurn
  BY <1>1, CommitShape
<1>3. facts \in Seq(FactType) /\ news \in Seq(FactType) /\ tick \in Nat /\ cut \in Nat
  BY <1>1 DEF TypeOK
<1>4. act.end \in Nat
  BY <1>1 DEF TypeOK, ActType, NoAct
<1>5. \A i \in DOMAIN facts : facts[i].tick <= tick
  BY DEF FactsInv
<1>6. \A i \in DOMAIN news : tick < news[i].tick /\ news[i].tick <= StopsAt
  BY <1>2 DEF FactsInv, StopsAt
<1>7. Ordered(facts')
  <2>1. \A i \in DOMAIN facts, j \in DOMAIN news : Before(facts[i], news[j])
    BY <1>1, <1>3, <1>5, <1>6, FactFields DEF Before
  <2> QED BY <1>2, <1>3, <2>1, OrderedConcat DEF FactsInv
<1>8. ASSUME NEW i \in DOMAIN facts' PROVE facts'[i].tick <= tick'
  <2>1. \/ i \in DOMAIN facts /\ facts'[i] = facts[i]
        \/ \E j \in DOMAIN news : facts'[i] = news[j]
    BY <1>2, <1>3, ConcatMember
  <2>2. \A j \in DOMAIN facts : facts[j].tick <= StopsAt
    BY <1>1, <1>2, <1>3, <1>5, FactFields
  <2> QED BY <1>2, <1>6, <2>1, <2>2
<1>9. act' = NoAct /\ news' = <<>> /\ Ordered(news')
  <2>1. act' = NoAct /\ news' = <<>>
    BY <1>2 DEF EndTurn
  <2> QED BY <2>1 DEF Ordered
<1> QED BY <1>7, <1>8, <1>9 DEF FactsInv

LEMMA FactsSame ==
  ASSUME FactsInv, UNCHANGED <<tick, facts>>,
         news' = <<>> \/ (news' = news /\ UNCHANGED <<act, cut, queue>>)
  PROVE  FactsInv'
PROOF
<1>1. CASE news' = <<>>
  BY <1>1 DEF FactsInv, Ordered
<1>2. CASE news' = news /\ UNCHANGED <<act, cut, queue>>
  BY <1>2 DEF FactsInv, Ordered
<1> QED BY <1>1, <1>2

LEMMA AlwaysFacts == Spec => [](Sound /\ FactsInv)
PROOF
<1>1. Init => FactsInv
  <2>1. Ordered(<<>>)
    BY DEF Ordered
  <2> QED BY <2>1 DEF Init, Idle, FactsInv
<1>2. Sound /\ FactsInv /\ [Next]_vars => FactsInv'
  <2> SUFFICES ASSUME Sound, FactsInv, [Next]_vars PROVE FactsInv'
    OBVIOUS
  <2>1. ASSUME NEW a \in PlayerActions, BeginTurn(a) PROVE FactsInv'
    <3>1. news = <<>>
      BY <2>1 DEF Sound, AgendaInv, IdleInv, BeginTurn
    <3> QED BY <2>1, <3>1, FactsSame DEF BeginTurn, stored
  <2>2. ASSUME Abandon PROVE FactsInv'
    BY <2>2, FactsSame DEF Abandon, EndTurn, stored
  <2>3. ASSUME NEW p \in Places, Toggle(p) PROVE FactsInv'
    BY <2>3, FactsSame DEF Toggle, stored, running
  <2>4. ASSUME UNCHANGED vars PROVE FactsInv'
    BY <2>4, FactsSame DEF vars, stored, running
  <2> QED BY <2>1, <2>2, <2>3, <2>4, FactsRun, FactsCommit DEF Next
<1> QED BY <1>1, <1>2, AlwaysSound, PTL DEF Spec

\* The facts are written in the order in which they happened, for every story and every
\* player: no step is taken, derived or left over in a way that lets a later turn, or a later
\* step of the same turn, tell something earlier than what has been told.
THEOREM FactsAreInOrder == Spec => []FactsInOrder
PROOF
<1>1. ASSUME Sound, FactsInv PROVE FactsInOrder
  <2>1. TypeOK /\ facts \in Seq(FactType) /\ news \in Seq(FactType) /\ tick \in Nat
    BY <1>1 DEF Sound, TypeOK
  <2>2. \A i \in DOMAIN facts, j \in DOMAIN news : Before(facts[i], news[j])
    <3>1. CASE act = NoAct
      BY <1>1, <3>1 DEF Sound, AgendaInv, IdleInv
    <3>2. CASE act # NoAct
      BY <1>1, <2>1, <3>2, FactFields DEF FactsInv, Before
    <3> QED BY <3>1, <3>2
  <2>3. Ordered(AllFacts)
    BY <1>1, <2>1, <2>2, OrderedConcat DEF FactsInv, AllFacts
  <2> QED BY <1>1, <2>3 DEF FactsInOrder, FactsInv, Ordered
<1> QED BY <1>1, AlwaysFacts, PTL
-----------------------------------------------------------------------------
(* Plans and their ends.                                                    *)

\* Each plan of w that is under way ends with a step of P.
Expects(w, P) ==
  \A a \in Npcs : w.plan[a].status \in UnderWay => \E d \in P : Ends(d, a, w.plan[a])
\* Of the trial: a start in P is one of the baseline, and its arrival is not among the keys K.
Unstarted(K, P) ==
  \A s \in P : s.kind = "npc_travel_start" =>
    /\ s.ref = 0
    /\ \A k \in K : k[1] = "npc_travel_arrive" /\ k[2] = s.actor => k[3] # s.tick
\* Of a pack: the keys K name no plan of a generation that is still to come.
Generated(K, w) ==
  \A k \in K : k[1] \in EndKinds => k[2] \in Npcs /\ k[3] <= w.plan[k[2]].gen

RowKeys == {Key(r.step) : r \in rows}
Plausible(K, P, w) ==
  /\ Expects(w, P)
  /\ profile = "trial" => Unstarted(K, P)
  /\ profile # "trial" => Generated(K, w)
PlansInv ==
  /\ Plausible(RowKeys, Pending, world)
  /\ act # NoAct => Plausible(known, Todo, work)

LEMMA KeyFields == \A s : /\ Key(s)[1] = s.kind /\ Key(s)[2] = s.actor
                          /\ Key(s)[3] = s.ref /\ Key(s)[4] = s.tick
PROOF BY DEF Key

LEMMA SameExpects ==
  ASSUME NEW w, NEW v, w.plan = v.plan, NEW P, NEW Q, P \subseteq Q, Expects(w, P)
  PROVE  Expects(v, Q)
PROOF BY DEF Expects

LEMMA EndsKind ==
  ASSUME NEW d, NEW a, NEW p, Ends(d, a, p)
  PROVE  d.kind \in EndKinds /\ d.actor = a /\ d.ref = p.gen
PROOF BY DEF Ends, EndOf, EndKinds

LEMMA PlansInit == Init => PlansInv
PROOF
<1> SUFFICES ASSUME Init PROVE PlansInv
  OBVIOUS
<1>1. act = NoAct
  BY DEF Init, Idle
<1>2. Expects(world, Pending)
  <2>1. \A a \in Npcs : world.plan[a] = NoPlan
    BY DEF Init, FirstWorld, TrialBeginning, ContentBeginning
  <2>2. NoPlan.status \notin UnderWay
    BY DEF NoPlan, UnderWay
  <2> QED BY <2>1, <2>2 DEF Expects
<1>3. \A r \in rows : r.step \in FirstSteps(profile)
  <2> SUFFICES ASSUME NEW r \in rows PROVE r.step \in FirstSteps(profile)
    OBVIOUS
  <2>1. PICK s \in FirstSteps(profile) : r = [step |-> s, status |-> "pending"]
    BY DEF Init
  <2> QED BY <2>1
<1>4. /\ \A k \in RowKeys : \E s \in FirstSteps(profile) : k = Key(s)
      /\ \A s \in Pending : s \in FirstSteps(profile)
  BY <1>3, RowsOfPending DEF RowKeys
<1>5. /\ \A t, ph, a, k, r : Step(t, ph, a, k, r).kind = k /\ Step(t, ph, a, k, r).ref = r
      /\ \A t, ph, a, k, r, from, to, until :
           /\ Journey(Step(t, ph, a, k, r), from, to, until).kind = k
           /\ Journey(Step(t, ph, a, k, r), from, to, until).ref = r
  BY DEF Journey, Step
<1>6. ASSUME profile = "trial" PROVE Unstarted(RowKeys, Pending)
  <2>1. \A s \in TrialSteps : s.kind # "npc_travel_arrive" /\ s.ref = 0
    BY <1>5 DEF TrialSteps
  <2> QED BY <1>4, <1>6, <2>1, KeyFields DEF FirstSteps, Unstarted
<1>7. ASSUME profile # "trial" PROVE Generated(RowKeys, world)
  <2>1. \A s \in ContentSteps : s.kind \notin EndKinds
    BY <1>5 DEF ContentSteps, RuleStep, EndKinds
  <2> QED BY <1>4, <1>7, <2>1, KeyFields DEF FirstSteps, Generated
<1> QED BY <1>1, <1>2, <1>6, <1>7 DEF PlansInv, Plausible

LEMMA PlansBegin ==
  ASSUME Sound, PlansInv, NEW a \in PlayerActions, BeginTurn(a)
  PROVE  PlansInv'
PROOF
<1>1. TypeOK /\ RowsInv /\ (act = NoAct => IdleInv)
  BY DEF Sound, AgendaInv
<1>2. /\ act' \in ActType /\ Pending \subseteq Todo'
      /\ \A s \in Todo' : s \in Pending \/ s = Completion(act')
      /\ \A k \in known' : (\E r \in rows : k = Key(r.step)) \/ k = Key(Completion(act'))
      /\ work' = Loaded
      /\ UNCHANGED <<profile, stored, closed, toggles, done, news, cut>>
  BY <1>1, BeginShape
<1>3. UNCHANGED <<profile, world, rows>> /\ Pending' = Pending /\ RowKeys' = RowKeys
  BY <1>2 DEF stored, Pending, StepsWith, RowKeys
<1>4. Plausible(RowKeys, Pending, world)
  BY DEF PlansInv
<1>5. Completion(act').kind = "player_continuous_complete"
  BY <1>2, CompletionType
<1>6. \A k \in known' : k \in RowKeys \/ k[1] = "player_continuous_complete"
  BY <1>2, <1>5, KeyFields DEF RowKeys
<1>7. work'.plan = world.plan
  BY <1>1, <1>2 DEF Loaded, TypeOK, WorldType
<1>8. Expects(work', Todo')
  BY <1>2, <1>4, <1>7, SameExpects DEF Plausible
<1>9. profile = "trial" => Unstarted(known', Todo')
  BY <1>2, <1>4, <1>5, <1>6 DEF Plausible, Unstarted
<1>10. profile # "trial" => Generated(known', work')
  BY <1>4, <1>6, <1>7 DEF Plausible, Generated, EndKinds
<1>11. Plausible(RowKeys, Pending, world)' /\ Plausible(known, Todo, work)'
  BY <1>3, <1>4, <1>8, <1>9, <1>10 DEF Plausible
<1> QED BY <1>11 DEF PlansInv
\* What a new step is, and where it goes.
LEMMA NewSteps ==
  ASSUME Sound, NEW s \in queue, RunStep(s)
  PROVE  /\ work \in WorldType /\ s \in StepType /\ s \in Todo /\ act # NoAct
         /\ Doing(s) \in EffectType /\ work' = Doing(s).world
         /\ profile = "trial" => TrialFollows(work, s, Doing(s))
         /\ profile # "trial" => /\ Follows(work, Doing(s))
                                 /\ s.kind \in EndKinds => EndsPlan(work, Doing(s), s.actor)
         /\ \A d \in Doing(s).derived : Key(d) \notin known => d \in Todo'
         /\ \A t \in Todo : t \in Todo' \/ t = s \/ t.kind = Completing
         /\ \A t \in Todo' : (t \in Todo /\ t # s) \/ (t \in Doing(s).derived /\ Key(t) \notin known)
         /\ \A k \in known' : k \in known \/ \E d \in Doing(s).derived : k = Key(d)
         /\ UNCHANGED <<profile, tick, world, rows, act>>
PROOF
<1> DEFINE e == Doing(s)
           fresh == New(s)
           taken == Off(s)
<1>0. act # NoAct
  BY DEF RunStep
<1>1. TypeOK /\ Casts /\ TicksInv /\ KeysInv
  BY <1>0 DEF Sound, AgendaInv
<1>2. /\ e \in EffectType /\ e.status \in Outcomes
      /\ fresh \subseteq e.derived
      /\ \A d \in e.derived : d \in fresh \/ Key(d) \in known
      /\ taken \subseteq queue /\ s \in taken
      /\ \A t \in taken : t = s \/ (t = Completion(act) /\ Interrupts(s, e))
      /\ \A d \in fresh : Key(d) \notin known /\ d.kind # Completing
      /\ \A t \in Todo' : (t \in Todo /\ t \notin taken) \/ t \in fresh
      /\ \A t \in Todo : t \in Todo' \/ t \in taken
      /\ \A d \in fresh : d \in Todo' \/ d \in taken
      /\ known' = known \cup Keys(fresh)
      /\ work' = e.world
      /\ UNCHANGED <<profile, stored, closed, toggles, act>>
  BY <1>1, RunShape
<1>3. work \in WorldType /\ s \in StepType /\ s \in Todo /\ act \in ActType
  BY <1>1 DEF TypeOK, Todo
<1>4. e.status # "raises"
  BY <1>2 DEF Outcomes
<1>5. /\ profile = "trial" => TrialFollows(work, s, e)
      /\ profile # "trial" => /\ Follows(work, e)
                              /\ s.kind \in EndKinds => EndsPlan(work, e, s.actor)
  BY <1>1, <1>4, StepEffect DEF Doing
<1> HIDE DEF e, fresh, taken
<1>6. \A d \in e.derived : Key(d) \notin known => d \in Todo'
  <2> SUFFICES ASSUME NEW d \in e.derived, Key(d) \notin known PROVE d \in Todo'
    OBVIOUS
  <2>1. d \in Todo' \/ d \in taken
    BY <1>2
  <2>2. d \notin Todo
    BY <1>1 DEF KeysInv
  <2> QED BY <1>2, <2>1, <2>2 DEF Todo
<1>7. \A t \in Todo : t \in Todo' \/ t = s \/ t.kind = Completing
  <2>1. Completion(act).kind = Completing
    BY <1>3, CompletionType DEF Completing
  <2> QED BY <1>2, <2>1
<1>8. \A t \in Todo' : (t \in Todo /\ t # s) \/ (t \in e.derived /\ Key(t) \notin known)
  BY <1>2
<1>9. \A k \in known' : k \in known \/ \E d \in e.derived : k = Key(d)
  BY <1>2 DEF Keys
<1>10. UNCHANGED <<profile, tick, world, rows, act>>
  BY <1>2 DEF stored
<1> QED BY <1>0, <1>2, <1>3, <1>5, <1>6, <1>7, <1>8, <1>9, <1>10 DEF e

\* A step of the trial.
LEMMA TrialPlansRun ==
  ASSUME Sound, profile = "trial", Plausible(known, Todo, work), NEW s \in queue, RunStep(s)
  PROVE  Plausible(known, Todo, work)'
PROOF
<1> DEFINE e == Doing(s)
<1>1. /\ work \in WorldType /\ s \in Todo /\ work' = e.world /\ TrialFollows(work, s, e)
      /\ \A d \in e.derived : Key(d) \notin known => d \in Todo'
      /\ \A t \in Todo : t \in Todo' \/ t = s \/ t.kind = Completing
      /\ \A t \in Todo' : (t \in Todo /\ t # s) \/ (t \in e.derived /\ Key(t) \notin known)
      /\ \A k \in known' : k \in known \/ \E d \in e.derived : k = Key(d)
      /\ UNCHANGED <<profile, tick, world, rows, act>>
  BY NewSteps
<1>2. KeysInv
  BY DEF Sound, AgendaInv, RunStep
<1>3. Expects(work, Todo) /\ Unstarted(known, Todo)
  BY DEF Plausible
<1> HIDE DEF e
<1>4. ASSUME NEW d \in e.derived
      PROVE  /\ d \in Todo' /\ s.kind = "npc_travel_start" /\ d.kind = "npc_travel_arrive"
             /\ d.actor = s.actor /\ d.ref = s.tick
  <2>1. /\ s.kind = "npc_travel_start" /\ d.kind = "npc_travel_arrive"
        /\ d.actor = s.actor /\ d.ref = s.tick
    BY <1>1 DEF TrialFollows
  <2>2. Key(d) \notin known
    BY <1>1, <1>3, <2>1, KeyFields DEF Unstarted
  <2> QED BY <1>1, <2>1, <2>2
<1>5. ASSUME NEW a \in Npcs, work'.plan[a].status \in UnderWay
      PROVE  \E d \in Todo' : Ends(d, a, work'.plan[a])
  <2>1. CASE SamePlan(work'.plan[a], work.plan[a]) /\ ~Ends(s, a, work.plan[a])
    <3>1. PICK d \in Todo : Ends(d, a, work.plan[a])
      BY <1>3, <1>5, <2>1 DEF Expects, SamePlan
    <3>2. d.kind # Completing
      BY <3>1, EndsKind DEF EndKinds, Completing
    <3>3. d \in Todo'
      BY <1>1, <2>1, <3>1, <3>2
    <3> QED BY <2>1, <3>1, <3>3 DEF SamePlan, Ends
  <2>2. CASE \E d \in e.derived : Ends(d, a, work'.plan[a])
    BY <1>4, <2>2
  <2> QED BY <1>1, <1>5, <2>1, <2>2 DEF TrialFollows
<1>6. Unstarted(known', Todo')
  <2> SUFFICES ASSUME NEW t \in Todo', t.kind = "npc_travel_start"
               PROVE  /\ t.ref = 0
                      /\ \A k \in known' : k[1] = "npc_travel_arrive" /\ k[2] = t.actor => k[3] # t.tick
    BY DEF Unstarted
  <2>1. t \in Todo /\ t # s
    BY <1>1, <1>4
  <2>2. t.ref = 0 /\ \A k \in known : k[1] = "npc_travel_arrive" /\ k[2] = t.actor => k[3] # t.tick
    BY <1>3, <2>1 DEF Unstarted
  <2>3. ASSUME NEW d \in e.derived, d.actor = t.actor, d.ref = t.tick PROVE FALSE
    <3>1. s.kind = "npc_travel_start" /\ s.actor = t.actor /\ s.tick = t.tick
      BY <1>4, <2>3
    <3>2. s.ref = 0
      BY <1>1, <1>3, <3>1 DEF Unstarted
    <3>3. Key(s) = Key(t)
      BY <2>2, <3>1, <3>2 DEF Key
    <3> QED BY <1>1, <1>2, <2>1, <3>3 DEF KeysInv
  <2> QED BY <1>1, <2>2, <2>3, KeyFields
<1> QED BY <1>1, <1>5, <1>6 DEF Plausible, Expects

\* A step of a content pack.
LEMMA ContentPlansRun ==
  ASSUME Sound, profile # "trial", Plausible(known, Todo, work), NEW s \in queue, RunStep(s)
  PROVE  Plausible(known, Todo, work)'
PROOF
<1> DEFINE e == Doing(s)
<1>1. /\ work \in WorldType /\ s \in Todo /\ e \in EffectType /\ work' = e.world
      /\ Follows(work, e) /\ (s.kind \in EndKinds => EndsPlan(work, e, s.actor))
      /\ \A d \in e.derived : Key(d) \notin known => d \in Todo'
      /\ \A t \in Todo : t \in Todo' \/ t = s \/ t.kind = Completing
      /\ \A k \in known' : k \in known \/ \E d \in e.derived : k = Key(d)
      /\ UNCHANGED <<profile, tick, world, rows, act>>
  BY NewSteps
<1>2. Expects(work, Todo) /\ Generated(known, work) /\ known \subseteq Kinds \X Actors \X Nat \X Nat
  BY DEF Plausible, Sound, TypeOK
<1> HIDE DEF e
<1>3. \A a \in Npcs : work.plan[a].gen \in Nat /\ work'.plan[a].gen \in Nat
  BY <1>1, WorldFields DEF EffectType
<1>4. ASSUME NEW d \in e.derived, IsEndStep(d, work, e.world) PROVE d \in Todo'
  <2>1. d.kind \in EndKinds /\ d.actor \in Npcs /\ work.plan[d.actor].gen < d.ref
    BY <1>4 DEF IsEndStep
  <2>2. d.ref \in Nat
    BY <1>1 DEF EffectType, StepType
  <2>3. Key(d) \notin known
    BY <1>2, <1>3, <2>1, <2>2, KeyFields DEF Generated
  <2> QED BY <1>1, <2>3
<1>5. ASSUME NEW a \in Npcs, work'.plan[a].status \in UnderWay
      PROVE  \E d \in Todo' : Ends(d, a, work'.plan[a])
  <2>1. CASE \E d \in e.derived : IsEndStep(d, work, e.world) /\ Ends(d, a, work'.plan[a])
    BY <1>4, <2>1
  <2>2. CASE SamePlan(work'.plan[a], work.plan[a]) /\ ~(s.kind \in EndKinds /\ s.actor = a)
    <3>1. PICK d \in Todo : Ends(d, a, work.plan[a])
      BY <1>2, <1>5, <2>2 DEF Expects, SamePlan
    <3>2. d \in Todo'
      BY <1>1, <2>2, <3>1, EndsKind DEF EndKinds, Completing
    <3> QED BY <2>2, <3>1, <3>2 DEF SamePlan, Ends
  <2>3. CASE s.kind \in EndKinds /\ s.actor = a
    BY <1>1, <1>5, <2>1, <2>3 DEF EndsPlan
  <2> QED BY <1>1, <1>5, <2>1, <2>2, <2>3 DEF Follows
<1>6. ASSUME NEW k \in known', k[1] \in EndKinds
      PROVE  k[2] \in Npcs /\ k[3] <= work'.plan[k[2]].gen
  <2>1. CASE k \in known
    <3>1. k[2] \in Npcs /\ k[3] <= work.plan[k[2]].gen /\ k[3] \in Nat
      BY <1>2, <1>6, <2>1 DEF Generated
    <3>2. work.plan[k[2]].gen <= work'.plan[k[2]].gen
      BY <1>1, <3>1 DEF Follows
    <3> QED BY <1>3, <3>1, <3>2
  <2>2. ASSUME NEW d \in e.derived, k = Key(d) PROVE k[2] \in Npcs /\ k[3] <= work'.plan[k[2]].gen
    <3>1. ~IsRuleStep(d)
      BY <1>6, <2>2, RuleStepKey, KeyFields DEF EndKinds
    <3>2. IsEndStep(d, work, e.world)
      BY <1>1, <3>1 DEF Follows
    <3> QED BY <1>1, <2>2, <3>2, KeyFields DEF IsEndStep
  <2> QED BY <1>1, <2>1, <2>2
<1> QED BY <1>1, <1>5, <1>6 DEF Plausible, Expects, Generated
LEMMA PlansCommit ==
  ASSUME Sound, PlansInv, Commit
  PROVE  PlansInv'
PROOF
<1>1. TypeOK /\ AgendaInv
  BY DEF Sound
<1>2. /\ act # NoAct
      /\ \A r \in rows' :
           \/ r \in rows /\ \A o \in Kept : Key(o.step) # Key(r.step)
           \/ \E o \in Kept : r = [step |-> o.step, status |-> Terminal(o.status)]
           \/ /\ r.step \in Todo /\ r.status = "pending"
              /\ \A q \in rows : Key(q.step) # Key(r.step)
      /\ Pending' = Todo /\ world' = ReadBack(work) /\ EndTurn /\ UNCHANGED <<profile, closed, toggles>>
  BY <1>1, CommitShape
<1>3. Plausible(known, Todo, work) /\ KeysInv
  BY <1>1, <1>2 DEF PlansInv, AgendaInv
<1>4. \A r \in rows' : r \in rows \/ r.step \in Todo \/ \E o \in done : r.step = o.step
  BY <1>2 DEF Kept
<1>5. \A k \in RowKeys' : k \in known
  <2> SUFFICES ASSUME NEW r \in rows' PROVE Key(r.step) \in known
    BY DEF RowKeys
  <2> QED BY <1>3, <1>4 DEF KeysInv, TakenSteps
<1>6. world'.plan = work.plan
  BY <1>1, <1>2 DEF ReadBack, TypeOK, WorldType
<1>7. Expects(world', Pending')
  BY <1>2, <1>3, <1>6, SameExpects DEF Plausible
<1>8. profile' = "trial" => Unstarted(RowKeys', Pending')
  BY <1>2, <1>3, <1>5 DEF Plausible, Unstarted
<1>9. profile' # "trial" => Generated(RowKeys', world')
  BY <1>2, <1>3, <1>5, <1>6 DEF Plausible, Generated
<1>10. act' = NoAct
  BY <1>2 DEF EndTurn
<1> QED BY <1>7, <1>8, <1>9, <1>10 DEF PlansInv, Plausible

LEMMA PlansStep ==
  ASSUME Sound, PlansInv, [Next]_vars
  PROVE  PlansInv'
PROOF
<1>1. ASSUME NEW s \in queue, RunStep(s) PROVE PlansInv'
  <2>1. act # NoAct /\ UNCHANGED <<profile, world, rows>>
    BY <1>1, NewSteps
  <2>2. Plausible(known, Todo, work) /\ Plausible(RowKeys, Pending, world)
    BY <2>1 DEF PlansInv
  <2>3. Plausible(known, Todo, work)'
    BY <1>1, <2>2, TrialPlansRun, ContentPlansRun
  <2>4. RowKeys' = RowKeys /\ Pending' = Pending
    BY <2>1 DEF RowKeys, Pending, StepsWith
  <2>5. Plausible(RowKeys, Pending, world)'
    BY <2>1, <2>2, <2>4 DEF Plausible
  <2> QED BY <2>3, <2>5 DEF PlansInv
<1>2. ASSUME UNCHANGED <<profile, world, rows>>,
             act' = NoAct \/ UNCHANGED <<act, known, queue, later, work>>
      PROVE  PlansInv'
  <2>1. RowKeys' = RowKeys /\ Pending' = Pending
    BY <1>2 DEF RowKeys, Pending, StepsWith
  <2>2. Plausible(RowKeys, Pending, world)'
    BY <1>2, <2>1 DEF PlansInv, Plausible
  <2>3. act' # NoAct => Plausible(known, Todo, work)'
    BY <1>2 DEF PlansInv, Plausible, Todo
  <2> QED BY <2>2, <2>3 DEF PlansInv
<1>3. Abandon => PlansInv'
  BY <1>2 DEF Abandon, EndTurn, stored
<1>4. \A p \in Places : Toggle(p) => PlansInv'
  BY <1>2 DEF Toggle, stored, running
<1>5. UNCHANGED vars => PlansInv'
  BY <1>2 DEF vars, stored, running
<1> QED BY <1>1, <1>3, <1>4, <1>5, PlansBegin, PlansCommit DEF Next

LEMMA AlwaysPlans == Spec => [](Sound /\ PlansInv)
PROOF BY PlansInit, PlansStep, AlwaysSound, PTL DEF Spec

\* An NPC that is under way arrives, for every story and every player: whatever rules,
\* schedules and goals begin, replace or give up, at every commit the plan of an NPC under
\* way has exactly one pending row, of its generation and at its tick.
THEOREM PlansHaveOneEnd == Spec => []PlansAreExpected
PROOF
<1>1. ASSUME Sound, PlansInv PROVE PlansAreExpected
  <2> SUFFICES ASSUME NEW a \in Npcs, world.plan[a].status \in UnderWay
               PROVE  Cardinality(EndsOf(a)) = 1
    BY DEF PlansAreExpected
  <2>1. PICK d \in Pending : Ends(d, a, world.plan[a])
    BY <1>1 DEF PlansInv, Plausible, Expects
  <2>2. \A s : s \in EndsOf(a) <=> s \in Pending /\ Ends(s, a, world.plan[a])
    BY DEF EndsOf, Ends
  <2>3. ASSUME NEW s \in EndsOf(a) PROVE s = d
    <3>1. Key(s) = Key(d)
      BY <2>1, <2>2, <2>3 DEF Ends, Key
    <3>2. s \in Pending
      BY <2>2, <2>3
    <3>3. PICK r \in rows : r.step = s
      BY <3>2, RowsOfPending
    <3>4. PICK q \in rows : q.step = d
      BY <2>1, RowsOfPending
    <3> QED BY <1>1, <3>1, <3>3, <3>4 DEF Sound, AgendaInv, RowsInv
  <2>4. EndsOf(a) = {d}
    BY <2>1, <2>2, <2>3
  <2> QED BY <2>4, FS_Singleton
<1> QED BY <1>1, AlwaysPlans, PTL

-----------------------------------------------------------------------------
(* Orphans.                                                                 *)

\* No plan of w waits for step s of a content pack.
Unawaited(w, s) ==
  /\ s.kind \in EndKinds
  /\ ~(/\ w.plan[s.actor].status \in UnderWay /\ w.plan[s.actor].gen = s.ref
       /\ EndOf(w.plan[s.actor].status) = s.kind)
\* An orphan is still to come all through the turn.
OrphansInv ==
  profile # "trial" /\ act # NoAct =>
    \A s \in Pending : Unawaited(world, s) => s \in Todo /\ Unawaited(work, s)

LEMMA OrphanUnawaited ==
  ASSUME profile \in {"trial", "content"}
  PROVE  \A s : Orphan(s) <=> profile # "trial" /\ Unawaited(world, s)
PROOF BY DEF Orphan, Unawaited, EndKinds

\* An end that no plan waits for raises.
LEMMA UnawaitedRaises ==
  ASSUME NEW w, NEW s, NEW p, Unawaited(w, s)
  PROVE  ContentStep(w, s, p).status = "raises"
PROOF
<1>1. CASE s.kind = "npc_travel_arrive"
  <2>1. ~Expected(w, s, "traveling")
    BY <1>1 DEF Unawaited, Expected, UnderWay, EndOf
  <2>2. ContentStep(w, s, p) = Raises(w)
    BY <1>1, <2>1 DEF ContentStep, ContentArrive
  <2> QED BY <2>2 DEF Raises, Effect
<1>2. CASE s.kind = "npc_wait_complete"
  <2>1. ~Expected(w, s, "waiting")
    BY <1>2 DEF Unawaited, Expected, UnderWay, EndOf
  <2>2. ContentStep(w, s, p) = Raises(w)
    BY <1>2, <2>1 DEF ContentStep, ContentWaited
  <2> QED BY <2>2 DEF Raises, Effect
<1> QED BY <1>1, <1>2 DEF Unawaited, EndKinds

\* No step of a pack makes an orphan awaited again: new plans are of new generations.
LEMMA OrphanRun ==
  ASSUME Sound, PlansInv, profile # "trial", NEW s \in Todo, Unawaited(work, s),
         NEW q \in queue, RunStep(q)
  PROVE  s \in Todo' /\ Unawaited(work', s)
PROOF
<1> DEFINE e == Doing(q)
<1>1. /\ act # NoAct /\ work \in WorldType /\ e \in EffectType /\ work' = e.world /\ Follows(work, e)
      /\ \A t \in Todo : t \in Todo' \/ t = q \/ t.kind = Completing
  BY NewSteps
<1>2. Generated(known, work) /\ Key(s) \in known
  BY <1>1 DEF PlansInv, Plausible, Sound, AgendaInv, KeysInv
<1>3. s.kind \in EndKinds
  BY DEF Unawaited
<1>4. s.actor \in Npcs /\ s.ref <= work.plan[s.actor].gen
  BY <1>2, <1>3, KeyFields DEF Generated
<1>5. s \in StepType
  BY DEF Sound, TypeOK, Todo
<1>6. q # s
  <2>1. Doing(q).status \in Outcomes
    BY DEF RunStep, Doing
  <2>2. Doing(q) = ContentStep(work, q, act)
    BY DEF Doing, ApplyStep
  <2> QED BY <2>1, <2>2, UnawaitedRaises DEF Outcomes
<1>7. s \in Todo'
  BY <1>1, <1>3, <1>6 DEF EndKinds, Completing
<1> HIDE DEF e
<1>8. ~(/\ work'.plan[s.actor].status \in UnderWay /\ work'.plan[s.actor].gen = s.ref
        /\ EndOf(work'.plan[s.actor].status) = s.kind)
  <2> SUFFICES ASSUME work'.plan[s.actor].status \in UnderWay, work'.plan[s.actor].gen = s.ref,
                      EndOf(work'.plan[s.actor].status) = s.kind
               PROVE  FALSE
    OBVIOUS
  <2>1. CASE SamePlan(work'.plan[s.actor], work.plan[s.actor])
    BY <2>1 DEF SamePlan, Unawaited
  <2>2. CASE \E d \in e.derived : IsEndStep(d, work, e.world) /\ Ends(d, s.actor, e.world.plan[s.actor])
    <3>1. work.plan[s.actor].gen < s.ref
      BY <1>1, <2>2 DEF IsEndStep, Ends
    <3>2. work.plan[s.actor].gen \in Nat /\ s.ref \in Nat
      BY <1>1, <1>4, <1>5, WorldFields DEF StepType
    <3> QED BY <1>4, <3>1, <3>2
  <2> QED BY <1>1, <1>4, <2>1, <2>2 DEF Follows
<1> QED BY <1>3, <1>7, <1>8 DEF Unawaited

LEMMA OrphansStep ==
  ASSUME Sound, PlansInv, OrphansInv, [Next]_vars
  PROVE  OrphansInv'
PROOF
<1>1. ASSUME NEW q \in queue, RunStep(q) PROVE OrphansInv'
  <2>1. act # NoAct /\ UNCHANGED <<profile, world, rows>>
    BY <1>1, NewSteps
  <2>2. Pending' = Pending
    BY <2>1 DEF Pending, StepsWith
  <2> QED BY <1>1, <2>1, <2>2, OrphanRun DEF OrphansInv
<1>2. ASSUME NEW a \in PlayerActions, BeginTurn(a) PROVE OrphansInv'
  <2>1. TypeOK /\ RowsInv /\ (act = NoAct => IdleInv)
    BY DEF Sound, AgendaInv
  <2>2. /\ Pending \subseteq Todo' /\ work' = Loaded
        /\ UNCHANGED <<profile, stored, closed, toggles, done, news, cut>>
    BY <1>2, <2>1, BeginShape
  <2>3. Pending' = Pending /\ UNCHANGED <<profile, world>>
    BY <2>2 DEF stored, Pending, StepsWith
  <2>4. profile # "trial" => work' = world
    BY <2>2 DEF Loaded
  <2> QED BY <2>2, <2>3, <2>4 DEF OrphansInv
<1>3. ASSUME act' = NoAct \/ UNCHANGED <<profile, world, rows, act, queue, later, work>>
      PROVE  OrphansInv'
  BY <1>3 DEF OrphansInv, Pending, StepsWith, Todo
<1>4. Abandon => OrphansInv'
  BY <1>3 DEF Abandon, EndTurn
<1>5. Commit => OrphansInv'
  BY <1>3 DEF Commit, EndTurn
<1>6. \A p \in Places : Toggle(p) => OrphansInv'
  BY <1>3 DEF Toggle, stored, running
<1>7. UNCHANGED vars => OrphansInv'
  BY <1>3 DEF vars, stored, running
<1> QED BY <1>1, <1>2, <1>4, <1>5, <1>6, <1>7 DEF Next

\* Orphans stop the time, for every story and every player: the arrival of a plan that was
\* given up or replaced stays pending and orphaned, and the world never reaches its tick.
THEOREM OrphansHoldTime == Spec => OrphansStopTime
PROOF
<1>1. Init => OrphansInv
  BY DEF Init, Idle, OrphansInv
<1>2. ASSUME Sound, PlansInv, OrphansInv, [Next]_vars
      PROVE  [\A s \in Pending : Orphan(s) => s \in Pending' /\ Orphan(s)' /\ tick' < s.tick]_vars
  <2> SUFFICES ASSUME NEW s \in Pending, Orphan(s)
               PROVE  s \in Pending' /\ Orphan(s)' /\ tick' < s.tick
    OBVIOUS
  <2>1. TypeOK /\ Sound' /\ AgendaInv
    BY <1>2, SoundStep DEF Sound
  <2>2. profile' = profile /\ profile \in {"trial", "content"}
    BY <1>2, <2>1 DEF Next, BeginTurn, RunStep, Commit, Abandon, Toggle, vars, TypeOK
  <2>3. profile # "trial" /\ Unawaited(world, s)
    BY <2>2, OrphanUnawaited
  <2>4. CASE UNCHANGED <<world, rows>>
    <3>1. s \in Pending' /\ Orphan(s)'
      BY <2>2, <2>4 DEF Pending, StepsWith, Orphan
    <3>2. \A t \in Pending' : tick' < t.tick
      BY <2>1 DEF Sound, AgendaInv, RowsInv
    <3> QED BY <3>1, <3>2
  <2>5. CASE Commit
    <3>1. /\ act # NoAct /\ Pending' = Todo /\ world' = ReadBack(work)
      BY <2>1, <2>5, CommitShape
    <3>2. s \in Todo /\ Unawaited(work, s)
      BY <1>2, <2>3, <3>1 DEF OrphansInv
    <3>3. world'.plan = work.plan
      BY <2>1, <3>1 DEF ReadBack, TypeOK, WorldType
    <3>4. Unawaited(world', s)
      BY <3>2, <3>3 DEF Unawaited
    <3>5. Orphan(s)'
      BY <2>2, <2>3, <3>4 DEF Orphan, Unawaited, EndKinds
    <3>6. \A t \in Pending' : tick' < t.tick
      BY <2>1 DEF Sound, AgendaInv, RowsInv
    <3> QED BY <3>1, <3>2, <3>5, <3>6
  <2> QED BY <1>2, <2>4, <2>5 DEF Next, BeginTurn, RunStep, Abandon, Toggle, vars, stored
<1> QED BY <1>1, <1>2, OrphansStep, AlwaysPlans, PTL DEF Spec, OrphansStopTime
-----------------------------------------------------------------------------
(* The facts of the rules.                                                  *)

\* where rules fire in a sequence of facts, and the mark that such a fact goes with
FiredIn(f) == {i \in DOMAIN f : f[i].what = "content_rule_fired"}
MarkOf(x) == Consumed(x.step[3], x.tick)

\* Facts f tell of state w: each rule that fired has its mark, and no other fact has the same
\* one; what a rule does comes before the fact that it fired; every flag was raised by a rule.
Story(f, w) ==
  /\ \A i \in FiredIn(f) : MarkOf(f[i]) \in w.fired
  /\ \A i, j \in FiredIn(f) : i # j => MarkOf(f[i]) # MarkOf(f[j])
  /\ \A i \in DOMAIN f : f[i].what \in {"flag_changed", "route_changed", "emitted"}
       => \E j \in FiredIn(f) : i < j /\ f[i].step = f[j].step
  /\ \A x \in w.flags : \E i \in FiredIn(f) : x \in RaisedBy(f[i].step[3])

StoryInv == Story(facts, world) /\ (act # NoAct => Story(AllFacts, work))

LEMMA ConcatPlaces ==
  ASSUME NEW f \in Seq(FactType), NEW g \in Seq(FactType)
  PROVE  /\ Len(f) \in Nat /\ Len(g) \in Nat /\ f \o g \in Seq(FactType)
         /\ DOMAIN f = 1..Len(f) /\ DOMAIN g = 1..Len(g) /\ DOMAIN (f \o g) = 1..(Len(f) + Len(g))
         /\ \A i \in 1..Len(f) : (f \o g)[i] = f[i]
         /\ \A j \in 1..Len(g) : (f \o g)[Len(f) + j] = g[j]
         /\ \A i \in 1..(Len(f) + Len(g)) : i \in 1..Len(f) \/ \E j \in 1..Len(g) : i = Len(f) + j
PROOF
<1>1. /\ Len(f \o g) = Len(f) + Len(g) /\ Len(f) \in Nat /\ Len(g) \in Nat
      /\ \A k \in 1..Len(f \o g) : (f \o g)[k] = IF k <= Len(f) THEN f[k] ELSE g[k - Len(f)]
      /\ f \o g \in Seq(FactType)
  BY ConcatProperties, LenProperties
<1>2. DOMAIN f = 1..Len(f) /\ DOMAIN g = 1..Len(g) /\ DOMAIN (f \o g) = 1..(Len(f) + Len(g))
  BY <1>1, LenProperties
<1>3. \A i \in 1..(Len(f) + Len(g)) : i \in 1..Len(f) \/ i - Len(f) \in 1..Len(g)
  BY <1>1
<1>4. \A i \in 1..(Len(f) + Len(g)) : i = Len(f) + (i - Len(f))
  BY <1>1
<1> QED BY <1>1, <1>2, <1>3, <1>4

\* A step that is quiet adds nothing to the story.
LEMMA QuietStory ==
  ASSUME NEW f \in Seq(FactType), NEW g \in Seq(FactType), NEW w, NEW v, Story(f, w),
         w.fired \subseteq v.fired, v.flags = w.flags,
         \A i \in DOMAIN g : g[i].what \in Plain \cup {"world_interrupt"}
  PROVE  Story(f \o g, v)
PROOF
<1> DEFINE h == f \o g
<1>1. /\ Len(f) \in Nat /\ Len(g) \in Nat
      /\ DOMAIN f = 1..Len(f) /\ DOMAIN g = 1..Len(g) /\ DOMAIN h = 1..(Len(f) + Len(g))
      /\ \A i \in 1..Len(f) : h[i] = f[i]
      /\ \A j \in 1..Len(g) : h[Len(f) + j] = g[j]
      /\ \A i \in 1..(Len(f) + Len(g)) : i \in 1..Len(f) \/ \E j \in 1..Len(g) : i = Len(f) + j
  BY ConcatPlaces
<1> HIDE DEF h
<1>2. ASSUME NEW i \in DOMAIN h, i \notin DOMAIN f
      PROVE  h[i].what \in Plain \cup {"world_interrupt"}
  <2>1. PICK j \in DOMAIN g : i = Len(f) + j
    BY <1>1, <1>2
  <2>2. h[i] = g[j]
    BY <1>1, <2>1
  <2> QED BY <2>2
<1>3. \A i \in DOMAIN f : i \in DOMAIN h /\ h[i] = f[i]
  BY <1>1
<1>4. FiredIn(h) = FiredIn(f)
  BY <1>2, <1>3 DEF FiredIn, Plain, Loud
<1>5. \A i \in FiredIn(f) : h[i] = f[i]
  BY <1>3 DEF FiredIn
<1>6. ASSUME NEW i \in DOMAIN h, h[i].what \in {"flag_changed", "route_changed", "emitted"}
      PROVE  i \in DOMAIN f /\ h[i] = f[i]
  BY <1>2, <1>3, <1>6 DEF Plain, Loud
<1>7. Story(h, v)
  BY <1>4, <1>5, <1>6 DEF Story
<1> QED BY <1>7 DEF h

\* A step that fires its rule adds that one, with all it did before it.
LEMMA FiredStory ==
  ASSUME NEW f \in Seq(FactType), NEW g \in Seq(FactType), NEW w, NEW v, Story(f, w),
         w.fired \subseteq v.fired, Len(g) > 0, g[Len(g)].what = "content_rule_fired",
         \A i \in 1..(Len(g) - 1) : g[i].what # "content_rule_fired",
         \A i \in DOMAIN g : g[i].step = g[Len(g)].step,
         MarkOf(g[Len(g)]) \notin w.fired, MarkOf(g[Len(g)]) \in v.fired,
         v.flags \subseteq w.flags \cup RaisedBy(g[Len(g)].step[3])
  PROVE  Story(f \o g, v)
PROOF
<1> DEFINE h == f \o g
           last == Len(f) + Len(g)
<1>1. /\ Len(f) \in Nat /\ Len(g) \in Nat
      /\ DOMAIN f = 1..Len(f) /\ DOMAIN g = 1..Len(g) /\ DOMAIN h = 1..last
      /\ \A i \in 1..Len(f) : h[i] = f[i]
      /\ \A j \in 1..Len(g) : h[Len(f) + j] = g[j]
      /\ \A i \in 1..last : i \in 1..Len(f) \/ \E j \in 1..Len(g) : i = Len(f) + j
  BY ConcatPlaces
<1>0. Len(f) \in Nat /\ Len(g) \in Nat
  BY <1>1
<1>2. last \in DOMAIN h /\ h[last] = g[Len(g)] /\ last \notin DOMAIN f /\ last \in Nat
  BY <1>1
<1>3. \A i \in DOMAIN f : i \in DOMAIN h /\ h[i] = f[i]
  BY <1>1
<1>4. ASSUME NEW i \in DOMAIN h
      PROVE  \/ i \in DOMAIN f
             \/ i = last
             \/ i < last /\ h[i].step = h[last].step /\ h[i].what # "content_rule_fired"
  <2>1. CASE i \in 1..Len(f)
    BY <1>1, <2>1
  <2>2. CASE \E j \in 1..Len(g) : i = Len(f) + j
    <3>1. PICK j \in 1..Len(g) : i = Len(f) + j
      BY <2>2
    <3>2. h[i] = g[j] /\ g[j].step = h[last].step
      BY <1>1, <1>2, <3>1
    <3>3. j # Len(g) => i < last /\ j \in 1..(Len(g) - 1)
      BY <1>0, <3>1
    <3>4. j = Len(g) => i = last
      BY <3>1
    <3> QED BY <3>2, <3>3, <3>4
  <2> QED BY <1>1, <2>1, <2>2
<1>a. \A i \in DOMAIN f : i < last
  BY <1>1
<1> HIDE DEF h, last
<1>5. FiredIn(h) = FiredIn(f) \cup {last}
  BY <1>2, <1>3, <1>4 DEF FiredIn
<1>6. \A i \in FiredIn(f) : h[i] = f[i]
  BY <1>3 DEF FiredIn
<1>7. \A i \in FiredIn(h) : MarkOf(h[i]) \in v.fired
  BY <1>2, <1>5, <1>6 DEF Story
<1>8. \A i, j \in FiredIn(h) : i # j => MarkOf(h[i]) # MarkOf(h[j])
  BY <1>2, <1>5, <1>6 DEF Story
<1>9. ASSUME NEW i \in DOMAIN h, h[i].what \in {"flag_changed", "route_changed", "emitted"}
      PROVE  \E j \in FiredIn(h) : i < j /\ h[i].step = h[j].step
  <2>1. CASE i \in DOMAIN f
    <3>1. f[i].what \in {"flag_changed", "route_changed", "emitted"} /\ h[i] = f[i]
      BY <1>3, <1>9, <2>1
    <3>2. PICK j \in FiredIn(f) : i < j /\ f[i].step = f[j].step
      BY <2>1, <3>1 DEF Story
    <3> QED BY <1>5, <1>6, <3>1, <3>2
  <2>2. CASE i = last
    BY <1>2, <1>9, <2>2
  <2>3. CASE i < last /\ h[i].step = h[last].step
    BY <1>5, <2>3
  <2> QED BY <1>4, <2>1, <2>2, <2>3
<1>10. ASSUME NEW x \in v.flags PROVE \E i \in FiredIn(h) : x \in RaisedBy(h[i].step[3])
  BY <1>2, <1>5, <1>6 DEF Story
<1>11. Story(h, v)
  BY <1>7, <1>8, <1>9, <1>10 DEF Story
<1> QED BY <1>11 DEF h

LEMMA StepStory ==
  ASSUME NEW f \in Seq(FactType), NEW w, NEW s \in StepType, NEW e \in EffectType,
         Framed(w, s, e), Story(f, w)
  PROVE  Story(f \o FactsOf(s, e), e.world)
PROOF
<1> DEFINE g == FactsOf(s, e)
<1>1. g \in Seq(FactType) /\ Len(g) = Len(e.news) /\ Len(g) \in Nat /\ DOMAIN g = 1..Len(g)
  BY FactsOfType, LenProperties
<1>2. \A i \in DOMAIN g : g[i].what = e.news[i] /\ g[i].step = Key(s) /\ g[i].tick = s.tick
  BY DEF FactsOf
<1> HIDE DEF g
<1>3. w.fired \subseteq e.world.fired
  BY DEF Framed
<1>4. CASE e.news \in Seq(Plain \cup {"world_interrupt"}) /\ e.world.flags = w.flags
  <2>1. \A i \in DOMAIN e.news : e.news[i] \in Plain \cup {"world_interrupt"}
    BY <1>4
  <2>2. DOMAIN e.news = DOMAIN g
    BY <1>1, <1>4, LenProperties
  <2>3. \A i \in DOMAIN g : g[i].what \in Plain \cup {"world_interrupt"}
    BY <1>2, <2>1, <2>2
  <2>4. Story(f \o g, e.world)
    BY <1>1, <1>3, <1>4, <2>3, QuietStory
  <2> QED BY <2>4 DEF g
<1>5. CASE Fires(w, s, e)
  <2>1. PICK told \in Seq(Unfired) : e.news = told \o <<"content_rule_fired">>
    BY <1>5 DEF Fires
  <2>2. /\ Len(told) \in Nat /\ Len(e.news) = Len(told) + 1
        /\ e.news[Len(told) + 1] = "content_rule_fired"
        /\ \A i \in 1..Len(told) : e.news[i] = told[i] /\ told[i] \in Unfired
    BY <2>1
  <2>3. Len(g) > 0 /\ Len(g) \in DOMAIN g /\ g[Len(g)].what = "content_rule_fired"
    BY <1>1, <1>2, <2>2
  <2>4. ASSUME NEW i \in 1..(Len(g) - 1) PROVE g[i].what # "content_rule_fired"
    <3>1. Len(g) - 1 = Len(told) /\ i \in DOMAIN g
      BY <1>1, <2>2
    <3>2. e.news[i] \in Unfired
      BY <2>2, <3>1
    <3>3. g[i].what \in Unfired
      BY <1>2, <3>1, <3>2
    <3> QED BY <3>3 DEF Unfired
  <2>5. Key(s)[3] = s.ref
    BY KeyFields
  <2>6. MarkOf(g[Len(g)]) = Consumed(s.ref, s.tick) /\ g[Len(g)].step[3] = s.ref
    BY <1>2, <2>3, <2>5 DEF MarkOf
  <2>7. \A i \in DOMAIN g : g[i].step = g[Len(g)].step
    BY <1>2, <2>3
  <2>8. Story(f \o g, e.world)
    BY <1>1, <1>3, <1>5, <2>3, <2>4, <2>6, <2>7, FiredStory DEF Fires
  <2> QED BY <2>8 DEF g
<1> QED BY <1>4, <1>5 DEF Framed

LEMMA SameStory ==
  ASSUME NEW f, NEW w, Story(f, w), NEW v, v.fired = w.fired, v.flags = w.flags
  PROVE  Story(f, v)
PROOF BY DEF Story

\* What loading and writing do leaves flags and marks as they are.
LEMMA KeptThroughRows ==
  ASSUME NEW w \in WorldType
  PROVE  /\ ReadBack(w).fired = w.fired /\ ReadBack(w).flags = w.flags /\ ReadBack(w).player = w.player
         /\ w = world => Loaded.fired = w.fired /\ Loaded.flags = w.flags /\ Loaded.player = w.player
PROOF BY DEF ReadBack, Loaded, WorldType

LEMMA StoryRun ==
  ASSUME Sound, StoryInv, NEW s \in queue, RunStep(s)
  PROVE  StoryInv'
PROOF
<1> DEFINE e == Doing(s)
           told == FactsOf(s, e)
<1>0. act # NoAct
  BY DEF RunStep
<1>1. TypeOK /\ Casts /\ TicksInv
  BY <1>0 DEF Sound, AgendaInv
<1>2. /\ e \in EffectType /\ news' = news \o told /\ work' = e.world
      /\ UNCHANGED <<profile, stored, closed, toggles, act>>
  BY <1>1, RunShape
<1>3. s \in StepType /\ facts \in Seq(FactType) /\ news \in Seq(FactType)
  BY <1>1 DEF TypeOK
<1>4. Framed(work, s, e)
  BY <1>1, StepFramed
<1> HIDE DEF e
<1>5. told \in Seq(FactType)
  BY <1>2, <1>3, FactsOfType
<1>6. AllFacts \in Seq(FactType)
  BY <1>3, ConcatProperties DEF AllFacts
<1>7. Story(AllFacts \o told, e.world)
  BY <1>0, <1>2, <1>3, <1>4, <1>6, StepStory DEF StoryInv
<1> HIDE DEF told
<1>8. UNCHANGED <<facts, world, act>>
  BY <1>2 DEF stored
<1>9. AllFacts' = AllFacts \o told
  <2>1. AllFacts' = facts \o (news \o told)
    BY <1>2, <1>8 DEF AllFacts
  <2> QED BY <1>3, <1>5, <2>1, ConcatAssociative DEF AllFacts
<1>10. Story(AllFacts, work)'
  BY <1>2, <1>7, <1>9 DEF Story
<1>11. Story(facts, world)'
  BY <1>8 DEF StoryInv, Story
<1> QED BY <1>10, <1>11 DEF StoryInv

LEMMA StoryStep ==
  ASSUME Sound, StoryInv, [Next]_vars
  PROVE  StoryInv'
PROOF
<1>0. /\ TypeOK /\ AgendaInv /\ world \in WorldType /\ work \in WorldType
      /\ facts \in Seq(FactType) /\ news \in Seq(FactType)
  BY DEF Sound, TypeOK
<1>1. ASSUME NEW a \in PlayerActions, BeginTurn(a) PROVE StoryInv'
  <2>1. /\ work' = Loaded /\ news = <<>> /\ UNCHANGED <<world, facts, news>>
    BY <1>0, <1>1 DEF AgendaInv, IdleInv, BeginTurn, stored
  <2>2. AllFacts' = facts
    BY <1>0, <2>1, ConcatEmptySeq DEF AllFacts
  <2>3. Story(facts, Loaded)
    BY <1>0, KeptThroughRows, SameStory DEF StoryInv
  <2>4. Story(AllFacts, work)'
    BY <2>1, <2>2, <2>3 DEF Story
  <2>5. Story(facts, world)'
    BY <2>1 DEF StoryInv, Story
  <2> QED BY <2>4, <2>5 DEF StoryInv
<1>2. ASSUME NEW s \in queue, RunStep(s) PROVE StoryInv'
  BY <1>2, StoryRun
<1>3. ASSUME Commit PROVE StoryInv'
  <2>1. act # NoAct /\ facts' = facts \o news /\ world' = ReadBack(work) /\ EndTurn
    BY <1>0, <1>3, CommitShape
  <2>2. Story(AllFacts, ReadBack(work))
    BY <1>0, <2>1, KeptThroughRows, SameStory DEF StoryInv
  <2>3. Story(facts, world)'
    BY <2>1, <2>2 DEF AllFacts, Story
  <2> QED BY <2>1, <2>3 DEF StoryInv, EndTurn
<1>4. ASSUME Abandon PROVE StoryInv'
  <2>1. act' = NoAct /\ UNCHANGED <<world, facts>>
    BY <1>4 DEF Abandon, EndTurn, stored
  <2> QED BY <2>1 DEF StoryInv, Story
<1>5. ASSUME UNCHANGED <<world, facts, news, work, act>> PROVE StoryInv'
  <2>1. AllFacts' = AllFacts
    BY <1>5 DEF AllFacts
  <2> QED BY <1>5, <2>1 DEF StoryInv, Story
<1>6. ASSUME NEW p \in Places, Toggle(p) PROVE UNCHANGED <<world, facts, news, work, act>>
  BY <1>6 DEF Toggle, stored, running
<1>7. ASSUME UNCHANGED vars PROVE UNCHANGED <<world, facts, news, work, act>>
  BY <1>7 DEF vars, stored, running
<1> QED BY <1>1, <1>2, <1>3, <1>4, <1>5, <1>6, <1>7 DEF Next

LEMMA AlwaysStory == Spec => [](Sound /\ StoryInv)
PROOF
<1>1. Init => StoryInv
  <2> SUFFICES ASSUME Init PROVE StoryInv
    OBVIOUS
  <2>1. act = NoAct /\ facts = <<>> /\ world = FirstWorld(profile)
    BY DEF Init, Idle
  <2>2. world.flags = {}
    BY <2>1 DEF FirstWorld, TrialBeginning, ContentBeginning
  <2>3. FiredIn(<<>>) = {} /\ DOMAIN <<>> = {}
    BY DEF FiredIn
  <2> QED BY <2>1, <2>2, <2>3 DEF StoryInv, Story
<1>2. Sound /\ StoryInv /\ [Next]_vars => StoryInv'
  BY StoryStep
<1> QED BY <1>1, <1>2, AlwaysSound, PTL DEF Spec

\* The facts that have been told, and those of the turn, tell of one state.
LEMMA StoryTold ==
  ASSUME Sound, StoryInv
  PROVE  /\ \E w : Story(AllFacts, w)
         /\ FiredFacts = FiredIn(AllFacts)
         /\ \A i \in DOMAIN facts : i \in DOMAIN AllFacts /\ AllFacts[i] = facts[i]
PROOF
<1>1. facts \in Seq(FactType) /\ news \in Seq(FactType)
  BY DEF Sound, TypeOK
<1>2. act = NoAct => AllFacts = facts
  <2>1. act = NoAct => news = <<>>
    BY DEF Sound, AgendaInv, IdleInv
  <2> QED BY <1>1, <2>1, ConcatEmptySeq DEF AllFacts
<1>3. Story(AllFacts, world) \/ Story(AllFacts, work)
  BY <1>2 DEF StoryInv
<1>4. FiredFacts = FiredIn(AllFacts)
  BY DEF FiredFacts, FiredIn
<1>5. \A i \in DOMAIN facts : i \in DOMAIN AllFacts /\ AllFacts[i] = facts[i]
  BY <1>1, ConcatPlaces DEF AllFacts
<1> QED BY <1>3, <1>4, <1>5

\* A rule fires once for each occurrence, and a rule that is once per instance fires once, for
\* every story and every player: the mark is set before the condition is looked at, survives
\* a group that fails, goes through the rows and back, and comes back with a turn played again.
THEOREM RulesFireOnlyOnce == Spec => []RulesFireOnce
PROOF
<1>1. ASSUME Sound, StoryInv PROVE RulesFireOnce
  <2>1. PICK w : Story(AllFacts, w)
    BY <1>1, StoryTold
  <2>2. FiredFacts = FiredIn(AllFacts)
    BY <1>1, StoryTold
  <2>3. ASSUME NEW i \in FiredFacts, NEW j \in FiredFacts, i # j,
               AllFacts[i].step[3] = AllFacts[j].step[3]
        PROVE  ~Rules[AllFacts[i].step[3]].once /\ AllFacts[i].tick # AllFacts[j].tick
    <3>1. MarkOf(AllFacts[i]) # MarkOf(AllFacts[j])
      BY <2>1, <2>2, <2>3 DEF Story
    <3> QED BY <2>3, <3>1 DEF MarkOf, Consumed
  <2> QED BY <2>3 DEF RulesFireOnce
<1> QED BY <1>1, AlwaysStory, PTL

\* The effects of a rule happen together or not at all, for every story and every player:
\* what a group that fails has tried leaves no flag and no fact, and every flag that is up in
\* the rows was raised by a rule whose firing was told.
THEOREM EffectsHappenTogether == Spec => []EffectsTogether
PROOF
<1>1. ASSUME Sound, StoryInv PROVE EffectsTogether
  <2>1. PICK w : Story(AllFacts, w)
    BY <1>1, StoryTold
  <2>2. /\ FiredFacts = FiredIn(AllFacts)
        /\ \A i \in DOMAIN facts : i \in DOMAIN AllFacts /\ AllFacts[i] = facts[i]
    BY <1>1, StoryTold
  <2>3. \A i \in DOMAIN AllFacts :
          AllFacts[i].what \in {"flag_changed", "route_changed", "emitted"}
            => \E j \in FiredFacts : i < j /\ AllFacts[i].step = AllFacts[j].step
    BY <2>1, <2>2 DEF Story
  <2>4. ASSUME NEW f \in world.flags
        PROVE  \E i \in DOMAIN facts : i \in FiredFacts /\ f \in RaisedBy(facts[i].step[3])
    <3>1. PICK i \in FiredIn(facts) : f \in RaisedBy(facts[i].step[3])
      BY <1>1 DEF StoryInv, Story
    <3>2. i \in DOMAIN facts /\ i \in FiredFacts
      BY <2>2, <3>1 DEF FiredIn
    <3> QED BY <3>1, <3>2
  <2> QED BY <2>3, <2>4 DEF EffectsTogether
<1> QED BY <1>1, AlwaysStory, PTL
-----------------------------------------------------------------------------
(* An action that is cut short.                                             *)

\* Within a turn: the end of the player's action is still to come, or was taken off by an
\* interruption, or what is left is of that tick; interruptions before it are told and all of
\* one tick, the cut; and a player who has moved has completed an action that was not cut.
CutInv ==
  act # NoAct =>
    /\ (HasCompletion(act) /\ cut = 0 /\ Completion(act) \notin queue)
         => \A s \in queue : act.end <= s.tick
    /\ cut # 0 => /\ HasCompletion(act)
                  /\ \E i \in DOMAIN news : news[i].what = "world_interrupt" /\ news[i].tick = cut
    /\ HasCompletion(act) =>
         \A i \in DOMAIN news : (news[i].what = "world_interrupt" /\ news[i].tick < act.end)
           => cut # 0 /\ news[i].tick = cut
    /\ work.player # world.player => cut = 0 /\ Completion(act) \notin Todo

LEMMA ConcatMembers ==
  ASSUME NEW f \in Seq(FactType), NEW g \in Seq(FactType)
  PROVE  /\ DOMAIN f \subseteq DOMAIN (f \o g) /\ \A i \in DOMAIN f : (f \o g)[i] = f[i]
         /\ \A i \in DOMAIN g : \E j \in DOMAIN (f \o g) : (f \o g)[j] = g[i]
         /\ \A i \in DOMAIN (f \o g) : (i \in DOMAIN f /\ (f \o g)[i] = f[i])
                                     \/ \E j \in DOMAIN g : (f \o g)[i] = g[j]
PROOF
<1> DEFINE h == f \o g
<1>1. /\ Len(f) \in Nat /\ Len(g) \in Nat
      /\ DOMAIN f = 1..Len(f) /\ DOMAIN g = 1..Len(g) /\ DOMAIN h = 1..(Len(f) + Len(g))
      /\ \A i \in 1..Len(f) : h[i] = f[i]
      /\ \A j \in 1..Len(g) : h[Len(f) + j] = g[j]
  BY ConcatPlaces
<1> HIDE DEF h
<1>2. DOMAIN f \subseteq DOMAIN h /\ \A i \in DOMAIN f : h[i] = f[i]
  BY <1>1
<1>3. ASSUME NEW i \in DOMAIN g PROVE \E j \in DOMAIN h : h[j] = g[i]
  <2>1. Len(f) + i \in DOMAIN h /\ h[Len(f) + i] = g[i]
    BY <1>1
  <2> QED BY <2>1
<1> QED BY <1>2, <1>3, ConcatMember DEF h

LEMMA CutRun ==
  ASSUME Sound, FactsInv, CutInv, NEW s \in queue, RunStep(s)
  PROVE  CutInv'
PROOF
<1> DEFINE e == Doing(s)
           told == FactsOf(s, e)
           C == Completion(act)
<1>0. act # NoAct
  BY DEF RunStep
<1>1. TypeOK /\ Casts /\ TicksInv /\ KeysInv
  BY <1>0 DEF Sound, AgendaInv
<1>2. /\ e \in EffectType /\ New(s) \subseteq StepType
      /\ \A d \in New(s) : d.kind # Completing /\ InOrder(s, d)
      /\ IsFirst(s, queue) /\ (cut # 0 => s.tick <= cut)
      /\ queue' = (queue \cup {d \in New(s) : d.tick <= act.end}) \ Off(s)
      /\ \A t \in Todo' : (t \in Todo /\ t \notin Off(s)) \/ t \in New(s)
      /\ \A t \in Off(s) : t = s \/ (t = C /\ Interrupts(s, e))
      /\ s \in Off(s)
      /\ news' = news \o told /\ work' = e.world
      /\ cut' = (IF Interrupts(s, e) THEN s.tick ELSE cut)
      /\ UNCHANGED <<profile, stored, closed, toggles, act>>
  BY <1>1, RunShape
<1>3. /\ s \in StepType /\ queue \subseteq StepType /\ news \in Seq(FactType) /\ act \in ActType
      /\ act.end \in Nat /\ cut \in Nat /\ tick \in Nat /\ s.tick \in Nat
      /\ \A t \in queue : t.tick \in Nat
  BY <1>1 DEF TypeOK, ActType, NoAct, StepType
<1>4. C.tick = act.end /\ C.kind = Completing
  BY <1>3, CompletionType DEF Completing
<1>5. Framed(work, s, e)
  BY <1>1, StepFramed
<1>6. told \in Seq(FactType) /\ DOMAIN told = DOMAIN e.news
  BY <1>2, <1>3, FactsOfType DEF FactsOf
<1>7. \A i \in DOMAIN told : told[i].what = e.news[i] /\ told[i].tick = s.tick
  BY <1>6 DEF FactsOf
<1>8. Interrupts(s, e) <=> (Tolls(e.news) /\ HasCompletion(act) /\ C \in queue /\ C # s)
  BY <1>5 DEF Interrupts, Framed
<1> HIDE DEF e, told, C
<1>9. tick < s.tick /\ s.tick <= act.end /\ \A t \in queue : s.tick <= t.tick
  BY <1>1, <1>2, <1>3, FirstFields DEF TicksInv
<1>10. C \in Todo => cut = 0
  BY <1>1, <1>4 DEF KeysInv
<1>11. s.kind = Completing => s = C /\ cut = 0
  BY <1>1 DEF KeysInv, Todo, C
<1>12. /\ DOMAIN news \subseteq DOMAIN news' /\ \A i \in DOMAIN news : news'[i] = news[i]
       /\ \A i \in DOMAIN told : \E j \in DOMAIN news' : news'[j] = told[i]
       /\ \A i \in DOMAIN news' : (i \in DOMAIN news /\ news'[i] = news[i])
                                  \/ \E j \in DOMAIN told : news'[i] = told[j]
  <2>1. news' = news \o told /\ news \in Seq(FactType) /\ told \in Seq(FactType)
    BY <1>2, <1>3, <1>6
  <2> HIDE DEF told
  <2>2. /\ DOMAIN news \subseteq DOMAIN (news \o told) /\ \A i \in DOMAIN news : (news \o told)[i] = news[i]
        /\ \A i \in DOMAIN told : \E j \in DOMAIN (news \o told) : (news \o told)[j] = told[i]
        /\ \A i \in DOMAIN (news \o told) : (i \in DOMAIN news /\ (news \o told)[i] = news[i])
                                          \/ \E j \in DOMAIN told : (news \o told)[i] = told[j]
    BY <2>1, ConcatMembers
  <2> QED BY <2>1, <2>2
<1>13. \A i \in DOMAIN news : news[i].tick \in Nat /\ news[i].tick <= s.tick
  <2>1. \A i \in DOMAIN news : InOrder(news[i], s) /\ news[i].tick \in Nat
    BY <1>0, <1>1, FactFields DEF FactsInv
  <2> QED BY <1>3, <2>1 DEF InOrder
<1>14. cut # 0 => s.tick = cut /\ ~Interrupts(s, e)
  <2>1. ASSUME cut # 0 PROVE cut <= s.tick
    BY <1>0, <1>13, <2>1 DEF CutInv
  <2>2. cut # 0 => ~Interrupts(s, e)
    BY <1>8, <1>10 DEF Todo
  <2> QED BY <1>2, <1>3, <2>1, <2>2
<1>15. cut' # 0 => cut' = s.tick
  BY <1>2, <1>14
<1>16. UNCHANGED <<act, world>>
  BY <1>2 DEF stored
<1>17. ASSUME HasCompletion(act), cut' = 0, C \notin queue', NEW t \in queue' PROVE act.end <= t.tick
  <2>1. ~Interrupts(s, e) /\ cut = 0
    BY <1>2, <1>3, <1>9, <1>17
  <2>2. C = s \/ C \notin queue
    BY <1>2, <1>17, <2>1
  <2>3. act.end <= s.tick
    BY <1>0, <1>3, <1>4, <1>17, <2>1, <2>2 DEF CutInv, C
  <2>4. t \in queue \/ t \in New(s)
    BY <1>2, <1>17
  <2>5. t.tick \in Nat /\ s.tick <= t.tick
    BY <1>2, <1>3, <1>9, <2>4 DEF InOrder, StepType
  <2> QED BY <1>3, <2>3, <2>5
<1>18. ASSUME cut' # 0
       PROVE  /\ HasCompletion(act)
              /\ \E i \in DOMAIN news' : news'[i].what = "world_interrupt" /\ news'[i].tick = cut'
  <2>1. CASE Interrupts(s, e)
    <3>1. PICK i \in DOMAIN told : told[i].what = "world_interrupt" /\ told[i].tick = s.tick
      BY <1>6, <1>7, <1>8, <2>1 DEF Tolls
    <3> QED BY <1>8, <1>12, <1>15, <1>18, <2>1, <3>1
  <2>2. CASE ~Interrupts(s, e)
    <3>1. cut' = cut
      BY <1>2, <2>2
    <3>2. HasCompletion(act) /\ \E i \in DOMAIN news : news[i].what = "world_interrupt" /\ news[i].tick = cut
      BY <1>0, <1>18, <3>1 DEF CutInv
    <3> QED BY <1>12, <3>1, <3>2
  <2> QED BY <2>1, <2>2
<1>19. ASSUME HasCompletion(act), NEW i \in DOMAIN news', news'[i].what = "world_interrupt",
              news'[i].tick < act.end
       PROVE  cut' # 0 /\ news'[i].tick = cut'
  <2>1. CASE i \in DOMAIN news /\ news'[i] = news[i]
    <3>1. cut # 0 /\ news[i].tick = cut
      BY <1>0, <1>19, <2>1 DEF CutInv
    <3> QED BY <1>2, <1>14, <2>1, <3>1
  <2>2. CASE \E j \in DOMAIN told : news'[i] = told[j]
    <3>1. PICK j \in DOMAIN told : news'[i] = told[j]
      BY <2>2
    <3>2. Tolls(e.news) /\ news'[i].tick = s.tick /\ s.tick < act.end
      BY <1>6, <1>7, <1>19, <3>1 DEF Tolls
    <3>3. C # s
      BY <1>3, <1>4, <3>2
    <3>4. CASE C \in queue
      BY <1>2, <1>3, <1>8, <1>9, <1>19, <3>2, <3>3, <3>4
    <3>5. CASE C \notin queue
      <4>1. cut # 0
        <5> SUFFICES ASSUME cut = 0 PROVE FALSE
          OBVIOUS
        <5>1. act.end <= s.tick
          BY <1>0, <1>19, <3>5 DEF CutInv, C
        <5> QED BY <1>3, <3>2, <5>1
      <4> QED BY <1>2, <1>14, <3>2, <4>1
    <3> QED BY <3>4, <3>5
  <2> QED BY <1>12, <2>1, <2>2
<1>20. ASSUME work'.player # world.player PROVE cut' = 0 /\ C \notin Todo'
  <2>1. CASE s.kind = Completing
    <3>1. C = s /\ cut = 0 /\ ~Interrupts(s, e)
      BY <1>8, <1>11, <2>1
    <3>2. C \notin Todo'
      BY <1>2, <1>4, <3>1
    <3> QED BY <1>2, <3>1, <3>2
  <2>2. CASE s.kind # Completing
    <3>1. work.player # world.player
      BY <1>2, <1>5, <1>20, <2>2 DEF Framed
    <3>2. cut = 0 /\ C \notin Todo
      BY <1>0, <3>1 DEF CutInv, C
    <3>3. ~Interrupts(s, e)
      BY <1>8, <3>2 DEF Todo
    <3> QED BY <1>2, <1>4, <3>2, <3>3
  <2> QED BY <2>1, <2>2
<1> QED BY <1>16, <1>17, <1>18, <1>19, <1>20 DEF CutInv, C, HasCompletion, Completion

LEMMA CutBegin ==
  ASSUME Sound, NEW a \in PlayerActions, BeginTurn(a)
  PROVE  CutInv'
PROOF
<1>1. TypeOK /\ RowsInv /\ (act = NoAct => IdleInv)
  BY DEF Sound, AgendaInv
<1>2. /\ act = NoAct /\ act' = ActionSpec(a) /\ act' \in ActType /\ work' = Loaded
      /\ UNCHANGED <<profile, stored, closed, toggles, done, news, cut>>
  BY <1>1, BeginShape
<1>3. news' = <<>> /\ cut' = 0 /\ world' = world /\ act'.end \in Nat
  BY <1>1, <1>2 DEF IdleInv, stored, ActType, NoAct
<1>4. HasCompletion(act') => Completion(act') \in queue'
  <2>1. Completion(act').tick = act'.end
    BY <1>2, CompletionType
  <2>2. ActionSpec(a) = act'
    BY <1>2
  <2> QED BY <1>3, <2>1, <2>2 DEF BeginTurn
<1>5. work'.player = world'.player
  BY <1>1, <1>2, <1>3, KeptThroughRows DEF TypeOK
<1>6. DOMAIN news' = {}
  BY <1>3
<1> QED BY <1>3, <1>4, <1>5, <1>6 DEF CutInv, HasCompletion, Completion

LEMMA AlwaysCut == Spec => [](Sound /\ FactsInv /\ CutInv)
PROOF
<1>1. Init => CutInv
  BY DEF Init, Idle, CutInv
<1>2. Sound /\ FactsInv /\ CutInv /\ [Next]_vars => CutInv'
  <2> SUFFICES ASSUME Sound, FactsInv, CutInv, [Next]_vars PROVE CutInv'
    OBVIOUS
  <2>1. ASSUME Commit \/ Abandon PROVE CutInv'
    BY <2>1 DEF Commit, Abandon, EndTurn, CutInv
  <2>2. ASSUME UNCHANGED <<act, queue, later, cut, news, work, world>> PROVE CutInv'
    <3>1. UNCHANGED <<Todo, HasCompletion(act), Completion(act)>>
      BY <2>2 DEF Todo, HasCompletion, Completion
    <3> QED BY <2>2, <3>1 DEF CutInv
  <2>3. ASSUME NEW p \in Places, Toggle(p) PROVE UNCHANGED <<act, queue, later, cut, news, work, world>>
    BY <2>3 DEF Toggle, stored, running
  <2>4. ASSUME UNCHANGED vars PROVE UNCHANGED <<act, queue, later, cut, news, work, world>>
    BY <2>4 DEF vars, stored, running
  <2> QED BY <2>1, <2>2, <2>3, <2>4, CutBegin, CutRun DEF Next
<1> QED BY <1>1, <1>2, AlwaysFacts, PTL DEF Spec

\* An action takes as long as it was to take, unless the world interrupts it before it is
\* completed, for every story and every player: then the world stands at the tick of the
\* interruption, the player has not moved, and nothing later than that has happened.
THEOREM InterruptedActionsStop == Spec => CutShort
PROOF
<1>1. ASSUME Sound, FactsInv, CutInv, [Next]_vars, tick' # tick
      PROVE  IF HasCompletion(act) /\ Rings # {}
             THEN /\ \A t \in Rings : tick' <= t
                  /\ tick' \in Rings
                  /\ world'.player = world.player
                  /\ \A f \in NewFacts : f.tick <= tick'
             ELSE tick' = act.end \/ (tick' = cut /\ cut = act.end)
  <2>1. Commit
    <3>1. \A a \in PlayerActions : ~BeginTurn(a)
      BY <1>1 DEF BeginTurn, stored
    <3>2. \A s \in queue : ~RunStep(s)
      BY <1>1 DEF RunStep, stored
    <3>3. ~Abandon /\ \A p \in Places : ~Toggle(p)
      BY <1>1 DEF Abandon, Toggle, stored
    <3>4. ~UNCHANGED vars
      BY <1>1 DEF vars, stored
    <3> QED BY <1>1, <3>1, <3>2, <3>3, <3>4 DEF Next
  <2>2. TypeOK /\ AgendaInv
    BY <1>1 DEF Sound
  <2>3. /\ act # NoAct /\ tick' = StopsAt /\ facts' = facts \o news /\ world' = ReadBack(work)
    BY <2>1, <2>2, CommitShape
  <2>4. /\ facts \in Seq(FactType) /\ news \in Seq(FactType) /\ work \in WorldType
        /\ cut \in Nat /\ act.end \in Nat
    BY <2>2 DEF TypeOK, ActType, NoAct
  <2>5. TicksInv
    BY <2>2, <2>3 DEF AgendaInv
  <2>6. \A f : f \in NewFacts <=> \E i \in DOMAIN news : f = news[i]
    <3>1. /\ Len(facts) \in Nat /\ Len(news) \in Nat /\ Len(facts') = Len(facts) + Len(news)
          /\ DOMAIN news = 1..Len(news)
          /\ \A j \in 1..Len(news) : facts'[Len(facts) + j] = news[j]
      BY <2>3, <2>4, ConcatPlaces, ConcatProperties
    <3>2. ASSUME NEW i \in (Len(facts) + 1)..Len(facts') PROVE \E j \in DOMAIN news : facts'[i] = news[j]
      <4>1. i - Len(facts) \in 1..Len(news) /\ i = Len(facts) + (i - Len(facts))
        BY <3>1
      <4> QED BY <3>1, <4>1
    <3>3. ASSUME NEW j \in DOMAIN news PROVE news[j] \in NewFacts
      <4>1. Len(facts) + j \in (Len(facts) + 1)..Len(facts') /\ facts'[Len(facts) + j] = news[j]
        BY <3>1
      <4> QED BY <4>1 DEF NewFacts
    <3> QED BY <3>2, <3>3 DEF NewFacts
  <2>7. \A t : t \in Rings <=> \E i \in DOMAIN news : /\ news[i].what = "world_interrupt"
                                                     /\ news[i].tick < act.end /\ news[i].tick = t
    BY <2>6 DEF Rings
  <2>8. CASE HasCompletion(act) /\ Rings # {}
    <3>1. \A t \in Rings : cut # 0 /\ t = cut
      BY <1>1, <2>3, <2>7, <2>8 DEF CutInv
    <3>2. cut # 0 /\ tick' = cut /\ cut \in Rings
      BY <2>3, <2>8, <3>1 DEF StopsAt
    <3>3. world'.player = world.player
      BY <1>1, <2>3, <2>4, <3>2, KeptThroughRows DEF CutInv
    <3>4. \A f \in NewFacts : f.tick <= cut
      BY <1>1, <2>3, <2>6, <3>2 DEF FactsInv
    <3> QED BY <2>4, <2>8, <3>1, <3>2, <3>3, <3>4
  <2>9. CASE ~(HasCompletion(act) /\ Rings # {})
    <3>1. CASE cut = 0
      BY <2>3, <2>9, <3>1 DEF StopsAt
    <3>2. CASE cut # 0
      <4>1. HasCompletion(act) /\ \E i \in DOMAIN news : news[i].what = "world_interrupt" /\ news[i].tick = cut
        BY <1>1, <2>3, <3>2 DEF CutInv
      <4>2. ~(cut < act.end)
        BY <2>7, <2>9, <4>1
      <4>3. cut = act.end
        BY <2>4, <2>5, <3>2, <4>2 DEF TicksInv
      <4> QED BY <2>3, <2>9, <3>2, <4>3 DEF StopsAt
    <3> QED BY <3>1, <3>2
  <2> QED BY <2>8, <2>9
<1>2. Sound /\ FactsInv /\ CutInv /\ [Next]_vars =>
        [tick' # tick =>
           IF HasCompletion(act) /\ Rings # {}
           THEN /\ \A t \in Rings : tick' <= t
                /\ tick' \in Rings
                /\ world'.player = world.player
                /\ \A f \in NewFacts : f.tick <= tick'
           ELSE tick' = act.end \/ (tick' = cut /\ cut = act.end)]_vars
  BY <1>1
<1> QED BY <1>2, AlwaysCut, PTL DEF Spec, CutShort
-----------------------------------------------------------------------------
(* The timetable of the trial.                                              *)

StartA == Journey(Step(2, NpcMove, "npc_a", "npc_travel_start", 0), "plaza", "trial_peak", 5)
TakeA == Step(5, ItemPhase, "npc_a", "npc_take_item", 0)
TakeB == Step(5, ItemPhase, "npc_b", "npc_take_item", 0)
UseB == Step(6, ItemPhase, "npc_b", "npc_use_item", 0)
RingBell == Step(7, Environment, "world", "environment_interrupt", 0)
StartB == Journey(Step(8, NpcMove, "npc_b", "npc_travel_start", 0), "trial_peak", "plaza", 9)
Walks == {StartA, StartB}
\* the arrival that a start derives
ArrivalOf(x) ==
  Journey(Step(x.until, NpcMove, x.actor, "npc_travel_arrive", x.tick), x.from, x.to, 0)
Programme == TrialSteps \cup {ArrivalOf(x) : x \in Walks}

\* The NPC of walk x is where it sets out until it arrives, and its plan is the one of x.
Walking(w, P, x) ==
  /\ w.at[x.actor] \in {x.from, x.to}
  /\ x \in P => w.at[x.actor] = x.from /\ w.plan[x.actor].status = "none" /\ ArrivalOf(x) \notin P
  /\ ArrivalOf(x) \in P =>
       /\ w.at[x.actor] = x.from
       /\ w.plan[x.actor].status # "none" /\ w.plan[x.actor].gen = x.tick
       /\ w.plan[x.actor].from = x.from /\ w.plan[x.actor].to = x.to
\* The token lies where it lay until NPC A, and then B, has tried to take it.
Tokens(w, P) ==
  w.owner = IF TakeA \in P THEN "trial_peak"
            ELSE IF w.at.npc_a = "trial_peak" THEN "npc_a"
            ELSE IF TakeB \in P THEN "trial_peak" ELSE "npc_b"
Marked(w, P) ==
  /\ Bell \in w.fired <=> RingBell \notin P
  /\ Used("npc_b") \in w.fired <=> UseB \notin P /\ w.owner = "npc_b"
\* Of the steps to come an earlier one never comes without the later ones.
Unbroken(P) ==
  /\ StartA \in P \/ ArrivalOf(StartA) \in P => TakeA \in P
  /\ TakeA \in P => TakeB \in P
  /\ TakeB \in P => UseB \in P
  /\ UseB \in P => RingBell \in P
  /\ RingBell \in P => StartB \in P

\* How the trial stands in w with the steps P to come.
Course(w, P) ==
  /\ \A s \in P : s \in Programme \/ s.kind = Completing
  /\ Unbroken(P)
  /\ \A x \in Walks : Walking(w, P, x)
  /\ Tokens(w, P) /\ Marked(w, P)
\* A walk that nothing is left of has led to its end.
Walked(w, P) ==
  \A x \in Walks : x \in P \/ ArrivalOf(x) \in P \/ w.at[x.actor] = x.to

CourseInv ==
  profile = "trial" =>
    /\ Course(world, Pending)
    /\ act # NoAct => Course(work, Todo)
    /\ \A s \in TrialSteps : s \in Pending \/ s.tick <= tick
    /\ \A x \in Walks : /\ world.at[x.actor] = x.to => x.until <= tick
                        /\ act # NoAct /\ work.at[x.actor] = x.to
                             => x.until <= tick \/ ArrivalOf(x) \in TakenSteps
    /\ toggles = 0 => /\ closed = {} /\ Walked(world, Pending)
                      /\ act # NoAct => work.open = TrialRoutes /\ Walked(work, Todo)

\* Each step of the programme is known by its kind and its actor.
LEMMA StepParts ==
  /\ StartA.kind = "npc_travel_start" /\ StartA.actor = "npc_a" /\ StartA.ref = 0
  /\ StartA.tick = 2 /\ StartA.from = "plaza" /\ StartA.to = "trial_peak" /\ StartA.until = 5
  /\ StartB.kind = "npc_travel_start" /\ StartB.actor = "npc_b" /\ StartB.ref = 0
  /\ StartB.tick = 8 /\ StartB.from = "trial_peak" /\ StartB.to = "plaza" /\ StartB.until = 9
  /\ ArrivalOf(StartA).kind = "npc_travel_arrive" /\ ArrivalOf(StartA).actor = "npc_a"
  /\ ArrivalOf(StartA).ref = 2 /\ ArrivalOf(StartA).tick = 5 /\ ArrivalOf(StartA).phase = NpcMove
  /\ ArrivalOf(StartB).kind = "npc_travel_arrive" /\ ArrivalOf(StartB).actor = "npc_b"
  /\ ArrivalOf(StartB).ref = 8 /\ ArrivalOf(StartB).tick = 9 /\ ArrivalOf(StartB).phase = NpcMove
  /\ StartA.phase = NpcMove /\ StartB.phase = NpcMove
  /\ TakeA.kind = "npc_take_item" /\ TakeA.actor = "npc_a" /\ TakeA.tick = 5 /\ TakeA.phase = ItemPhase
  /\ TakeB.kind = "npc_take_item" /\ TakeB.actor = "npc_b" /\ TakeB.tick = 5 /\ TakeB.phase = ItemPhase
  /\ UseB.kind = "npc_use_item" /\ UseB.actor = "npc_b" /\ UseB.tick = 6
  /\ RingBell.kind = "environment_interrupt" /\ RingBell.actor = "world" /\ RingBell.tick = 7
PROOF BY DEF StartA, StartB, ArrivalOf, TakeA, TakeB, UseB, RingBell, Journey, Step

LEMMA TrialCases ==
  /\ TrialSteps = {StartA, TakeA, TakeB, UseB, RingBell, StartB}
  /\ \A s \in Programme : s \in {StartA, TakeA, TakeB, UseB, RingBell, StartB,
                                 ArrivalOf(StartA), ArrivalOf(StartB)}
  /\ {StartA, TakeA, TakeB, UseB, RingBell, StartB} \subseteq Programme
  /\ \A x \in Walks : ArrivalOf(x) \in Programme /\ x \in Programme
PROOF
<1>1. TrialSteps = {StartA, TakeA, TakeB, UseB, RingBell, StartB}
  BY DEF TrialSteps, StartA, TakeA, TakeB, UseB, RingBell, StartB
<1> QED BY <1>1 DEF Programme, Walks

\* What a step of kind k does not touch.
LEMMA TrialTouches ==
  ASSUME NEW w \in WorldType, NEW s, NEW p
  PROVE  LET e == TrialStep(w, s, p)
         IN  /\ e.world.open = w.open
             /\ \A a \in Npcs : s.actor # a \/ s.kind \notin {"npc_travel_start", "npc_travel_arrive"}
                  => e.world.at[a] = w.at[a] /\ e.world.plan[a] = w.plan[a]
             /\ s.kind # "npc_take_item" => e.world.owner = w.owner
             /\ s.kind \notin {"npc_use_item", "environment_interrupt"} => e.world.fired = w.fired
             /\ s.kind # "npc_travel_start" => e.derived = {}
PROOF
<1> USE DEF Applied, Refused, Cancelled, Raises, Effect, TrialBlocked
<1>1. w.at \in [Npcs -> Places] /\ w.plan \in [Npcs -> PlanType] /\ NpcMove = 2
  BY DEF WorldType, NpcMove
<1>2. CASE s.kind = "npc_travel_start"
  <2> DEFINE v == [w EXCEPT !.plan[s.actor] =
                     [status |-> "traveling", gen |-> s.tick, from |-> s.from, to |-> s.to,
                      until |-> s.until, goal |-> 0]]
  <2>1. TrialStep(w, s, p).world \in {w, v}
    BY <1>2 DEF TrialStep, TrialStart
  <2>2. /\ v.open = w.open /\ v.at = w.at /\ v.owner = w.owner /\ v.fired = w.fired
        /\ \A a \in Npcs : s.actor # a => v.plan[a] = w.plan[a]
    BY <1>1 DEF WorldType
  <2> HIDE DEF v
  <2> QED BY <1>1, <1>2, <2>1, <2>2
<1>3. CASE s.kind = "npc_travel_arrive"
  <2> DEFINE u(st) == [w EXCEPT !.plan[s.actor].status = st]
             v == [u("arrived") EXCEPT !.at[s.actor] = w.plan[s.actor].to]
  <2>0. TrialStep(w, s, p) = TrialArrive(w, s)
    BY <1>3 DEF TrialStep
  <2>1. TrialStep(w, s, p).world \in {w, v, u("blocked"), u("cancelled")} /\ TrialStep(w, s, p).derived = {}
    BY <2>0 DEF TrialArrive
  <2>2. ASSUME NEW st
        PROVE  /\ u(st).open = w.open /\ u(st).at = w.at /\ u(st).owner = w.owner
               /\ u(st).fired = w.fired
               /\ \A a \in Npcs : s.actor # a => u(st).plan[a] = w.plan[a]
    BY <1>1 DEF WorldType
  <2>3. /\ v.open = w.open /\ v.owner = w.owner /\ v.fired = w.fired
        /\ \A a \in Npcs : s.actor # a => v.plan[a] = w.plan[a] /\ v.at[a] = w.at[a]
    BY <1>1 DEF WorldType
  <2> HIDE DEF u, v
  <2> QED BY <1>1, <1>3, <2>1, <2>2, <2>3
<1>4. CASE s.kind = "npc_take_item"
  <2> DEFINE v == [w EXCEPT !.owner = s.actor]
  <2>1. TrialStep(w, s, p).world \in {w, v} /\ TrialStep(w, s, p).derived = {}
    BY <1>4 DEF TrialStep, TrialTake
  <2>2. v.open = w.open /\ v.at = w.at /\ v.fired = w.fired /\ v.plan = w.plan
    BY DEF WorldType
  <2> HIDE DEF v
  <2> QED BY <1>1, <1>4, <2>1, <2>2
<1>5. CASE s.kind \in {"npc_use_item", "environment_interrupt"}
  <2>1. /\ TrialStep(w, s, p).world \in {w, Mark(w, Used(s.actor)), Mark(w, Bell)}
        /\ TrialStep(w, s, p).derived = {}
    BY <1>5 DEF TrialStep, TrialUse, TrialBell
  <2>2. ASSUME NEW m
        PROVE  /\ Mark(w, m).open = w.open /\ Mark(w, m).at = w.at /\ Mark(w, m).owner = w.owner
               /\ Mark(w, m).plan = w.plan
    BY DEF WorldType, Mark
  <2> QED BY <1>1, <1>5, <2>1, <2>2
<1>6. CASE s.kind = "player_continuous_complete"
  <2> DEFINE v == [w EXCEPT !.player = p.to]
  <2>1. TrialStep(w, s, p).world \in {w, v} /\ TrialStep(w, s, p).derived = {}
    BY <1>6 DEF TrialStep, TrialComplete
  <2>2. v.open = w.open /\ v.at = w.at /\ v.fired = w.fired /\ v.plan = w.plan /\ v.owner = w.owner
    BY DEF WorldType
  <2> HIDE DEF v
  <2> QED BY <1>1, <1>6, <2>1, <2>2
<1>7. CASE s.kind \notin {"npc_travel_start", "npc_travel_arrive", "npc_take_item", "npc_use_item",
                          "environment_interrupt", "player_continuous_complete"}
  <2>1. TrialStep(w, s, p).world = w /\ TrialStep(w, s, p).derived = {}
    BY <1>7 DEF TrialStep
  <2> QED BY <1>1, <2>1
<1> QED BY <1>2, <1>3, <1>4, <1>5, <1>6, <1>7

\* Of the steps to come the earlier ones are taken first.
LEMMA InTheirOrder ==
  ASSUME NEW P \in SUBSET StepType, NEW s, IsFirst(s, P)
  PROVE  /\ s = TakeA => StartA \notin P /\ ArrivalOf(StartA) \notin P
         /\ s = TakeB => TakeA \notin P
         /\ s = UseB => TakeB \notin P
         /\ s = RingBell => UseB \notin P
         /\ s = StartB => RingBell \notin P
PROOF
<1>1. \A t \in P : s.tick <= t.tick /\ InOrder(s, t)
  BY FirstFields
<1>2. NpcMove = 2 /\ ItemPhase = 3
  BY DEF NpcMove, ItemPhase
<1>3. s = TakeA => StartA \notin P /\ ArrivalOf(StartA) \notin P
  BY <1>1, <1>2, StepParts DEF InOrder
<1>4. (s = UseB => TakeB \notin P) /\ (s = RingBell => UseB \notin P) /\ (s = StartB => RingBell \notin P)
  BY <1>1, StepParts
<1>5. ASSUME s = TakeB, TakeA \in P PROVE FALSE
  <2>1. Order(TakeA)[3] < Order(TakeB)[3]
    BY DEF Order, ActorRank, TakeA, TakeB, Step
  <2>2. Order(TakeA)[1] = Order(TakeB)[1] /\ Order(TakeA)[2] = Order(TakeB)[2]
    BY DEF Order, TakeA, TakeB, Step
  <2>3. \A j \in 1..(3 - 1) : Order(TakeA)[j] = Order(TakeB)[j]
    BY <2>2
  <2>4. Precedes(TakeA, TakeB)
    BY <2>1, <2>3 DEF Precedes
  <2> QED BY <1>5, <2>4 DEF IsFirst
<1> QED BY <1>3, <1>4, <1>5

\* What is to come after step s: what there was without s, and what s derives.
Remains(P, Q, s, derived) ==
  \A t : t.kind # Completing => (t \in Q <=> (t \in P /\ t # s) \/ t \in derived)

\* A walk through a step.
LEMMA WalkingStep ==
  ASSUME NEW w \in WorldType, NEW P, NEW Q, NEW s \in P, NEW p, NEW x \in Walks,
         s \in Programme \/ s.kind = Completing,
         Walking(w, P, x), Remains(P, Q, s, TrialStep(w, s, p).derived)
  PROVE  LET v == TrialStep(w, s, p).world
         IN  /\ Walking(v, Q, x)
             /\ v.at[x.actor] # w.at[x.actor] => s = ArrivalOf(x)
             /\ (/\ <<x.from, x.to>> \in w.open
                 /\ x \in P \/ ArrivalOf(x) \in P \/ w.at[x.actor] = x.to)
                  => x \in Q \/ ArrivalOf(x) \in Q \/ v.at[x.actor] = x.to
PROOF
<1> DEFINE e == TrialStep(w, s, p)
           v == e.world
           a == x.actor
<1>1. /\ x.kind = "npc_travel_start" /\ ArrivalOf(x).kind = "npc_travel_arrive" /\ ArrivalOf(x).ref = x.tick
      /\ ArrivalOf(x).actor = a /\ a \in Npcs /\ x.from # x.to /\ x # ArrivalOf(x)
      /\ x.kind # Completing /\ ArrivalOf(x).kind # Completing
  BY StepParts DEF Walks, Npcs, Completing
<1>2. w.at \in [Npcs -> Places] /\ w.plan \in [Npcs -> PlanType]
  BY DEF WorldType
<1>3. /\ x \in Q <=> (x \in P /\ x # s) \/ x \in e.derived
      /\ ArrivalOf(x) \in Q <=> (ArrivalOf(x) \in P /\ ArrivalOf(x) # s) \/ ArrivalOf(x) \in e.derived
  BY <1>1 DEF Remains
<1>4. CASE s = x
  <2> DEFINE plan == [status |-> "traveling", gen |-> s.tick, from |-> s.from, to |-> s.to,
                      until |-> s.until, goal |-> 0]
             u == [w EXCEPT !.plan[a] = plan]
  <2>1. w.at[a] = x.from /\ w.plan[a].status = "none" /\ ArrivalOf(x) \notin P
    BY <1>4 DEF Walking
  <2>2. e = IF IsOpen(w, x.from, x.to) THEN Applied(u, <<"npc_travel_started">>, {ArrivalOf(x)})
            ELSE TrialBlocked(w)
    BY <1>1, <1>4, <2>1 DEF TrialStep, TrialStart, ArrivalOf
  <2>3. CASE IsOpen(w, x.from, x.to)
    <3>1. v = u /\ e.derived = {ArrivalOf(x)}
      BY <2>2, <2>3 DEF Applied, Effect
    <3>2. u.at = w.at /\ u.plan[a] = plan
      BY <1>1, <1>2 DEF WorldType
    <3>3. x \notin Q /\ ArrivalOf(x) \in Q
      BY <1>1, <1>3, <1>4, <3>1
    <3>4. plan.status # "none" /\ plan.gen = x.tick /\ plan.from = x.from /\ plan.to = x.to
      BY <1>4
    <3> HIDE DEF u, plan, e
    <3>5. Walking(v, Q, x)
      BY <2>1, <3>1, <3>2, <3>3, <3>4 DEF Walking
    <3> QED BY <3>1, <3>2, <3>3, <3>5 DEF e
  <2>4. CASE ~IsOpen(w, x.from, x.to)
    <3>1. v = w /\ e.derived = {}
      BY <2>2, <2>4 DEF TrialBlocked, Refused, Effect
    <3>2. x \notin Q /\ ArrivalOf(x) \notin Q
      BY <1>3, <1>4, <2>1, <3>1
    <3> HIDE DEF e
    <3> QED BY <2>1, <2>4, <3>1, <3>2 DEF e, Walking, IsOpen
  <2> QED BY <2>3, <2>4
<1>5. CASE s = ArrivalOf(x)
  <2> DEFINE u(b, st) == [w EXCEPT !.plan[b].status = st]
             z(b, to) == [u(b, "arrived") EXCEPT !.at[b] = to]
  <2>1. /\ w.at[a] = x.from /\ w.plan[a].status # "none" /\ w.plan[a].gen = x.tick
        /\ w.plan[a].from = x.from /\ w.plan[a].to = x.to /\ x \notin P
    BY <1>5 DEF Walking
  <2>2. e = IF IsOpen(w, x.from, x.to) THEN Applied(z(a, x.to), <<"npc_arrived">>, {})
            ELSE TrialBlocked(u(a, "cancelled"))
    <3>1. e = TrialArrive(w, s)
      BY <1>1, <1>5 DEF TrialStep
    <3>2. s.actor = a /\ s.ref = x.tick
      BY <1>1, <1>5
    <3>3. \/ w.plan[s.actor].status = "none" \/ w.plan[s.actor].gen # s.ref
          \/ w.at[s.actor] # w.plan[s.actor].from
          \/ TrialArrive(w, s) =
               IF IsOpen(w, w.plan[s.actor].from, w.plan[s.actor].to)
               THEN Applied(z(s.actor, w.plan[s.actor].to), <<"npc_arrived">>, {})
               ELSE TrialBlocked(u(s.actor, "cancelled"))
      BY DEF TrialArrive
    <3> HIDE DEF u, z
    <3> QED BY <2>1, <3>1, <3>2, <3>3
  <2>3. e.derived = {} /\ v = IF IsOpen(w, x.from, x.to) THEN z(a, x.to) ELSE u(a, "cancelled")
    BY <2>2 DEF Applied, TrialBlocked, Refused, Effect
  <2>4. z(a, x.to).at[a] = x.to /\ u(a, "cancelled").at = w.at
    BY <1>1, <1>2 DEF WorldType
  <2>5. x \notin Q /\ ArrivalOf(x) \notin Q
    BY <1>3, <1>5, <2>1, <2>3
  <2> HIDE DEF u, z, e
  <2> QED BY <1>5, <2>1, <2>3, <2>4, <2>5 DEF e, Walking, IsOpen
<1>6. CASE s # x /\ s # ArrivalOf(x)
  <2>1. s.actor # a \/ s.kind \notin {"npc_travel_start", "npc_travel_arrive"}
    BY <1>6, TrialCases, StepParts DEF Walks, Completing
  <2>2. v.at[a] = w.at[a] /\ v.plan[a] = w.plan[a]
    BY <1>1, <2>1, TrialTouches
  <2>3. x \notin e.derived /\ ArrivalOf(x) \notin e.derived
    <3>1. CASE s.kind = "npc_travel_start"
      <4>1. s \in Walks
        BY <3>1, TrialCases, StepParts DEF Walks, Completing
      <4>2. e.derived \subseteq {ArrivalOf(s)}
        BY <3>1 DEF TrialStep, TrialStart, ArrivalOf, Applied, TrialBlocked, Refused, Effect
      <4>3. ArrivalOf(s).actor = s.actor /\ ArrivalOf(s).kind = "npc_travel_arrive"
        BY <4>1, StepParts DEF Walks
      <4> QED BY <1>1, <2>1, <3>1, <4>2, <4>3
    <3>2. CASE s.kind # "npc_travel_start"
      BY <3>2, TrialTouches
    <3> QED BY <3>1, <3>2
  <2>4. (x \in Q <=> x \in P) /\ (ArrivalOf(x) \in Q <=> ArrivalOf(x) \in P)
    BY <1>3, <1>6, <2>3
  <2> HIDE DEF e
  <2> QED BY <2>2, <2>4 DEF e, Walking
<1> QED BY <1>4, <1>5, <1>6

LEMMA TrialDerives ==
  ASSUME NEW w, NEW s, s \in Programme \/ s.kind = Completing, NEW p,
         NEW d \in TrialStep(w, s, p).derived, w \in WorldType
  PROVE  s \in Walks /\ d = ArrivalOf(s) /\ d \in Programme /\ d.kind = "npc_travel_arrive"
PROOF
<1>1. s.kind = "npc_travel_start"
  BY TrialTouches
<1>2. s \in Walks
  BY <1>1, TrialCases, StepParts DEF Walks, Completing
<1>3. TrialStep(w, s, p).derived \subseteq {ArrivalOf(s)}
  BY <1>1 DEF TrialStep, TrialStart, ArrivalOf, Applied, TrialBlocked, Refused, Effect
<1> QED BY <1>2, <1>3, TrialCases, StepParts DEF Walks

\* Who has the token after a step that takes it, and the marks of one that uses it and of the bell.
LEMMA TokenMarks ==
  ASSUME NEW w \in WorldType, NEW s, NEW p
  PROVE  LET v == TrialStep(w, s, p).world
         IN  /\ s.kind = "npc_take_item" =>
                  v.owner = IF w.owner \in Places /\ w.at[s.actor] = w.owner THEN s.actor ELSE w.owner
             /\ s.kind = "npc_use_item" =>
                  v.fired = IF w.owner = s.actor THEN w.fired \cup {Used(s.actor)} ELSE w.fired
             /\ s.kind = "environment_interrupt" => v.fired = w.fired \cup {Bell}
PROOF
<1> USE DEF Applied, Refused, Cancelled, Effect, TrialBlocked
<1>1. CASE s.kind = "npc_take_item"
  <2>1. TrialStep(w, s, p).world =
          IF w.owner \in Places /\ w.at[s.actor] = w.owner THEN [w EXCEPT !.owner = s.actor] ELSE w
    BY <1>1 DEF TrialStep, TrialTake
  <2>2. [w EXCEPT !.owner = s.actor].owner = s.actor
    BY DEF WorldType
  <2> QED BY <1>1, <2>1, <2>2
<1>2. ASSUME NEW m PROVE Mark(w, m).fired = w.fired \cup {m}
  BY DEF WorldType, Mark
<1>3. CASE s.kind = "npc_use_item"
  <2>1. TrialStep(w, s, p).world =
          IF w.owner = s.actor /\ Used(s.actor) \notin w.fired THEN Mark(w, Used(s.actor)) ELSE w
    BY <1>3 DEF TrialStep, TrialUse
  <2> QED BY <1>2, <1>3, <2>1
<1>4. CASE s.kind = "environment_interrupt"
  <2>1. TrialStep(w, s, p).world = IF Bell \in w.fired THEN w ELSE Mark(w, Bell)
    BY <1>4 DEF TrialStep, TrialBell
  <2> QED BY <1>2, <1>4, <2>1
<1> QED BY <1>1, <1>3, <1>4

\* The first of the steps to come leaves the trial on its course.
LEMMA CourseStep ==
  ASSUME NEW w \in WorldType, NEW P \in SUBSET StepType, NEW Q, NEW s, IsFirst(s, P), NEW p,
         Course(w, P), Remains(P, Q, s, TrialStep(w, s, p).derived),
         \A t \in Q : t \in P \/ t \in TrialStep(w, s, p).derived
  PROVE  Course(TrialStep(w, s, p).world, Q)
PROOF
<1> DEFINE e == TrialStep(w, s, p)
           v == e.world
<1>1. s \in P /\ (s \in Programme \/ s.kind = Completing)
  BY DEF IsFirst, Course
<1>2. /\ \A x \in Walks : Walking(w, P, x)
      /\ Unbroken(P) /\ Tokens(w, P) /\ Marked(w, P)
  BY DEF Course
<1>3. ASSUME NEW x \in Walks
      PROVE  Walking(v, Q, x) /\ (v.at[x.actor] # w.at[x.actor] => s = ArrivalOf(x))
  <2>1. Walking(w, P, x)
    BY <1>2
  <2>2. /\ Walking(v, Q, x)
        /\ v.at[x.actor] # w.at[x.actor] => s = ArrivalOf(x)
        /\ (/\ <<x.from, x.to>> \in w.open
            /\ x \in P \/ ArrivalOf(x) \in P \/ w.at[x.actor] = x.to)
             => x \in Q \/ ArrivalOf(x) \in Q \/ v.at[x.actor] = x.to
    BY <1>1, <2>1, WalkingStep
  <2> QED BY <2>2
<1>4. StartA \in Walks /\ StartB \in Walks /\ StartA.actor = "npc_a" /\ StartB.actor = "npc_b"
  BY StepParts DEF Walks
<1>5. ASSUME NEW t \in {StartA, TakeA, TakeB, UseB, RingBell, StartB}
      PROVE  t \in Q <=> t \in P /\ t # s
  <2>1. t.kind # Completing /\ t.kind # "npc_travel_arrive"
    BY StepParts DEF Completing
  <2>2. t \notin e.derived
    BY <1>1, <2>1, TrialDerives
  <2> QED BY <2>1, <2>2 DEF Remains
<1>6. ArrivalOf(StartA) \in Q => ArrivalOf(StartA) \in P \/ StartA \in P
  <2>1. ASSUME ArrivalOf(StartA) \in e.derived PROVE s = StartA
    <3>1. s \in Walks /\ ArrivalOf(StartA) = ArrivalOf(s)
      BY <1>1, <2>1, TrialDerives
    <3> QED BY <3>1, StepParts DEF Walks
  <2> QED BY <1>1, <2>1, StepParts DEF Remains, Completing
<1>7. /\ s = TakeA => StartA \notin P /\ ArrivalOf(StartA) \notin P
      /\ s = TakeB => TakeA \notin P
      /\ s = UseB => TakeB \notin P
      /\ s = RingBell => UseB \notin P
      /\ s = StartB => RingBell \notin P
  BY InTheirOrder
<1>8. Unbroken(Q)
  BY <1>2, <1>5, <1>6, <1>7 DEF Unbroken
<1>9. \A t \in Q : t \in Programme \/ t.kind = Completing
  BY <1>1, TrialDerives DEF Course
<1>10. /\ s.kind # "npc_take_item" => v.owner = w.owner
       /\ s.kind \notin {"npc_use_item", "environment_interrupt"} => v.fired = w.fired
       /\ v.at["npc_a"] # w.at["npc_a"] => s = ArrivalOf(StartA)
       /\ v.at["npc_b"] # w.at["npc_b"] => s = ArrivalOf(StartB)
  BY <1>3, <1>4, TrialTouches
<1>13. /\ s.kind = "npc_take_item" =>
            v.owner = IF w.owner \in Places /\ w.at[s.actor] = w.owner THEN s.actor ELSE w.owner
       /\ s.kind = "npc_use_item" =>
            v.fired = IF w.owner = s.actor THEN w.fired \cup {Used(s.actor)} ELSE w.fired
       /\ s.kind = "environment_interrupt" => v.fired = w.fired \cup {Bell}
  BY TokenMarks
<1> HIDE DEF e
<1>11. Tokens(v, Q)
  <2>1. "trial_peak" \in Places /\ "npc_a" \notin Places
    BY DEF Places
  <2>2. TakeA # TakeB
    BY StepParts
  <2>3. CASE s = TakeA
    <3>1. TakeA \in P /\ TakeB \in P /\ w.owner = "trial_peak" /\ TakeA \notin Q /\ TakeB \in Q
      BY <1>1, <1>2, <1>5, <2>2, <2>3 DEF Unbroken, Tokens
    <3>2. v.at["npc_a"] = w.at["npc_a"]
      BY <1>10, <2>3, StepParts
    <3>3. v.owner = IF w.at["npc_a"] = "trial_peak" THEN "npc_a" ELSE "trial_peak"
      BY <1>13, <2>1, <2>3, <3>1, StepParts
    <3> QED BY <3>1, <3>2, <3>3 DEF Tokens
  <2>4. CASE s = TakeB
    <3>1. TakeA \notin P /\ TakeB \in P /\ StartB \in P /\ TakeA \notin Q /\ TakeB \notin Q
      BY <1>1, <1>2, <1>5, <1>7, <2>2, <2>4 DEF Unbroken
    <3>2. w.at["npc_b"] = "trial_peak"
      BY <1>2, <1>4, <3>1, StepParts DEF Walking
    <3>3. v.at["npc_a"] = w.at["npc_a"]
      BY <1>10, <2>4, StepParts
    <3>4. w.owner = IF w.at["npc_a"] = "trial_peak" THEN "npc_a" ELSE "trial_peak"
      BY <1>2, <3>1 DEF Tokens
    <3>5. v.owner = IF w.at["npc_a"] = "trial_peak" THEN "npc_a" ELSE "npc_b"
      BY <1>13, <2>1, <2>4, <3>2, <3>4, StepParts
    <3> QED BY <3>1, <3>3, <3>5 DEF Tokens
  <2>5. CASE s # TakeA /\ s # TakeB
    <3>1. v.owner = w.owner
      BY <1>1, <1>10, <2>5, TrialCases, StepParts DEF Completing
    <3>2. (TakeA \in Q <=> TakeA \in P) /\ (TakeB \in Q <=> TakeB \in P)
      BY <1>5, <2>5
    <3>3. v.at["npc_a"] # w.at["npc_a"] => TakeA \in P
      BY <1>1, <1>2, <1>10 DEF Unbroken
    <3> QED BY <1>2, <3>1, <3>2, <3>3 DEF Tokens
  <2> QED BY <2>3, <2>4, <2>5
<1>12. Marked(v, Q)
  <2>1. Bell # Used("npc_b")
    BY DEF Bell, Used
  <2>2. CASE s = RingBell
    <3>1. v.owner = w.owner /\ v.fired = w.fired \cup {Bell}
      BY <1>10, <1>13, <2>2, StepParts
    <3>2. RingBell \notin Q /\ (UseB \in Q <=> UseB \in P)
      BY <1>5, <2>2, StepParts
    <3> QED BY <1>2, <2>1, <3>1, <3>2 DEF Marked
  <2>3. CASE s = UseB
    <3>1. v.owner = w.owner /\ v.fired = IF w.owner = "npc_b" THEN w.fired \cup {Used("npc_b")} ELSE w.fired
      BY <1>10, <1>13, <2>3, StepParts
    <3>2. UseB \in P /\ UseB \notin Q /\ (RingBell \in Q <=> RingBell \in P)
      BY <1>1, <1>5, <2>3, StepParts
    <3> QED BY <1>2, <2>1, <3>1, <3>2 DEF Marked
  <2>4. CASE s # RingBell /\ s # UseB
    <3>1. v.fired = w.fired
      BY <1>1, <1>10, <2>4, TrialCases, StepParts DEF Completing
    <3>2. (UseB \in Q <=> UseB \in P) /\ (RingBell \in Q <=> RingBell \in P)
      BY <1>5, <2>4
    <3>3. v.owner # w.owner => UseB \in P
      <4>1. v.owner # w.owner => s \in {TakeA, TakeB}
        BY <1>1, <1>10, TrialCases, StepParts DEF Completing
      <4> QED BY <1>1, <1>2, <4>1 DEF Unbroken
    <3> QED BY <1>2, <3>1, <3>2, <3>3 DEF Marked
  <2> QED BY <2>2, <2>3, <2>4
<1> QED BY <1>3, <1>8, <1>9, <1>11, <1>12 DEF Course, e

\* While its route is open a walk leads to its end.
LEMMA WalkedStep ==
  ASSUME NEW w \in WorldType, NEW P, NEW Q, NEW s \in P, NEW p,
         Course(w, P), Remains(P, Q, s, TrialStep(w, s, p).derived),
         w.open = TrialRoutes, Walked(w, P)
  PROVE  Walked(TrialStep(w, s, p).world, Q)
PROOF
<1> DEFINE v == TrialStep(w, s, p).world
<1> SUFFICES ASSUME NEW x \in Walks
             PROVE  x \in Q \/ ArrivalOf(x) \in Q \/ v.at[x.actor] = x.to
  BY DEF Walked
<1>1. Walking(w, P, x) /\ (s \in Programme \/ s.kind = Completing)
  BY DEF Course
<1>2. <<x.from, x.to>> \in TrialRoutes
  BY StepParts DEF Walks, TrialRoutes, TrialPath
<1>3. x \in P \/ ArrivalOf(x) \in P \/ w.at[x.actor] = x.to
  BY DEF Walked
<1>4. /\ Walking(v, Q, x)
      /\ v.at[x.actor] # w.at[x.actor] => s = ArrivalOf(x)
      /\ (/\ <<x.from, x.to>> \in w.open
          /\ x \in P \/ ArrivalOf(x) \in P \/ w.at[x.actor] = x.to)
           => x \in Q \/ ArrivalOf(x) \in Q \/ v.at[x.actor] = x.to
  BY <1>1, WalkingStep
<1> QED BY <1>2, <1>3, <1>4

\* The course is told by the places, the plans, the token, the marks and the steps to come
\* but for the end of the player's action.
LEMMA SameCourse ==
  ASSUME NEW w, NEW v, NEW P, NEW Q, Course(w, P),
         v.at = w.at, v.plan = w.plan, v.owner = w.owner, v.fired = w.fired,
         \A t : t.kind # Completing => (t \in Q <=> t \in P)
  PROVE  Course(v, Q) /\ (Walked(w, P) => Walked(v, Q))
PROOF
<1>1. /\ \A t \in {StartA, TakeA, TakeB, UseB, RingBell, StartB} : t \in Q <=> t \in P
      /\ \A x \in Walks : (x \in Q <=> x \in P) /\ (ArrivalOf(x) \in Q <=> ArrivalOf(x) \in P)
      /\ ArrivalOf(StartA) \in Q <=> ArrivalOf(StartA) \in P
  BY StepParts DEF Walks, Completing
<1>2. \A t \in Q : t \in Programme \/ t.kind = Completing
  BY DEF Course
<1>3. Unbroken(Q)
  BY <1>1 DEF Course, Unbroken
<1>4. \A x \in Walks : Walking(v, Q, x)
  BY <1>1 DEF Course, Walking
<1>5. Tokens(v, Q) /\ Marked(v, Q)
  BY <1>1 DEF Course, Tokens, Marked
<1>6. Walked(w, P) => Walked(v, Q)
  BY <1>1 DEF Walked
<1> QED BY <1>2, <1>3, <1>4, <1>5, <1>6 DEF Course

LEMMA CourseInit == Init => CourseInv
PROOF
<1> SUFFICES ASSUME Init, profile = "trial" PROVE CourseInv
  BY DEF CourseInv
<1>1. act = NoAct /\ world = TrialBeginning /\ closed = {}
      /\ rows = {[step |-> s, status |-> "pending"] : s \in TrialSteps}
  BY DEF Init, Idle, FirstWorld, FirstSteps
<1>2. Pending = TrialSteps
  <2>1. \A s \in TrialSteps : [step |-> s, status |-> "pending"] \in rows
    BY <1>1
  <2>2. ASSUME NEW s \in TrialSteps PROVE s \in Pending
    <3>1. [step |-> s, status |-> "pending"].step = s /\ [step |-> s, status |-> "pending"].status = "pending"
      OBVIOUS
    <3> QED BY <2>1, <3>1, RowsOfPending
  <2>3. \A s \in Pending : s \in TrialSteps
    BY <1>1, RowsOfPending
  <2> QED BY <2>2, <2>3
<1>3. /\ world.at["npc_a"] = "plaza" /\ world.at["npc_b"] = "trial_peak"
      /\ \A a \in Npcs : world.plan[a].status = "none"
      /\ world.owner = "trial_peak" /\ world.fired = {}
  BY <1>1 DEF TrialBeginning, NoPlan, Npcs
<1>4. \A x \in Walks : /\ x \in TrialSteps /\ ArrivalOf(x) \notin TrialSteps
                       /\ world.at[x.actor] = x.from /\ x.from # x.to
                       /\ world.plan[x.actor].status = "none"
  BY <1>3, TrialCases, StepParts DEF Walks, Npcs
<1>5. \A x \in Walks : Walking(world, Pending, x)
  BY <1>2, <1>4 DEF Walking
<1>6. Unbroken(Pending) /\ Tokens(world, Pending) /\ Marked(world, Pending)
  BY <1>2, <1>3, TrialCases DEF Unbroken, Tokens, Marked
<1>7. Course(world, Pending)
  BY <1>2, <1>5, <1>6 DEF Course, Programme
<1>8. Walked(world, Pending)
  BY <1>2, <1>4 DEF Walked
<1> QED BY <1>1, <1>2, <1>4, <1>7, <1>8 DEF CourseInv

LEMMA CourseBegin ==
  ASSUME Sound, CourseInv, NEW a \in PlayerActions, BeginTurn(a)
  PROVE  CourseInv'
PROOF
<1>1. /\ act = NoAct /\ act' \in ActType
      /\ Pending \subseteq Todo'
      /\ \A s \in Todo' : s \in Pending \/ s = Completion(act')
      /\ work' = Loaded
      /\ UNCHANGED <<profile, stored, closed, toggles, done, news, cut>>
  BY BeginShape DEF Sound, AgendaInv
<1>2. UNCHANGED <<tick, world, Pending>>
  BY <1>1 DEF stored, Pending, StepsWith
<1> SUFFICES ASSUME profile' = "trial" PROVE CourseInv'
  BY DEF CourseInv
<1>3. profile = "trial"
  BY <1>1
<1>4. /\ Course(world, Pending)
      /\ \A s \in TrialSteps : s \in Pending \/ s.tick <= tick
      /\ \A x \in Walks : world.at[x.actor] = x.to => x.until <= tick
      /\ toggles = 0 => closed = {} /\ Walked(world, Pending)
  BY <1>3 DEF CourseInv
<1>5. world \in WorldType
  BY DEF Sound, TypeOK
<1>6. /\ Loaded.at = world.at /\ Loaded.plan = world.plan /\ Loaded.owner = world.owner
      /\ Loaded.fired = world.fired /\ (closed = {} => Loaded.open = TrialRoutes)
  BY <1>3, <1>5 DEF Loaded, WorldType
<1>7. \A t : t.kind # Completing => (t \in Todo' <=> t \in Pending)
  BY <1>1, CompletionType DEF Completing
<1>8. Course(Loaded, Todo') /\ (Walked(world, Pending) => Walked(Loaded, Todo'))
  BY <1>4, <1>6, <1>7, SameCourse
<1>9. Course(world', Pending') /\ Course(work', Todo')
  BY <1>1, <1>2, <1>4, <1>8
<1>10. toggles' = 0 => /\ closed' = {} /\ Walked(world', Pending')
                       /\ work'.open = TrialRoutes /\ Walked(work', Todo')
  BY <1>1, <1>2, <1>4, <1>6, <1>8
<1>11. \A x \in Walks : /\ world'.at[x.actor] = x.to => x.until <= tick'
                        /\ work'.at[x.actor] = x.to => x.until <= tick'
  BY <1>1, <1>2, <1>4, <1>6
<1>12. \A s \in TrialSteps : s \in Pending' \/ s.tick <= tick'
  BY <1>2, <1>4
<1> QED BY <1>9, <1>10, <1>11, <1>12 DEF CourseInv

LEMMA CourseRun ==
  ASSUME Sound, PlansInv, CourseInv, NEW s \in queue, RunStep(s)
  PROVE  CourseInv'
PROOF
<1> SUFFICES ASSUME profile' = "trial" PROVE CourseInv'
  BY DEF CourseInv
<1> DEFINE e == TrialStep(work, s, act)
<1>0. act # NoAct
  BY DEF RunStep
<1>1. /\ work \in WorldType /\ s \in Todo /\ work' = Doing(s).world
      /\ TrialFollows(work, s, Doing(s))
      /\ \A d \in Doing(s).derived : Key(d) \notin known => d \in Todo'
      /\ \A t \in Todo : t \in Todo' \/ t = s \/ t.kind = Completing
      /\ \A t \in Todo' : (t \in Todo /\ t # s) \/ (t \in Doing(s).derived /\ Key(t) \notin known)
      /\ UNCHANGED <<profile, tick, world, rows, act>>
  BY NewSteps
<1>2. profile = "trial" /\ Doing(s) = e
  BY <1>1 DEF Doing, ApplyStep
<1>3. /\ Course(world, Pending) /\ Course(work, Todo)
      /\ \A t \in TrialSteps : t \in Pending \/ t.tick <= tick
      /\ \A x \in Walks : /\ world.at[x.actor] = x.to => x.until <= tick
                          /\ work.at[x.actor] = x.to => x.until <= tick \/ ArrivalOf(x) \in TakenSteps
      /\ toggles = 0 => /\ closed = {} /\ Walked(world, Pending)
                        /\ work.open = TrialRoutes /\ Walked(work, Todo)
  BY <1>0, <1>2 DEF CourseInv
<1>4. TypeOK /\ Casts /\ TicksInv /\ Todo \in SUBSET StepType
  BY <1>0 DEF Sound, AgendaInv, TypeOK, Todo
<1>5. /\ IsFirst(s, queue) /\ UNCHANGED <<stored, closed, toggles>>
      /\ \A o \in done : o \in done'
      /\ [step |-> s, status |-> Doing(s).status] \in done'
  BY <1>4, RunShape
<1>6. s \in TakenSteps' /\ TakenSteps \subseteq TakenSteps'
  <2>1. [step |-> s, status |-> Doing(s).status].step = s
    OBVIOUS
  <2> QED BY <1>5, <2>1 DEF TakenSteps
<1>7. IsFirst(s, Todo)
  <2>1. ASSUME NEW t \in later, Precedes(t, s) PROVE FALSE
    <3>1. s.tick < t.tick
      <4>1. s.tick <= act.end /\ act.end < t.tick
        BY <1>4 DEF TicksInv
      <4>2. s.tick \in Nat /\ t.tick \in Nat /\ act.end \in Nat
        BY <1>4 DEF TypeOK, StepType, ActType, NoAct
      <4> QED BY <4>1, <4>2
    <3>2. s \in StepType /\ t \in StepType
      BY <1>4 DEF TypeOK
    <3>3. Order(s)[1] < Order(t)[1] /\ Order(s)[1] \in Nat /\ Order(t)[1] \in Nat
      BY <3>1, <3>2, OrderType
    <3>4. PICK i \in 1..5 : Order(t)[i] < Order(s)[i] /\ \A j \in 1..(i - 1) : Order(t)[j] = Order(s)[j]
      BY <2>1 DEF Precedes
    <3>5. CASE i = 1
      BY <3>3, <3>4, <3>5
    <3>6. CASE i # 1
      <4>1. 1 \in 1..(i - 1)
        BY <3>6
      <4> QED BY <3>3, <3>4, <4>1
    <3> QED BY <3>5, <3>6
  <2> QED BY <1>1, <1>5, <2>1 DEF IsFirst, Todo
<1>8. Remains(Todo, Todo', s, e.derived) /\ \A t \in Todo' : t \in Todo \/ t \in e.derived
  <2>1. ASSUME NEW d \in e.derived PROVE d \in Todo'
    <3>1. /\ s.kind = "npc_travel_start" /\ d.kind = "npc_travel_arrive"
          /\ d.actor = s.actor /\ d.ref = s.tick
      BY <1>1, <1>2, <2>1 DEF TrialFollows
    <3>2. Unstarted(known, Todo)
      BY <1>0, <1>2 DEF PlansInv, Plausible
    <3>3. Key(d) \notin known
      BY <1>1, <3>1, <3>2, KeyFields DEF Unstarted
    <3> QED BY <1>1, <1>2, <2>1, <3>3
  <2> QED BY <1>1, <1>2, <2>1 DEF Remains
<1> HIDE DEF e
<1>9. Course(e.world, Todo')
  BY <1>1, <1>3, <1>4, <1>7, <1>8, CourseStep DEF e
<1>10. toggles = 0 => Walked(e.world, Todo') /\ e.world.open = TrialRoutes
  <2>1. e.world.open = work.open
    BY <1>1, TrialTouches DEF e
  <2>2. ASSUME work.open = TrialRoutes, Walked(work, Todo) PROVE Walked(e.world, Todo')
    BY <1>1, <1>3, <1>8, <2>2, WalkedStep DEF e
  <2> QED BY <1>3, <2>1, <2>2
<1>11. ASSUME NEW x \in Walks, e.world.at[x.actor] = x.to
       PROVE  x.until <= tick \/ ArrivalOf(x) \in TakenSteps'
  <2>1. Walking(work, Todo, x) /\ (s \in Programme \/ s.kind = Completing)
    BY <1>1, <1>3 DEF Course
  <2>2. /\ Walking(e.world, Todo', x)
        /\ e.world.at[x.actor] # work.at[x.actor] => s = ArrivalOf(x)
        /\ (/\ <<x.from, x.to>> \in work.open
            /\ x \in Todo \/ ArrivalOf(x) \in Todo \/ work.at[x.actor] = x.to)
             => x \in Todo' \/ ArrivalOf(x) \in Todo' \/ e.world.at[x.actor] = x.to
    BY <1>1, <1>8, <2>1, WalkingStep DEF e
  <2> QED BY <1>3, <1>6, <1>11, <2>2
<1>12. UNCHANGED <<tick, world, Pending, closed, toggles>> /\ work' = e.world
  BY <1>1, <1>2, <1>5 DEF Pending, StepsWith
<1>13. Course(world', Pending') /\ Course(work', Todo')
  BY <1>3, <1>9, <1>12
<1>14. toggles' = 0 => /\ closed' = {} /\ Walked(world', Pending')
                       /\ work'.open = TrialRoutes /\ Walked(work', Todo')
  BY <1>3, <1>10, <1>12
<1>15. \A x \in Walks : /\ world'.at[x.actor] = x.to => x.until <= tick'
                        /\ work'.at[x.actor] = x.to
                             => x.until <= tick' \/ ArrivalOf(x) \in TakenSteps'
  BY <1>3, <1>11, <1>12
<1>16. \A t \in TrialSteps : t \in Pending' \/ t.tick <= tick'
  BY <1>3, <1>12
<1> QED BY <1>13, <1>14, <1>15, <1>16 DEF CourseInv

LEMMA CourseCommit ==
  ASSUME Sound, CourseInv, Commit
  PROVE  CourseInv'
PROOF
<1> SUFFICES ASSUME profile' = "trial" PROVE CourseInv'
  BY DEF CourseInv
<1>1. /\ act # NoAct /\ tick < StopsAt /\ StopsAt \in Nat /\ tick' = StopsAt
      /\ \A o \in Kept : o.step.tick <= StopsAt
      /\ Pending' = Todo /\ world' = ReadBack(work)
      /\ EndTurn /\ UNCHANGED <<profile, closed, toggles>>
  BY CommitShape DEF Sound
<1>2. /\ Course(work, Todo)
      /\ \A t \in TrialSteps : t \in Pending \/ t.tick <= tick
      /\ \A x \in Walks : work.at[x.actor] = x.to => x.until <= tick \/ ArrivalOf(x) \in TakenSteps
      /\ toggles = 0 => closed = {} /\ Walked(work, Todo)
  BY <1>1 DEF CourseInv
<1>3. work \in WorldType /\ tick \in Nat /\ KeysInv
  BY <1>1 DEF Sound, TypeOK, AgendaInv
<1>4. /\ world'.at = work.at /\ world'.plan = work.plan /\ world'.owner = work.owner
      /\ world'.fired = work.fired
  BY <1>1, <1>3 DEF ReadBack, WorldType
<1>5. Course(world', Pending') /\ (Walked(work, Todo) => Walked(world', Pending'))
  BY <1>1, <1>2, <1>4, SameCourse
<1>6. ASSUME NEW t \in TakenSteps, t.kind # Completing PROVE t.tick <= StopsAt
  <2>1. PICK o \in done : o.step = t
    BY DEF TakenSteps
  <2>2. o \in Kept
    BY <1>6, <2>1 DEF Kept, Completing
  <2> QED BY <1>1, <2>1, <2>2
<1>7. ASSUME NEW t \in TrialSteps PROVE t \in Pending' \/ t.tick <= tick'
  <2>1. t.kind # Completing /\ t.tick \in Nat
    BY TrialCases, StepParts DEF Completing
  <2>2. CASE t \in Pending
    <3>1. t \in Todo \/ t \in TakenSteps
      BY <1>3, <2>2 DEF KeysInv
    <3> QED BY <1>1, <1>6, <2>1, <3>1
  <2>3. CASE t.tick <= tick
    BY <1>1, <1>3, <2>1, <2>3
  <2> QED BY <1>2, <2>2, <2>3
<1>8. ASSUME NEW x \in Walks, world'.at[x.actor] = x.to PROVE x.until <= tick'
  <2>1. x.until \in Nat /\ ArrivalOf(x).tick = x.until /\ ArrivalOf(x).kind # Completing
    BY StepParts DEF Walks, Completing
  <2>2. x.until <= tick \/ ArrivalOf(x) \in TakenSteps
    BY <1>2, <1>4, <1>8
  <2> QED BY <1>1, <1>3, <1>6, <2>1, <2>2
<1>9. act' = NoAct
  BY <1>1 DEF EndTurn
<1> QED BY <1>1, <1>2, <1>5, <1>7, <1>8, <1>9 DEF CourseInv

LEMMA CourseInvStep ==
  ASSUME Sound, PlansInv, CourseInv, [Next]_vars
  PROVE  CourseInv'
PROOF
<1>1. ASSUME Abandon PROVE CourseInv'
  <2>1. act' = NoAct /\ UNCHANGED <<profile, tick, world, rows, closed, toggles>>
    BY <1>1 DEF Abandon, EndTurn, stored
  <2>2. Pending' = Pending
    BY <2>1 DEF Pending, StepsWith
  <2> QED BY <2>1, <2>2 DEF CourseInv
<1>2. ASSUME UNCHANGED <<profile, stored, running>>, UNCHANGED <<closed, toggles>> \/ toggles' # 0
      PROVE  CourseInv'
  <2>1. UNCHANGED <<profile, tick, world, rows, act, work, queue, later, done>>
    BY <1>2 DEF stored, running
  <2>2. UNCHANGED <<Pending, Todo, TakenSteps>>
    BY <2>1 DEF Pending, StepsWith, Todo, TakenSteps
  <2> QED BY <1>2, <2>1, <2>2 DEF CourseInv
<1>3. ASSUME NEW p \in Places, Toggle(p)
      PROVE  UNCHANGED <<profile, stored, running>> /\ toggles' # 0
  <2>1. toggles \in Nat /\ toggles' = toggles + 1
    BY <1>3 DEF Toggle, Sound, TypeOK
  <2> QED BY <1>3, <2>1 DEF Toggle
<1>4. ASSUME UNCHANGED vars PROVE UNCHANGED <<profile, stored, running, closed, toggles>>
  BY <1>4 DEF vars
<1> QED BY <1>1, <1>2, <1>3, <1>4, CourseBegin, CourseRun, CourseCommit DEF Next

LEMMA AlwaysCourse == Spec => [](Sound /\ CourseInv)
PROOF
<1>1. Init => CourseInv
  BY CourseInit
<1>2. Sound /\ PlansInv /\ CourseInv /\ [Next]_vars => CourseInv'
  BY CourseInvStep
<1> QED BY <1>1, <1>2, AlwaysPlans, PTL DEF Spec

\* Wherever the turns of the players cut it, and however often a turn is abandoned and played
\* again, the trial keeps its timetable: the token is taken at 5, used at 6, the bell rings at 7,
\* and, while administration leaves the routes open, the NPCs arrive at 5 and at 9.
THEOREM TrialKeepsTime == Spec => []TrialTimetable
PROOF
<1>1. ASSUME Sound, CourseInv PROVE TrialTimetable
  <2> SUFFICES ASSUME profile = "trial" PROVE TrialTimetable
    BY DEF TrialTimetable
  <2>1. /\ Course(world, Pending)
        /\ \A s \in TrialSteps : s \in Pending \/ s.tick <= tick
        /\ \A x \in Walks : world.at[x.actor] = x.to => x.until <= tick
        /\ toggles = 0 => Walked(world, Pending)
    BY <1>1 DEF CourseInv
  <2>2. tick \in Nat /\ \A s \in Pending : tick < s.tick
    BY <1>1 DEF Sound, TypeOK, AgendaInv, RowsInv
  <2>3. /\ \A x \in Walks : Walking(world, Pending, x)
        /\ Unbroken(Pending) /\ Tokens(world, Pending) /\ Marked(world, Pending)
    BY <2>1 DEF Course
  <2>4. /\ TakeA \in Pending <=> tick < 5
        /\ TakeB \in Pending <=> tick < 5
        /\ UseB \in Pending <=> tick < 6
        /\ RingBell \in Pending <=> tick < 7
    BY <2>1, <2>2, TrialCases, StepParts
  <2>5. world.owner = IF tick < 5 THEN "trial_peak"
                      ELSE IF world.at["npc_a"] = "trial_peak" THEN "npc_a" ELSE "npc_b"
    BY <2>3, <2>4 DEF Tokens
  <2>6. Bell \in world.fired <=> tick >= 7
    BY <2>2, <2>3, <2>4 DEF Marked
  <2>7. Used("npc_b") \in world.fired <=> world.owner = "npc_b" /\ tick >= 6
    BY <2>2, <2>3, <2>4 DEF Marked
  <2>8. ASSUME toggles = 0, NEW x \in Walks
        PROVE  world.at[x.actor] = IF tick < x.until THEN x.from ELSE x.to
    <3>1. /\ x \in Pending \/ ArrivalOf(x) \in Pending \/ world.at[x.actor] = x.to
          /\ Walking(world, Pending, x)
      BY <2>1, <2>3, <2>8 DEF Walked
    <3>2. x.until \in Nat /\ x.tick < x.until /\ x.tick \in Nat /\ ArrivalOf(x).tick = x.until
      BY StepParts DEF Walks
    <3>3. CASE tick < x.until
      BY <2>1, <2>2, <3>1, <3>2, <3>3 DEF Walking
    <3>4. CASE ~(tick < x.until)
      BY <2>2, <3>1, <3>2, <3>4
    <3> QED BY <3>3, <3>4
  <2>9. toggles = 0 => /\ world.at["npc_a"] = IF tick < 5 THEN "plaza" ELSE "trial_peak"
                       /\ world.at["npc_b"] = IF tick < 9 THEN "trial_peak" ELSE "plaza"
    <3>1. StartA \in Walks /\ StartB \in Walks
      BY DEF Walks
    <3> QED BY <2>8, <3>1, StepParts
  <2> QED BY <2>5, <2>6, <2>7, <2>9 DEF TrialTimetable
<1> QED BY <1>1, AlwaysCourse, PTL
=============================================================================
