--------------------------- MODULE TurnClaimProofs ---------------------------
(***************************************************************************)
(* Theorems about TurnClaim, for any number of workers, keys, inputs, turns *)
(* and generations and any lease length.                                    *)
(***************************************************************************)
EXTENDS TurnClaim, WellFoundedInduction, TLAPS

-----------------------------------------------------------------------------
(* Operators.                                                               *)

\* The order of the natural numbers as a relation, and that it is well-founded.
LessThan == {p \in Nat \X Nat : p[1] < p[2]}

LEMMA LessThanWellFounded == IsWellFoundedOn(LessThan, Nat)
PROOF BY NatLessThanWellFounded DEF OpToRel, LessThan

\* A non-empty set of numbers with an upper bound has a largest one, and Max
\* finds it.
LEMMA MaxBounded ==
  ASSUME NEW S \in SUBSET Nat, S # {}, NEW N \in Nat, \A s \in S : s <= N
  PROVE  Max(S) \in S /\ \A s \in S : s <= Max(S)
PROOF
<1> DEFINE T == {n \in Nat : \A s \in S : s <= n}
<1>1. PICK m \in T : \A n \in T : <<n, m>> \notin LessThan
  <2>1. T \subseteq Nat /\ T # {}
    OBVIOUS
  <2> QED BY <2>1, LessThanWellFounded, WFMin
<1>2. ASSUME NEW n \in T PROVE m <= n
  <2>1. m \in Nat /\ n \in Nat
    OBVIOUS
  <2>2. <<n, m>> \notin LessThan
    BY <1>1
  <2>3. n < m => <<n, m>> \in LessThan
    BY <2>1 DEF LessThan
  <2> QED BY <2>1, <2>2, <2>3
<1>3. m \in S
  <2>1. SUFFICES ASSUME m \notin S PROVE FALSE
    OBVIOUS
  <2>2. PICK s \in S : TRUE
    OBVIOUS
  <2>3. \A t \in S : t < m
    BY <2>1
  <2>4. m - 1 \in T
    BY <2>2, <2>3
  <2> QED BY <2>4, <1>2
<1>4. \A s \in S : s <= m
  BY DEF T
<1>5. Max(S) \in S /\ \A y \in S : Max(S) >= y
  BY <1>3, <1>4 DEF Max
<1> QED BY <1>5

\* The next turn number is a positive number above every played turn.
LEMMA NextTurnAbove ==
  ASSUME TypeOK
  PROVE  NextTurn \in Nat \ {0} /\ \A n \in DOMAIN events : n < NextTurn
PROOF
<1>1. MaxTurns \in Nat
  BY ClaimConstants
<1>2. /\ {0} \cup DOMAIN events \in SUBSET Nat
      /\ {0} \cup DOMAIN events # {}
      /\ \A s \in {0} \cup DOMAIN events : s <= MaxTurns
  BY <1>1 DEF TypeOK, Turns
<1>3. /\ Max({0} \cup DOMAIN events) \in {0} \cup DOMAIN events
      /\ \A s \in {0} \cup DOMAIN events : s <= Max({0} \cup DOMAIN events)
  BY <1>1, <1>2, MaxBounded
<1> QED BY <1>2, <1>3 DEF NextTurn

\* What the row of its own key may tell a request.
LEMMA SameKeyVerdicts ==
  ASSUME TypeOK, NEW r \in DOMAIN rows, NEW i \in Inputs
  PROVE  /\ SameKeyVerdict(r, i) \in {"fingerprint_conflict", "resume", "legacy_inconsistent",
                                      "legacy_claim", "open"}
         /\ SameKeyVerdict(r, i) = "open" => rows[r].input = i
PROOF
<1>1. Null # i
  BY ClaimConstants
<1>2. CASE rows[r].input # Null /\ rows[r].input # i
  BY <1>2 DEF SameKeyVerdict
<1>3. CASE rows[r].input = Null
  BY <1>1, <1>3 DEF SameKeyVerdict, Adjudicate
<1>4. CASE rows[r].input = i
  BY <1>1, <1>4 DEF SameKeyVerdict, Adjudicate
<1> QED BY <1>2, <1>3, <1>4

\* Only a request whose key no row decides against goes on to the rows of the
\* session; the row of its key then carries its input.
LEMMA OpenVerdict ==
  ASSUME TypeOK, NEW k \in Keys, NEW i \in Inputs,
         Verdict(k, i) \in {"insert", "retry", "takeover"}
  PROVE  /\ Verdict(k, i) = SessionVerdict(k, i)
         /\ \A r \in SameKey(k) : rows[r].input = i
PROOF
<1> DEFINE own == {SameKeyVerdict(r, i) : r \in SameKey(k)}
<1>1. \A r \in SameKey(k) : r \in DOMAIN rows
  BY DEF SameKey
<1>2. own \subseteq {"fingerprint_conflict", "resume", "legacy_inconsistent",
                     "legacy_claim", "open"}
  BY <1>1, SameKeyVerdicts
<1>3. ~Superseded(k)
  BY DEF Verdict
<1>4. own \subseteq {"open"}
  <2>1. SUFFICES ASSUME ~(own \subseteq {"open"}) PROVE FALSE
    OBVIOUS
  <2>2. Verdict(k, i) = CHOOSE v \in own : TRUE
    BY <1>3, <2>1 DEF Verdict
  <2>3. Verdict(k, i) \in own
    BY <2>1, <2>2
  <2> QED BY <1>2, <2>3
<1>5. Verdict(k, i) = SessionVerdict(k, i)
  BY <1>3, <1>4 DEF Verdict
<1>6. ASSUME NEW r \in SameKey(k) PROVE rows[r].input = i
  <2>1. SameKeyVerdict(r, i) = "open"
    BY <1>4
  <2> QED BY <2>1, <1>1, SameKeyVerdicts
<1> QED BY <1>5, <1>6

-----------------------------------------------------------------------------
(* TypeOK is inductive.                                                     *)

\* The steps that several actions share keep their variables typed.
LEMMA GrantType ==
  ASSUME TypeOK, NEW w \in Workers, NEW r \in Turns, NEW row \in RowType,
         row.input \in Inputs, Grant(w, r, row)
  PROVE  TypeOK'
PROOF
<1>1. rows' = Put(rows, r, row)
  BY DEF Grant
<1>2. DOMAIN rows' \subseteq Turns /\ \A n \in DOMAIN rows' : rows'[n] \in RowType
  BY <1>1 DEF Put, TypeOK
<1>3. pc' \in [Workers -> Stages]
  BY DEF Grant, TypeOK, Stages
<1>4. [NoJob EXCEPT !.token = [row |-> r, gen |-> row.gen, key |-> row.key,
                               input |-> row.input, turn |-> row.turn]] \in JobType
  BY DEF RowType, JobType, NoJob, Tokens, Outcomes
<1>5. job' \in [Workers -> JobType]
  BY <1>4 DEF Grant, TypeOK
<1>6. answer' \in [Workers -> AnswerType]
  BY DEF Grant, TypeOK, NoAnswer, AnswerType
<1> QED BY <1>2, <1>3, <1>5, <1>6 DEF Grant, TypeOK

\* An answer built from typed parts is typed.
LEMMA ReplyType ==
  ASSUME TypeOK, NEW w \in Workers, NEW kind \in Verdicts \cup Outcomes,
         NEW k \in Keys \cup {Null}, NEW i \in Inputs \cup {Null}, NEW t \in Nat,
         Reply(w, kind, k, i, t)
  PROVE  answer' \in [Workers -> AnswerType]
PROOF BY DEF Reply, TypeOK, AnswerType

\* Stopping a heartbeat keeps it typed.
LEMMA StoppedType ==
  ASSUME NEW b \in BeatType
  PROVE  Stopped(b) \in BeatType
PROOF BY DEF Stopped, BeatType

\* The exception path moves a worker to failing and stops its heartbeat.
LEMMA GiveUpType ==
  ASSUME TypeOK, NEW w \in Workers, NEW outcome \in Outcomes, GiveUp(w, outcome)
  PROVE  /\ pc' \in [Workers -> Stages]
         /\ job' \in [Workers -> JobType]
         /\ beat' \in [Workers -> BeatType]
PROOF
<1>1. pc' \in [Workers -> Stages]
  BY DEF GiveUp, Goto, TypeOK, Stages
<1>2. job' \in [Workers -> JobType]
  BY DEF GiveUp, TypeOK, JobType
<1>3. beat' \in [Workers -> BeatType]
  BY StoppedType DEF GiveUp, TypeOK
<1> QED BY <1>1, <1>2, <1>3

\* A request that returns leaves a fresh job and a typed answer.
LEMMA FinishType ==
  ASSUME TypeOK, NEW w \in Workers, NEW kind \in Outcomes, NEW t \in Nat,
         Finish(w, kind, t)
  PROVE  /\ pc' \in [Workers -> Stages]
         /\ job' \in [Workers -> JobType]
         /\ beat' \in [Workers -> BeatType]
         /\ spent' \subseteq Workers
         /\ answer' \in [Workers -> AnswerType]
PROOF
<1>1. pc' \in [Workers -> Stages]
  BY DEF Finish, Goto, TypeOK, Stages
<1>2. NoJob \in JobType /\ NoBeat \in BeatType
  BY ClaimConstants DEF NoJob, JobType, Outcomes, NoBeat, BeatType
<1>3. job' \in [Workers -> JobType]
  BY <1>2 DEF Finish, TypeOK
<1>4. \A b \in BeatType : [b EXCEPT !.stop = TRUE] \in BeatType
  BY DEF BeatType
<1>5. beat' \in [Workers -> BeatType]
  BY <1>2, <1>4 DEF Finish, TypeOK
<1>6. spent' \subseteq Workers
  BY DEF Finish, TypeOK
<1>7. job[w].token.key \in Keys \cup {Null} /\ job[w].token.input \in Inputs \cup {Null}
  BY DEF TypeOK, JobType, Tokens, NoToken
<1>8. answer' \in [Workers -> AnswerType]
  BY <1>7, ReplyType DEF Finish
<1> QED BY <1>1, <1>3, <1>5, <1>6, <1>8

\* The final transaction writes a typed row and a typed event.
LEMMA DurableType ==
  ASSUME TypeOK, NEW x \in txn, Durable(x)
  PROVE  /\ DOMAIN rows' \subseteq Turns /\ \A r \in DOMAIN rows' : rows'[r] \in RowType
         /\ DOMAIN events' \subseteq Turns /\ \A n \in DOMAIN events' : events'[n] \in EventType
         /\ world' \in Nat /\ lock' \in LockType /\ txn' \in SUBSET TxnType
         /\ UNCHANGED residue
PROOF
<1>1. x \in TxnType
  BY DEF TypeOK
<1>2. DOMAIN rows' \subseteq Turns /\ \A r \in DOMAIN rows' : rows'[r] \in RowType
  BY <1>1 DEF Durable, TypeOK, RowType
<1>3. [key |-> x.token.key, input |-> x.token.input, gen |-> x.token.gen,
       reads |-> x.reads, base |-> world, shown |-> "template"] \in EventType
  BY <1>1 DEF TxnType, Tokens, EventType, TypeOK
<1>4. DOMAIN events' \subseteq Turns /\ \A n \in DOMAIN events' : events'[n] \in EventType
  BY <1>1, <1>3 DEF Durable, Put, TypeOK, TxnType, Tokens
<1>5. world' \in Nat /\ lock' \in LockType /\ txn' \in SUBSET TxnType
  BY DEF Durable, TypeOK, LockFree, LockType
<1> QED BY <1>2, <1>4, <1>5 DEF Durable

\* An empty and a migrated session are typed.
LEMMA TypeInit == Init => TypeOK
PROOF
<1> SUFFICES ASSUME Init PROVE TypeOK
  OBVIOUS
<1>1. /\ Lease \in Nat \ {0} /\ MaxFailures \in Nat /\ MaxTurns \in Nat \ {0}
      /\ 1 \in Turns
  BY ClaimConstants DEF Turns
<1>2. \A k \in Keys : LegacyRow(k) \in RowType /\ LegacyEvent(k) \in EventType
  BY <1>1 DEF LegacyRow, LegacyEvent, RowType, EventType
<1>3. DOMAIN rows \subseteq Turns /\ \A r \in DOMAIN rows : rows[r] \in RowType
  BY <1>1, <1>2 DEF Init, Put
<1>4. DOMAIN events \subseteq Turns /\ \A n \in DOMAIN events : events[n] \in EventType
  BY <1>1, <1>2 DEF Init, Put
<1>5. residue \subseteq Turns /\ world \in Nat /\ lock \in LockType /\ txn \in SUBSET TxnType
  BY <1>1 DEF Init, LockFree, LockType
<1>6. pc \in [Workers -> Stages] /\ spent \subseteq Workers
  BY DEF Init, Stages
<1>7. job \in [Workers -> JobType]
  BY DEF Init, NoJob, JobType, Outcomes
<1>8. beat \in [Workers -> BeatType]
  BY <1>1 DEF Init, NoBeat, BeatType
<1>9. answer \in [Workers -> AnswerType]
  BY DEF Init, NoAnswer, AnswerType
<1> QED BY <1>3, <1>4, <1>5, <1>6, <1>7, <1>8, <1>9 DEF TypeOK

\* create_or_resume_claim keeps the types, whichever verdict it comes to.
LEMMA TypeClaim ==
  ASSUME TypeOK, NEW w \in Workers, Claim(w)
  PROVE  TypeOK'
PROOF
<1>0. PICK k \in Keys, i \in Inputs :
        \/ ClaimLockBusy(w, k, i) \/ ClaimRefused(w, k, i) \/ ClaimResumed(w, k, i)
        \/ ClaimInserted(w, k, i) \/ ClaimRetried(w, k, i) \/ ClaimTakenOver(w, k, i)
  BY DEF Claim
<1>a. Lease \in Nat \ {0}
  BY ClaimConstants
<1>b. NextTurn \in Nat \ {0} /\ (NextTurn <= MaxTurns => NextTurn \in Turns)
  BY NextTurnAbove, ClaimConstants DEF Turns
<1>c. \A r \in DOMAIN rows : r \in Turns /\ rows[r] \in RowType
  BY DEF TypeOK
<1>1. CASE ClaimLockBusy(w, k, i)
  <2>1. answer' \in [Workers -> AnswerType]
    BY <1>1, ReplyType DEF ClaimLockBusy, Verdicts
  <2> QED BY <1>1, <2>1 DEF ClaimLockBusy, TypeOK, database
<1>2. CASE ClaimRefused(w, k, i)
  <2>1. answer' \in [Workers -> AnswerType]
    BY <1>2, ReplyType DEF ClaimRefused
  <2>2. \A row \in RowType : [row EXCEPT !.status = "expired"] \in RowType
    BY DEF RowType
  <2>3. DOMAIN rows' \subseteq Turns /\ \A r \in DOMAIN rows' : rows'[r] \in RowType
    BY <1>2, <1>c, <2>2 DEF ClaimRefused
  <2> QED BY <1>2, <2>1, <2>3 DEF ClaimRefused, TypeOK
<1>3. CASE ClaimResumed(w, k, i)
  <2>1. PICK r \in ResumeRows(k) :
          Reply(w, IF rows[r].turn \in DOMAIN events THEN "turn" ELSE "recovery_incomplete",
                k, i, rows[r].turn)
    BY <1>3 DEF ClaimResumed
  <2>2. r \in DOMAIN rows
    BY DEF ResumeRows, SameKey, AtTurn, Lapsed
  <2>3. rows[r].turn \in Nat
    BY <2>2, <1>c DEF RowType, Turns
  <2>4. CASE rows[r].turn \in DOMAIN events
    BY <1>3, <2>1, <2>3, <2>4, ReplyType DEF ClaimResumed, TypeOK, database, Outcomes
  <2>5. CASE rows[r].turn \notin DOMAIN events
    BY <1>3, <2>1, <2>3, <2>5, ReplyType DEF ClaimResumed, TypeOK, database, Verdicts
  <2> QED BY <2>4, <2>5
<1>4. CASE ClaimInserted(w, k, i)
  <2> DEFINE row == [key |-> k, input |-> i, turn |-> NextTurn, gen |-> 1,
                     status |-> "pending", lease |-> Lease, hist |-> {}]
  <2>1. Grant(w, NextTurn, row)
    BY <1>4 DEF ClaimInserted
  <2>2. NextTurn \in Turns
    BY <1>b, <2>1 DEF Grant
  <2>3. row \in RowType /\ row.input \in Inputs
    BY <1>a, <2>2 DEF RowType
  <2> QED BY <2>1, <2>2, <2>3, GrantType
<1>5. CASE ClaimRetried(w, k, i)
  <2>1. PICK r \in SameKey(k) :
          Grant(w, r, [rows[r] EXCEPT !.status = "pending", !.lease = Lease,
                                      !.gen = NextGen(r)])
    BY <1>5 DEF ClaimRetried
  <2> DEFINE row == [rows[r] EXCEPT !.status = "pending", !.lease = Lease, !.gen = NextGen(r)]
  <2>2. r \in DOMAIN rows
    BY DEF SameKey
  <2>3. rows[r].input = i
    BY <1>5, OpenVerdict DEF ClaimRetried
  <2>4. NextGen(r) \in Nat /\ rows[r] \in RowType
    BY <1>c, <2>2 DEF RowType, NextGen
  <2>5. row \in RowType
    <3>1. \A q \in RowType : [q EXCEPT !.status = "pending"] \in RowType
      BY DEF RowType
    <3>2. \A q \in RowType : [q EXCEPT !.lease = Lease] \in RowType
      BY <1>a DEF RowType
    <3>3. \A q \in RowType, g \in Nat : [q EXCEPT !.gen = g] \in RowType
      BY DEF RowType
    <3>4. row = [[[rows[r] EXCEPT !.status = "pending"] EXCEPT !.lease = Lease]
                  EXCEPT !.gen = NextGen(r)]
      OBVIOUS
    <3> HIDE DEF row
    <3> QED BY <2>4, <3>1, <3>2, <3>3, <3>4
  <2>6. row.input \in Inputs
    BY <2>3, <2>4 DEF RowType
  <2> HIDE DEF row
  <2> QED BY <2>1, <2>2, <2>5, <2>6, <1>c, GrantType DEF row
<1>6. CASE ClaimTakenOver(w, k, i)
  <2> DEFINE row(r) == [key |-> k, input |-> i, turn |-> NextTurn, gen |-> NextGen(r),
                        status |-> "pending", lease |-> Lease,
                        hist |-> rows[r].hist \cup {rows[r].key}]
  <2>1. PICK r \in IF Lapsed # {} THEN Lapsed ELSE AtTurn(NextTurn) : Grant(w, r, row(r))
    BY <1>6 DEF ClaimTakenOver
  <2>2. r \in DOMAIN rows
    BY DEF Lapsed, AtTurn
  <2>3. NextTurn \in Turns
    BY <1>b, <2>1 DEF Grant
  <2>4. row(r) \in RowType /\ row(r).input \in Inputs
    BY <1>a, <1>c, <2>2, <2>3 DEF RowType, NextGen
  <2> HIDE DEF row
  <2> QED BY <2>1, <2>2, <2>4, <1>c, GrantType
<1> QED BY <1>0, <1>1, <1>2, <1>3, <1>4, <1>5, <1>6

\* Every step of execute_turn_service after the claim keeps the types.
LEMMA TypeTurn ==
  ASSUME TypeOK, NEW w \in Workers, Turn(w)
  PROVE  TypeOK'
PROOF
<1>1. CASE Begin(w)
  <2>1. \A started \in BOOLEAN :
          [NoBeat EXCEPT !.state = IF started THEN "waiting" ELSE "off",
                         !.lost = ~started] \in BeatType
    <3>1. NoBeat \in BeatType
      BY ClaimConstants DEF NoBeat, BeatType
    <3>2. \A b \in BeatType, state \in {"waiting", "off"}, lost \in BOOLEAN :
            [b EXCEPT !.state = state, !.lost = lost] \in BeatType
      BY DEF BeatType
    <3> QED BY <3>1, <3>2
  <2>2. beat' \in [Workers -> BeatType]
    BY <1>1, <2>1 DEF Begin, TypeOK
  <2>3. job' \in [Workers -> JobType]
    BY <1>1 DEF Begin, TypeOK, JobType
  <2>4. pc' \in [Workers -> Stages]
    BY <1>1 DEF Begin, Goto, TypeOK, Stages
  <2> QED BY <1>1, <2>2, <2>3, <2>4 DEF Begin, TypeOK, database
<1>2. CASE Reconstruct(w)
  <2>1. CASE GiveUp(w, "turn") \/ GiveUp(w, "turn_in_progress")
    BY <1>2, <2>1, GiveUpType DEF Reconstruct, TypeOK, database, Outcomes
  <2>2. CASE /\ Goto(w, "stages")
             /\ job' = [job EXCEPT ![w].reads = @ \cup {world}]
             /\ UNCHANGED beat
    <3>1. job' \in [Workers -> JobType]
      BY <2>2 DEF TypeOK, JobType
    <3>2. pc' \in [Workers -> Stages]
      BY <2>2 DEF Goto, TypeOK, Stages
    <3> QED BY <1>2, <2>2, <3>1, <3>2 DEF Reconstruct, TypeOK, database
  <2> QED BY <1>2, <2>1, <2>2 DEF Reconstruct
<1>3. CASE RunStages(w)
  <2>1. job' \in [Workers -> JobType]
    <3>1. \A q \in JobType, plan \in {"action", "clarify"} :
            [q EXCEPT !.reads = q.reads \cup {world}, !.plan = plan] \in JobType
      BY DEF JobType, TypeOK
    <3>2. PICK plan \in {"action", "clarify"} :
            job' = [job EXCEPT ![w] = [job[w] EXCEPT !.reads = job[w].reads \cup {world},
                                                     !.plan = plan]]
      BY <1>3 DEF RunStages
    <3>3. job[w] \in JobType
      BY DEF TypeOK
    <3>4. [job[w] EXCEPT !.reads = job[w].reads \cup {world}, !.plan = plan] \in JobType
      BY <3>1, <3>3
    <3> QED BY <3>2, <3>4 DEF TypeOK
  <2>2. pc' \in [Workers -> Stages]
    BY <1>3 DEF RunStages, Goto, TypeOK, Stages
  <2> QED BY <1>3, <2>1, <2>2 DEF RunStages, TypeOK, database
<1>4. CASE Quiesce(w)
  <2>1. CASE GiveUp(w, "claim_lost") \/ GiveUp(w, "budget_exceeded")
    BY <1>4, <2>1, GiveUpType DEF Quiesce, TypeOK, database, Outcomes
  <2>2. CASE /\ Goto(w, "lockwait")
             /\ beat' = [beat EXCEPT ![w] = Stopped(@)]
             /\ UNCHANGED job
    <3>1. beat' \in [Workers -> BeatType]
      BY <2>2, StoppedType DEF TypeOK
    <3>2. pc' \in [Workers -> Stages]
      BY <2>2 DEF Goto, TypeOK, Stages
    <3> QED BY <1>4, <2>2, <3>1, <3>2 DEF Quiesce, TypeOK, database
  <2> QED BY <1>4, <2>1, <2>2 DEF Quiesce
<1>5. CASE AcquireLock(w)
  <2>1. CASE GiveUp(w, "state_conflict") /\ UNCHANGED lock
    BY <1>5, <2>1, GiveUpType DEF AcquireLock, TypeOK, Outcomes
  <2>2. CASE Goto(w, "writing") /\ lock' = TurnLock(w) /\ UNCHANGED <<job, beat>>
    <3>1. pc' \in [Workers -> Stages] /\ lock' \in LockType
      BY <2>2 DEF Goto, TypeOK, Stages, TurnLock, LockType
    <3> QED BY <1>5, <2>2, <3>1 DEF AcquireLock, TypeOK
  <2> QED BY <1>5, <2>1, <2>2 DEF AcquireLock
<1>6. CASE WriteAndSwap(w)
  <2>1. LockFree \in LockType
    BY DEF LockFree, LockType
  <2>2. CASE \E outcome \in {"failed", "budget_exceeded", "claim_lost"} :
               GiveUp(w, outcome) /\ lock' = LockFree /\ UNCHANGED txn
    BY <1>6, <2>1, <2>2, GiveUpType DEF WriteAndSwap, TypeOK, Outcomes
  <2>3. CASE /\ CanSwap(job[w].token)
             /\ Goto(w, "commit")
             /\ txn' = {[token |-> job[w].token, reads |-> job[w].reads,
                         plan |-> job[w].plan]}
             /\ UNCHANGED <<lock, job, beat>>
    <3>1. job[w] \in JobType
      BY DEF TypeOK
    <3>2. job[w].token \in Tokens
      <4>1. job[w].token.row # 0
        BY <2>3 DEF CanSwap, Owned, TypeOK, Turns
      <4> QED BY <3>1, <4>1 DEF JobType, NoToken
    <3>3. txn' \in SUBSET TxnType
      BY <2>3, <3>1, <3>2 DEF JobType, TxnType
    <3>4. pc' \in [Workers -> Stages]
      BY <2>3 DEF Goto, TypeOK, Stages
    <3> QED BY <1>6, <2>3, <3>3, <3>4 DEF WriteAndSwap, TypeOK
  <2> QED BY <1>6, <2>2, <2>3 DEF WriteAndSwap
<1>7. CASE CommitAcknowledged(w)
  <2>1. pc' \in [Workers -> Stages]
    BY <1>7 DEF CommitAcknowledged, Goto, TypeOK, Stages
  <2> QED BY <1>7, <2>1, DurableType DEF CommitAcknowledged, TypeOK
<1>8. CASE CommitRaised(w)
  <2>1. pc' \in [Workers -> Stages]
    BY <1>8 DEF CommitRaised, Goto, TypeOK, Stages
  <2> QED BY <1>8, <2>1 DEF CommitRaised, TypeOK, database
<1>9. CASE ConfirmReceipt(w)
  <2>1. job[w].token.turn \in Nat
    BY DEF TypeOK, JobType, Tokens, NoToken, Turns
  <2>2. CASE Finish(w, "turn", job[w].token.turn)
    BY <1>9, <2>1, <2>2, FinishType DEF ConfirmReceipt, TypeOK, database, Outcomes
  <2>3. CASE GiveUp(w, "failed") /\ UNCHANGED <<spent, answer>>
    BY <1>9, <2>3, GiveUpType DEF ConfirmReceipt, TypeOK, database, Outcomes
  <2> QED BY <1>9, <2>2, <2>3 DEF ConfirmReceipt
<1>10. CASE Narrate(w)
  <2>1. job[w].token.turn \in Nat
    BY DEF TypeOK, JobType, Tokens, NoToken, Turns
  <2>2. DOMAIN events' = DOMAIN events /\ \A n \in DOMAIN events' : events'[n] \in EventType
    BY <1>10 DEF Narrate, TypeOK, EventType
  <2>3. Finish(w, "turn", job[w].token.turn)
    BY <1>10 DEF Narrate
  <2> QED BY <1>10, <2>1, <2>2, <2>3, FinishType DEF Narrate, TypeOK, Outcomes
<1>11. CASE NarrateRaised(w)
  <2>1. pc' \in [Workers -> Stages]
    BY <1>11 DEF NarrateRaised, Goto, TypeOK, Stages
  <2> QED BY <1>11, <2>1 DEF NarrateRaised, TypeOK, database
<1>12. CASE Raise(w)
  <2>1. lock' \in LockType
    BY <1>12 DEF Raise, LockFree, LockType, TypeOK
  <2> QED BY <1>12, <2>1, GiveUpType DEF Raise, TypeOK, Outcomes
<1>13. CASE Abort(w)
  <2> DEFINE own == {n \in DOMAIN events : events[n].key = job[w].token.key}
  <2>1. Max({0} \cup own) \in Nat
    <3>1. MaxTurns \in Nat
      BY ClaimConstants
    <3>2. /\ {0} \cup own \in SUBSET Nat /\ {0} \cup own # {}
          /\ \A s \in {0} \cup own : s <= MaxTurns
      BY <3>1 DEF TypeOK, Turns
    <3> HIDE DEF own
    <3> QED BY <3>1, <3>2, MaxBounded
  <2>2. job[w].outcome \in Outcomes
    BY DEF TypeOK, JobType
  <2>3. Finish(w, job[w].outcome, IF job[w].outcome = "turn" THEN Max({0} \cup own) ELSE 0)
    BY <1>13 DEF Abort
  <2>4. DOMAIN rows' \subseteq Turns /\ \A r \in DOMAIN rows' : rows'[r] \in RowType
    BY <1>13, ClaimConstants DEF Abort, TypeOK, RowType
  <2> HIDE DEF own
  <2> QED BY <1>13, <2>1, <2>2, <2>3, <2>4, FinishType DEF Abort, TypeOK
<1> QED BY <1>1, <1>2, <1>3, <1>4, <1>5, <1>6, <1>7, <1>8, <1>9, <1>10, <1>11, <1>12, <1>13 DEF Turn

\* Every step of the heartbeat thread keeps the types.
LEMMA TypeBeat ==
  ASSUME TypeOK, NEW w \in Workers, Beat(w)
  PROVE  TypeOK'
PROOF
<1>a. MaxFailures \in Nat /\ MaxTurns \in Nat /\ Lease \in Nat
  BY ClaimConstants
<1>b. LockFree \in LockType /\ BeatLock(w) \in LockType
  BY DEF LockFree, BeatLock, LockType
<1>c. beat[w] \in BeatType
  BY DEF TypeOK
<1>d. \A b \in BeatType, failed \in BOOLEAN : AfterRenewal(b, failed) \in BeatType
  <2> SUFFICES ASSUME NEW b \in BeatType, NEW failed \in BOOLEAN
               PROVE  AfterRenewal(b, failed) \in BeatType
    OBVIOUS
  <2> DEFINE fails == IF failed THEN b.fails + 1 ELSE 0
             lost == b.lost \/ fails > MaxFailures
  <2>1. NoBeat \in BeatType
    BY <1>a DEF NoBeat, BeatType
  <2>2. (IF lost THEN 0 ELSE fails) \in 0..MaxFailures /\ lost \in BOOLEAN
    BY <1>a DEF BeatType
  <2>3. \A q \in BeatType, st \in {"off", "waiting"} : [q EXCEPT !.state = st] \in BeatType
    BY DEF BeatType
  <2>4. \A q \in BeatType, l \in BOOLEAN : [q EXCEPT !.lost = l] \in BeatType
    BY DEF BeatType
  <2>5. \A q \in BeatType, f \in 0..MaxFailures : [q EXCEPT !.fails = f] \in BeatType
    BY DEF BeatType
  <2>6. \A q \in BeatType : [q EXCEPT !.row = 0] \in BeatType /\ [q EXCEPT !.left = 0] \in BeatType
    BY <1>a DEF BeatType
  <2>7. AfterRenewal(b, failed) =
          IF b.stop THEN NoBeat
          ELSE [[[[[b EXCEPT !.state = IF lost THEN "off" ELSE "waiting"] EXCEPT !.lost = lost]
                  EXCEPT !.fails = IF lost THEN 0 ELSE fails] EXCEPT !.row = 0] EXCEPT !.left = 0]
    BY DEF AfterRenewal
  <2> HIDE DEF fails, lost
  <2>8. (IF lost THEN "off" ELSE "waiting") \in {"off", "waiting"}
    OBVIOUS
  <2> QED BY <2>1, <2>2, <2>3, <2>4, <2>5, <2>6, <2>7, <2>8
<1>1. CASE BeatRenew(w)
  <2>1. job[w].token.row \in 0..MaxTurns
    BY <1>a DEF TypeOK, JobType, Tokens, NoToken, Turns
  <2>2. [beat[w] EXCEPT !.state = "renewing", !.row = job[w].token.row, !.left = Lease]
          \in BeatType
    <3>1. \A q \in BeatType : [q EXCEPT !.state = "renewing"] \in BeatType
      BY DEF BeatType
    <3>2. \A q \in BeatType, n \in 0..MaxTurns : [q EXCEPT !.row = n] \in BeatType
      BY DEF BeatType
    <3>3. \A q \in BeatType : [q EXCEPT !.left = Lease] \in BeatType
      BY <1>a DEF BeatType
    <3>4. [beat[w] EXCEPT !.state = "renewing", !.row = job[w].token.row, !.left = Lease] =
            [[[beat[w] EXCEPT !.state = "renewing"] EXCEPT !.row = job[w].token.row]
             EXCEPT !.left = Lease]
      OBVIOUS
    <3> QED BY <1>c, <2>1, <3>1, <3>2, <3>3, <3>4
  <2>3. beat' = [beat EXCEPT ![w] = [beat[w] EXCEPT !.state = "renewing",
                                       !.row = job[w].token.row, !.left = Lease]]
    BY <1>1 DEF BeatRenew
  <2>4. beat' \in [Workers -> BeatType]
    BY <2>2, <2>3 DEF TypeOK
  <2> QED BY <1>1, <1>b, <2>4 DEF BeatRenew, TypeOK
<1>2. CASE BeatRejected(w)
  <2>1. beat' \in [Workers -> BeatType]
    BY <1>2, <1>c DEF BeatRejected, TypeOK, BeatType
  <2> QED BY <1>2, <2>1 DEF BeatRejected, TypeOK, database
<1>3. CASE BeatError(w)
  <2>1. beat' \in [Workers -> BeatType]
    BY <1>3, <1>c, <1>d DEF BeatError, TypeOK
  <2> QED BY <1>3, <2>1 DEF BeatError, TypeOK, database
<1>4. CASE BeatCommit(w)
  <2>1. beat' \in [Workers -> BeatType]
    BY <1>4, <1>c, <1>d DEF BeatCommit, TypeOK
  <2>2. beat[w].left \in 0..Lease
    BY <1>c DEF BeatType
  <2>3. DOMAIN rows' \subseteq Turns /\ \A r \in DOMAIN rows' : rows'[r] \in RowType
    BY <1>4, <2>2 DEF BeatCommit, TypeOK, RowType
  <2> QED BY <1>4, <1>b, <2>1, <2>3 DEF BeatCommit, TypeOK
<1>5. CASE BeatCommitFails(w)
  <2>1. beat' \in [Workers -> BeatType]
    BY <1>5, <1>c, <1>d DEF BeatCommitFails, TypeOK
  <2> QED BY <1>5, <1>b, <2>1 DEF BeatCommitFails, TypeOK
<1>6. CASE BeatBudget(w)
  <2>1. beat' \in [Workers -> BeatType]
    BY <1>6, <1>c DEF BeatBudget, TypeOK, BeatType
  <2> QED BY <1>6, <2>1 DEF BeatBudget, TypeOK, database
<1> QED BY <1>1, <1>2, <1>3, <1>4, <1>5, <1>6 DEF Beat

\* A lease that ticks down stays a lease, and NULL stays NULL.
LEMMA DownType ==
  /\ \A n \in 0..Lease : Down(n) \in 0..Lease
  /\ \A n \in (0..Lease) \cup {Null} : Down(n) \in (0..Lease) \cup {Null}
PROOF
<1>1. Lease \in Nat /\ Null \notin Int
  BY ClaimConstants
<1>2. \A n \in 0..Lease : Down(n) \in 0..Lease
  BY <1>1 DEF Down
<1>3. Down(Null) = Null
  BY <1>1 DEF Down
<1> QED BY <1>2, <1>3

\* Every step keeps the types.
LEMMA TypeStep == TypeOK /\ [Next]_vars => TypeOK'
PROOF
<1> SUFFICES ASSUME TypeOK, [Next]_vars PROVE TypeOK'
  OBVIOUS
<1>1. ASSUME NEW w \in Workers, Claim(w) PROVE TypeOK'
  BY <1>1, TypeClaim
<1>2. ASSUME NEW w \in Workers, Turn(w) PROVE TypeOK'
  BY <1>2, TypeTurn
<1>3. ASSUME NEW w \in Workers, Beat(w) PROVE TypeOK'
  BY <1>3, TypeBeat
<1>4. ASSUME NEW w \in Workers, Crash(w) PROVE TypeOK'
  <2>1. NoJob \in JobType /\ NoBeat \in BeatType
    BY ClaimConstants DEF NoJob, JobType, Outcomes, NoBeat, BeatType
  <2>2. pc' \in [Workers -> Stages] /\ lock' \in LockType
    BY <1>4 DEF Crash, Goto, TypeOK, Stages, LockFree, LockType
  <2>3. job' \in [Workers -> JobType] /\ beat' \in [Workers -> BeatType]
    BY <1>4, <2>1 DEF Crash, TypeOK
  <2> QED BY <1>4, <2>2, <2>3 DEF Crash, TypeOK
<1>5. ASSUME NEW w \in Workers, BudgetExpires(w) PROVE TypeOK'
  BY <1>5 DEF BudgetExpires, TypeOK, database
<1>6. CASE ServerDecides
  <2>1. PICK x \in txn : Durable(x) \/ RolledBack
    BY <1>6 DEF ServerDecides
  <2>2. CASE Durable(x)
    BY <1>6, <2>2, DurableType DEF ServerDecides, TypeOK
  <2>3. CASE RolledBack
    BY <1>6, <2>3 DEF ServerDecides, RolledBack, TypeOK, LockFree, LockType
  <2> QED BY <2>1, <2>2, <2>3
<1>7. CASE AbandonLocks
  BY <1>7 DEF AbandonLocks, TypeOK, QuestLock, LockType
<1>8. CASE AbandonEnds
  BY <1>8 DEF AbandonEnds, TypeOK, LockFree, LockType
<1>9. CASE Tick
  <2>1. \A row \in RowType : [row EXCEPT !.lease = Down(@)] \in RowType
    BY DownType DEF RowType
  <2>2. \A b \in BeatType : [b EXCEPT !.left = Down(@)] \in BeatType
    BY DownType DEF BeatType
  <2>3. DOMAIN rows' \subseteq Turns /\ \A r \in DOMAIN rows' : rows'[r] \in RowType
    BY <1>9, <2>1 DEF Tick, TypeOK
  <2>4. beat' \in [Workers -> BeatType]
    BY <1>9, <2>2 DEF Tick, TypeOK
  <2> QED BY <1>9, <2>3, <2>4 DEF Tick, TypeOK
<1>10. CASE UNCHANGED vars
  BY <1>10 DEF vars, TypeOK
<1> QED BY <1>1, <1>2, <1>3, <1>4, <1>5, <1>6, <1>7, <1>8, <1>9, <1>10 DEF Next

\* Every state of every session has the right types, whatever the number of
\* workers, keys, inputs and turns and the length of the lease: leases never go
\* below zero, and the columns of a row never hold another kind of value.
THEOREM TypeCorrect == Spec => []TypeOK
PROOF
<1>1. Init => TypeOK
  BY TypeInit
<1>2. TypeOK /\ [Next]_vars => TypeOK'
  BY TypeStep
<1> QED BY <1>1, <1>2, PTL DEF Spec

-----------------------------------------------------------------------------
(* No turn is committed on a state it did not read.                         *)
(*                                                                          *)
(* NoLostUpdate says what a committed turn read; what makes it true is that *)
(* a turn reads no earlier than its fingerprint, that the fingerprint is    *)
(* compared under the lock, and that nobody changes the world while a turn  *)
(* holds the lock, whether its worker lives or only its transaction does.   *)

\* The lock is where the workers think it is: a worker that writes holds it and
\* no other final transaction is open, a renewal that is open holds it, and an
\* open final transaction keeps it, also after its worker died.
Locking ==
  /\ \A w \in Workers : pc[w] = "writing" => lock = TurnLock(w) /\ txn = {}
  /\ \A w \in Workers : beat[w].state = "renewing" => lock = BeatLock(w)
  /\ txn # {} => lock.by = "turn"

\* What a worker read lies between its fingerprint and now, and is exactly now
\* once it writes.
Reading ==
  /\ \A w \in Workers : pc[w] = "claimed" => job[w].reads = {}
  /\ \A w \in Workers : job[w].fp <= world
  /\ \A w \in Workers : \A v \in job[w].reads : job[w].fp <= v /\ v <= world
  /\ \A w \in Workers : pc[w] = "writing" => world = job[w].fp
  /\ \A x \in txn : x.reads \subseteq {world}

UpdateInv == TypeOK /\ Locking /\ Reading /\ NoLostUpdate

\* The four kinds of lock holders differ.
LEMMA LockNames ==
  /\ \A v, w \in Workers : /\ TurnLock(v) = TurnLock(w) => v = w
                           /\ BeatLock(v) = BeatLock(w) => v = w
                           /\ TurnLock(v) # BeatLock(w)
  /\ \A w \in Workers : /\ TurnLock(w).by = "turn" /\ BeatLock(w).by = "beat"
                        /\ TurnLock(w) # LockFree /\ BeatLock(w) # LockFree
                        /\ TurnLock(w) # QuestLock /\ BeatLock(w) # QuestLock
  /\ LockFree.by = "none" /\ QuestLock.by = "quest" /\ LockFree # QuestLock
PROOF BY DEF TurnLock, BeatLock, LockFree, QuestLock

\* No turn is in progress at first.
LEMMA UpdateInit == Init => UpdateInv
PROOF
<1> SUFFICES ASSUME Init PROVE UpdateInv
  OBVIOUS
<1>1. Locking
  BY DEF Init, Locking, NoBeat
<1>2. Reading
  BY DEF Init, Reading, NoJob
<1>3. NoLostUpdate
  BY DEF Init, NoLostUpdate, Put, LegacyEvent
<1> QED BY <1>1, <1>2, <1>3, TypeInit DEF UpdateInv

\* A worker that gives up or finishes writes no longer and starts no renewal.
LEMMA GiveUpEffect ==
  ASSUME TypeOK, NEW w \in Workers, NEW outcome \in Outcomes, GiveUp(w, outcome)
  PROVE  /\ pc' = [pc EXCEPT ![w] = "failing"]
         /\ \A u \in Workers : beat'[u].state = "renewing" => beat[u].state = "renewing"
         /\ \A u \in Workers : job'[u].reads = job[u].reads /\ job'[u].fp = job[u].fp
PROOF
<1>1. \A u \in Workers : beat'[u].state = "renewing" => beat[u].state = "renewing"
  BY DEF GiveUp, Stopped, TypeOK, BeatType
<1>2. \A u \in Workers : job'[u].reads = job[u].reads /\ job'[u].fp = job[u].fp
  BY DEF GiveUp, TypeOK, JobType
<1> QED BY <1>1, <1>2 DEF GiveUp, Goto

\* A request that returns forgets what it read and starts no renewal.
LEMMA FinishEffect ==
  ASSUME TypeOK, NEW w \in Workers, NEW kind, NEW t, Finish(w, kind, t)
  PROVE  /\ pc' = [pc EXCEPT ![w] = "idle"]
         /\ \A u \in Workers : beat'[u].state = "renewing" => beat[u].state = "renewing"
         /\ \A u \in Workers : \/ job'[u].reads = {} /\ job'[u].fp = 0
                               \/ job'[u].reads = job[u].reads /\ job'[u].fp = job[u].fp
         /\ \A u \in Workers \ {w} : job'[u] = job[u]
PROOF
<1>1. \A u \in Workers : beat'[u].state = "renewing" => beat[u].state = "renewing"
  BY DEF Finish, NoBeat, TypeOK, BeatType
<1> QED BY <1>1 DEF Finish, Goto, TypeOK, NoJob

\* The final transaction becomes durable: it alone changes the world, and it
\* wrote what it read at that world.
LEMMA DurableUpdate ==
  ASSUME UpdateInv, NEW x \in txn, Durable(x)
  PROVE  /\ lock' = LockFree /\ txn' = {}
         /\ world' \in {world, world + 1}
         /\ \A w \in Workers : pc[w] # "writing" /\ beat[w].state # "renewing"
         /\ NoLostUpdate'
PROOF
<1>1. txn # {} /\ lock.by = "turn"
  BY DEF UpdateInv, Locking
<1>2. \A w \in Workers : pc[w] # "writing" /\ beat[w].state # "renewing"
  BY <1>1, LockNames DEF UpdateInv, Locking
<1>3. x.reads \subseteq {world}
  BY DEF UpdateInv, Reading
<1>4. NoLostUpdate'
  BY <1>3 DEF Durable, Put, NoLostUpdate, UpdateInv
<1> QED BY <1>2, <1>4 DEF Durable

\* A claim neither takes the lock for longer nor reads the state.
LEMMA UpdateClaim ==
  ASSUME UpdateInv, NEW w \in Workers, Claim(w)
  PROVE  UpdateInv'
PROOF
<1>0. PICK k \in Keys, i \in Inputs :
        \/ ClaimLockBusy(w, k, i) \/ ClaimRefused(w, k, i) \/ ClaimResumed(w, k, i)
        \/ ClaimInserted(w, k, i) \/ ClaimRetried(w, k, i) \/ ClaimTakenOver(w, k, i)
  BY DEF Claim
<1>1. TypeOK'
  BY TypeClaim DEF UpdateInv
<1>2. CASE ClaimLockBusy(w, k, i) \/ ClaimRefused(w, k, i) \/ ClaimResumed(w, k, i)
  <2>1. UNCHANGED <<events, world, lock, txn, pc, job, beat>>
    BY <1>2 DEF ClaimLockBusy, ClaimRefused, ClaimResumed, database
  <2> QED BY <1>1, <2>1 DEF UpdateInv, Locking, Reading, NoLostUpdate
<1>3. CASE \E r, row : Grant(w, r, row)
  <2>1. /\ pc' = [pc EXCEPT ![w] = "claimed"]
        /\ \A u \in Workers : \/ job'[u].reads = {} /\ job'[u].fp = 0 /\ u = w
                              \/ job'[u] = job[u] /\ u # w
        /\ UNCHANGED <<events, world, lock, txn, beat>>
    BY <1>3 DEF Grant, NoJob, UpdateInv, TypeOK
  <2>2. Locking'
    BY <2>1 DEF UpdateInv, Locking, TypeOK
  <2>3. Reading'
    BY <2>1 DEF UpdateInv, Reading, TypeOK
  <2> QED BY <1>1, <2>1, <2>2, <2>3 DEF UpdateInv, NoLostUpdate
<1> QED BY <1>0, <1>2, <1>3 DEF ClaimInserted, ClaimRetried, ClaimTakenOver

\* A worker that gives up, and frees the lock only if it was writing, disturbs
\* nothing.
LEMMA UpdateGiveUp ==
  ASSUME UpdateInv, NEW w \in Workers, NEW outcome \in Outcomes, GiveUp(w, outcome),
         lock' = (IF pc[w] = "writing" THEN LockFree ELSE lock),
         UNCHANGED <<events, world, txn>>
  PROVE  Locking' /\ Reading' /\ NoLostUpdate'
PROOF
<1>1. /\ pc' = [pc EXCEPT ![w] = "failing"]
      /\ \A u \in Workers : beat'[u].state = "renewing" => beat[u].state = "renewing"
      /\ \A u \in Workers : job'[u].reads = job[u].reads /\ job'[u].fp = job[u].fp
  BY GiveUpEffect DEF UpdateInv
<1>2. Locking'
  BY <1>1, LockNames DEF UpdateInv, Locking, TypeOK
<1>3. Reading'
  BY <1>1 DEF UpdateInv, Reading, TypeOK
<1>4. NoLostUpdate'
  BY DEF UpdateInv, NoLostUpdate
<1> QED BY <1>2, <1>3, <1>4

\* A request that returns without the lock disturbs nobody.
LEMMA UpdateFinish ==
  ASSUME UpdateInv, NEW w \in Workers, NEW kind, NEW t, Finish(w, kind, t),
         pc[w] # "writing", UNCHANGED <<world, lock, txn>>
  PROVE  Locking' /\ Reading'
PROOF
<1>1. /\ pc' = [pc EXCEPT ![w] = "idle"]
      /\ \A u \in Workers : beat'[u].state = "renewing" => beat[u].state = "renewing"
      /\ \A u \in Workers : \/ job'[u].reads = {} /\ job'[u].fp = 0
                            \/ job'[u].reads = job[u].reads /\ job'[u].fp = job[u].fp
      /\ \A u \in Workers \ {w} : job'[u] = job[u]
  BY FinishEffect DEF UpdateInv
<1>2. Locking'
  BY <1>1 DEF UpdateInv, Locking, TypeOK
<1>3. Reading'
  BY <1>1 DEF UpdateInv, Reading, TypeOK
<1> QED BY <1>2, <1>3

\* A read before the lock is taken lies within the window.
LEMMA UpdateRead ==
  ASSUME UpdateInv, TypeOK', NEW w \in Workers, NEW stage \in {"stages", "quiesce"},
         pc' = [pc EXCEPT ![w] = stage],
         \A u \in Workers : job'[u].reads \subseteq job[u].reads \cup {world},
         \A u \in Workers : job'[u].fp = job[u].fp,
         pc[w] # "claimed", \A u \in Workers \ {w} : job'[u].reads = job[u].reads,
         UNCHANGED <<events, world, lock, txn, beat>>
  PROVE  UpdateInv'
PROOF
<1>1. Locking'
  BY DEF UpdateInv, Locking, TypeOK
<1>2. Reading'
  BY DEF UpdateInv, Reading, TypeOK, JobType
<1> QED BY <1>1, <1>2 DEF UpdateInv, NoLostUpdate

\* A worker that only learns of a doubtful receipt disturbs nothing.
LEMMA UpdateMove ==
  ASSUME UpdateInv, TypeOK', NEW w \in Workers, pc' = [pc EXCEPT ![w] = "doubt"],
         UNCHANGED <<events, world, lock, txn, job, beat>>
  PROVE  UpdateInv'
PROOF
<1>1. Locking'
  BY DEF UpdateInv, Locking, TypeOK
<1>2. Reading'
  BY DEF UpdateInv, Reading, TypeOK
<1> QED BY <1>1, <1>2 DEF UpdateInv, NoLostUpdate

\* While the final transaction was open nobody wrote or renewed.
LEMMA UpdateDurable ==
  ASSUME UpdateInv, TypeOK', NEW x \in txn, Durable(x),
         \A u \in Workers : pc'[u] \in {"writing", "claimed"} => pc'[u] = pc[u],
         UNCHANGED <<job, beat>>
  PROVE  UpdateInv'
PROOF
<1>1. /\ lock' = LockFree /\ txn' = {}
      /\ world' \in {world, world + 1}
      /\ \A w \in Workers : pc[w] # "writing" /\ beat[w].state # "renewing"
      /\ NoLostUpdate'
  BY DurableUpdate
<1>2. Locking'
  BY <1>1 DEF Locking
<1>3. Reading'
  BY <1>1 DEF UpdateInv, Reading, TypeOK, JobType
<1> QED BY <1>1, <1>2, <1>3 DEF UpdateInv

\* Every step of execute_turn_service after the claim keeps the invariant.
LEMMA UpdateTurn ==
  ASSUME UpdateInv, NEW w \in Workers, Turn(w)
  PROVE  UpdateInv'
PROOF
<1>0. TypeOK' /\ TypeOK
  BY TypeTurn DEF UpdateInv
<1>1. CASE Begin(w)
  <2>1. /\ pc' = [pc EXCEPT ![w] = "running"]
        /\ \A u \in Workers : beat'[u].state = "renewing" => beat[u].state = "renewing"
        /\ \A u \in Workers : job'[u].reads = job[u].reads
        /\ \A u \in Workers \ {w} : job'[u].fp = job[u].fp
        /\ job[w].reads = {} /\ job'[w].fp = world
        /\ UNCHANGED <<events, world, lock, txn>>
    BY <1>0, <1>1 DEF Begin, Goto, NoBeat, UpdateInv, Reading, TypeOK, JobType, database
  <2>2. Locking'
    BY <1>0, <2>1 DEF UpdateInv, Locking, TypeOK
  <2>3. Reading'
    BY <1>0, <2>1 DEF UpdateInv, Reading, TypeOK
  <2> QED BY <1>0, <2>1, <2>2, <2>3 DEF UpdateInv, NoLostUpdate
<1>2. CASE Reconstruct(w)
  <2>1. CASE GiveUp(w, "turn") \/ GiveUp(w, "turn_in_progress")
    BY <1>0, <1>2, <2>1, UpdateGiveUp DEF Reconstruct, database, Outcomes, UpdateInv
  <2>2. CASE Goto(w, "stages") /\ job' = [job EXCEPT ![w].reads = @ \cup {world}]
             /\ UNCHANGED beat
    <3>1. /\ pc' = [pc EXCEPT ![w] = "stages"]
          /\ \A u \in Workers : job'[u].reads \subseteq job[u].reads \cup {world}
          /\ \A u \in Workers : job'[u].fp = job[u].fp
          /\ pc[w] # "claimed" /\ \A u \in Workers \ {w} : job'[u].reads = job[u].reads
          /\ UNCHANGED <<events, world, lock, txn, beat>>
      BY <1>0, <1>2, <2>2 DEF Reconstruct, Goto, TypeOK, JobType, database
    <3> QED BY <1>0, <3>1, UpdateRead
  <2> QED BY <1>2, <2>1, <2>2 DEF Reconstruct
<1>3. CASE RunStages(w)
  <2>1. PICK plan \in {"action", "clarify"} :
          job' = [job EXCEPT ![w] = [job[w] EXCEPT !.reads = job[w].reads \cup {world},
                                                   !.plan = plan]]
    BY <1>3 DEF RunStages
  <2>2. /\ pc' = [pc EXCEPT ![w] = "quiesce"]
        /\ \A u \in Workers : job'[u].reads \subseteq job[u].reads \cup {world}
        /\ \A u \in Workers : job'[u].fp = job[u].fp
        /\ pc[w] # "claimed" /\ \A u \in Workers \ {w} : job'[u].reads = job[u].reads
        /\ UNCHANGED <<events, world, lock, txn, beat>>
    BY <1>0, <1>3, <2>1 DEF RunStages, Goto, TypeOK, JobType, database
  <2> QED BY <1>0, <2>2, UpdateRead
<1>4. CASE Quiesce(w)
  <2>1. CASE GiveUp(w, "claim_lost") \/ GiveUp(w, "budget_exceeded")
    BY <1>0, <1>4, <2>1, UpdateGiveUp DEF Quiesce, database, Outcomes, UpdateInv
  <2>2. CASE Goto(w, "lockwait") /\ beat' = [beat EXCEPT ![w] = Stopped(@)]
             /\ UNCHANGED job
    <3>1. /\ pc' = [pc EXCEPT ![w] = "lockwait"]
          /\ \A u \in Workers : beat'[u].state = "renewing" => beat[u].state = "renewing"
          /\ UNCHANGED <<events, world, lock, txn, job>>
      BY <1>0, <1>4, <2>2 DEF Quiesce, Goto, Stopped, TypeOK, BeatType, database
    <3>2. Locking'
      BY <1>0, <3>1 DEF UpdateInv, Locking, TypeOK
    <3>3. Reading'
      BY <1>0, <3>1 DEF UpdateInv, Reading, TypeOK
    <3> QED BY <1>0, <3>1, <3>2, <3>3 DEF UpdateInv, NoLostUpdate
  <2> QED BY <1>4, <2>1, <2>2 DEF Quiesce
<1>5. CASE AcquireLock(w)
  <2>1. CASE GiveUp(w, "state_conflict") /\ UNCHANGED lock
    <3>1. lock' = IF pc[w] = "writing" THEN LockFree ELSE lock
      BY <1>5, <2>1 DEF AcquireLock
    <3> QED BY <1>0, <1>5, <2>1, <3>1, UpdateGiveUp DEF AcquireLock, Outcomes, UpdateInv
  <2>2. CASE world = job[w].fp /\ Goto(w, "writing") /\ lock' = TurnLock(w)
             /\ UNCHANGED <<job, beat>>
    <3>1. /\ pc' = [pc EXCEPT ![w] = "writing"]
          /\ lock = LockFree
          /\ UNCHANGED <<events, world, txn, job, beat>>
      BY <1>5, <2>2 DEF AcquireLock, Goto
    <3>2. Locking'
      BY <1>0, <2>2, <3>1, LockNames DEF UpdateInv, Locking, TypeOK
    <3>3. Reading'
      BY <1>0, <2>2, <3>1 DEF UpdateInv, Reading, TypeOK
    <3> QED BY <1>0, <3>1, <3>2, <3>3 DEF UpdateInv, NoLostUpdate
  <2> QED BY <1>5, <2>1, <2>2 DEF AcquireLock
<1>6. CASE WriteAndSwap(w)
  <2>1. CASE \E outcome \in {"failed", "budget_exceeded", "claim_lost"} :
               GiveUp(w, outcome) /\ lock' = LockFree /\ UNCHANGED txn
    BY <1>0, <1>6, <2>1, UpdateGiveUp DEF WriteAndSwap, Outcomes, UpdateInv
  <2>2. CASE /\ Goto(w, "commit")
             /\ txn' = {[token |-> job[w].token, reads |-> job[w].reads,
                         plan |-> job[w].plan]}
             /\ UNCHANGED <<lock, job, beat>>
    <3>1. /\ pc[w] = "writing" /\ lock = TurnLock(w)
          /\ pc' = [pc EXCEPT ![w] = "commit"]
          /\ UNCHANGED <<events, world>>
      BY <1>6, <2>2 DEF WriteAndSwap, Goto, UpdateInv, Locking
    <3>2. Locking'
      BY <1>0, <2>2, <3>1, LockNames DEF UpdateInv, Locking, TypeOK
    <3>3. \A v \in job[w].reads : v = world
      <4>1. job[w] \in JobType /\ world \in Nat
        BY <1>0 DEF TypeOK
      <4>2. job[w].reads \subseteq Nat
        BY <4>1 DEF JobType
      <4>3. \A v \in job[w].reads : world <= v /\ v <= world
        BY <3>1 DEF UpdateInv, Reading
      <4> QED BY <4>1, <4>2, <4>3
    <3>4. Reading'
      BY <1>0, <2>2, <3>1, <3>3 DEF UpdateInv, Reading, TypeOK
    <3> QED BY <1>0, <3>1, <3>2, <3>4 DEF UpdateInv, NoLostUpdate
  <2> QED BY <1>6, <2>1, <2>2 DEF WriteAndSwap
<1>7. CASE CommitAcknowledged(w)
  <2>1. PICK x \in txn : Durable(x)
    BY <1>7 DEF CommitAcknowledged
  <2>2. pc' = [pc EXCEPT ![w] = "narrate"] /\ UNCHANGED <<job, beat>>
    BY <1>7 DEF CommitAcknowledged, Goto
  <2> QED BY <1>0, <2>1, <2>2, UpdateDurable
<1>8. CASE CommitRaised(w)
  <2>1. pc' = [pc EXCEPT ![w] = "doubt"] /\ UNCHANGED <<events, world, lock, txn, job, beat>>
    BY <1>8 DEF CommitRaised, Goto, database
  <2> QED BY <1>0, <2>1, UpdateMove
<1>9. CASE ConfirmReceipt(w)
  <2>1. CASE Finish(w, "turn", job[w].token.turn)
    BY <1>0, <1>9, <2>1, UpdateFinish DEF ConfirmReceipt, database, UpdateInv, NoLostUpdate
  <2>2. CASE GiveUp(w, "failed")
    BY <1>0, <1>9, <2>2, UpdateGiveUp DEF ConfirmReceipt, database, Outcomes, UpdateInv
  <2> QED BY <1>9, <2>1, <2>2 DEF ConfirmReceipt
<1>10. CASE Narrate(w)
  <2>1. Finish(w, "turn", job[w].token.turn) /\ pc[w] # "writing"
        /\ UNCHANGED <<world, lock, txn>>
    BY <1>10 DEF Narrate
  <2>2. DOMAIN events' = DOMAIN events
        /\ \A n \in DOMAIN events : events'[n].reads = events[n].reads
                                    /\ events'[n].base = events[n].base
    BY <1>0, <1>10 DEF Narrate, TypeOK, EventType
  <2>3. Locking' /\ Reading'
    BY <2>1, UpdateFinish
  <2> QED BY <1>0, <2>2, <2>3 DEF UpdateInv, NoLostUpdate
<1>11. CASE NarrateRaised(w)
  <2>1. pc' = [pc EXCEPT ![w] = "doubt"] /\ UNCHANGED <<events, world, lock, txn, job, beat>>
    BY <1>11 DEF NarrateRaised, Goto, database
  <2> QED BY <1>0, <2>1, UpdateMove
<1>12. CASE Raise(w)
  BY <1>0, <1>12, UpdateGiveUp DEF Raise, Outcomes, UpdateInv
<1>13. CASE Abort(w)
  <2>1. PICK t : Finish(w, job[w].outcome, t)
    BY <1>13 DEF Abort
  <2>2. pc[w] # "writing" /\ UNCHANGED <<events, world, lock, txn>>
    BY <1>13 DEF Abort
  <2>3. Locking' /\ Reading'
    BY <2>1, <2>2, UpdateFinish
  <2> QED BY <1>0, <2>2, <2>3 DEF UpdateInv, NoLostUpdate
<1> QED BY <1>1, <1>2, <1>3, <1>4, <1>5, <1>6, <1>7, <1>8, <1>9, <1>10, <1>11, <1>12, <1>13 DEF Turn

\* The heartbeat moves the lock only between itself and nobody.
LEMMA UpdateBeat ==
  ASSUME UpdateInv, NEW w \in Workers, Beat(w)
  PROVE  UpdateInv'
PROOF
<1>0. TypeOK' /\ TypeOK
  BY TypeBeat DEF UpdateInv
<1>1. UNCHANGED <<events, world, txn, pc, job>>
  BY DEF Beat, BeatRenew, BeatRejected, BeatError, BeatCommit, BeatCommitFails, BeatBudget,
         database
<1>2. Reading' /\ NoLostUpdate'
  BY <1>1 DEF UpdateInv, Reading, NoLostUpdate
<1>3. \A u \in Workers \ {w} : beat'[u] = beat[u]
  BY <1>0 DEF Beat, BeatRenew, BeatRejected, BeatError, BeatCommit, BeatCommitFails,
              BeatBudget, TypeOK
<1>4. \A b \in BeatType, failed \in BOOLEAN : AfterRenewal(b, failed).state # "renewing"
  BY DEF AfterRenewal, NoBeat, BeatType
<1>5. beat[w] \in BeatType
  BY <1>0 DEF TypeOK
<1>6. CASE BeatRenew(w)
  <2>1. lock = LockFree /\ lock' = BeatLock(w)
    BY <1>6 DEF BeatRenew
  <2> QED BY <1>0, <1>1, <1>2, <1>3, <2>1, LockNames DEF UpdateInv, Locking
<1>7. CASE BeatCommit(w) \/ BeatCommitFails(w)
  <2>1. lock = BeatLock(w) /\ lock' = LockFree
    BY <1>7 DEF BeatCommit, BeatCommitFails, UpdateInv, Locking
  <2>2. beat'[w].state # "renewing"
    BY <1>0, <1>4, <1>5, <1>7 DEF BeatCommit, BeatCommitFails, TypeOK
  <2> QED BY <1>0, <1>1, <1>2, <1>3, <2>1, <2>2, LockNames DEF UpdateInv, Locking
<1>8. CASE BeatRejected(w) \/ BeatError(w) \/ BeatBudget(w)
  <2>1. UNCHANGED lock
    BY <1>8 DEF BeatRejected, BeatError, BeatBudget, database
  <2>2. beat'[w].state # "renewing"
    <3>1. CASE BeatError(w)
      BY <1>0, <1>4, <1>5, <3>1 DEF BeatError, TypeOK
    <3>2. CASE BeatRejected(w)
      BY <1>0, <1>5, <3>2 DEF BeatRejected, TypeOK, BeatType
    <3>3. CASE BeatBudget(w)
      BY <1>0, <1>5, <3>3 DEF BeatBudget, TypeOK, BeatType
    <3> QED BY <1>8, <3>1, <3>2, <3>3
  <2> QED BY <1>0, <1>1, <1>2, <1>3, <2>1, <2>2 DEF UpdateInv, Locking
<1> QED BY <1>6, <1>7, <1>8 DEF Beat

\* Every step keeps the invariant.
LEMMA UpdateStep == UpdateInv /\ [Next]_vars => UpdateInv'
PROOF
<1> SUFFICES ASSUME UpdateInv, [Next]_vars PROVE UpdateInv'
  OBVIOUS
<1>0. TypeOK' /\ TypeOK
  BY TypeStep DEF UpdateInv
<1>1. ASSUME NEW w \in Workers, Claim(w) PROVE UpdateInv'
  BY <1>1, UpdateClaim
<1>2. ASSUME NEW w \in Workers, Turn(w) PROVE UpdateInv'
  BY <1>2, UpdateTurn
<1>3. ASSUME NEW w \in Workers, Beat(w) PROVE UpdateInv'
  BY <1>3, UpdateBeat
<1>4. ASSUME NEW w \in Workers, Crash(w) PROVE UpdateInv'
  <2>1. /\ pc' = [pc EXCEPT ![w] = "idle"]
        /\ job' = [job EXCEPT ![w] = NoJob]
        /\ beat' = [beat EXCEPT ![w] = NoBeat]
        /\ lock' = IF lock = BeatLock(w) \/ pc[w] = "writing" THEN LockFree ELSE lock
        /\ UNCHANGED <<events, world, txn>>
    BY <1>4 DEF Crash, Goto
  <2>2. Locking'
    BY <1>0, <2>1, LockNames DEF UpdateInv, Locking, TypeOK, NoBeat
  <2>3. Reading'
    BY <1>0, <2>1 DEF UpdateInv, Reading, TypeOK, NoJob
  <2> QED BY <1>0, <2>1, <2>2, <2>3 DEF UpdateInv, NoLostUpdate
<1>5. ASSUME NEW w \in Workers, BudgetExpires(w) PROVE UpdateInv'
  BY <1>0, <1>5 DEF BudgetExpires, database, UpdateInv, Locking, Reading, NoLostUpdate
<1>6. CASE ServerDecides
  <2>1. PICK x \in txn : Durable(x) \/ RolledBack
    BY <1>6 DEF ServerDecides
  <2>2. UNCHANGED <<pc, job, beat>>
    BY <1>6 DEF ServerDecides
  <2>3. CASE Durable(x)
    BY <1>0, <2>2, <2>3, UpdateDurable
  <2>4. CASE RolledBack
    <3>1. lock.by = "turn" /\ txn # {} /\ lock' = LockFree /\ txn' = {}
          /\ UNCHANGED <<events, world>>
      BY <2>4 DEF RolledBack, UpdateInv, Locking
    <3>2. Locking'
      BY <2>2, <3>1, LockNames DEF UpdateInv, Locking
    <3> QED BY <1>0, <2>2, <3>1, <3>2 DEF UpdateInv, Reading, NoLostUpdate
  <2> QED BY <2>1, <2>3, <2>4
<1>7. CASE AbandonLocks
  <2>1. lock = LockFree /\ lock' = QuestLock /\ UNCHANGED <<events, world, txn, pc, job, beat>>
    BY <1>7 DEF AbandonLocks
  <2>2. Locking'
    BY <2>1, LockNames DEF UpdateInv, Locking
  <2> QED BY <1>0, <2>1, <2>2 DEF UpdateInv, Reading, NoLostUpdate
<1>8. CASE AbandonEnds
  <2>1. /\ lock = QuestLock /\ lock' = LockFree /\ world' \in {world, world + 1}
        /\ UNCHANGED <<events, txn, pc, job, beat>>
    BY <1>8 DEF AbandonEnds
  <2>2. txn = {} /\ \A w \in Workers : pc[w] # "writing" /\ beat[w].state # "renewing"
    BY <2>1, LockNames DEF UpdateInv, Locking
  <2>3. Locking'
    BY <2>1, <2>2 DEF Locking
  <2>4. Reading'
    BY <1>0, <2>1, <2>2 DEF UpdateInv, Reading, TypeOK, JobType
  <2> QED BY <1>0, <2>1, <2>3, <2>4 DEF UpdateInv, NoLostUpdate
<1>9. CASE Tick
  <2>1. UNCHANGED <<events, world, lock, txn, pc, job>>
        /\ \A w \in Workers : beat'[w].state = beat[w].state
    BY <1>0, <1>9 DEF Tick, TypeOK, BeatType
  <2> QED BY <1>0, <2>1 DEF UpdateInv, Locking, Reading, NoLostUpdate
<1>10. CASE UNCHANGED vars
  BY <1>0, <1>10 DEF vars, UpdateInv, Locking, Reading, NoLostUpdate
<1> QED BY <1>1, <1>2, <1>3, <1>4, <1>5, <1>6, <1>7, <1>8, <1>9, <1>10 DEF Next

\* No turn is ever committed on a state other than the one it read, for any
\* number of workers, abandonments and turns: the fingerprint comparison under
\* the lock suffices, and it needs neither the lease nor the fencing generation.
THEOREM NoUpdateIsLost == Spec => []NoLostUpdate
PROOF
<1>1. Init => UpdateInv
  BY UpdateInit
<1>2. UpdateInv /\ [Next]_vars => UpdateInv'
  BY UpdateStep
<1>3. UpdateInv => NoLostUpdate
  BY DEF UpdateInv
<1> QED BY <1>1, <1>2, <1>3, PTL DEF Spec
=============================================================================
