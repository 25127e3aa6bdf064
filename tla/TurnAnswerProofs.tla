--------------------------- MODULE TurnAnswerProofs ---------------------------
(***************************************************************************)
(* What a client is told stays true, and the session is a log of turns,    *)
(* for any number of workers, keys, inputs, turns and generations.         *)
(*                                                                         *)
(* An answer speaks of a key, the facts are under a row: the link is the   *)
(* key history.  A key that a row dropped is in its history, and no row    *)
(* gets such a key again; so a token either still names the key and input  *)
(* of its row or its key is superseded for good.                           *)
(***************************************************************************)
EXTENDS TurnFencingProofs, SequenceTheorems

\* A key in the history of a row is no other row's key.
Retired == \A r, s \in DOMAIN rows : rows[s].key \in rows[r].hist => s = r

\* A token has the key and the input of its row, or its key is superseded.
Names(t) == (rows[t.row].key = t.key /\ rows[t.row].input = t.input) \/ Superseded(t.key)
TokenKeys == \A w \in Workers : pc[w] # "idle" => Names(job[w].token)

\* What a worker knows when it is about to answer.
Played(k) == \E n \in DOMAIN events : events[n].key = k
Knows ==
  /\ \A w \in Workers : pc[w] = "narrate" => Committed(job[w].token)
  /\ \A w \in Workers : (pc[w] = "failing" /\ job[w].outcome = "turn") => Played(job[w].token.key)

\* An answer that is true when it is given.
TrueTurn(a) ==
  a.kind = "turn" => /\ a.turn \in DOMAIN events
                     /\ events[a.turn].key = a.key
                     /\ events[a.turn].input \in {a.input, Null}
TrueRefusal(a) == a.kind = "claim_superseded" => Superseded(a.key)
Truthful == \A w \in Workers : TrueTurn(answer[w]) /\ TrueRefusal(answer[w])

AnswerInv == FenceInv /\ Retired /\ TokenKeys /\ Knows /\ Truthful

\* No superseded key was or will be played.
LEMMA SupersededUnplayed ==
  ASSUME FenceInv, Retired, NEW k, Superseded(k)
  PROVE  /\ \A r \in DOMAIN rows : rows[r].key # k
         /\ \A n \in DOMAIN events : events[n].key # k
PROOF
<1>1. PICK r \in DOMAIN rows : rows[r].key # k /\ k \in rows[r].hist
  BY DEF Superseded
<1>2. \A s \in DOMAIN rows : rows[s].key # k
  BY <1>1 DEF Retired
<1> QED BY <1>2 DEF FenceInv, EventsHaveRows

\* An owner that reads its own row committed finds its turn.
LEMMA CommittedTurn ==
  ASSUME FenceInv, NEW w \in Workers, pc[w] # "idle", Committed(job[w].token)
  PROVE  LET t == job[w].token
         IN t.turn \in DOMAIN events /\ events[t.turn].key = t.key /\ events[t.turn].input = t.input
PROOF
<1> DEFINE t == job[w].token
<1>1. t.row \in DOMAIN rows /\ t.turn = t.row /\ rows[t.row].input # Null
  BY DEF FenceInv, TokensBehind, Behind
<1>2. rows[t.row].status = "committed" /\ rows[t.row].key = t.key /\ rows[t.row].input = t.input
      /\ rows[t.row].turn = t.turn
  BY DEF Committed
<1> QED BY <1>1, <1>2 DEF FenceInv, FactsMatchReceipt

\* What was played under the key of a token was played with its input.
LEMMA PlayedByOwner ==
  ASSUME FenceInv, Retired, TokenKeys, NEW w \in Workers, pc[w] # "idle",
         NEW n \in DOMAIN events, events[n].key = job[w].token.key
  PROVE  events[n].input = job[w].token.input
PROOF
<1> DEFINE t == job[w].token
<1>1. ~Superseded(t.key)
  BY SupersededUnplayed
<1>2. rows[t.row].key = t.key /\ rows[t.row].input = t.input /\ t.row \in DOMAIN rows
  BY <1>1 DEF TokenKeys, Names, FenceInv, TokensBehind, Behind
<1>3. n \in DOMAIN rows /\ rows[n].key = t.key /\ events[n].input = rows[n].input
  BY DEF FenceInv, EventsHaveRows
<1> QED BY <1>2, <1>3 DEF FenceInv, KeysUnique

\* A request is resumed only with the turn of its own row.
LEMMA ResumesOwn ==
  ASSUME FenceInv, NEW k \in Keys, NEW i \in Inputs, Verdict(k, i) = "resume",
         NEW r \in ResumeRows(k)
  PROVE  LET t == rows[r].turn
         IN t \in DOMAIN events /\ events[t].key = k /\ events[t].input \in {i, Null}
PROOF
<1> DEFINE own == {SameKeyVerdict(s, i) : s \in SameKey(k)}
<1>1. ~Superseded(k) /\ ~(own \subseteq {"open"})
  BY SessionVerdicts DEF Verdict
<1>2. Verdict(k, i) = CHOOSE v \in own : TRUE
  BY <1>1 DEF Verdict
<1>3. Verdict(k, i) \in own
  BY <1>1, <1>2
<1>4. PICK s \in SameKey(k) : SameKeyVerdict(s, i) = "resume"
  BY <1>3
<1>5. r = s /\ r \in DOMAIN rows /\ rows[r].key = k /\ rows[r].turn = r
  BY <1>4 DEF ResumeRows, SameKey, FenceInv, KeysUnique, Numbering
<1>6. Null # i
  BY ClaimConstants
<1>7. rows[r].input \in {i, Null} /\ r \in DOMAIN events
  <2>1. CASE rows[r].input # Null /\ rows[r].input # i
    BY <1>4, <1>5, <2>1 DEF SameKeyVerdict
  <2>2. CASE rows[r].input = Null
    BY <1>4, <1>5, <1>6, <2>2 DEF SameKeyVerdict, Adjudicate, HasTurn
  <2>3. CASE rows[r].input = i
    BY <1>4, <1>5, <1>6, <2>3
       DEF SameKeyVerdict, Adjudicate, HasTurn, FenceInv, FactsMatchReceipt
  <2> QED BY <2>1, <2>2, <2>3
<1> QED BY <1>5, <1>7 DEF FenceInv, EventsHaveRows

\* Only a superseded key is told that it is.
LEMMA RefusesRightly ==
  ASSUME FenceInv, NEW k \in Keys, NEW i \in Inputs, Verdict(k, i) = "claim_superseded"
  PROVE  Superseded(k)
PROOF
<1> DEFINE own == {SameKeyVerdict(r, i) : r \in SameKey(k)}
<1> SUFFICES ASSUME ~Superseded(k) PROVE FALSE
  OBVIOUS
<1>1. own \subseteq {"fingerprint_conflict", "resume", "legacy_inconsistent",
                     "legacy_claim", "open"}
  BY SameKeyVerdicts DEF SameKey, FenceInv, UpdateInv
<1>2. CASE own \subseteq {"open"}
  <2>1. Verdict(k, i) = SessionVerdict(k, i)
    BY <1>2 DEF Verdict
  <2> DEFINE c == CHOOSE r \in {q \in AtTurn(NextTurn) : Adjudicated(q)} : TRUE
             d == CHOOSE r \in Lapsed : TRUE
  <2>2. Adjudicate(c) # "claim_superseded"
    BY DEF Adjudicate
  <2>3. Lapsed # {} => LapsedVerdict(d) # "claim_superseded"
    <3>1. SUFFICES ASSUME Lapsed # {} PROVE LapsedVerdict(d) # "claim_superseded"
      OBVIOUS
    <3>2. d \in Lapsed
      BY <3>1
    <3>3. rows[d].input # Null
      BY <3>2, LapsedRow
    <3> HIDE DEF d
    <3> QED BY <3>3 DEF LapsedVerdict, Adjudicate
  <2> HIDE DEF c, d
  <2> QED BY <2>1, <2>2, <2>3 DEF SessionVerdict, c, d
<1>3. CASE ~(own \subseteq {"open"})
  <2>1. Verdict(k, i) = CHOOSE v \in own : TRUE
    BY <1>3 DEF Verdict
  <2>2. Verdict(k, i) \in own
    BY <1>3, <2>1
  <2> QED BY <1>1, <2>2
<1> QED BY <1>2, <1>3

-----------------------------------------------------------------------------
(* Every answer is true when it is given, and every worker that is about to *)
(* answer knows what it says; only a durable commit lets one know more.     *)

TellsTruly ==
  \A w \in Workers :
    /\ pc'[w] = "narrate" => pc[w] = "narrate" /\ job'[w].token = job[w].token
    /\ (pc'[w] = "failing" /\ job'[w].outcome = "turn") =>
         job'[w].token = job[w].token /\ Played(job[w].token.key)
    /\ answer'[w] = answer[w] \/ (TrueTurn(answer'[w]) /\ TrueRefusal(answer'[w]))

LEMMA TruthOfClaim ==
  ASSUME AnswerInv, NEW w \in Workers, Claim(w)
  PROVE  TellsTruly
PROOF
<1>0. FenceInv /\ TypeOK /\ Knows
  BY DEF AnswerInv, FenceInv, UpdateInv
<1>1. PICK k \in Keys, i \in Inputs :
        \/ ClaimLockBusy(w, k, i) \/ ClaimRefused(w, k, i) \/ ClaimResumed(w, k, i)
        \/ ClaimInserted(w, k, i) \/ ClaimRetried(w, k, i) \/ ClaimTakenOver(w, k, i)
  BY DEF Claim
<1>2. CASE ClaimLockBusy(w, k, i) \/ ClaimRefused(w, k, i) \/ ClaimResumed(w, k, i)
  <2>1. UNCHANGED <<pc, job>>
    BY <1>2 DEF ClaimLockBusy, ClaimRefused, ClaimResumed
  <2>2. /\ TrueTurn(answer'[w]) /\ TrueRefusal(answer'[w])
        /\ \A u \in Workers \ {w} : answer'[u] = answer[u]
    <3>1. CASE ClaimLockBusy(w, k, i)
      BY <1>0, <3>1 DEF ClaimLockBusy, Reply, TypeOK, TrueTurn, TrueRefusal
    <3>2. CASE ClaimRefused(w, k, i)
      <4>1. answer' = [answer EXCEPT ![w] = [kind |-> Verdict(k, i), key |-> k, input |-> i,
                                             turn |-> 0]]
            /\ Verdict(k, i) \in Verdicts
        BY <3>2 DEF ClaimRefused, Reply
      <4>2. answer'[w].kind = Verdict(k, i) /\ answer'[w].key = k /\ Verdict(k, i) # "turn"
        BY <1>0, <4>1 DEF TypeOK, Verdicts
      <4>3. \A u \in Workers \ {w} : answer'[u] = answer[u]
        BY <1>0, <4>1 DEF TypeOK
      <4> QED BY <1>0, <4>2, <4>3, RefusesRightly DEF TrueTurn, TrueRefusal
    <3>3. CASE ClaimResumed(w, k, i)
      <4>1. PICK r \in ResumeRows(k) :
              Reply(w, IF rows[r].turn \in DOMAIN events THEN "turn" ELSE "recovery_incomplete",
                    k, i, rows[r].turn)
        BY <3>3 DEF ClaimResumed
      <4>2. /\ rows[r].turn \in DOMAIN events /\ events[rows[r].turn].key = k
            /\ events[rows[r].turn].input \in {i, Null}
        BY <1>0, <3>3, ResumesOwn DEF ClaimResumed
      <4>3. answer'[w] = [kind |-> "turn", key |-> k, input |-> i, turn |-> rows[r].turn]
            /\ \A u \in Workers \ {w} : answer'[u] = answer[u]
        BY <1>0, <4>1, <4>2 DEF Reply, TypeOK
      <4> QED BY <4>2, <4>3 DEF TrueTurn, TrueRefusal
    <3> QED BY <1>2, <3>1, <3>2, <3>3
  <2> QED BY <1>0, <2>1, <2>2 DEF TellsTruly, Knows
<1>3. CASE \E r, row : Grant(w, r, row)
  <2>1. /\ pc'[w] = "claimed" /\ answer'[w] = NoAnswer
        /\ \A u \in Workers \ {w} : pc'[u] = pc[u] /\ job'[u] = job[u] /\ answer'[u] = answer[u]
    BY <1>0, <1>3 DEF Grant, TypeOK
  <2> QED BY <1>0, <2>1 DEF TellsTruly, Knows, NoAnswer, TrueTurn, TrueRefusal
<1> QED BY <1>1, <1>2, <1>3 DEF ClaimInserted, ClaimRetried, ClaimTakenOver

\* A worker that gives up says "turn" only of a key that was played.
LEMMA TruthOfGiveUp ==
  ASSUME AnswerInv, NEW w \in Workers, NEW outcome \in Outcomes, GiveUp(w, outcome),
         outcome = "turn" => Played(job[w].token.key), UNCHANGED answer
  PROVE  TellsTruly
PROOF
<1>1. TypeOK /\ Knows
  BY DEF AnswerInv, FenceInv, UpdateInv
<1>2. /\ pc'[w] = "failing" /\ job'[w].outcome = outcome /\ job'[w].token = job[w].token
      /\ \A u \in Workers \ {w} : pc'[u] = pc[u] /\ job'[u] = job[u]
  BY <1>1 DEF GiveUp, Goto, TypeOK, JobType
<1> QED BY <1>1, <1>2 DEF TellsTruly, Knows

\* A request that returns and speaks of a turn, if at all, that is its own.
LEMMA TruthOfFinish ==
  ASSUME AnswerInv, NEW w \in Workers, NEW kind \in Outcomes, NEW n, Finish(w, kind, n),
         LET t == job[w].token
         IN kind = "turn" => n \in DOMAIN events /\ events[n].key = t.key /\ events[n].input = t.input
  PROVE  TellsTruly
PROOF
<1>1. TypeOK /\ Knows
  BY DEF AnswerInv, FenceInv, UpdateInv
<1>2. /\ pc'[w] = "idle"
      /\ answer'[w] = [kind |-> kind, key |-> job[w].token.key, input |-> job[w].token.input,
                       turn |-> n]
      /\ \A u \in Workers \ {w} : pc'[u] = pc[u] /\ job'[u] = job[u] /\ answer'[u] = answer[u]
  BY <1>1 DEF Finish, Goto, Reply, TypeOK
<1>3. TrueTurn(answer'[w]) /\ TrueRefusal(answer'[w])
  BY <1>2 DEF TrueTurn, TrueRefusal, Outcomes
<1> QED BY <1>1, <1>2, <1>3 DEF TellsTruly, Knows

\* A worker that moves on, or one that is gone, says nothing.
LEMMA TruthOfSilence ==
  ASSUME AnswerInv, NEW w \in Workers, NEW stage \in Stages \ {"narrate", "failing"},
         Goto(w, stage), \A u \in Workers \ {w} : job'[u] = job[u], UNCHANGED answer
  PROVE  TellsTruly
PROOF
<1>1. TypeOK /\ Knows
  BY DEF AnswerInv, FenceInv, UpdateInv
<1>2. pc'[w] \notin {"narrate", "failing"} /\ \A u \in Workers \ {w} : pc'[u] = pc[u]
  BY <1>1 DEF Goto, TypeOK
<1> QED BY <1>1, <1>2 DEF TellsTruly, Knows

LEMMA TruthOfTurn ==
  ASSUME AnswerInv, NEW w \in Workers, Turn(w), ~CommitAcknowledged(w)
  PROVE  TellsTruly
PROOF
<1>0. FenceInv /\ TypeOK /\ Knows /\ Retired /\ TokenKeys
  BY DEF AnswerInv, FenceInv, UpdateInv
<1>1. CASE Begin(w) \/ RunStages(w) \/ CommitRaised(w) \/ NarrateRaised(w)
  <2>1. \A u \in Workers \ {w} : job'[u] = job[u]
    BY <1>0, <1>1 DEF Begin, RunStages, CommitRaised, NarrateRaised, TypeOK
  <2>2. \E stage \in Stages \ {"narrate", "failing"} : Goto(w, stage)
    BY <1>1 DEF Begin, RunStages, CommitRaised, NarrateRaised, Stages
  <2> QED BY <1>1, <2>1, <2>2, TruthOfSilence DEF Begin, RunStages, CommitRaised, NarrateRaised
<1>2. CASE Reconstruct(w)
  <2>1. CASE Played(job[w].token.key) /\ GiveUp(w, "turn")
    BY <1>2, <2>1, TruthOfGiveUp DEF Reconstruct, Outcomes
  <2>2. CASE GiveUp(w, "turn_in_progress")
    BY <1>2, <2>2, TruthOfGiveUp DEF Reconstruct, Outcomes
  <2>3. CASE Goto(w, "stages") /\ job' = [job EXCEPT ![w].reads = @ \cup {world}]
    BY <1>0, <1>2, <2>3, TruthOfSilence DEF Reconstruct, Stages, TypeOK
  <2> QED BY <1>2, <2>1, <2>2, <2>3 DEF Reconstruct, Played
<1>3. CASE Quiesce(w)
  BY <1>3, TruthOfGiveUp, TruthOfSilence DEF Quiesce, Outcomes, Stages
<1>4. CASE AcquireLock(w)
  BY <1>4, TruthOfGiveUp, TruthOfSilence DEF AcquireLock, Outcomes, Stages
<1>5. CASE WriteAndSwap(w)
  BY <1>5, TruthOfGiveUp, TruthOfSilence DEF WriteAndSwap, Outcomes, Stages
<1>6. CASE ConfirmReceipt(w)
  <2>1. CASE Committed(job[w].token) /\ Finish(w, "turn", job[w].token.turn)
    BY <1>0, <1>6, <2>1, CommittedTurn, TruthOfFinish DEF ConfirmReceipt, Outcomes
  <2>2. CASE GiveUp(w, "failed") /\ UNCHANGED answer
    BY <2>2, TruthOfGiveUp DEF Outcomes
  <2> QED BY <1>6, <2>1, <2>2 DEF ConfirmReceipt
<1>7. CASE Narrate(w)
  <2>1. Finish(w, "turn", job[w].token.turn) /\ pc[w] = "narrate"
    BY <1>7 DEF Narrate
  <2>2. Committed(job[w].token)
    BY <1>0, <2>1 DEF Knows
  <2> QED BY <1>0, <2>1, <2>2, CommittedTurn, TruthOfFinish DEF Outcomes
<1>8. CASE Raise(w)
  BY <1>8, TruthOfGiveUp DEF Raise, Outcomes
<1>9. CASE Abort(w)
  <2> DEFINE t == job[w].token
             own == {n \in DOMAIN events : events[n].key = t.key}
             last == IF job[w].outcome = "turn" THEN Max({0} \cup own) ELSE 0
  <2>1. Finish(w, job[w].outcome, last) /\ pc[w] = "failing"
    BY <1>9 DEF Abort
  <2>2. ASSUME job[w].outcome = "turn" PROVE last \in own
    <3>1. PICK n \in own : TRUE
      BY <1>0, <2>1, <2>2 DEF Knows, Played
    <3>2. /\ {0} \cup own \in SUBSET Nat /\ MaxTurns \in Nat
          /\ \A m \in {0} \cup own : m <= MaxTurns
      BY <1>0, ClaimConstants DEF TypeOK, Turns
    <3>3. Max({0} \cup own) \in {0} \cup own /\ \A m \in {0} \cup own : m <= Max({0} \cup own)
      BY <3>2, MaxBounded
    <3>4. n \in Nat /\ n > 0 /\ n <= Max({0} \cup own)
      BY <1>0, <3>3 DEF TypeOK, Turns
    <3> QED BY <2>2, <3>3, <3>4
  <2>3. job[w].outcome = "turn" => last \in DOMAIN events /\ events[last].key = t.key
                                   /\ events[last].input = t.input
    <3>1. ASSUME job[w].outcome = "turn" PROVE last \in DOMAIN events /\ events[last].key = t.key
      BY <2>2, <3>1
    <3> HIDE DEF last
    <3> QED BY <1>0, <2>1, <3>1, PlayedByOwner
  <2>4. job[w].outcome \in Outcomes
    BY <1>0 DEF TypeOK, JobType
  <2> HIDE DEF last
  <2> QED BY <2>1, <2>3, <2>4, TruthOfFinish
<1> QED BY <1>1, <1>2, <1>3, <1>4, <1>5, <1>6, <1>7, <1>8, <1>9 DEF Turn

LEMMA Truth ==
  ASSUME AnswerInv, [Next]_vars
  PROVE  TellsTruly \/ \E x \in txn : Committing(x)
PROOF
<1>0. FenceInv /\ TypeOK /\ Knows
  BY DEF AnswerInv, FenceInv, UpdateInv
<1>1. ASSUME UNCHANGED <<pc, job, answer>> PROVE TellsTruly
  BY <1>0, <1>1 DEF TellsTruly, Knows
<1>2. ASSUME NEW w \in Workers, Turn(w) PROVE TellsTruly \/ \E x \in txn : Committing(x)
  BY <1>0, <1>2, Acknowledged, TruthOfTurn
<1>3. ASSUME NEW w \in Workers, Crash(w) PROVE TellsTruly
  <2>1. \A u \in Workers \ {w} : job'[u] = job[u]
    BY <1>0, <1>3 DEF Crash, TypeOK
  <2> QED BY <1>3, <2>1, TruthOfSilence DEF Crash, Stages
<1>4. ASSUME NEW w \in Workers, Beat(w) PROVE UNCHANGED <<pc, job, answer>>
  BY <1>4 DEF Beat, BeatRenew, BeatRejected, BeatError, BeatCommit, BeatCommitFails, BeatBudget
<1>5. ASSUME NEW w \in Workers, BudgetExpires(w) PROVE UNCHANGED <<pc, job, answer>>
  BY <1>5 DEF BudgetExpires
<1>6. CASE ServerDecides \/ AbandonLocks \/ AbandonEnds \/ Tick \/ UNCHANGED vars
  <2>1. UNCHANGED <<pc, job, answer>>
    BY <1>6 DEF ServerDecides, AbandonLocks, AbandonEnds, Tick, vars
  <2> QED BY <1>1, <2>1
<1> QED BY <1>1, <1>2, <1>3, <1>4, <1>5, <1>6, TruthOfClaim DEF Next

-----------------------------------------------------------------------------
(* The invariant is kept.                                                   *)

\* A step that grants nothing leaves keys, inputs and histories of the rows.
LEMMA NamesStay ==
  ASSUME FenceInv,
         Quiet \/ (\E w \in Workers : Swapping(w) \/ Aborting(w)) \/ \E x \in txn : Committing(x)
  PROVE  /\ DOMAIN rows' = DOMAIN rows
         /\ \A r \in DOMAIN rows : /\ rows'[r].key = rows[r].key /\ rows'[r].input = rows[r].input
                                   /\ rows'[r].hist = rows[r].hist
         /\ \A w \in Workers : pc'[w] # "idle" => pc[w] # "idle" /\ job'[w].token = job[w].token
PROOF
<1>0. TypeOK /\ \A r \in DOMAIN rows : rows[r] \in RowType
  BY DEF FenceInv, UpdateInv, TypeOK
<1>1. CASE Quiet
  BY <1>0, <1>1, SameFields DEF Quiet, SameRows, SameTokens
<1>2. ASSUME NEW w \in Workers, Swapping(w) PROVE UNCHANGED <<rows, job>> /\ SameTokens
  BY <1>0, <1>2 DEF Swapping, SameTokens, TypeOK
<1>3. ASSUME NEW w \in Workers, Aborting(w)
      PROVE  /\ SameTokens
             /\ \E r \in DOMAIN rows :
                  rows' = [rows EXCEPT ![r].status = "aborted", ![r].lease = 0]
  <2>1. PICK kind, n : Finish(w, kind, n)
    BY <1>3 DEF Aborting
  <2> QED BY <1>0, <1>3, <2>1 DEF Aborting, CanSwap, Owned, Finish, Goto, SameTokens, TypeOK
<1>4. ASSUME NEW x \in txn, Committing(x)
      PROVE  /\ SameTokens
             /\ \E r \in DOMAIN rows : rows' = [rows EXCEPT ![r].status = "committed"]
  <2>1. \E r \in DOMAIN rows : rows' = [rows EXCEPT ![r].status = "committed"]
    BY <1>4, DurableEffect DEF Committing
  <2> QED BY <1>4, <2>1 DEF Committing, SameTokens
<1>5. ASSUME NEW r \in DOMAIN rows,
             \/ rows' = [rows EXCEPT ![r].status = "aborted", ![r].lease = 0]
             \/ rows' = [rows EXCEPT ![r].status = "committed"]
      PROVE  /\ DOMAIN rows' = DOMAIN rows
             /\ \A s \in DOMAIN rows :
                  /\ rows'[s].key = rows[s].key /\ rows'[s].input = rows[s].input
                  /\ rows'[s].hist = rows[s].hist
  BY <1>0, <1>5 DEF RowType
<1> QED BY <1>1, <1>2, <1>3, <1>4, <1>5 DEF SameTokens

\* A superseded key stays superseded.
LEMMA StaysSuperseded ==
  ASSUME FenceInv, [Next]_vars, NEW k, Superseded(k)
  PROVE  Superseded(k)'
PROOF
<1>1. PICK r \in DOMAIN rows : rows[r].key # k /\ k \in rows[r].hist
  BY DEF Superseded
<1>2. ASSUME NEW w \in Workers, NEW q, NEW row, Granting(w, q, row) PROVE Superseded(k)'
  <2>1. /\ DOMAIN rows' = DOMAIN rows \cup {q} /\ rows'[q] = row
        /\ \A s \in DOMAIN rows \ {q} : rows'[s] = rows[s]
    BY <1>2 DEF Granting, Grant, Put
  <2>2. row.key # k /\ (q \in DOMAIN rows => rows[q].hist \subseteq row.hist)
    BY <1>2 DEF Granting, Fresh, Succeeds
  <2> QED BY <1>1, <2>1, <2>2 DEF Superseded
<1>3. ASSUME Quiet \/ (\E w \in Workers : Swapping(w) \/ Aborting(w)) \/ \E x \in txn : Committing(x)
      PROVE  Superseded(k)'
  BY <1>1, <1>3, NamesStay DEF Superseded
<1> QED BY <1>2, <1>3, Kinds

LEMMA NamesKept ==
  ASSUME AnswerInv, [Next]_vars
  PROVE  Retired' /\ TokenKeys'
PROOF
<1>0. FenceInv /\ TypeOK /\ Retired /\ TokenKeys
  BY DEF AnswerInv, FenceInv, UpdateInv
<1>1. ASSUME Quiet \/ (\E w \in Workers : Swapping(w) \/ Aborting(w)) \/ \E x \in txn : Committing(x)
      PROVE  Retired' /\ TokenKeys'
  <2>1. /\ DOMAIN rows' = DOMAIN rows
        /\ \A r \in DOMAIN rows : /\ rows'[r].key = rows[r].key /\ rows'[r].input = rows[r].input
                                  /\ rows'[r].hist = rows[r].hist
        /\ \A w \in Workers : pc'[w] # "idle" => pc[w] # "idle" /\ job'[w].token = job[w].token
    BY <1>0, <1>1, NamesStay
  <2>2. Retired'
    BY <1>0, <2>1 DEF Retired
  <2>3. \A w \in Workers : pc[w] # "idle" => job[w].token.row \in DOMAIN rows
    BY <1>0 DEF FenceInv, TokensBehind, Behind
  <2>4. ASSUME NEW w \in Workers, pc'[w] # "idle" PROVE Names(job[w].token)'
    <3>1. job'[w].token = job[w].token /\ Names(job[w].token)
      BY <1>0, <2>1, <2>4 DEF TokenKeys
    <3> QED BY <2>1, <2>3, <2>4, <3>1 DEF Names, Superseded
  <2> QED BY <2>2, <2>4 DEF TokenKeys
<1>2. ASSUME NEW w \in Workers, NEW r, NEW row, Granting(w, r, row)
      PROVE  Retired' /\ TokenKeys'
  <2>1. /\ DOMAIN rows' = DOMAIN rows \cup {r} /\ rows'[r] = row
        /\ \A s \in DOMAIN rows \ {r} : rows'[s] = rows[s]
    BY <1>2 DEF Granting, Grant, Put
  <2>2. /\ job'[w].token.row = r /\ job'[w].token.key = row.key /\ job'[w].token.input = row.input
        /\ \A u \in Workers \ {w} : pc'[u] = pc[u] /\ job'[u] = job[u]
    BY <1>0, <1>2 DEF Granting, Grant, TypeOK, NoJob
  <2>3. /\ \A s \in DOMAIN rows : rows[s].key = row.key => s = r
        /\ \A s \in DOMAIN rows : row.key \in rows[s].hist => rows[s].key = row.key
    BY <1>2 DEF Granting, SameKey, Superseded
  <2>4. Retired'
    <3>1. ASSUME NEW s \in DOMAIN rows' PROVE rows'[s].key \in row.hist => s = r
      <4>1. CASE Fresh(r, row)
        BY <4>1 DEF Fresh
      <4>2. CASE Succeeds(r, row) /\ s # r
        BY <1>0, <2>1, <3>1, <4>2 DEF Succeeds, Retired, FenceInv, KeysUnique
      <4> QED BY <1>2, <4>1, <4>2 DEF Granting
    <3>2. ASSUME NEW q \in DOMAIN rows \ {r}, NEW s \in DOMAIN rows', rows'[s].key \in rows[q].hist
          PROVE  s = q
      <4>1. CASE s = r
        BY <2>1, <2>3, <3>2, <4>1
      <4>2. CASE s # r
        BY <1>0, <2>1, <3>2, <4>2 DEF Retired
      <4> QED BY <4>1, <4>2
    <3> QED BY <2>1, <3>1, <3>2 DEF Retired
  <2>5. TokenKeys'
    <3>1. ASSUME NEW t, t.row \in DOMAIN rows, Names(t) PROVE Names(t)'
      <4>1. CASE Superseded(t.key)
        BY <1>0, <4>1, StaysSuperseded DEF Names
      <4>2. CASE rows[t.row].key = t.key /\ rows[t.row].input = t.input /\ t.row # r
        BY <2>1, <3>1, <4>2 DEF Names
      <4>3. CASE rows[t.row].key = t.key /\ rows[t.row].input = t.input /\ t.row = r
        <5>1. Succeeds(r, row)
          BY <1>2, <3>1, <4>3 DEF Granting, Fresh
        <5>2. CASE row.key = t.key
          BY <2>1, <4>3, <5>1, <5>2 DEF Succeeds, Names
        <5>3. CASE row.key # t.key
          BY <2>1, <3>1, <4>3, <5>1, <5>3 DEF Succeeds, Superseded, Names
        <5> QED BY <5>2, <5>3
      <4> QED BY <3>1, <4>1, <4>2, <4>3 DEF Names
    <3>2. ASSUME NEW u \in Workers \ {w}, pc'[u] # "idle" PROVE Names(job[u].token)'
      <4>1. job'[u].token = job[u].token
        BY <2>2, <3>2
      <4>2. job[u].token.row \in DOMAIN rows /\ Names(job[u].token)
        BY <1>0, <2>2, <3>2 DEF FenceInv, TokensBehind, Behind, TokenKeys
      <4>3. PICK t : t = job[u].token
        OBVIOUS
      <4>4. Names(t)'
        BY <3>1, <4>2, <4>3
      <4> QED BY <4>1, <4>3, <4>4 DEF Names, Superseded
    <3>3. Names(job[w].token)'
      BY <2>1, <2>2 DEF Names
    <3> QED BY <3>2, <3>3 DEF TokenKeys
  <2> QED BY <2>4, <2>5
<1> QED BY <1>0, <1>1, <1>2, Kinds

\* What was known and told stays true: committed rows and events are final.
LEMMA StaysTrue ==
  ASSUME FenceInv, [Next]_vars
  PROVE  /\ \A n \in DOMAIN events : /\ n \in DOMAIN events'
                                     /\ events'[n].key = events[n].key
                                     /\ events'[n].input = events[n].input
         /\ \A r \in DOMAIN rows : rows[r].status = "committed" =>
              /\ rows'[r].status = "committed"
              /\ rows'[r].key = rows[r].key /\ rows'[r].input = rows[r].input
              /\ rows'[r].turn = rows[r].turn /\ rows'[r].gen = rows[r].gen
PROOF
<1>0. TypeOK /\ FinalStep
  BY FinalSteps DEF FenceInv, UpdateInv
<1>1. ASSUME NEW n \in DOMAIN events
      PROVE  /\ n \in DOMAIN events'
             /\ events'[n].key = events[n].key /\ events'[n].input = events[n].input
  <2>1. events[n] \in EventType
    BY <1>0 DEF TypeOK
  <2> QED BY <1>0, <2>1 DEF FinalStep, EventType
<1>2. ASSUME NEW r \in DOMAIN rows, rows[r].status = "committed"
      PROVE  /\ rows'[r].status = "committed"
             /\ rows'[r].key = rows[r].key /\ rows'[r].input = rows[r].input
             /\ rows'[r].turn = rows[r].turn /\ rows'[r].gen = rows[r].gen
  <2>1. rows[r] \in RowType /\ rows'[r] = [rows[r] EXCEPT !.lease = rows'[r].lease]
    BY <1>0, <1>2 DEF TypeOK, FinalStep
  <2> QED BY <1>2, <2>1 DEF RowType
<1> QED BY <1>1, <1>2

\* The worker that learns of its commit knows that its row is committed.
LEMMA KnowsCommit ==
  ASSUME AnswerInv, [Next]_vars, NEW x \in txn, Committing(x)
  PROVE  Knows' /\ Truthful'
PROOF
<1>0. FenceInv /\ TypeOK /\ Knows /\ Truthful
  BY DEF AnswerInv, FenceInv, UpdateInv
<1>1. UNCHANGED <<job, answer>>
      /\ \A w \in Workers : pc'[w] # pc[w] => pc[w] = "commit" /\ pc'[w] = "narrate"
  BY DEF Committing
<1>2. /\ x.token.row \in DOMAIN rows
      /\ rows' = [rows EXCEPT ![x.token.row].status = "committed"]
      /\ x.token.key = rows[x.token.row].key /\ x.token.input = rows[x.token.row].input
      /\ x.token.gen = rows[x.token.row].gen
      /\ x.token.turn = rows[x.token.row].turn
  BY <1>0, DurableEffect DEF Committing, FenceInv, CommitsOwn, Owned
<1>3. Committed(x.token)'
  <2>1. rows[x.token.row] \in RowType
    BY <1>0, <1>2 DEF TypeOK
  <2> QED BY <1>2, <2>1 DEF Committed, RowType
<1>4. ASSUME NEW w \in Workers, pc'[w] = "narrate" PROVE Committed(job[w].token)'
  <2>1. CASE pc[w] = "narrate"
    <3>1. Committed(job[w].token) /\ job[w].token.row \in DOMAIN rows
      BY <1>0, <2>1 DEF Knows, FenceInv, TokensBehind, Behind
    <3> QED BY <1>0, <1>1, <3>1, StaysTrue DEF Committed
  <2>2. CASE pc[w] = "commit"
    <3>1. x.token = job[w].token
      BY <1>0, <2>2 DEF FenceInv, CommitsOwn
    <3> QED BY <1>1, <1>3, <3>1 DEF Committed
  <2> QED BY <1>1, <1>4, <2>1, <2>2
<1>5. ASSUME NEW w \in Workers, pc'[w] = "failing", job'[w].outcome = "turn"
      PROVE  \E n \in DOMAIN events' : events'[n].key = job'[w].token.key
  <2>1. PICK n \in DOMAIN events : events[n].key = job[w].token.key
    BY <1>0, <1>1, <1>5 DEF Knows, Played
  <2> QED BY <1>0, <1>1, <2>1, StaysTrue
<1>6. Knows'
  BY <1>4, <1>5 DEF Knows, Played
<1>7. Truthful'
  <2> SUFFICES ASSUME NEW w \in Workers PROVE TrueTurn(answer[w])' /\ TrueRefusal(answer[w])'
    BY DEF Truthful
  <2>1. TrueTurn(answer[w]) /\ TrueRefusal(answer[w]) /\ answer'[w] = answer[w]
    BY <1>0, <1>1 DEF Truthful
  <2>2. TrueTurn(answer[w])'
    BY <1>0, <2>1, StaysTrue DEF TrueTurn
  <2>3. PICK k : k = answer[w].key
    OBVIOUS
  <2>4. Superseded(k) => Superseded(k)'
    BY <1>0, StaysSuperseded
  <2>5. TrueRefusal(answer[w])'
    BY <2>1, <2>3, <2>4 DEF TrueRefusal, Superseded
  <2> QED BY <2>2, <2>5
<1> QED BY <1>6, <1>7

LEMMA KnowsOther ==
  ASSUME AnswerInv, [Next]_vars, TellsTruly
  PROVE  Knows' /\ Truthful'
PROOF
<1>0. FenceInv /\ TypeOK /\ Knows /\ Truthful
  BY DEF AnswerInv, FenceInv, UpdateInv
<1>1. ASSUME NEW w \in Workers, pc'[w] = "narrate" PROVE Committed(job[w].token)'
  <2>1. pc[w] = "narrate" /\ job'[w].token = job[w].token
    BY <1>1 DEF TellsTruly
  <2>2. Committed(job[w].token) /\ job[w].token.row \in DOMAIN rows
    BY <1>0, <2>1 DEF Knows, FenceInv, TokensBehind, Behind
  <2> QED BY <1>0, <2>1, <2>2, StaysTrue DEF Committed
<1>2. ASSUME NEW w \in Workers, pc'[w] = "failing", job'[w].outcome = "turn"
      PROVE  \E n \in DOMAIN events' : events'[n].key = job'[w].token.key
  <2>1. job'[w].token = job[w].token /\ Played(job[w].token.key)
    BY <1>2 DEF TellsTruly
  <2>2. PICK n \in DOMAIN events : events[n].key = job[w].token.key
    BY <2>1 DEF Played
  <2> QED BY <1>0, <2>1, <2>2, StaysTrue
<1>3. Knows'
  BY <1>1, <1>2 DEF Knows, Played
<1>4. Truthful'
  <2> SUFFICES ASSUME NEW w \in Workers PROVE TrueTurn(answer[w])' /\ TrueRefusal(answer[w])'
    BY DEF Truthful
  <2>1. PICK a : a = answer'[w]
    OBVIOUS
  <2>2. TrueTurn(a) /\ TrueRefusal(a)
    BY <1>0, <2>1 DEF TellsTruly, Truthful
  <2>3. TrueTurn(a)'
    BY <1>0, <2>2, StaysTrue DEF TrueTurn
  <2>4. Superseded(a.key) => Superseded(a.key)'
    BY <1>0, StaysSuperseded
  <2>5. TrueRefusal(a)'
    BY <2>2, <2>4 DEF TrueRefusal
  <2> QED BY <2>1, <2>3, <2>5 DEF TrueTurn, TrueRefusal, Superseded
<1> QED BY <1>3, <1>4

LEMMA AnswerInit == Init => AnswerInv
PROOF
<1> SUFFICES ASSUME Init PROVE AnswerInv
  OBVIOUS
<1>1. FenceInv
  BY FenceInit
<1>2. Retired
  BY DEF Init, Retired, Put, LegacyRow
<1>3. TokenKeys /\ Knows /\ Truthful
  BY DEF Init, TokenKeys, Knows, Truthful, TrueTurn, TrueRefusal, NoAnswer
<1> QED BY <1>1, <1>2, <1>3 DEF AnswerInv

LEMMA AnswerStep == AnswerInv /\ [Next]_vars => AnswerInv'
PROOF
<1> SUFFICES ASSUME AnswerInv, [Next]_vars PROVE AnswerInv'
  OBVIOUS
<1>1. FenceInv'
  BY FenceStep DEF AnswerInv
<1> QED BY <1>1, NamesKept, Truth, KnowsCommit, KnowsOther DEF AnswerInv

LEMMA AnswerAlways == Spec => []AnswerInv
PROOF BY AnswerInit, AnswerStep, PTL DEF Spec

-----------------------------------------------------------------------------
\* A request that is answered with a turn is answered with its own, whether it
\* played it, found it committed, was told by a retry or gave up because its key
\* was played meanwhile.
THEOREM AnswersAreOwn == Spec => []OwnAnswer
PROOF
<1>1. AnswerInv => OwnAnswer
  BY DEF AnswerInv, Truthful, TrueTurn, OwnAnswer
<1> QED BY <1>1, AnswerAlways, PTL

\* A key that was told it is superseded is never played afterwards, so its player
\* may send the action again under another key.
THEOREM RefusalsAreForGood == Spec => []RefusedForGood
PROOF
<1>1. AnswerInv => RefusedForGood
  BY SupersededUnplayed DEF AnswerInv, Truthful, TrueRefusal, RefusedForGood
<1> QED BY <1>1, AnswerAlways, PTL

-----------------------------------------------------------------------------
(* The session is a log of turns.                                           *)

\* Whoever writes has read, and the turns are played without a gap.
HasRead ==
  /\ \A w \in Workers : pc[w] \in {"quiesce", "lockwait", "writing"} => job[w].reads # {}
  /\ \A x \in txn : x.reads # {}
NoGap == \E m \in Nat : DOMAIN events = 1..m

LogInv == FenceInv /\ HasRead /\ NoGap

\* What the log is mapped to.
PlayedTurns ==
  [n \in DOMAIN events |-> [key |-> events[n].key, input |-> events[n].input,
                            reads |-> events[n].reads]]

LEMMA ReadInit == Init => HasRead /\ NoGap
PROOF
<1> SUFFICES ASSUME Init PROVE HasRead /\ NoGap
  OBVIOUS
<1>1. DOMAIN events = {} \/ DOMAIN events = {1}
  BY DEF Init, Put
<1>2. {} = 1..0 /\ {1} = 1..1
  OBVIOUS
<1> QED BY <1>1, <1>2 DEF Init, HasRead, NoGap

\* A worker reads before it comes to write.
LEMMA ReadGiveUp ==
  ASSUME TypeOK, HasRead, NEW w \in Workers, NEW outcome \in Outcomes, GiveUp(w, outcome),
         UNCHANGED txn
  PROVE  HasRead'
PROOF
<1>1. /\ pc' = [pc EXCEPT ![w] = "failing"]
      /\ \A u \in Workers : job'[u].reads = job[u].reads
  BY GiveUpEffect
<1> QED BY <1>1 DEF HasRead, TypeOK

LEMMA ReadFinish ==
  ASSUME TypeOK, HasRead, NEW w \in Workers, NEW kind, NEW n, Finish(w, kind, n), UNCHANGED txn
  PROVE  HasRead'
PROOF
<1>1. pc' = [pc EXCEPT ![w] = "idle"] /\ \A u \in Workers \ {w} : job'[u] = job[u]
  BY FinishEffect
<1> QED BY <1>1 DEF HasRead, TypeOK

LEMMA ReadTurn ==
  ASSUME TypeOK, HasRead, NEW w \in Workers, Turn(w)
  PROVE  HasRead'
PROOF
<1>1. CASE Begin(w)
  BY <1>1 DEF Begin, Goto, HasRead, TypeOK, database
<1>2. CASE Reconstruct(w)
  <2>1. CASE GiveUp(w, "turn") \/ GiveUp(w, "turn_in_progress")
    BY <1>2, <2>1, ReadGiveUp DEF Reconstruct, Outcomes, database
  <2>2. CASE Goto(w, "stages") /\ job' = [job EXCEPT ![w].reads = @ \cup {world}]
    BY <1>2, <2>2 DEF Reconstruct, Goto, HasRead, TypeOK, database
  <2> QED BY <1>2, <2>1, <2>2 DEF Reconstruct
<1>3. CASE RunStages(w)
  <2>1. /\ pc' = [pc EXCEPT ![w] = "quiesce"] /\ txn' = txn
        /\ world \in job'[w].reads
        /\ \A u \in Workers \ {w} : job'[u] = job[u]
    BY <1>3 DEF RunStages, Goto, TypeOK, JobType, database
  <2> QED BY <2>1 DEF HasRead, TypeOK
<1>4. CASE Quiesce(w)
  <2>1. CASE GiveUp(w, "claim_lost") \/ GiveUp(w, "budget_exceeded")
    BY <1>4, <2>1, ReadGiveUp DEF Quiesce, Outcomes, database
  <2>2. CASE Goto(w, "lockwait") /\ UNCHANGED job
    BY <1>4, <2>2 DEF Quiesce, Goto, HasRead, TypeOK, database
  <2> QED BY <1>4, <2>1, <2>2 DEF Quiesce
<1>5. CASE AcquireLock(w)
  <2>1. CASE GiveUp(w, "state_conflict")
    BY <1>5, <2>1, ReadGiveUp DEF AcquireLock, Outcomes
  <2>2. CASE Goto(w, "writing") /\ UNCHANGED job
    BY <1>5, <2>2 DEF AcquireLock, Goto, HasRead, TypeOK
  <2> QED BY <1>5, <2>1, <2>2 DEF AcquireLock
<1>6. CASE WriteAndSwap(w)
  <2>1. CASE \E outcome \in {"failed", "budget_exceeded", "claim_lost"} :
               GiveUp(w, outcome) /\ UNCHANGED txn
    BY <2>1, ReadGiveUp DEF Outcomes
  <2>2. CASE /\ Goto(w, "commit")
             /\ txn' = {[token |-> job[w].token, reads |-> job[w].reads,
                         plan |-> job[w].plan]}
             /\ UNCHANGED job
    BY <1>6, <2>2 DEF WriteAndSwap, Goto, HasRead, TypeOK
  <2> QED BY <1>6, <2>1, <2>2 DEF WriteAndSwap
<1>7. CASE CommitAcknowledged(w)
  BY <1>7 DEF CommitAcknowledged, Durable, Goto, HasRead, TypeOK
<1>8. CASE CommitRaised(w) \/ NarrateRaised(w)
  BY <1>8 DEF CommitRaised, NarrateRaised, Goto, HasRead, TypeOK, database
<1>9. CASE ConfirmReceipt(w)
  BY <1>9, ReadGiveUp, ReadFinish DEF ConfirmReceipt, Outcomes, database
<1>10. CASE Narrate(w)
  BY <1>10, ReadFinish DEF Narrate
<1>11. CASE Raise(w)
  BY <1>11, ReadGiveUp DEF Raise, Outcomes
<1>12. CASE Abort(w)
  BY <1>12, ReadFinish DEF Abort
<1> QED BY <1>1, <1>2, <1>3, <1>4, <1>5, <1>6, <1>7, <1>8, <1>9, <1>10, <1>11, <1>12 DEF Turn

LEMMA ReadStep ==
  ASSUME TypeOK, HasRead, [Next]_vars
  PROVE  HasRead'
PROOF
<1>1. ASSUME UNCHANGED <<pc, job>>, txn' \subseteq txn PROVE HasRead'
  BY <1>1 DEF HasRead
<1>2. ASSUME NEW w \in Workers, Claim(w) PROVE HasRead'
  <2>1. CASE UNCHANGED <<pc, job, txn>>
    BY <1>1, <2>1
  <2>2. CASE \E r, row : Grant(w, r, row)
    BY <2>2 DEF Grant, HasRead, TypeOK
  <2> QED BY <1>2, <2>1, <2>2 DEF Claim, ClaimLockBusy, ClaimRefused, ClaimResumed,
                                  ClaimInserted, ClaimRetried, ClaimTakenOver, database
<1>3. ASSUME NEW w \in Workers, Crash(w) PROVE HasRead'
  BY <1>3 DEF Crash, Goto, HasRead, TypeOK
<1>4. ASSUME NEW w \in Workers, Beat(w) \/ BudgetExpires(w) PROVE HasRead'
  <2>1. UNCHANGED <<pc, job, txn>>
    BY <1>4 DEF Beat, BeatRenew, BeatRejected, BeatError, BeatCommit, BeatCommitFails, BeatBudget,
                BudgetExpires, database
  <2> QED BY <1>1, <2>1
<1>5. CASE ServerDecides \/ AbandonLocks \/ AbandonEnds \/ Tick \/ UNCHANGED vars
  <2>1. UNCHANGED <<pc, job>> /\ txn' \subseteq txn
    BY <1>5 DEF ServerDecides, Durable, RolledBack, AbandonLocks, AbandonEnds, Tick, vars
  <2> QED BY <1>1, <2>1
<1> QED BY <1>2, <1>3, <1>4, <1>5, ReadTurn DEF Next

\* Outside a durable commit the world moves by one at most.
LEMMA WorldStep ==
  ASSUME TypeOK, [Next]_vars
  PROVE  world' \in {world, world + 1}
PROOF
<1>1. ASSUME NEW w \in Workers, Claim(w) PROVE world' = world
  <2>1. \A r, row : Grant(w, r, row) => world' = world
    BY DEF Grant
  <2>2. PICK k \in Keys, i \in Inputs :
          \/ ClaimLockBusy(w, k, i) \/ ClaimRefused(w, k, i) \/ ClaimResumed(w, k, i)
          \/ ClaimInserted(w, k, i) \/ ClaimRetried(w, k, i) \/ ClaimTakenOver(w, k, i)
    BY <1>1 DEF Claim
  <2>3. CASE ClaimLockBusy(w, k, i) \/ ClaimRefused(w, k, i) \/ ClaimResumed(w, k, i)
    BY <2>3 DEF ClaimLockBusy, ClaimRefused, ClaimResumed, database
  <2>4. CASE ClaimInserted(w, k, i) \/ ClaimRetried(w, k, i) \/ ClaimTakenOver(w, k, i)
    BY <2>1, <2>4 DEF ClaimInserted, ClaimRetried, ClaimTakenOver
  <2> QED BY <2>2, <2>3, <2>4
<1>2. ASSUME NEW w \in Workers, Turn(w) PROVE world' \in {world, world + 1}
  BY <1>2 DEF Turn, Begin, Reconstruct, RunStages, Quiesce, AcquireLock, WriteAndSwap,
              CommitAcknowledged, Durable, CommitRaised, ConfirmReceipt, Narrate, NarrateRaised,
              Raise, Abort, database
<1>3. ASSUME NEW w \in Workers, Beat(w) \/ Crash(w) \/ BudgetExpires(w) PROVE world' = world
  BY <1>3 DEF Beat, BeatRenew, BeatRejected, BeatError, BeatCommit, BeatCommitFails, BeatBudget,
              Crash, BudgetExpires, database
<1>4. CASE ServerDecides \/ AbandonLocks \/ AbandonEnds \/ Tick \/ UNCHANGED vars
  BY <1>4 DEF ServerDecides, Durable, RolledBack, AbandonLocks, AbandonEnds, Tick, vars
<1> QED BY <1>1, <1>2, <1>3, <1>4 DEF Next

\* The log has no gap, so that the next turn is the one after its last.
LEMMA NextEntry ==
  ASSUME TypeOK, NEW m \in Nat, DOMAIN events = 1..m
  PROVE  NextTurn = m + 1
PROOF
<1>1. PICK T : T = {0} \cup 1..m
  OBVIOUS
<1>2. T \in SUBSET Nat /\ T # {} /\ m \in T /\ \A s \in T : s <= m
  BY <1>1
<1>3. Max(T) \in T /\ \A s \in T : s <= Max(T)
  BY <1>2, MaxBounded
<1>4. Max(T) = m
  <2>1. PICK top : top = Max(T)
    OBVIOUS
  <2>2. top \in Nat /\ top <= m /\ m <= top
    BY <1>2, <1>3, <2>1
  <2> QED BY <2>1, <2>2
<1>5. T = {0} \cup DOMAIN events
  BY <1>1
<1> QED BY <1>4, <1>5 DEF NextTurn

\* Only a durable commit adds a turn, and it adds the next one.
LEMMA GapStep ==
  ASSUME FenceInv, NoGap, [Next]_vars
  PROVE  NoGap'
PROOF
<1>1. PICK m \in Nat : DOMAIN events = 1..m
  BY DEF NoGap
<1>2. CASE Quiet
  BY <1>1, <1>2 DEF Quiet, SameFacts, NoGap
<1>3. ASSUME NEW w \in Workers, NEW r, NEW row, Granting(w, r, row) PROVE NoGap'
  BY <1>1, <1>3 DEF Granting, Grant, NoGap
<1>4. ASSUME NEW w \in Workers, Swapping(w) \/ Aborting(w) PROVE NoGap'
  BY <1>1, <1>4 DEF Swapping, Aborting, NoGap
<1>5. ASSUME NEW x \in txn, Committing(x) PROVE NoGap'
  <2>1. DOMAIN events' = DOMAIN events \cup {NextTurn}
    BY <1>5, DurableEffect DEF Committing, Put
  <2>2. NextTurn = m + 1
    BY <1>1, NextEntry DEF FenceInv, UpdateInv
  <2>3. (1..m) \cup {m + 1} = 1..(m + 1) /\ m + 1 \in Nat
    OBVIOUS
  <2> QED BY <1>1, <2>1, <2>2, <2>3 DEF NoGap
<1> QED BY <1>2, <1>3, <1>4, <1>5, Kinds

LEMMA LogAlways == Spec => []LogInv
PROOF
<1>1. Init => LogInv
  BY FenceInit, ReadInit DEF LogInv
<1>2. LogInv /\ [Next]_vars => LogInv'
  BY FenceStep, ReadStep, GapStep DEF LogInv, FenceInv, UpdateInv
<1> QED BY <1>1, <1>2, PTL DEF Spec

\* A step that keeps the facts keeps the log.
LEMMA LogStays ==
  ASSUME TypeOK, SameFacts, SameRows
  PROVE  UNCHANGED PlayedTurns
PROOF BY SameFields DEF SameFacts, PlayedTurns

\* Append adds one entry after the others.
LEMMA Appended ==
  ASSUME NEW S, NEW l \in Seq(S), NEW e \in S, NEW m \in Nat, Len(l) = m
  PROVE  Append(l, e) = [n \in 1..(m + 1) |-> IF n = m + 1 THEN e ELSE l[n]]
PROOF
<1>1. /\ Append(l, e) \in Seq(S) /\ Len(Append(l, e)) = m + 1
      /\ \A n \in 1..m : Append(l, e)[n] = l[n]
      /\ Append(l, e)[m + 1] = e
  BY AppendProperties
<1>2. PICK a : a = Append(l, e)
  OBVIOUS
<1>3. a \in [1..(m + 1) -> S]
  BY <1>1, <1>2, LenProperties
<1>4. \A n \in 1..(m + 1) : a[n] = IF n = m + 1 THEN e ELSE l[n]
  <2> SUFFICES ASSUME NEW n \in 1..(m + 1) PROVE a[n] = IF n = m + 1 THEN e ELSE l[n]
    OBVIOUS
  <2>1. n = m + 1 \/ n \in 1..m
    OBVIOUS
  <2> QED BY <1>1, <1>2, <2>1
<1> QED BY <1>2, <1>3, <1>4

\* The turn a durable transaction adds is played in that step, against the state
\* of that moment, and its key was not played before.
LEMMA LogGrows ==
  ASSUME LogInv, NEW x \in txn, Committing(x)
  PROVE  Log!Play(x.token.key, x.token.input) /\ x.token.key \in Keys /\ x.token.input \in Inputs
PROOF
<1> DEFINE Entry(e) == [key |-> e.key, input |-> e.input, reads |-> e.reads]
           log == [n \in DOMAIN events |-> Entry(events[n])]
           t == x.token
           S == [key : Keys, input : Inputs \cup {Null}, reads : SUBSET Nat]
<1>0. TypeOK /\ FenceInv /\ x \in TxnType /\ t \in Tokens
  BY DEF LogInv, FenceInv, UpdateInv, TypeOK, TxnType
<1>1. t.key \in Keys /\ t.input \in Inputs
  BY <1>0 DEF Tokens
<1>2. PICK m \in Nat : DOMAIN events = 1..m
  BY DEF LogInv, NoGap
<1>3. /\ t.row \notin DOMAIN events /\ t.row = m + 1 /\ t.row \in DOMAIN rows
      /\ t.key = rows[t.row].key /\ t.input = rows[t.row].input
      /\ events' = Put(events, t.row,
           [key |-> t.key, input |-> t.input, gen |-> rows[t.row].gen,
            reads |-> x.reads, base |-> world, shown |-> "template"])
  BY <1>0, <1>2, DurableEffect, NextEntry DEF Committing
<1>4. x.reads = {world}
  BY DEF LogInv, FenceInv, UpdateInv, Reading, HasRead
<1>5. \A n \in DOMAIN events : events[n].key # t.key
  BY <1>0, <1>3 DEF FenceInv, EventsHaveRows, KeysUnique
<1>6. \A n \in DOMAIN log : log[n].key # t.key
  BY <1>5
<1>7. log' = Append(log, [key |-> t.key, input |-> t.input, reads |-> {world}])
  <2>1. log \in Seq(S) /\ Len(log) = m
    <3>1. log \in [1..m -> S]
      BY <1>0, <1>2 DEF TypeOK, EventType
    <3>2. log \in Seq(S)
      BY <3>1, SeqDef
    <3>3. DOMAIN log = 1..m /\ Len(log) \in Nat /\ DOMAIN log = 1..Len(log)
      BY <3>1, <3>2, LenProperties
    <3> QED BY <3>2, <3>3
  <2>2. DOMAIN events' = 1..(m + 1)
    BY <1>2, <1>3 DEF Put
  <2>3. \A n \in 1..m : events'[n] = events[n]
    BY <1>2, <1>3 DEF Put
  <2>4. events'[m + 1] = [key |-> t.key, input |-> t.input, gen |-> rows[t.row].gen,
                          reads |-> x.reads, base |-> world, shown |-> "template"]
    BY <1>2, <1>3 DEF Put
  <2>5. log' = [n \in 1..(m + 1) |-> IF n = m + 1
                 THEN [key |-> t.key, input |-> t.input, reads |-> {world}] ELSE log[n]]
    <3>1. log' = [n \in 1..(m + 1) |-> Entry(events'[n])]
      BY <2>2
    <3>2. Entry(events'[m + 1]) = [key |-> t.key, input |-> t.input, reads |-> {world}]
      BY <1>4, <2>4
    <3>3. \A n \in 1..m : Entry(events'[n]) = log[n]
      BY <1>2, <2>3
    <3>4. \A n \in 1..(m + 1) : n = m + 1 \/ n \in 1..m
      OBVIOUS
    <3> HIDE DEF Entry
    <3> QED BY <3>1, <3>2, <3>3, <3>4
  <2>6. [key |-> t.key, input |-> t.input, reads |-> {world}] \in S
    BY <1>0, <1>1 DEF TypeOK
  <2> HIDE DEF log, Entry, S
  <2> QED BY <2>1, <2>5, <2>6, Appended
<1>8. world' \in {world, world + 1}
  BY DEF Committing, Durable
<1> QED BY <1>1, <1>6, <1>7, <1>8 DEF Log!Play

\* The session is a log of turns, for any number of workers, keys and inputs,
\* whatever crashes, expires or is retried: every turn happens in one step,
\* reads the world of that step and is played under a key of its own.  (A session
\* that was migrated with a played turn starts with that turn in its log, which
\* TurnLog does not describe.)
THEOREM TurnsFormALog ==
  ASSUME "played" \notin Legacy
  PROVE  Spec => ImplementsLog
PROOF
<1>1. Init => Log!Init
  <2> SUFFICES ASSUME Init PROVE Log!Init
    OBVIOUS
  <2>1. events = <<>> /\ world = 0
    BY DEF Init
  <2>2. DOMAIN events = {}
    BY <2>1
  <2>3. [n \in DOMAIN events |-> [key |-> events[n].key, input |-> events[n].input,
                                  reads |-> events[n].reads]] = <<>>
    BY <2>2
  <2> QED BY <2>1, <2>3 DEF Log!Init
<1>2. LogInv /\ [Next]_vars => [Log!Next]_<<PlayedTurns, world>>
  <2> SUFFICES ASSUME LogInv, [Next]_vars PROVE [Log!Next]_<<PlayedTurns, world>>
    OBVIOUS
  <2>0. FenceInv /\ TypeOK
    BY DEF LogInv, FenceInv, UpdateInv
  <2>1. ASSUME NEW x \in txn, Committing(x) PROVE Log!Next
    BY <2>1, LogGrows DEF Log!Next
  <2>2. CASE UNCHANGED PlayedTurns
    BY <2>0, <2>2, WorldStep DEF Log!Next, Log!Change, PlayedTurns
  <2>3. CASE Quiet
    BY <2>0, <2>2, <2>3, LogStays DEF Quiet
  <2>4. ASSUME NEW w \in Workers, NEW r, NEW row, Granting(w, r, row) PROVE UNCHANGED PlayedTurns
    BY <2>4 DEF Granting, Grant, PlayedTurns
  <2>5. ASSUME NEW w \in Workers, Swapping(w) \/ Aborting(w) PROVE UNCHANGED PlayedTurns
    BY <2>5 DEF Swapping, Aborting, PlayedTurns
  <2> QED BY <2>0, <2>1, <2>2, <2>3, <2>4, <2>5, Kinds
<1> QED BY <1>1, <1>2, LogAlways, PTL DEF Spec, ImplementsLog, Log!Spec, PlayedTurns
=============================================================================
