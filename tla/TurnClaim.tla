------------------------------ MODULE TurnClaim ------------------------------
(***************************************************************************)
(* The claim-to-commit protocol of one game session.                       *)
(*                                                                         *)
(* Every player request runs execute_turn_service on a server thread, here *)
(* a worker.  It claims the next turn number under the session's advisory  *)
(* lock (create_or_resume_claim), prepares the turn without holding any    *)
(* lock while a heartbeat thread renews the claim's lease (ClaimHeartbeat),*)
(* and commits facts and claim in one transaction that re-takes the lock,  *)
(* revalidates the state fingerprint and compares-and-swaps the full claim *)
(* token (commit_claim).  Narration is finalized after the commit.         *)
(*                                                                         *)
(* Covered: concurrent and retried requests, expiring leases and takeover, *)
(* fencing generations, the heartbeat thread and its own transactions, the *)
(* service budget, an uncertain commit receipt, crashes of a worker at any *)
(* point, the one writer outside the turn path (quest abandonment) and     *)
(* rows that predate claim fingerprints.  PostgreSQL is modelled (advisory *)
(* locks, READ COMMITTED); SQLite is a test backend.                       *)
(*                                                                         *)
(* A short transaction (claim, abort, presentation) holds the lock for its *)
(* whole length and is one step.  The turn's final transaction, a renewal  *)
(* and a quest abandonment hold it across steps, because others meet it.   *)
(***************************************************************************)
EXTENDS Integers, FiniteSetsExt

CONSTANTS Workers,      \* server threads, each executes one request at a time
          Keys,         \* idempotency keys
          Inputs,       \* request fingerprints: the hashed player input
          Null,         \* a column that is NULL
          Lease,        \* lease length, in ticks of the database clock
          MaxFailures,  \* heartbeat failures in a row that are tolerated
          Legacy,       \* shapes of the row that migration 025 may find
          MaxTurns,     \* bound: turns of the session
          MaxGen,       \* bound: fencing generations of one row
          MaxAbandons   \* bound: quest abandonments, counted in the world version

ASSUME ClaimConstants ==
  /\ Lease \in Nat \ {0}
  /\ MaxFailures \in Nat
  /\ MaxTurns \in Nat \ {0}
  /\ MaxGen \in Nat \ {0}
  /\ MaxAbandons \in Nat
  /\ Null \notin Keys \cup Inputs \cup Workers \cup Int
  /\ Legacy \subseteq {"none", "clean", "played", "residue"}

VARIABLES
  rows,     \* turn_transactions, by the turn number a row was inserted for
  events,   \* the player_turn rows of event_logs, by turn number
  residue,  \* turn numbers that carry partial legacy effects
  world,    \* version of the state that compute_state_fingerprint hashes
  lock,     \* holder of the session's transaction-scoped advisory lock
  txn,      \* the final transaction between its claim CAS and its outcome
  pc,       \* where each worker is in execute_turn_service
  job,      \* what each worker carries: token, fingerprint, reads, plan
  beat,     \* each worker's ClaimHeartbeat
  spent,    \* workers whose TurnBudget has expired
  answer    \* the last answer each worker returned to its client

vars == <<rows, events, residue, world, lock, txn, pc, job, beat, spent, answer>>
database == <<rows, events, residue, world, lock, txn>>

-----------------------------------------------------------------------------
Turns == 1..MaxTurns
Tokens == [row : Turns, gen : Nat, key : Keys, input : Inputs, turn : Turns]
NoToken == [row |-> 0, gen |-> 0, key |-> Null, input |-> Null, turn |-> 0]
RowType == [key : Keys, input : Inputs \cup {Null}, turn : Turns, gen : Nat,
            status : {"pending", "committed", "aborted", "expired"},
            lease : (0..Lease) \cup {Null}, hist : SUBSET Keys]
EventType == [key : Keys, input : Inputs \cup {Null}, gen : Nat,
              reads : SUBSET Nat, base : Nat,
              shown : {"template", "finalized"}]

Stages == {"idle", "claimed", "running", "stages", "quiesce", "lockwait",
           "writing", "commit", "doubt", "narrate", "failing"}
Outcomes == {"turn", "claim_lost", "budget_exceeded", "state_conflict",
             "turn_in_progress", "failed"}
Verdicts == {"claim_superseded", "fingerprint_conflict", "legacy_inconsistent",
             "legacy_claim", "claim_expired", "turn_in_progress",
             "recovery_incomplete", "lock_busy", "failed"}

JobType == [token : Tokens \cup {NoToken}, fp : Nat, reads : SUBSET Nat,
            plan : {"action", "clarify"}, outcome : Outcomes]
TxnType == [token : Tokens, reads : SUBSET Nat, plan : {"action", "clarify"}]
BeatType == [state : {"off", "waiting", "renewing"}, stop : BOOLEAN, lost : BOOLEAN,
             fails : 0..MaxFailures, row : 0..MaxTurns, left : 0..Lease]
AnswerType == [kind : Verdicts \cup Outcomes \cup {"none"}, key : Keys \cup {Null},
               input : Inputs \cup {Null}, turn : Nat]
LockType == [by : {"none", "quest", "turn", "beat"}, who : Workers \cup {Null}]

NoJob == [token |-> NoToken, fp |-> 0, reads |-> {}, plan |-> "action",
          outcome |-> "failed"]
NoBeat == [state |-> "off", stop |-> FALSE, lost |-> FALSE, fails |-> 0,
           row |-> 0, left |-> 0]
NoAnswer == [kind |-> "none", key |-> Null, input |-> Null, turn |-> 0]

LockFree == [by |-> "none", who |-> Null]
TurnLock(w) == [by |-> "turn", who |-> w]
BeatLock(w) == [by |-> "beat", who |-> w]
QuestLock == [by |-> "quest", who |-> Null]

Put(f, x, v) == [y \in DOMAIN f \cup {x} |-> IF y = x THEN v ELSE f[y]]

-----------------------------------------------------------------------------
(* What the claim code reads off the database.                             *)

\* A definition named <Definition>_<Bug> is a mutated form of <Definition>:
\* nothing uses it, it is there to show that a property notices the bug.

\* one above the highest number in event_logs: of the other rows in that table, the
\* initial scene has number 0, and no production code writes any above (residue
\* stands for game events and state deltas)
NextTurn_FromClaims == Max({0} \cup DOMAIN rows) + 1
NextTurn == Max({0} \cup DOMAIN events) + 1
NextGen_Kept(r) == rows[r].gen
NextGen(r) == rows[r].gen + 1
Expired_Always(r) == rows[r].lease # Null
Expired(r) == rows[r].lease = 0
HasTurn(r) == rows[r].turn \in DOMAIN events
HasResidue(r) == rows[r].turn \in residue
SameKey(k) == {r \in DOMAIN rows : rows[r].key = k}
AtTurn(n) == {r \in DOMAIN rows : rows[r].turn = n}
Lapsed == {r \in DOMAIN rows : rows[r].status = "pending" /\ Expired(r)}
Active == {r \in DOMAIN rows : rows[r].status = "pending" /\ ~Expired(r)}

\* _adjudicate_history: persisted effects decide before any retry or takeover
Adjudicated(r) == HasTurn(r) \/ HasResidue(r)
Adjudicate(r) == IF HasTurn(r) THEN "resume" ELSE "legacy_inconsistent"

Superseded_OwnHistory(k) == \E r \in DOMAIN rows : k \in rows[r].hist
Superseded(k) ==
  \E r \in DOMAIN rows : rows[r].key # k /\ k \in rows[r].hist

\* create_or_resume_claim for the row that already carries the key
SameKeyVerdict_AnyInput(r, i) ==
  IF Adjudicated(r) THEN Adjudicate(r) ELSE "open"
SameKeyVerdict(r, i) ==
  CASE rows[r].input # Null /\ rows[r].input # i -> "fingerprint_conflict"
    [] rows[r].input \in {Null, i} /\ Adjudicated(r) -> Adjudicate(r)
    [] rows[r].input = Null /\ ~Adjudicated(r) -> "legacy_claim"
    [] rows[r].input = i /\ ~Adjudicated(r) ->
         IF rows[r].status = "committed" THEN "resume" ELSE "open"

\* ... and for the rows of the session, once the key itself decides nothing
LapsedVerdict(r) ==
  CASE Adjudicated(r) -> Adjudicate(r)
    [] ~Adjudicated(r) /\ rows[r].input = Null -> "claim_expired"
    [] ~Adjudicated(r) /\ rows[r].input # Null -> "takeover"

SessionVerdict(k, i) ==
  LET here == AtTurn(NextTurn)
      judged == {r \in here : Adjudicated(r)}
  IN IF judged # {} THEN Adjudicate(CHOOSE r \in judged : TRUE)
     ELSE IF Active # {} THEN "turn_in_progress"
     ELSE IF \E r \in here : rows[r].status = "committed" THEN "legacy_inconsistent"
     ELSE IF Lapsed # {} THEN LapsedVerdict(CHOOSE r \in Lapsed : TRUE)
     ELSE IF SameKey(k) # {}
            THEN IF \E r \in SameKey(k) : rows[r].status = "aborted"
                   THEN "retry" ELSE "turn_in_progress"
     ELSE IF \E r \in here : rows[r].status = "aborted" THEN "takeover"
     ELSE IF here # {} THEN "failed"   \* UNIQUE(session_id, turn_no)
     ELSE "insert"

Verdict(k, i) ==
  IF Superseded(k) THEN "claim_superseded"
  ELSE LET own == {SameKeyVerdict(r, i) : r \in SameKey(k)}
       IN IF own \subseteq {"open"} THEN SessionVerdict(k, i)
          ELSE CHOOSE v \in own : TRUE

\* the row whose turn a resumed request is answered with
ResumeRows(k) ==
  IF SameKey(k) # {} THEN SameKey(k)
  ELSE {r \in AtTurn(NextTurn) \cup Lapsed : Adjudicated(r)}

\* the WHERE clause of every claim CAS: full token, pending ...
Owned_ByRowOnly(t) ==
  t.row \in DOMAIN rows /\ rows[t.row].status = "pending"
Owned_AnyStatus(t) ==
  /\ t.row \in DOMAIN rows
  /\ rows[t.row].key = t.key /\ rows[t.row].gen = t.gen
Owned(t) ==
  /\ t.row \in DOMAIN rows
  /\ rows[t.row].status = "pending"
  /\ rows[t.row].key = t.key /\ rows[t.row].input = t.input
  /\ rows[t.row].turn = t.turn /\ rows[t.row].gen = t.gen
\* ... and lease_expires_at > clock_timestamp(), which NULL never satisfies
Leased(r) == rows[r].lease \in 1..Lease
CanSwap(t) == Owned(t) /\ Leased(t.row)

\* _claim_row_is_committed: by full token as well
Committed(t) ==
  /\ rows[t.row].status = "committed"
  /\ rows[t.row].key = t.key /\ rows[t.row].input = t.input
  /\ rows[t.row].turn = t.turn /\ rows[t.row].gen = t.gen

-----------------------------------------------------------------------------
(* Init: a session whose database is empty or was migrated from revision    *)
(* 024, where a claim row had neither fingerprint nor lease.                *)

LegacyRow(k) == [key |-> k, input |-> Null, turn |-> 1, gen |-> 0,
                 status |-> "pending", lease |-> Null, hist |-> {}]
LegacyEvent(k) == [key |-> k, input |-> Null, gen |-> 0, reads |-> {},
                   base |-> 0, shown |-> "template"]

Init ==
  /\ \E shape \in Legacy, k \in Keys :
       /\ rows = IF shape = "none" THEN <<>> ELSE Put(<<>>, 1, LegacyRow(k))
       /\ events = IF shape = "played" THEN Put(<<>>, 1, LegacyEvent(k)) ELSE <<>>
       /\ residue = IF shape = "residue" THEN {1} ELSE {}
  /\ world = 0
  /\ lock = LockFree
  /\ txn = {}
  /\ pc = [w \in Workers |-> "idle"]
  /\ job = [w \in Workers |-> NoJob]
  /\ beat = [w \in Workers |-> NoBeat]
  /\ spent = {}
  /\ answer = [w \in Workers |-> NoAnswer]

-----------------------------------------------------------------------------
(* create_or_resume_claim and the short transaction around it.              *)

\* a thread that is still shutting down a heartbeat takes no new request
Ready(w) == pc[w] = "idle" /\ beat[w].state = "off"

Reply(w, kind, k, i, t) ==
  answer' = [answer EXCEPT ![w] = [kind |-> kind, key |-> k, input |-> i, turn |-> t]]

\* the advisory lock is tried, never waited for
ClaimLockBusy(w, k, i) ==
  /\ Ready(w)
  /\ lock # LockFree
  /\ Reply(w, "lock_busy", k, i, 0)
  /\ UNCHANGED <<database, pc, job, beat, spent>>

\* a conflict is answered at once; it changes a row only when it retires a
\* lapsed row that has no fingerprint
ClaimRefused(w, k, i) ==
  /\ Ready(w)
  /\ lock = LockFree
  /\ Verdict(k, i) \in Verdicts
  /\ Reply(w, Verdict(k, i), k, i, 0)
  /\ rows' = IF Verdict(k, i) = "claim_expired"
              THEN [r \in DOMAIN rows |->
                     IF r \in Lapsed THEN [rows[r] EXCEPT !.status = "expired"]
                     ELSE rows[r]]
              ELSE rows
  /\ UNCHANGED <<events, residue, world, lock, txn, pc, job, beat, spent>>

\* a committed claim is answered with the stored result and nothing is run
ClaimResumed(w, k, i) ==
  /\ Ready(w)
  /\ lock = LockFree
  /\ Verdict(k, i) = "resume"
  /\ \E r \in ResumeRows(k) :
       LET t == rows[r].turn
       IN Reply(w, IF t \in DOMAIN events THEN "turn" ELSE "recovery_incomplete", k, i, t)
  /\ UNCHANGED <<database, pc, job, beat, spent>>

\* a row is written pending under a fresh lease and its token handed out
Grant(w, r, row) ==
  /\ row.gen <= MaxGen /\ row.turn <= MaxTurns
  /\ rows' = Put(rows, r, row)
  /\ pc' = [pc EXCEPT ![w] = "claimed"]
  /\ job' = [job EXCEPT ![w] =
       [NoJob EXCEPT !.token = [row |-> r, gen |-> row.gen, key |-> row.key,
                                input |-> row.input, turn |-> row.turn]]]
  /\ answer' = [answer EXCEPT ![w] = NoAnswer]
  /\ UNCHANGED <<events, residue, world, lock, txn, beat, spent>>

ClaimInserted(w, k, i) ==
  /\ Ready(w)
  /\ lock = LockFree
  /\ Verdict(k, i) = "insert"
  /\ Grant(w, NextTurn, [key |-> k, input |-> i, turn |-> NextTurn, gen |-> 1,
                         status |-> "pending", lease |-> Lease, hist |-> {}])

\* an aborted claim is retried in place by its own key, on its own turn number
ClaimRetried(w, k, i) ==
  /\ Ready(w)
  /\ lock = LockFree
  /\ Verdict(k, i) = "retry"
  /\ \E r \in SameKey(k) :
       Grant(w, r, [rows[r] EXCEPT !.status = "pending", !.lease = Lease,
                                   !.gen = NextGen(r)])

\* a lapsed claim by any key, an aborted one at this turn by another key: the
\* row is rekeyed under the next generation and its old key goes to the history
ClaimTakenOver(w, k, i) ==
  /\ Ready(w)
  /\ lock = LockFree
  /\ Verdict(k, i) = "takeover"
  /\ \E r \in IF Lapsed # {} THEN Lapsed ELSE AtTurn(NextTurn) :
       /\ SameKey(k) \subseteq {r}   \* UNIQUE(session_id, idempotency_key)
       /\ Grant(w, r, [key |-> k, input |-> i, turn |-> NextTurn,
                       gen |-> NextGen(r), status |-> "pending",
                       lease |-> Lease, hist |-> rows[r].hist \cup {rows[r].key}])

Claim(w) == \E k \in Keys, i \in Inputs :
  \/ ClaimLockBusy(w, k, i)
  \/ ClaimRefused(w, k, i)
  \/ ClaimResumed(w, k, i)
  \/ ClaimInserted(w, k, i)
  \/ ClaimRetried(w, k, i)
  \/ ClaimTakenOver(w, k, i)

-----------------------------------------------------------------------------
(* execute_turn_service from the claim to its final transaction.            *)

Goto(w, stage) == pc' = [pc EXCEPT ![w] = stage]

\* heartbeat.stop(): a thread between renewals ends, one inside a renewal only
\* learns that it must not start another
Stopped(b) == IF b.state = "waiting" THEN [b EXCEPT !.state = "off"]
              ELSE IF b.state = "renewing" THEN [b EXCEPT !.stop = TRUE]
              ELSE b

\* the exception path: stop the heartbeat, roll back, then abort in a step of its own
GiveUp(w, outcome) ==
  /\ Goto(w, "failing")
  /\ job' = [job EXCEPT ![w].outcome = outcome]
  /\ beat' = [beat EXCEPT ![w] = Stopped(@)]

\* preflight, then the heartbeat; a thread that cannot be started counts as lost.
\* The fingerprint is taken after the claim committed, outside its lock.
Begin(w) ==
  /\ pc[w] = "claimed"
  /\ Goto(w, "running")
  /\ job' = [job EXCEPT ![w].fp = world]
  /\ \E started \in BOOLEAN :
       beat' = [beat EXCEPT ![w] =
         [NoBeat EXCEPT !.state = IF started THEN "waiting" ELSE "off",
                        !.lost = ~started]]
  /\ UNCHANGED <<database, spent, answer>>

\* plan and reconstruct state, then allocate_turn: a worker whose key was played
\* meanwhile answers with that turn, one whose number was played gives up
Reconstruct(w) ==
  /\ pc[w] = "running"
  /\ LET t == job[w].token
         played == \E n \in DOMAIN events : events[n].key = t.key
     IN IF played THEN GiveUp(w, "turn")
        ELSE IF NextTurn # t.turn THEN GiveUp(w, "turn_in_progress")
        ELSE /\ Goto(w, "stages")
             /\ job' = [job EXCEPT ![w].reads = @ \cup {world}]
             /\ UNCHANGED beat
  /\ UNCHANGED <<database, spent, answer>>

\* the model stages read the state again, each in a read transaction of its own;
\* an unclear input ends here as a turn without actions
RunStages(w) ==
  /\ pc[w] = "stages"
  /\ Goto(w, "quiesce")
  /\ \E plan \in {"action", "clarify"} :
       job' = [job EXCEPT ![w] = [@ EXCEPT !.reads = job[w].reads \cup {world},
                                           !.plan = plan]]
  /\ UNCHANGED <<database, beat, spent, answer>>

\* heartbeat.stop() must have joined the thread and the claim must not be lost;
\* a thread inside a renewal may outlast the join's timeout
Quiesce(w) ==
  /\ pc[w] = "quiesce"
  /\ IF beat[w].state = "renewing" \/ beat[w].lost THEN GiveUp(w, "claim_lost")
     ELSE IF w \in spent THEN GiveUp(w, "budget_exceeded")
     ELSE /\ Goto(w, "lockwait")
          /\ beat' = [beat EXCEPT ![w] = Stopped(@)]
          /\ UNCHANGED job
  /\ UNCHANGED <<database, spent, answer>>

\* acquire_turn_lock waits; under the lock the fingerprint must still hold
AcquireLock_Unchecked(w) ==
  /\ pc[w] = "lockwait"
  /\ lock = LockFree
  /\ Goto(w, "writing")
  /\ lock' = TurnLock(w)
  /\ UNCHANGED <<rows, events, residue, world, txn, job, beat, spent, answer>>
AcquireLock(w) ==
  /\ pc[w] = "lockwait"
  /\ lock = LockFree
  /\ IF world # job[w].fp
       THEN GiveUp(w, "state_conflict") /\ UNCHANGED lock
       ELSE /\ Goto(w, "writing")
            /\ lock' = TurnLock(w)
            /\ UNCHANGED <<job, beat>>
  /\ UNCHANGED <<rows, events, residue, world, txn, spent, answer>>

\* the planned writes, the last budget gate and the claim CAS, all in one
\* transaction that is not yet durable
WriteAndSwap(w) ==
  /\ pc[w] = "writing"
  /\ LET t == job[w].token
     IN IF t.turn \in DOMAIN events THEN
          GiveUp(w, "failed") /\ lock' = LockFree /\ UNCHANGED txn
        ELSE IF w \in spent THEN
          GiveUp(w, "budget_exceeded") /\ lock' = LockFree /\ UNCHANGED txn
        ELSE IF ~CanSwap(t) THEN
          GiveUp(w, "claim_lost") /\ lock' = LockFree /\ UNCHANGED txn
        ELSE /\ Goto(w, "commit")
             /\ txn' = {[token |-> t, reads |-> job[w].reads, plan |-> job[w].plan]}
             /\ UNCHANGED <<lock, job, beat>>
  /\ UNCHANGED <<rows, events, residue, world, spent, answer>>

\* the final transaction becomes durable: facts, claim and state at once
Durable(x) ==
  /\ rows' = [rows EXCEPT ![x.token.row].status = "committed"]
  /\ events' = Put(events, x.token.turn,
       [key |-> x.token.key, input |-> x.token.input, gen |-> x.token.gen,
        reads |-> x.reads, base |-> world, shown |-> "template"])
  /\ world' = IF x.plan = "action" THEN world + 1 ELSE world
  /\ lock' = LockFree
  /\ txn' = {}
  /\ UNCHANGED residue

RolledBack ==
  /\ lock' = LockFree
  /\ txn' = {}
  /\ UNCHANGED <<rows, events, residue, world>>

CommitAcknowledged(w) ==
  /\ pc[w] = "commit"
  /\ \E x \in txn : Durable(x)
  /\ Goto(w, "narrate")
  /\ UNCHANGED <<job, beat, spent, answer>>

\* db.commit() raised: the receipt is unknown, the server still decides
CommitRaised(w) ==
  /\ pc[w] = "commit"
  /\ Goto(w, "doubt")
  /\ UNCHANGED <<database, job, beat, spent, answer>>

\* the server ends a transaction whose client is gone or gave up on the receipt
ServerDecides ==
  /\ \A w \in Workers : pc[w] # "commit"
  /\ \E x \in txn : Durable(x) \/ RolledBack
  /\ UNCHANGED <<pc, job, beat, spent, answer>>

\* the request returns; a heartbeat thread inside a renewal outlives it
Finish(w, kind, turn) ==
  /\ Goto(w, "idle")
  /\ job' = [job EXCEPT ![w] = NoJob]
  /\ beat' = [beat EXCEPT ![w] =
       IF @.state = "renewing" THEN [@ EXCEPT !.stop = TRUE] ELSE NoBeat]
  /\ spent' = spent \ {w}
  /\ Reply(w, kind, job[w].token.key, job[w].token.input, turn)

\* the claim row is re-read; a read error counts as not committed.  The event of a
\* row that this service committed is there and complete, so the error for one that
\* is not (TurnRecoveryIncompleteError) cannot be answered here.
ConfirmReceipt(w) ==
  /\ pc[w] = "doubt"
  /\ \/ /\ Committed(job[w].token)
        /\ Finish(w, "turn", job[w].token.turn)
     \/ GiveUp(w, "failed") /\ UNCHANGED <<spent, answer>>
  /\ UNCHANGED database

\* _finalize_turn_presentation: template to finalized, by the committing generation;
\* without usable narration, or when the CAS fails, the template stays
Narrate(w) ==
  /\ pc[w] = "narrate"
  /\ LET t == job[w].token
         mayFinalize == /\ rows[t.row].status = "committed"
                        /\ rows[t.row].gen = t.gen /\ rows[t.row].turn = t.turn
                        /\ events[t.turn].gen = t.gen
                        /\ events[t.turn].shown = "template"
     IN /\ \/ mayFinalize /\ events' = [events EXCEPT ![t.turn].shown = "finalized"]
           \/ UNCHANGED events
        /\ Finish(w, "turn", t.turn)
  /\ UNCHANGED <<rows, residue, world, lock, txn>>

\* an exception after the commit takes the receipt path as well
NarrateRaised(w) ==
  /\ pc[w] = "narrate"
  /\ Goto(w, "doubt")
  /\ UNCHANGED <<database, job, beat, spent, answer>>

\* any exception of the execution body before the commit was attempted
Raise_KeepsLock(w) ==
  /\ pc[w] \in {"claimed", "running", "stages", "quiesce", "lockwait", "writing"}
  /\ GiveUp(w, "failed")
  /\ UNCHANGED <<database, spent, answer>>
Raise(w) ==
  /\ pc[w] \in {"claimed", "running", "stages", "quiesce", "lockwait", "writing"}
  /\ GiveUp(w, "failed")
  /\ lock' = IF pc[w] = "writing" THEN LockFree ELSE lock
  /\ UNCHANGED <<rows, events, residue, world, txn, spent, answer>>

\* abort_claim in its own transaction: the lock is tried, the CAS needs a live
\* lease, and every failure of it is swallowed
Abort(w) ==
  /\ pc[w] = "failing"
  /\ LET t == job[w].token
         own == {n \in DOMAIN events : events[n].key = t.key}
     IN /\ \/ /\ lock = LockFree /\ CanSwap(t)
              /\ rows' = [rows EXCEPT ![t.row].status = "aborted", ![t.row].lease = 0]
           \/ UNCHANGED rows
        /\ Finish(w, job[w].outcome,
                  IF job[w].outcome = "turn" THEN Max({0} \cup own) ELSE 0)
  /\ UNCHANGED <<events, residue, world, lock, txn>>

\* the process dies: its threads end and its open transactions roll back, except
\* one whose COMMIT was on its way, which the server decides
Crash(w) ==
  /\ pc[w] # "idle" \/ beat[w].state # "off"
  /\ Goto(w, "idle")
  /\ job' = [job EXCEPT ![w] = NoJob]
  /\ beat' = [beat EXCEPT ![w] = NoBeat]
  /\ spent' = spent \ {w}
  /\ lock' = IF lock = BeatLock(w) \/ pc[w] = "writing" THEN LockFree ELSE lock
  /\ UNCHANGED <<rows, events, residue, world, txn, answer>>

BudgetExpires(w) ==
  /\ pc[w] # "idle"
  /\ w \notin spent
  /\ spent' = spent \cup {w}
  /\ UNCHANGED <<database, pc, job, beat, answer>>

-----------------------------------------------------------------------------
(* ClaimHeartbeat: the thread that renews the lease from its own session.   *)

\* the loop reads the budget before every renewal
OutOfBudget_Ignored(w) == FALSE
OutOfBudget(w) == w \in spent

\* heartbeat_claim under the tried lock; the new lease is in the row only once
\* the renewal's own transaction commits
BeatRenew(w) ==
  /\ beat[w].state = "waiting"
  /\ ~OutOfBudget(w)
  /\ lock = LockFree
  /\ CanSwap(job[w].token)
  /\ lock' = BeatLock(w)
  /\ beat' = [beat EXCEPT ![w] = [@ EXCEPT !.state = "renewing",
                                           !.row = job[w].token.row, !.left = Lease]]
  /\ UNCHANGED <<rows, events, residue, world, txn, pc, job, spent, answer>>

\* ClaimRejected: fenced, taken over, committed or lapsed
BeatRejected(w) ==
  /\ beat[w].state = "waiting"
  /\ ~OutOfBudget(w)
  /\ lock = LockFree
  /\ ~CanSwap(job[w].token)
  /\ beat' = [beat EXCEPT ![w].state = "off", ![w].lost = TRUE]
  /\ UNCHANGED <<database, pc, job, spent, answer>>

\* the thread after a renewal ended, well or not; the mutated form looks at the
\* limit before it counts
AfterRenewal_LooksFirst(b, failed) ==
  LET fails == IF failed THEN b.fails + 1 ELSE 0
      lost == b.lost \/ (failed /\ b.fails > MaxFailures)
  IN IF b.stop THEN NoBeat
     ELSE [b EXCEPT !.state = IF lost THEN "off" ELSE "waiting", !.lost = lost,
                    !.fails = IF lost THEN 0 ELSE fails, !.row = 0, !.left = 0]
AfterRenewal(b, failed) ==
  LET fails == IF failed THEN b.fails + 1 ELSE 0
      lost == b.lost \/ fails > MaxFailures
  IN IF b.stop THEN NoBeat
     ELSE [b EXCEPT !.state = IF lost THEN "off" ELSE "waiting", !.lost = lost,
                    !.fails = IF lost THEN 0 ELSE fails, !.row = 0, !.left = 0]

\* any other exception, the busy lock included, is counted
BeatError(w) ==
  /\ beat[w].state = "waiting"
  /\ ~OutOfBudget(w)
  /\ beat' = [beat EXCEPT ![w] = AfterRenewal(@, TRUE)]
  /\ UNCHANGED <<database, pc, job, spent, answer>>

BeatCommit(w) ==
  /\ beat[w].state = "renewing"
  /\ rows' = [rows EXCEPT ![beat[w].row].lease = beat[w].left]
  /\ lock' = LockFree
  /\ beat' = [beat EXCEPT ![w] = AfterRenewal(@, FALSE)]
  /\ UNCHANGED <<events, residue, world, txn, pc, job, spent, answer>>

BeatCommitFails(w) ==
  /\ beat[w].state = "renewing"
  /\ lock' = LockFree
  /\ beat' = [beat EXCEPT ![w] = AfterRenewal(@, TRUE)]
  /\ UNCHANGED <<rows, events, residue, world, txn, pc, job, spent, answer>>

\* an expired budget ends the renewals without declaring the claim lost
BeatBudget(w) ==
  /\ beat[w].state = "waiting"
  /\ OutOfBudget(w)
  /\ beat' = [beat EXCEPT ![w].state = "off"]
  /\ UNCHANGED <<database, pc, job, spent, answer>>

-----------------------------------------------------------------------------
(* abandon_quest, the writer outside the turn path, and the database clock. *)

AbandonLocks ==
  /\ lock = LockFree
  /\ world < MaxAbandons
  /\ lock' = QuestLock
  /\ UNCHANGED <<rows, events, residue, world, txn, pc, job, beat, spent, answer>>

\* the quest is read and checked under the lock: a refusal writes nothing
AbandonEnds ==
  /\ lock = QuestLock
  /\ lock' = LockFree
  /\ world' \in {world, world + 1}
  /\ UNCHANGED <<rows, events, residue, txn, pc, job, beat, spent, answer>>

\* the row stores lease_expires_at; what is counted here is the time that is left
Down(n) == IF n \in 1..Lease THEN n - 1 ELSE n

Tick ==
  /\ \/ \E r \in DOMAIN rows : Leased(r)
     \/ \E w \in Workers : beat[w].left > 0
  /\ rows' = [r \in DOMAIN rows |-> [rows[r] EXCEPT !.lease = Down(@)]]
  /\ beat' = [w \in Workers |-> [beat[w] EXCEPT !.left = Down(@)]]
  /\ UNCHANGED <<events, residue, world, lock, txn, pc, job, spent, answer>>

-----------------------------------------------------------------------------
Turn(w) ==
  \/ Begin(w) \/ Reconstruct(w) \/ RunStages(w) \/ Quiesce(w) \/ AcquireLock(w)
  \/ WriteAndSwap(w) \/ CommitAcknowledged(w) \/ CommitRaised(w)
  \/ ConfirmReceipt(w) \/ Narrate(w) \/ NarrateRaised(w) \/ Raise(w) \/ Abort(w)

Beat(w) ==
  \/ BeatRenew(w) \/ BeatRejected(w) \/ BeatError(w) \/ BeatCommit(w)
  \/ BeatCommitFails(w) \/ BeatBudget(w)

Next ==
  \/ \E w \in Workers : Claim(w) \/ Turn(w) \/ Beat(w) \/ Crash(w) \/ BudgetExpires(w)
  \/ ServerDecides \/ AbandonLocks \/ AbandonEnds \/ Tick

Spec == Init /\ [][Next]_vars

\* The steps a live process and a live server take in the end.  RunStages and
\* Narrate are left out: the timeout of a model call cancels no provider that
\* blocks.  Raise, Crash and Claim are not owed by anyone.  PostgreSQL grants an advisory lock
\* in the order of the waiters and a tried lock never jumps a waiter, so a
\* waiter for a lock that is released again and again obtains it: strong
\* fairness.  The clock runs and a budget is a deadline on it.
Fairness ==
  /\ \A w \in Workers :
       /\ WF_vars(Begin(w)) /\ WF_vars(Reconstruct(w)) /\ WF_vars(Quiesce(w))
       /\ SF_vars(AcquireLock(w))
       /\ WF_vars(WriteAndSwap(w)) /\ WF_vars(CommitAcknowledged(w) \/ CommitRaised(w))
       /\ WF_vars(ConfirmReceipt(w)) /\ WF_vars(Abort(w))
       /\ WF_vars(Beat(w)) /\ WF_vars(BudgetExpires(w))
  /\ WF_vars(ServerDecides) /\ WF_vars(AbandonEnds) /\ WF_vars(Tick)

LiveSpec == Spec /\ Fairness

-----------------------------------------------------------------------------
(* Safety.                                                                  *)

\* Every variable keeps its type; a lease is never negative and never longer
\* than LEASE_SECONDS, a heartbeat never counts more failures than it tolerates.
TypeOK ==
  /\ DOMAIN rows \subseteq Turns
  /\ \A r \in DOMAIN rows : rows[r] \in RowType
  /\ DOMAIN events \subseteq Turns
  /\ \A n \in DOMAIN events : events[n] \in EventType
  /\ residue \subseteq Turns
  /\ world \in Nat
  /\ lock \in LockType
  /\ txn \in SUBSET TxnType
  /\ pc \in [Workers -> Stages]
  /\ job \in [Workers -> JobType]
  /\ beat \in [Workers -> BeatType]
  /\ spent \subseteq Workers
  /\ answer \in [Workers -> AnswerType]

\* The fencing token is unique: two requests in execution never carry the same
\* row under the same generation, whichever way each of them got its claim
\* (inserted, retried or taken over) and however stale one of them is.
SoleOwner ==
  \A v, w \in Workers :
    (v # w /\ pc[v] # "idle" /\ pc[w] # "idle"
       /\ job[v].token.row = job[w].token.row) => job[v].token.gen # job[w].token.gen

\* Facts and receipt are one: a claim row reads committed exactly when its turn
\* has its player_turn event, and that event was written by the request and the
\* generation the row names; no worker that was fenced off slips its facts in,
\* and no abort hides facts that are durable.
FactsMatchReceipt ==
  \A r \in DOMAIN rows : rows[r].input # Null =>
    LET n == rows[r].turn
    IN /\ rows[r].status = "committed" <=> n \in DOMAIN events
       /\ n \in DOMAIN events =>
            /\ events[n].key = rows[r].key
            /\ events[n].input = rows[r].input
            /\ events[n].gen = rows[r].gen

\* A committed turn read no other state than the one its writes are applied to,
\* although it read it without a lock, in several transactions, before the model
\* calls: the fingerprint taken at the claim and compared under the lock sees
\* every change in between.
NoLostUpdate ==
  \A n \in DOMAIN events : events[n].reads \subseteq {events[n].base}

\* A request that is answered with a turn is answered with its own: the one its
\* key played with its input (or a legacy turn, which has no fingerprint).
OwnAnswer ==
  \A w \in Workers : answer[w].kind = "turn" =>
    /\ answer[w].turn \in DOMAIN events
    /\ events[answer[w].turn].key = answer[w].key
    /\ events[answer[w].turn].input \in {answer[w].input, Null}

\* A key that was told it is superseded is never played afterwards: the client
\* may send the action again under a new key without playing it twice.
RefusedForGood ==
  \A w \in Workers : answer[w].kind = "claim_superseded" =>
    \A n \in DOMAIN events : events[n].key # answer[w].key

-----------------------------------------------------------------------------
(* What a step may never do.                                                *)

\* A player_turn event is never removed or rewritten, except once by its
\* narration, and a committed claim row never leaves that status or changes hands.
CommittedIsFinal ==
  [][/\ \A n \in DOMAIN events :
          n \in DOMAIN events' /\ events'[n] \in {events[n], [events[n] EXCEPT !.shown = "finalized"]}
     /\ \A r \in DOMAIN rows : rows[r].status = "committed" =>
          rows'[r] = [rows[r] EXCEPT !.lease = rows'[r].lease]]_vars

\* A pending claim ends only through the request that holds its generation, as
\* its durable transaction or as its own abort, and it changes hands only after
\* it was aborted or its lease ran out, by one generation, with its old key
\* remembered if another key takes it.
HandOver ==
  [][\A r \in DOMAIN rows :
       LET old == rows[r]
           new == rows'[r]
       IN /\ (old.status = "pending" /\ new.status = "committed") =>
               \E x \in txn : x.token.row = r /\ x.token.gen = old.gen /\ new.gen = old.gen
          /\ (old.status = "pending" /\ new.status = "aborted") =>
               \E w \in Workers : /\ pc[w] = "failing" /\ job[w].token.row = r
                                  /\ job[w].token.gen = old.gen /\ new.gen = old.gen
          /\ (new.gen # old.gen \/ new.key # old.key) =>
               /\ old.lease = 0 /\ old.status \in {"pending", "aborted"}
               /\ new.gen = old.gen + 1
               /\ new.key # old.key => old.key \in new.hist]_vars

\* The whole protocol looks like TurnLog: turns that happen one at a time, each
\* in one step, against the state of that moment, each key at most once.
Log == INSTANCE TurnLog WITH
  log <- [n \in DOMAIN events |-> [key |-> events[n].key, input |-> events[n].input,
                                   reads |-> events[n].reads]]
ImplementsLog == Log!Spec

-----------------------------------------------------------------------------
(* What must happen in the end.                                             *)

\* No claim blocks the session for ever: a pending row under a live lease is
\* released again and again, also when its worker died or hangs in a model call,
\* because the heartbeat of a hanging turn stops at its budget.
ClaimsEnd == \A r \in Turns : []<>(r \in DOMAIN rows => rows[r].status # "pending" \/ Expired(r))

\* A request that is not inside a model call reaches its next model call or its
\* answer: nobody waits for the session lock for ever.
RequestsEnd ==
  \A w \in Workers : pc[w] \notin {"idle", "stages", "narrate"} ~>
                     pc[w] \in {"idle", "stages", "narrate"}

-----------------------------------------------------------------------------
(* What the repository says of the program and the code does not do.        *)

\* Documented: a historical pending claim without event and without residue is
\* adjudicated expired, so it does not keep other keys out as an active claim.
CleanLegacyIsExpired ==
  ~ \E w \in Workers, r \in DOMAIN rows :
      /\ answer[w].kind = "turn_in_progress" /\ answer[w].key # rows[r].key
      /\ rows[r].status = "pending" /\ rows[r].input = Null
      /\ ~Adjudicated(r)
      /\ \A v \in Workers : pc[v] = "idle"

\* Documented: a request that exceeded its budget can be retried later with the
\* same idempotency key.
BudgetKeyStaysUsable ==
  ~ \E v, w \in Workers :
      /\ answer[v].kind = "budget_exceeded" /\ answer[w].kind = "claim_superseded"
      /\ answer[v].key = answer[w].key
=============================================================================
