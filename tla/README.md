# A verification project for llm_rpg_engine

TLA+ models of the parts of `backend/llm_rpg` whose correctness depends on the
order in which things happen, model-checked with TLC and, where it matters most,
proved with TLAPS. Paths below are relative to `src/backend/llm_rpg/` unless they
start with `src/`.

## 1. Inventory

The engine runs text role-playing sessions. A player sends an action; the backend
claims a turn number, computes the turn with rules and model calls, commits facts
and state in PostgreSQL, and narrates the result. Media assets are generated by
workers from a job table. Content packs are published in versions and bound to
playthrough instances.

| Component | State it keeps | Operations | Hard because | Correct when |
|---|---|---|---|---|
| Turn claims (`core/turn_claim.py`, `turn_concurrency.py`, `turn_allocation.py`) | `turn_transactions`: key, input fingerprint, turn number, generation, lease, status, attempt history; the session's advisory lock | claim or resume, retry, takeover, renew, commit, abort | requests race, retry and time out; a lease can lapse under a live worker | one turn per key, one owner per generation, facts and receipt agree |
| Heartbeat and budget (`core/turn_claim_runtime.py`) | stop and lost flags, failure count, a deadline | start, renew, stop with a bounded join | a renewal may outlive its stop; a hanging model call must not hold the session | claims are released in the end |
| Turn execution (`core/turn_service.py`, `turn_unit_of_work.py`, `turn_preparation.py`) | the write buffer, the session state of the story (quests, NPCs, locations, time) | preflight, plan, reconstruct, stages, final transaction, narration, recovery of an uncertain receipt | state is read minutes before it is written; no lock in between | no turn overwrites state it has not seen |
| Quest abandonment (`api/player_quests.py`) | quest state | abandon | writes between a turn's reads and its commit | serialized with the turn's final section |
| Turn API, SSE (`api/game.py`, `api/streaming.py`) | progress queue, thread result | stream progress, heartbeat, time out | the turn outlives the stream; what does not fit the queue is dropped | the client learns the outcome or can ask again |
| Turn submission in the page (`src/frontend/hooks/useTurnStream.tsx`, `lib/api.ts`) | the key of the last submission, what is shown | submit, read the stream, fall back to the plain endpoint, give up | every await may return after a later submission | a turn shown as done was played, once, and stays shown |
| Asset jobs (`assets/`, `services/asset_*`, `scripts/asset_worker.py`) | `asset_generation_jobs`, `assets` | submit, claim with lease, heartbeat, recover, complete, retry, cancel | workers crash and overrun their leases | a job is done once and ends |
| Time simulation (`core/world_advancer.py`, `action_scheduler.py`, `time_simulation*.py`) | the run state with its clock and fact cursor, `scheduled_events`, NPC and inventory rows | load, take the steps that are due, interrupt, apply | handlers derive steps of the tick at hand, an action is cut short, a turn fails half way | nothing due is lost or taken twice, facts are in order, the next turn can load |
| Content rules (`core/content_rules.py`, `content_runtime.py`) | flags, route overrides, marks of rules that fired, current plans of NPCs | fire rules, apply effects, choose and end plans, schedules, items | plans are given up while their arrival is pending, effects fail in a group, marks go through JSON | a rule of policy `once` fires once, effects together, a plan has one end |
| Content publishing and binding (`core/content_publish_service.py`, `content/`) | package versions, bindings | validate, publish, bind, resolve | a version may change while it is used | what a session is bound to never changes |
| Instances, sessions, snapshots (`core/playthrough_instance_service.py`, `session_initialization.py`, `instance_snapshot_service.py`) | instances, session state, snapshots | create, initialize, snapshot, apply | initialization is repeated; a restore rewinds what turns read | idempotent, consistent |
| Action authorization and resolution, quest progression, state deltas, combat | rows of the story, inside one transaction | pure decisions and step machines | many cases | every result is allowed by the rules |
| LLM pipeline, replay and audit, observability, legacy orchestrator, administration | audit rows, caches | call models, repair, record, show | failures of providers | nothing a turn decides depends on them |

How they interact: the page posts an action to the API, which starts a server thread per
request; that calls `execute_turn_service` with its own database session, and starts a
heartbeat thread with another session. The turn loads the world's rows, simulates the
time of the action in memory and writes everything in its final transaction. Threads
share nothing but the database and, per request, the heartbeat's flags and the progress
queue of a stream, which is filled by callbacks on the event loop. The database gives READ COMMITTED reads, row updates and
transaction-scoped advisory locks.

Every component is listed in `PROJECT.json` with its status; the hazards, at their
lines, are listed there too, each with the properties that watch it.

## 2. Plan

1. `TurnClaim`, `TurnLog` (done): claim to commit, the core of the system.
   Proofs in `TurnClaimProofs`, `TurnFencingProofs`, `TurnAnswerProofs`.
2. `AssetJobs` (done): the job table, its workers and the requests that change jobs.
   Proofs in `AssetJobsProofs`. Still to state: an abstract specification of a job's life
   that it implements.
3. `TurnStream`, `TurnPromise` (done): the page's hook, the SSE bridge and the plain
   endpoint around an abstract turn. Proofs in `TurnStreamProofs`.
4. `WorldAdvance` over `WorldSteps`, `TrialRules` and `ContentRules`, with `WorldAgenda`
   as what it promises (done): due steps, interruption and storage of a time advance,
   for both rule sets. Proofs in `WorldEffectsProofs` and `WorldAgendaProofs`.
5. `ContentPublish`, with `ContentCatalog` as what it promises (done): publication,
   drafts, edits, and the binding of playthroughs. Proofs in `ContentPublishProofs`. Left:
   initialization that is repeated.
6. `QuestSteps`: quest progression and its validator.

Every invariant, action property and refinement that a passing run checks is proved as a
theorem; only the liveness properties are left to TLC (section 5).

## 3. Modules

### TurnClaim and the code

One game session, a set of server threads (`Workers`) and the database.

| State | Code |
|---|---|
| `rows` | `turn_transactions` of the session; the row inserted for turn *n* is `rows[n]`; `gen` is `fencing_generation`, `hist` the keys in `attempt_history_json`, `lease` the time left until `lease_expires_at` (`Null` for a NULL column, 0 when it is past) |
| `events` | the `player_turn` rows of `event_logs`; `shown` is `presentation_status`. `reads` and `base` are history: the versions of the state the turn read, and the one its writes were applied to |
| `residue` | turn numbers with other effects, as `_adjudicate_history` looks for them |
| `world` | a version number for everything `compute_state_fingerprint` hashes |
| `lock` | holder of `pg_advisory_xact_lock` for the session |
| `txn` | the final transaction between its claim CAS and its outcome; the client and the server may disagree about it |
| `pc`, `job`, `beat`, `spent`, `answer` | a thread's position in `execute_turn_service`, its locals, its `ClaimHeartbeat`, whether its `TurnBudget` expired, and what it answered last |

A short transaction that holds the lock from its first statement to its commit is one
step: `ClaimInserted`, `ClaimRetried`, `ClaimTakenOver`, `ClaimResumed`, `ClaimRefused`
(all of `create_or_resume_claim`, whose decision is `Verdict`), `Abort`, `Narrate`. Where
others can meet a transaction in progress it is several steps: the final transaction
(`AcquireLock`, `WriteAndSwap`, then `CommitAcknowledged`, or `CommitRaised` with
`ServerDecides` and `ConfirmReceipt`), a renewal (`BeatRenew`, then `BeatCommit` or
`BeatCommitFails`) and a quest abandonment. `Crash` ends a process anywhere. The
clarification turn (`_commit_clarification_turn`) follows the same steps with the plan
`clarify`, which leaves the world alone.

What the model stages compute is abstracted to the one thing the properties tell apart:
which version of the state was read, and when. `RunStages` stands for all of it.
A fingerprint stands for the version it was taken of; a fingerprint whose several
queries straddle a commit equals no version, which leads to `state_conflict`, an outcome
the model has.

### TurnLog

What the session promises: a log of turns that happen one at a time, each in one step,
against the state of that moment, each key at most once. `TurnClaim` implements it under
the mapping `log <- events` without what a player never sees.

### AssetJobs and the code

The table `asset_generation_jobs`, the worker processes of `scripts/asset_worker.py`
that run `AssetJobRunner.run_next_job` over it, and the requests of the API.

| State | Code |
|---|---|
| `jobs` | the rows, numbered by `created_at`, with the columns that decide something: `status`, `cache_key`, `lease_owner`, `lease_expires_at` (none, live or lapsed), `attempt_count`, `asset_id` |
| `assets` | the row of `assets` that holds a cache key (the column is unique); a row that `generate_asset` inserted has the id `"own"`, standing for its fresh UUID |
| `pc`, `at`, `stale`, `result` | a worker's position in `run_next_job` and its locals |
| `view` | the job's row as the worker's database session has cached it |
| `req` | a request: its position, its job, its key and the row its session has cached |
| `faults`, `taken` | how many crashes, errors and lapses happened; history: the jobs that a write took from a worker that was still at them |

What makes this component hard is the object-relational mapper. A repository method reads
the row into the session, sets attributes and commits; the UPDATE names the primary key
and the columns whose value differs from the *cached* one, and nothing else. `Save` is
that update, so rows written by two sessions mix column by column. A commit expires the
cached row (`Commit` makes `view` blank) and the refresh that follows is a step of its own
(`Refresh`, `Reread`). Only the claim (`Grab`) has a guard in its UPDATE. Every method is
one step between its read and its commit; `recover_stale_jobs`, the claim, `cancel_job`
and `retry_job` read and write in two, because others can commit in between.

An error of the database leaves the session unusable: nobody calls `rollback`, so every
later call of the process raises, and `run_loop_mode` logs it and goes on (`Wedge`). An
asset that conflicts with a stored one (`InsertConflicts`) does the same. `Restart` is
the end of a process and the start of another one. A lease may lapse under a running
worker (`Lapse`, at most `MaxLapses` times): its heartbeat is then stalled, or has ended
with an exception.

### TurnStream and the code

A player's submissions from the page to the server and back: the hook `useTurnStream`,
the coroutine `execute_turn_stream` with the thread it starts, and the plain endpoint.

| State | Code |
|---|---|
| `current`, `hook`, `shown` | `pendingKeyRef`; by key, where that call of `submitTurn` is; what the page shows. A key is the number of its submission |
| `link`, `wire`, `faults` | the connection of a stream, the events in it that the hook has yet to read, how many connections broke |
| `stream` | the coroutine: its place, the time left to the hard deadline and to the next heartbeat, the progress queue, and how many stages the thread has reported |
| `said` | history: the events a stream has yielded |
| `at`, `out`, `claim` | each call of `execute_turn_service`, what it returned or raised, and the claim of its key |

The thread touches the loop only through `call_soon_threadsafe`, so an `Emit` or the
sentinel is one step that puts into the queue or drops. The loop waits at most to the next
heartbeat and never beyond the deadline (`Loop`, `Beat`, `Timeout`, `Take`); after its end
it looks at what the thread has left (`Tell`). Every await of the hook is a step of its
own, and what it does afterwards depends on whether a later submission has replaced the
key (`Superseded`). Closing a connection cancels the coroutine, which is part of the same
step: what it yields in between reaches nobody. The thread goes on. A request whose
connection broke early may still be opened.

The turn itself is the abstraction of `TurnClaim` that a stream can tell apart: one claim
per key, `ClaimRefused`, `Replayed`, `Claimed`, then `Commit` or `Fail`, and `Finish`,
which after a commit may still raise. Leases and crashes are `TurnClaim`'s, and so is a
swallowed failure of `abort_claim`.
Events that only refresh the display (`turn_started`, stages, heartbeats) are left out,
and the response buffer never blocks: a turn's events are small.

The model shows what the endpoint leaves to the player. After `turn_error` with
`turn_timeout` the stream may go on with `event_committed` and `turn_completed`
(`api/streaming.py:430` to 442): the hook has stopped reading. A player who is told of a
failure after a deadline or a broken connection submits again under a fresh key, while the
first turn may commit: the promise is one turn per submission, not one per wish. The
`turn_index` of `turn_started` is read before the claim and may be another one.

### TurnPromise

What the page promises: a turn is shown as done only if it was played, only for the last
submission, it stays shown until the next one, and no submission is played twice. `TurnStream`
implements it with `played` the committed claims.

### WorldAdvance, its rules, and the code

The world of one session and the turns that advance it. `WorldSteps` has the vocabulary
(steps, their order, plans, the working state), `TrialRules` the rule set of the trial
world (`core/time_simulation_rules.py`), `ContentRules` that of content packs
(`core/content_rules.py`), and `WorldAdvance` the kernel (`core/world_advancer.py`) with
loading and writing (`core/time_simulation_persistence.py`, `core/content_runtime.py`).

| State | Code |
|---|---|
| `profile` | which rule set `ruleset_json` of the world names |
| `tick`, `cursor`, `keys` | `logical_tick`, `next_event_seq`, `pending_steps` of the run state |
| `world` | what the rows say of player, NPCs, their plans, the item, flags, routes and marks of rules |
| `rows` | `scheduled_events`: a step and its status |
| `facts` | the engine's `game_events`, in order |
| `closed`, `toggles` | places of the trial world that administration closed, and how often it changed one |
| `act`, `work`, `queue`, `later`, `known`, `done`, `news`, `cut` | a running turn: the action, `SimulationState`, the queue up to the action's end and the steps beyond it, the keys seen, the outcomes, the facts, the tick of an interruption |

`BeginTurn` is the loading with all its checks (`Readable`), `RunStep` one turn of the
kernel's loop with the whole handler of the step, `Commit` the writing, `Abandon` any
failure before it: a stage that fails, a crash, a handler that raises, a budget. A step is
identified by its key; `Due` is the order of `order_key`. A handler is an operator from the
working state to an effect: the new state, the facts, the derived steps, a status. The
effects of a rule are folded over a copy that is thrown away as a whole when one of them
fails (`Group`). The rules, schedules and goals of a pack are constants.

What the rows do not say is gone at the next turn (`ReadBack`): the counts of choices, and
the goal an NPC has without a plan. The completion of the player's action never gets a row
(`Kept`). In the trial world a route is open when the access rules of the place it leads to
say so, and administration may change those at any time (`Toggle`); on SQLite, which has no
final fingerprint check, even during a turn, and the model allows that. An action may lead to any place: its admission
looks at the place, not at the way. Where the reading surprises, the model follows the
code: a recipe takes only its first step, an item may be put down where it lies by an
actor elsewhere (`content_rules.py:752` to 762), an NPC never dies.

Turns of a session follow one another, which is `TurnClaim`'s result. A clarification turn
writes a log row and nothing of the world. A session starts with the rows that the first
turn's baseline plan or the instance factory writes.

### WorldAgenda

What the simulation promises: the clock only moves forward, it never stops beyond an
appointment that is still open, what is settled was due and stays settled, and nothing is
lost. `WorldAdvance` implements it under `now <- tick`, `open <- Pending`,
`settled <- Settled`.

### ContentPublish and the code

Requests that publish, draft, edit and start to play versions of story packages
(`core/content_publish_service.py`, `core/story_package_service.py`, `api/admin.py`,
`api/sessions.py`, `core/playthrough_instance_service.py`). Each runs one operation in a
transaction of its own.

| State | Code |
|---|---|
| `versions` | `story_package_versions`: `key` is the pair that is unique, `content` the bundle with its hash, `Null` for a version without one |
| `worlds` | `worlds` with their templates: `code` as the publisher derives it from a key, `version` and `profile` as `ruleset_json` names them, `templates` what the template rows were made from |
| `sessions` | session and instance of a playthrough; `binding` is the hash in `__content_binding`, `Null` for a session of the older factory |
| `job` | a request: its place, what it has read, what it was answered |

Under READ COMMITTED every statement sees what is committed when it starts, so statements
are steps: the lookup of the version, that of the world's code, the insert, the commit.
A row is named by the request that inserts it, as its UUID would. An insert waits while
another transaction holds its key (`KeyLocked`) and then goes in or raises; `Recover` is the
handler of the IntegrityError, which reads the winner's row in a new transaction. World,
templates and both bindings are flushed behind the version row and committed with it, and
nobody can see them before: they are the one step `CommitPublication`. Its acknowledgement
may be lost.

A guard and the write it allows are two statements, with commits of others in between:
`ReadDraft` and `PublishDraft`, `GuardWorld` and `EditWorld`, `CheckBinding` and
`CommitInstance`. `/content-packs/publish-as-version` is a draft and its publication, one
after the other. A session starts through the content factory (`Choose`, `ChooseWorld`) or
the older one (`ChoosePlain`, `StartPlain`). `Readable` is what every turn of a bound session
checks.

### ContentCatalog

What publication promises: an entry appears in one step, with the world that shows it, and
never changes; a play is tied for good to what was published when it began.
`ContentPublish` implements it under `catalog <- Shelves` (of every key the published
version with content, with the whole row of its world) and `plays <- Plays`.

## 4. Runs

| Run | Instance | Question |
|---|---|---|
| `claim_turns` | 2 workers, 2 keys, 2 turns, 2 generations, a heartbeat that survives 1 failure | do facts and receipts agree, is what is committed final, and does the protocol implement the turn log |
| `claim_fencing` | 2 workers, 2 keys, 2 inputs, 1 turn, 3 generations, leases of 1 tick, 1 abandonment; a new session or a migrated legacy row, played or not | are fencing tokens unique, do claims change hands only when they may, is no update lost, is what a client is told true of its own request |
| `claim_liveness` | 2 workers that retry 1 key, fair | are claims released and requests answered |
| `asset_jobs` | 2 workers, 1 request, 2 jobs, 2 keys, 2 asset ids, 1 retry, 1 error, 1 lapse under a worker | has a completed job its asset, do two workers meet at a job only after it was taken from one |
| `asset_jobs_end` | 2 workers, 1 request, 1 job, 1 crash, fair | does a pending job end |
| `turn_stream` | 2 submissions, a queue of 1, a deadline of 2 ticks, 1 broken connection, fair | does a stream tell the truth and end, does page and server together keep `TurnPromise`, does the page settle |
| `world_advance` | the trial world with 2 changes of its places; a story of 7 rules, 4 schedules and 3 goals; 7 player actions, until tick 22 | is what happened in order, can every turn load what the one before wrote, is the agenda kept, do rules fire as often as they may, do plans end once |
| `content_publish` | 4 requests, 2 keys, 2 contents, 1 older world | does the catalog only grow, does what was answered about it stay true, can whoever plays go on |
| `asset_cancel`, `asset_renew` | 1 job | two docstrings that the code does not keep, see below |
| `claim_legacy`, `claim_budget` | small | two statements of the documentation that the code does not keep, see below |

Bounds. Two workers are what every hazard of the list needs: one that is slow and one
that overtakes it; a third would only repeat the second. Two turns suffice to see a
worker of one turn meet the next one. Three generations let a token be stale by more
than one. `MaxFailures` is 0 or 1: it only decides how early a heartbeat gives up.
Leases of one tick make every race with expiry happen; where a renewal has to matter the
lease has two. Workers, keys and inputs are interchangeable, which is what the symmetry
sets say; the liveness run uses none. Deadlock checking is off because the bounds on
turns, generations and abandonments stop the clients in the end, which a session does
not do.

In the asset runs two workers are again one that is slow and one that takes over. Two
jobs let a worker go on to another job while its first one is in other hands; two keys
and two ids let an asset conflict by either of its unique columns. `MaxAttempts` is 1
where the code has 3: it only decides how often a job is retried before it is buried.
Symmetry is used in `asset_jobs` only. Deadlock checking is off because the sessions of
all workers may fail for good, and then nothing runs until somebody restarts them.

In `turn_stream` a queue of one entry makes every entry that is not first in it a dropped
one, the sentinel included. Two ticks to the deadline with a heartbeat of one tick let a
heartbeat pass before it. Two submissions are one call of the hook that is superseded and
one that supersedes it.

In `world_advance` the story is chosen so that every kind of rule, effect and goal occurs:
a rule that interrupts, one that fires once, one that an action triggers, one that schedules
another, groups that fail half way, plans that are blocked, achieved or replaced while their
arrival is pending, NPCs with schedules that overlap. At the horizon of 22 ticks all of its
steps have been due. `MaxSteps` and `MaxReevaluations` are 9 and 7 for 256 and 64, so that
both budgets are exceeded by long actions. Of the handlers only two outcomes never occur in
the story: an item that cannot be used, and a travel of a content pack that is blocked.
Deadlock checking is off since the horizon stops the system.

In `content_publish` four requests are a publisher, a rival for the same key, an editor and
a player. Two keys let a world be bound to a version it did not come with, two contents let
rivals differ. One older world is enough, since worlds are only compared for
equality. Requests, keys and contents are interchangeable. Deadlock checking is off because
every request ends.

Fairness (`LiveSpec`). A thread between two database calls goes on, so its steps are
weakly fair, and so are the heartbeat loop, the clock, the budget (a deadline on that
clock) and the server's decision on a doubtful transaction. Waiting for the advisory lock is strongly
fair: PostgreSQL queues waiters, and the tried locks of claims and renewals never jump
the queue. Model calls are not fair: `RunStages` and `Narrate` may never happen. A call has
a timeout (`llm/proposal_pipeline.py:423` and 432), but a cooperative one: it cancels a
coroutine that waits, not a provider that blocks the thread. The heartbeat's budget
is there for that case, so `ClaimsEnd` must hold without the timeout. Nobody is obliged
to claim, to fail or to crash.

In `AssetJobs` a worker's own steps (`Runs`) and the end of its provider call are weakly
fair, since `run_loop_mode` polls for ever and the clients of the providers time out; so is the
lapse of a lease that no worker at the job renews. Nothing is assumed of requests,
restarts, heartbeats or errors. `JobsEnd` names the two ways out that the code leaves:
all sessions have failed, or the job runs without a lease (`Unleased`). The second takes
two slow workers and manual retries, more than the bounds of the run allow: a worker that
has the row cached as dead-lettered dead-letters it again, which clears the lease columns
of the claim that runs in the meantime but leaves its status; `recover_stale_jobs` skips
rows without a lease. `JobsEnd` excludes everything but these two, and no property
excludes them.

In `TurnStream` the browser, the event loop and the clock run, a request arrives while its
connection is open, and the call behind a plain post ends: here the timeouts of the model
calls are relied on, because the plain endpoint and the hook's post to it have no deadline.
With a provider that blocks its thread for ever, `HookSettles` would fail. Nothing is
assumed of a stream's thread, whose hanging is what the hard deadline is for.
`WorldAdvance` and `ContentPublish` state no fairness: the one computes in one thread, the
requests of the other end or are rolled back, and neither promises anything about when.

Each property is broken by a mutant listed in `PROJECT.json`: a definition in the form a
plausible bug would give it (`Name_Bug` beside `Name`).

### Findings

1. `claim_legacy`: `src/backend/docs/RECOVERY_AND_INVARIANTS.md` says that a historical
   claim without event and residue is adjudicated `expired`. Migration 025 leaves its
   lease NULL, and a NULL lease never expires, so other keys are answered
   `turn_in_progress` for ever.
2. `claim_budget`: `api/game.py` says that after a budget timeout the same key can be
   retried. If another key takes the aborted row over first, the old key is refused as
   superseded for good. (`RefusedForGood` is the good side of it: it is never played
   either.)

3. `asset_cancel`: `services/asset_job_service.py` says that `cancel_job` "only cancels if
   the job status is 'pending'". The check and the write are two statements and the write
   names no status: a job that a worker claims in between is cancelled while it runs, and
   the worker's outcome then overwrites the cancellation.
4. `asset_renew`: `storage/repositories.py` says that `heartbeat` extends a lease "only if
   lease_owner matches worker_id". It compares the owner of the cached row, so a worker
   that lost its job extends its successor's lease.

### What the models show besides

- A plan can be blocked, achieved or replaced while its arrival or its end of waiting is
  pending: a schedule boundary and an effect `npc_plan_start` do not look whether the NPC is
  under way. The handler of the orphaned step raises (`content_rules.py:671` and 703), so
  every turn that reaches it is given up, always: `OrphansStopTime` says that the world's
  time stops before it. `docs/design/phase4-content-v1-spec.md:519` says that an NPC without
  a plan stays idle or blocked "and waits for the next known boundary"; nothing says that the
  session ends there.
- `event_schedule` names an absolute tick and raises once that tick is past
  (`content_rules.py:357`): the same wait of the player that is split in two may succeed.
  So do the budgets of 64 choices and 256 steps: an action long enough to exceed one fails
  whenever it is tried.
- The goal of an NPC without a plan is not stored: at the next turn it is the initial one
  again (`content_runtime.py:711`). An NPC whose goal is achieved keeps it and chooses no
  other at the boundaries that follow (`content_rules.py:552` to 559).
- A rule of policy `once` is used up although its condition is false or its group fails.
- In the trial NPC B walks from the peak to the plaza, there at +9: so the step table
  (`time_simulation_rules.py:286` to 290), the integration tests and
  `phase4-content-v1-spec.md:591`. Two comments of the same file say otherwise: line 21,
  "B departs the trial peak, then arrives at the gate", and lines 81 and 82, "+8 depart the
  peak, +9 arrive at the gate". No step takes B on to the gate; `TrialTimetable` states
  what the code does.
- The specification (line 372) wants a step derived for the tick at hand to be of a later
  phase; the kernel allows the same one, and `FactsInOrder` and the theorem about it are
  stated for what it allows.
- Two first publications of one version: the second may find no version, then, by a later
  statement, the world the first one has committed in between, and is answered
  `CONTENT_WORLD_ALREADY_BOUND` "without its version row", though the row is there and may
  hold the very same content. The comment at `content_publish_service.py:485` promises the
  winner's answer for the race it handles; this one it does not see. `RefusalsHaveCause` says
  what the refusal does mean.
- `PATCH /worlds/{id}` looks at the binding a world has, not at the one it is given
  (`api/admin.py:480`): a second world can be bound to a published version. Every repeated
  publication and every new instance then finds two bound worlds and is refused, and the
  second world is frozen, so the patch cannot be taken back. Sessions that have begun go on
  (`BoundSessionsStayReadable`).
- `POST /story-package-versions/{id}/instantiate` takes the older factory for content
  versions too: the session has no binding, and its world expects one.
- Drafts are checked and then written: two publications of one draft may both succeed, and
  the later one moves `published_at`.

## 5. Proofs

For every set of workers, keys and inputs and every value of the bounds:

- `TypeCorrect` (`TurnClaimProofs`): `Spec => []TypeOK`. The type invariant is inductive
  by itself. One lemma per action; `NextTurnAbove` and `MaxBounded` bound the
  maximum of a finite set of turn numbers, `SameKeyVerdicts` and `OpenVerdict` bound
  what `Verdict` can be.
- `NoUpdateIsLost` (`TurnClaimProofs`): `Spec => []NoLostUpdate`. The property is not
  inductive: that the versions a turn read equal the version it is applied to holds only
  because the fingerprint is older than every read, versions only grow, and from the
  comparison to the outcome the lock keeps every other writer out. `UpdateInv` says so:
  `Locking` (whoever is between comparison and outcome holds the lock, and an open final
  transaction means a held turn lock), `Reading` (a worker's reads lie between its
  fingerprint and the present version, and past the comparison are the present version)
  and the property itself. `claim_fencing` checks the property on a small instance, the
  theorem for all.
- `TokensAreUnique` and `ReceiptsAreTrue` (`TurnFencingProofs`): `Spec => []SoleOwner` and
  `Spec => []FactsMatchReceipt`, by the one invariant `FenceInv`. It adds that a row lies
  at its turn and only the next turn has an unplayed row (`Numbering`), that no key has two
  rows (`KeysUnique`), that a row without fingerprint and an aborted row rest
  (`RestingRows`), that every token is behind its row and agrees with it when it is level
  (`TokensBehind`), that an open final transaction owns its row and its turn is unplayed
  (`CommitsOwn`), and that an open renewal renews a pending row (`RenewsPending`). The
  steps are sorted into five kinds (`Kinds`): a claim is granted, a final transaction passes
  its swap, one becomes durable, a worker aborts its claim, and all others are
  `Quiet`: they change nothing these formulas speak of but leases and narration. `Kinds`
  is proved action by action; the invariant and the action properties are then proved
  kind by kind.
- `WhatIsCommittedStays` and `ClaimsChangeHandsSafely` (`TurnFencingProofs`):
  `Spec => CommittedIsFinal` and `Spec => HandOver`, from `FenceInv` and the kinds.
- `AnswersAreOwn` and `RefusalsAreForGood` (`TurnAnswerProofs`): `Spec => []OwnAnswer` and
  `Spec => []RefusedForGood`. An answer names a key, while facts belong to a row. What
  links them is the key history: a key in the history of one row is no row's key again
  (`Retired`), so a token names the key and input of its row or its key is superseded for
  good (`TokenKeys`). `AnswerInv` adds what a worker knows before it answers (`Knows`) and
  states the answers so that no step can make them false (`Truthful`): one superseded is
  superseded for ever (`StaysSuperseded`).
- `TurnsFormALog` (`TurnAnswerProofs`): `Spec => ImplementsLog`, for sessions that were not
  migrated with a played turn, since `TurnLog` starts empty. Besides `FenceInv` it needs
  that played turns are 1 to *n* (`NoGap`) and that whoever writes has read (`HasRead`):
  with `Reading`, the one version it read is the version it is applied to.

For every set of workers, requests, keys and ids and any number of jobs and faults:

- `JobTypes` (`AssetJobsProofs`): `Spec => []TypeOK` of `AssetJobs`, which says too what a
  worker carries at each place and that `generate_asset` updates a row that is its own.
  The lemmas about `Save` and the row operators are used by the other proofs as well.
- `CompletedIsStored` (`AssetJobsProofs`): `Spec => []CompletedHasAsset`. Not inductive:
  a write of the status alone could complete a row without an asset if the session had
  the asset cached. `AssetInv` adds that no cached row names an asset that the row has
  lost, that whoever is about to complete a job has an asset that is stored and finished
  (`WorkersInv`), and that every stored asset of a provider is finished (`StoreInv`).
- `OverlapIsTaken` (`AssetJobsProofs`): `Spec => []OverlapHasCause`, together with
  `Shown`: a job that was never taken shows "processing" while a worker is at it, so the
  guard of the claim keeps every other worker away.

For any number of submissions, any queue, heartbeat and deadline and any number of broken
connections:

- `StreamTypes` (`TurnStreamProofs`): `Spec => []TypeOK` of `TurnStream`. The queue never
  exceeds its capacity and no clock runs below zero.
- `ToldTurnsAreDurable`: `Spec => []SaidIsDurable`. A result is handed from the thread to
  the coroutine and the event to the hook, so `Durable` says of every holder that the claim
  is committed: of a call that narrates or returned a result (`ServiceKnows`) and of a stream
  that narrates, has told or has events on the wire (`StreamsKnow`).
- `StreamsEndTruly`: `Spec => []EndTellsOutcome`. The property speaks of streams that are
  over, `OutcomeInv` of each place of a coroutine: what it has said so far, that a sentinel in
  the queue means a call that is gone and so an outcome that is set, that the coroutine says
  how the turn ended only once, and that after the sentinel it says what the outcome is, or
  has reported the deadline before.
- `PromiseKept`: `Spec => Promise!Spec`. `PageInv` adds the page: what it shows belongs to
  the last submission, it shows a turn as done only if the claim is committed, it is pending
  while the call of that submission reads or posts, and nothing has begun for later keys.

For every story (rules, schedules, goals, travel times), every set of player actions and
every bound:

- `WorldTypes` (`WorldEffectsProofs`): `Spec => []TypeOK` of `WorldAdvance`. One lemma per
  handler and effect of both rule sets says what it does to plans and what it derives
  (`Follows` for packs, `TrialFollows` for the trial). `TypeOK` alone is not inductive:
  the handlers of the trial look up the actor of a step, and that every step of its world has
  the actor its kind asks for is `Casts`.
- `TurnsCanBeLoaded` (`WorldAgendaProofs`): `Spec => []StaysReadable`, and `AgendaKept`:
  `Spec => Agenda!Spec`. `AgendaInv` has three parts: a row per key, the pending ones in the
  future and named by the run state (`RowsInv`); within a turn everything taken lies between
  the clock and what is queued (`TicksInv`); and of queue, rest and outcomes each step has a
  key of its own, all keys are known, and a step with a row is that row's and pending
  (`KeysInv`). That a queue that is not empty has a first step, so that nothing due is left
  when a turn commits, needs the minima of `Order`, taken component by component (`Least`).
- `FactsAreInOrder`: `Spec => []FactsInOrder`. What was told precedes the clock, the facts of
  a turn are ordered and precede whatever is still queued (`FactsInv`).
- `PlansHaveOneEnd`: `Spec => []PlansAreExpected`. A handler that starts a plan derives its
  end, and only the handler of that end, or one that gives the plan up, changes it. The
  invariant is stated twice, for the rows and for the running turn (`Plausible`); plans of a
  pack are told apart by generations that only grow, those of the trial by their start.
- `OrphansHoldTime`: `Spec => OrphansStopTime`. An orphan stays pending and nobody begins to
  wait for it again, since new plans have new generations; its handler raises
  (`UnawaitedRaises`), and a turn that would pass its tick has to take it first.
- `RulesFireOnlyOnce` and `EffectsHappenTogether`: `Spec => []RulesFireOnce` and
  `Spec => []EffectsTogether`. One lemma per handler says what it leaves alone (`Modest`) and,
  of the effects of a rule, what it tells (`Rash`); an effect that fails is modest, which is
  why a group that is undone tells of nothing that a rule changes. Together (`Framed`, in
  `WorldEffectsProofs`): a step loses no mark, and it changes no flag and tells nothing that
  only a rule may tell, or it is the step of a rule that had no mark and has one now, and its
  last fact is that it fired (`Fires`). `StoryInv` then says of
  the stored facts and rows, and again of all facts and the working state of a turn: every
  fact of a rule has its mark, no two have the same, what a rule changes comes before the
  fact that it fired, and every flag was raised by one. It is the marks that keep a rule from
  firing twice, not the keys of its steps.
- `InterruptedActionsStop`: `Spec => CutShort`. The property compares what a commit leaves
  with what was told; `CutInv` keeps it through the turn: the end of the action is queued, or
  has been taken by the cut, or what is left is of that last tick; every interruption before
  the end is told at the tick of the cut; a player who has moved was not cut.
- `TrialKeepsTime`: `Spec => []TrialTimetable`. The property speaks of ticks, and nothing in
  a step makes it true: `CourseInv` says how the trial stands by the steps that are still to
  come (`Course`), once for the rows and once for the turn. The NPC of a walk is where it set
  out as long as its start or arrival is to come (`Walking`); the token is told by which of
  the two has tried (`Tokens`), the marks by the bell and the use (`Marked`); and of the steps
  to come an earlier one is never left without the later ones (`Unbroken`), because the queue
  takes them in order (`InTheirOrder`). While no place has been closed a walk of which nothing
  is to come has led to its end (`Walked`). What is pending is then compared with the clock by
  `RowsInv`. That the arrival of a start is a new step, and so not dropped, is `PlansInv`.

For any number of requests, keys, contents and worlds:

- `RowsAreTyped` (`ContentPublishProofs`): `Spec => []TypeOK` of `ContentPublish`.
- `AnswersHold`: `Spec => []AnswersStayTrue`; `RefusalsHold`: `Spec => []RefusalsHaveCause`;
  `SessionsStayReadable`: `Spec => []BoundSessionsStayReadable`; and `PublicationIsACatalog`:
  `Spec => ImplementsCatalog`; all by one invariant. None is inductive: that a guard held
  when it was read says nothing of the moment of the edit. But a content world is born
  frozen, together with its published version (`Materialized`), so nobody has read an open
  guard of it: every edit under way concerns an older world (`Reads`, with `Origins`). Keys
  are unique among rows and a transaction that holds one is alone (`KeysUnique`, `KeysHeld`),
  no row of a request is there before its answer (`Unborn`), and answers are stated by rows
  that never change (`Told`, `Refused`, `Bound`). For the catalog `ShelfIs` says that the
  chosen version of a key is its only one; the steps are a publication, the begin of a bound
  play, and `QuietStep`.

The assumptions are `ContentConstants` (worlds have ids of their own, `Null` is no other
value), those of `JobConstants` (bounds are natural numbers, `Null` and
`"own"` are no other value), those of `ClaimConstants` (lease and bounds are natural numbers,
positive where the code needs them to be, and `Null` is no key, input, worker or number),
`StreamConstants`, and for the world `StoryAssumption` and `AdvanceAssumption`: the
constants of the story have the types that the validation of packs enforces.

Only model-checked is liveness, which is out of the prover's reach, since it needs fairness
and `ENABLED`: `ClaimsEnd` and `RequestsEnd` of `TurnClaim`, `JobsEnd` of `AssetJobs`,
`StreamEnds` and `HookSettles` of `TurnStream`. What the runs that expect a violation show
is a counterexample and needs no proof.

## 6. Not modelled

Of the turn path: rows of `event_logs` that are no `player_turn`. The next turn number is
one above the highest of all of them (`turn_claim.py:149`), but the initial scene has number
0 and no production code writes another kind above it, so `NextTurn` looks at played turns
only; a legacy row of another kind, which would raise the number, is no initial state. The
answer that a committed turn has no complete result (`TurnRecoveryIncompleteError`,
`turn_service.py:5829`): this service commits a turn with its result, so only a turn of
older software can be met without one, and no initial state has such a turn. SQLite, which
the tests use: it has no advisory locks and skips the fingerprint. `expire_or_steal_claim`,
`execute_turn_with_retry` and the branches of `commit_turn` outside a managed transaction,
which no production code calls. Writers of fingerprinted data that take no session lock:
template edits by administrators (they matter to sessions bound to `content_v1`, where they
are refused, and to the trial world, where `Toggle` stands for them) and `apply_snapshot`
(not called in production). Texts, hashes and the JSON of results.

Of the asset jobs: the queues of `assets/queue.py` (nothing in production uses them), the
rate limiter and the usage log (no decision about a job depends on them), the order by
priority (nothing sets it), the filter of a worker for one provider, and the back-off:
`next_retry_at` is written but the claim never reads it.

Of the stream: an exception in the thread that is no `Exception`, the mock stream, and the
read-only endpoints. `turn_event_callback` is never called in production.

Of the world: cognition, perception and memories, which read the events and change nothing
the simulation reads; visibility of events and deltas, which only report; numeric and string
flags and disjunctions of conditions. The step kinds for taking and using an item have
handlers in the content rules, but nothing derives them. Rewinding a session of either
profile is refused (`instance_snapshot_service.py`), so time never runs backwards. A session
that the older factory makes of a content version has no run state, and every turn of it is
refused.

Of publication: loading, validation, compilation and import of pack files, which read and
transform data; the check of a stored bundle against its hash (a content is one value), the
refusal of a world of the trial, world ids that the caller names; the lock of an existing
version row, for which only readers wait; what the older factory leaves behind when it
fails half way, beyond the row of the session; saves in worlds without a profile; baseline
rows, snapshots and their restore, a sequence of writes in one request.

Whole components:

- Action authorization and resolution, state deltas, rules and engines are pure decisions
  over one request; quest progression and combat are sequential and inside one transaction
  or request. A model of them would restate them.
- LLM services, replay, audit, observability and the legacy orchestrator: nothing a turn
  decides depends on their state; that a model call may take arbitrarily long or fail is in
  `TurnClaim` and `TurnStream`.
- Of administration the edits of worlds and templates and the drafts are in `ContentPublish`;
  the rest, debug and media endpoints are single transactions or views.
