------------------------------ MODULE AssetJobs ------------------------------
(***************************************************************************)
(* Asset generation jobs: the table asset_generation_jobs, the worker      *)
(* processes that take jobs from it (AssetJobRunner under asset_worker),   *)
(* and the requests of the API that submit, cancel and retry jobs or       *)
(* generate an asset at once.                                              *)
(*                                                                         *)
(* A worker keeps ONE database session for its whole life.  Every          *)
(* repository method is a transaction of its own, and a write of the ORM   *)
(* updates, by primary key, only the columns whose new value differs from  *)
(* the value the session has cached since it last read the row: `view' is  *)
(* that cached row, and Save the update.  A commit expires the cache; the  *)
(* session reads the row again in the refresh that follows, which is a     *)
(* step of its own.  No write of an outcome names the lease or its owner.  *)
(*                                                                         *)
(* Covered: several workers, lapsing leases, stale recovery, crashes of a  *)
(* worker at any point, failing database calls, requests that end between  *)
(* two of their transactions.  Abstracted: the length of a lease (it is    *)
(* live or lapsed, nothing compares two), the back-off (next_retry_at is   *)
(* written and never read by the claim), costs, URLs and error texts.      *)
(***************************************************************************)
EXTENDS Integers

CONSTANTS Workers,      \* worker processes
          Requests,     \* API requests, each executes one operation
          Keys,         \* cache keys
          AssetIds,     \* asset ids that providers report
          Null,         \* a column that is NULL
          MaxAttempts,  \* RetryPolicy.DEFAULT_MAX_ATTEMPTS = max_attempts
          MaxJobs,      \* bound: jobs ever created
          Backlog,      \* bound: jobs that wait when the workers start
          MaxCrashes,   \* bound: crashes of workers
          MaxErrors,    \* bound: failing database calls of workers
          MaxLapses     \* bound: leases that lapse while their job is run

\* "own" is the fresh id of a row that generate_asset inserted for itself
AssetRow == [id : AssetIds \cup {"own"}, status : {"processing", "completed", "failed"}]

ASSUME JobConstants ==
  /\ MaxAttempts \in Nat
  /\ MaxJobs \in Nat
  /\ Backlog \in 0..MaxJobs
  /\ MaxCrashes \in Nat /\ MaxErrors \in Nat /\ MaxLapses \in Nat
  /\ Null \notin Workers \cup Keys \cup AssetIds \cup AssetRow
  /\ "own" \notin AssetIds

VARIABLES
  jobs,     \* asset_generation_jobs, numbered in the order of created_at
  assets,   \* the assets row that holds a cache key: cache_key is UNIQUE
  pc,       \* where each worker is in run_next_job
  at,       \* the job a worker has claimed or is about to claim, else 0
  view,     \* the row of `at' as the worker's session has it cached
  stale,    \* the jobs a worker has selected for recovery
  result,   \* the asset id the provider gave a worker
  req,      \* each request: where it is, its job, its key and its cached row
  faults,   \* how many crashes, errors and lapses have happened
  taken     \* history: jobs taken from a worker that was still at them

vars == <<jobs, assets, pc, at, view, stale, result, req, faults, taken>>

JobIds == 1..MaxJobs
Statuses == {"absent", "pending", "processing", "completed", "failed",
             "cancelled", "dead_lettered"}
Terminal == {"completed", "failed", "cancelled", "dead_lettered"}

\* the columns a decision of this code depends on
JobRow == [status : Statuses, key : Keys \cup {Null}, owner : Workers \cup {Null},
           lease : {"none", "live", "lapsed"}, attempts : Nat,
           asset : AssetIds \cup {Null}]

\* a row that does not exist, and a cached row that is expired
Blank == [status |-> "absent", key |-> Null, owner |-> Null, lease |-> "none",
          attempts |-> 0, asset |-> Null]

WorkerPcs == {"recover", "reset", "select", "grab", "working", "final", "lookup",
              "insert", "complete", "failing", "wedged"}
RequestPcs == {"new", "submit", "cancel", "retry", "schedule", "create",
               "generating", "over"}
FreshRequest == [pc |-> "new", job |-> 0, key |-> Null, view |-> Blank]

\* what submit inserts
NewJob(k) == [Blank EXCEPT !.status = "pending", !.key = k]

\* what a claim, a recovery and the clock make of a row
Claimed(row, w) == [row EXCEPT !.status = "processing", !.owner = w, !.lease = "live"]
Recovered(row) == [row EXCEPT !.status = "pending", !.owner = Null, !.lease = "none"]
Leased(row, l) == [row EXCEPT !.lease = l]

\* what the outcomes set; only a dead-lettering clears the lease
Completed(row, a) == [row EXCEPT !.status = "completed", !.asset = a]
Retried(row) == [row EXCEPT !.status = "pending", !.attempts = @ + 1]
Buried(row) == [row EXCEPT !.status = "dead_lettered", !.owner = Null, !.lease = "none"]
Marked(row, s) == [row EXCEPT !.status = s]

\* the ORM's UPDATE: a column is written when it differs from the cached one
Save(row, seen, new) ==
  [f \in DOMAIN row |-> IF new[f] = seen[f] THEN row[f] ELSE new[f]]

Pending == {j \in JobIds : jobs[j].status = "pending"}

\* mutant: the test for a lease is inverted
Lapsed_WithoutLease == {j \in JobIds : jobs[j].status = "processing" /\ jobs[j].lease = "none"}

\* the jobs that recover_stale_jobs selects
Lapsed == {j \in JobIds : jobs[j].status = "processing" /\ jobs[j].lease = "lapsed"}

Stored(a) == \E k \in Keys : assets[k] # Null /\ assets[k].id = a
Ready(k) == assets[k] # Null /\ assets[k].status = "completed"

\* the worker runs its job: its claim is committed, its outcome is not
AtWork(w, j) == at[w] = j /\ pc[w] \in {"working", "final", "lookup", "insert",
                                        "complete", "failing"}

\* History: of the jobs in S, those that a write takes out of "processing"
\* while a worker is still at them.
Takes(S) ==
  taken' = taken \cup {j \in S : /\ jobs[j].status = "processing"
                                 /\ jobs'[j].status # "processing"
                                 /\ \E v \in Workers : AtWork(v, j)}

Init ==
  /\ \E n \in 0..Backlog : \E k \in [1..n -> Keys] :
       jobs = [j \in JobIds |-> IF j <= n THEN NewJob(k[j]) ELSE Blank]
  /\ assets = [k \in Keys |-> Null]
  /\ pc = [w \in Workers |-> "recover"]
  /\ at = [w \in Workers |-> 0]
  /\ view = [w \in Workers |-> Blank]
  /\ stale = [w \in Workers |-> {}]
  /\ result = [w \in Workers |-> Null]
  /\ req = [r \in Requests |-> FreshRequest]
  /\ faults = [crashes |-> 0, errors |-> 0, lapses |-> 0]
  /\ taken = {}
-----------------------------------------------------------------------------
(* The worker: AssetJobRunner.run_next_job.                                  *)

\* the worker stands at p and its session has the job's row at hand
Reads(w, p) == pc[w] = p /\ view[w] # Blank

\* the new row is saved and the commit expires the cached one
Commit(w, j, new) ==
  /\ jobs' = [jobs EXCEPT ![j] = Save(@, view[w], new)]
  /\ view' = [view EXCEPT ![w] = Blank]

\* mutant: the claimed job is not forgotten
Return_KeepsJob(w) ==
  /\ pc' = [pc EXCEPT ![w] = "recover"]
  /\ result' = [result EXCEPT ![w] = Null]
  /\ UNCHANGED at

\* run_next_job returns
Return(w) ==
  /\ pc' = [pc EXCEPT ![w] = "recover"]
  /\ at' = [at EXCEPT ![w] = 0]
  /\ result' = [result EXCEPT ![w] = Null]

\* recover_stale_jobs, the SELECT
SelectStale(w) ==
  /\ pc[w] = "recover"
  /\ stale' = [stale EXCEPT ![w] = Lapsed]
  /\ pc' = [pc EXCEPT ![w] = IF Lapsed = {} THEN "select" ELSE "reset"]
  /\ UNCHANGED <<jobs, assets, at, view, result, req, faults, taken>>

\* recover_stale_jobs, the UPDATE: by primary key, whatever the rows are now
ResetStale(w) ==
  /\ pc[w] = "reset"
  /\ jobs' = [j \in JobIds |->
       IF j \in stale[w] THEN Recovered(jobs[j]) ELSE jobs[j]]
  /\ Takes(stale[w])
  /\ stale' = [stale EXCEPT ![w] = {}]
  /\ pc' = [pc EXCEPT ![w] = "select"]
  /\ UNCHANGED <<assets, at, view, result, req, faults>>

\* claim_next_pending_with_lease, the SELECT: the oldest pending job
SelectPending(w) ==
  /\ pc[w] = "select"
  /\ \/ /\ Pending = {}
        /\ Return(w)
     \/ /\ \E j \in Pending : /\ \A i \in Pending : j <= i
                              /\ at' = [at EXCEPT ![w] = j]
        /\ pc' = [pc EXCEPT ![w] = "grab"]
        /\ UNCHANGED result
  /\ UNCHANGED <<jobs, assets, view, stale, req, faults, taken>>

\* mutant: the UPDATE has no guard
Grab_Unguarded(w) ==
  /\ pc[w] = "grab"
  /\ jobs' = [jobs EXCEPT ![at[w]] = Claimed(@, w)]
  /\ pc' = [pc EXCEPT ![w] = "working"]
  /\ UNCHANGED <<at, result, assets, view, stale, req, faults, taken>>

\* claim_next_pending_with_lease, the guarded UPDATE
Grab(w) ==
  /\ pc[w] = "grab"
  /\ \/ /\ jobs[at[w]].status = "pending"
        /\ jobs' = [jobs EXCEPT ![at[w]] = Claimed(@, w)]
        /\ pc' = [pc EXCEPT ![w] = "working"]
        /\ UNCHANGED <<at, result>>
     \/ /\ jobs[at[w]].status # "pending"
        /\ Return(w)
        /\ UNCHANGED jobs
  /\ UNCHANGED <<assets, view, stale, req, faults, taken>>

\* db.refresh, or the next read of an expired row
Refresh(w) ==
  /\ pc[w] \in {"working", "final", "lookup", "complete", "failing"}
  /\ view[w] = Blank
  /\ view' = [view EXCEPT ![w] = jobs[at[w]]]
  /\ UNCHANGED <<jobs, assets, pc, at, stale, result, req, faults, taken>>

\* heartbeat passes: the owner it checks is the cached one; the new expiry
\* differs from every older one, so the column is always written
Renewed(w) ==
  /\ view[w].owner = w
  /\ jobs' = [jobs EXCEPT ![at[w]] = Leased(@, "live")]
  /\ view' = [view EXCEPT ![w] = Blank]

\* _heartbeat_loop, while the provider is awaited
Heartbeat(w) ==
  /\ Reads(w, "working")
  /\ Renewed(w)
  /\ UNCHANGED <<assets, pc, at, stale, result, req, faults, taken>>

\* the provider returns an asset, returns a failure, or raises
ProviderEnds(w) ==
  /\ pc[w] = "working"
  /\ \/ /\ \E a \in AssetIds : result' = [result EXCEPT ![w] = a]
        /\ pc' = [pc EXCEPT ![w] = "final"]
     \/ /\ pc' \in {[pc EXCEPT ![w] = "final"], [pc EXCEPT ![w] = "failing"]}
        /\ UNCHANGED result
  /\ UNCHANGED <<jobs, assets, at, view, stale, req, faults, taken>>

\* the heartbeat after the provider
FinalHeartbeat(w) ==
  /\ Reads(w, "final")
  /\ \/ Renewed(w)
     \/ view[w].owner # w /\ UNCHANGED <<jobs, view>>
  /\ pc' = [pc EXCEPT ![w] = IF result[w] = Null THEN "failing" ELSE "lookup"]
  /\ UNCHANGED <<assets, at, stale, result, req, faults, taken>>

\* mutant: the asset is looked up by its cache key
Lookup_ByKey(w) ==
  /\ Reads(w, "lookup")
  /\ IF assets[view[w].key] # Null
     THEN /\ pc' = [pc EXCEPT ![w] = "complete"]
          /\ view' = [view EXCEPT ![w] = Blank]
     ELSE /\ pc' = [pc EXCEPT ![w] = "insert"]
          /\ UNCHANGED view
  /\ UNCHANGED <<jobs, assets, at, stale, result, req, faults, taken>>

\* get_by_asset_id; an asset that is there has its row updated and committed
Lookup(w) ==
  /\ Reads(w, "lookup")
  /\ IF Stored(result[w])
     THEN /\ pc' = [pc EXCEPT ![w] = "complete"]
          /\ view' = [view EXCEPT ![w] = Blank]
     ELSE /\ pc' = [pc EXCEPT ![w] = "insert"]
          /\ UNCHANGED view
  /\ UNCHANGED <<jobs, assets, at, stale, result, req, faults, taken>>

\* The session fails and is never rolled back: every later call of this
\* process raises, the loop logs it and goes on.
Wedge(w) ==
  /\ pc' = [pc EXCEPT ![w] = "wedged"]
  /\ at' = [at EXCEPT ![w] = 0]
  /\ view' = [view EXCEPT ![w] = Blank]
  /\ stale' = [stale EXCEPT ![w] = {}]
  /\ result' = [result EXCEPT ![w] = Null]

\* the asset is inserted and committed
InsertAsset(w) ==
  /\ Reads(w, "insert")
  /\ assets[view[w].key] = Null
  /\ ~Stored(result[w])
  /\ assets' = [assets EXCEPT ![view[w].key] = [id |-> result[w], status |-> "completed"]]
  /\ pc' = [pc EXCEPT ![w] = "complete"]
  /\ view' = [view EXCEPT ![w] = Blank]
  /\ UNCHANGED <<jobs, at, stale, result, req, faults, taken>>

\* the id or the cache key is taken: IntegrityError
InsertConflicts(w) ==
  /\ Reads(w, "insert")
  /\ assets[view[w].key] # Null \/ Stored(result[w])
  /\ Wedge(w)
  /\ UNCHANGED <<jobs, assets, req, faults, taken>>

\* mark_completed: the lease stays as it is
MarkCompleted(w) ==
  /\ Reads(w, "complete")
  /\ Commit(w, at[w], Completed(view[w], result[w]))
  /\ Return(w)
  /\ UNCHANGED <<assets, stale, req, faults, taken>>

\* schedule_retry: should_retry is asked before the attempt is counted
ScheduleRetry(w) ==
  /\ Reads(w, "failing")
  /\ view[w].attempts < MaxAttempts
  /\ Commit(w, at[w], Retried(view[w]))
  /\ Return(w)
  /\ UNCHANGED <<assets, stale, req, faults, taken>>

\* mark_failed: the error is of a kind that is not retried
MarkFailed(w) ==
  /\ Reads(w, "failing")
  /\ view[w].attempts < MaxAttempts
  /\ Commit(w, at[w], Marked(view[w], "failed"))
  /\ Return(w)
  /\ UNCHANGED <<assets, stale, req, faults, taken>>

\* mark_dead_letter
DeadLetter(w) ==
  /\ Reads(w, "failing")
  /\ view[w].attempts >= MaxAttempts
  /\ Commit(w, at[w], Buried(view[w]))
  /\ Return(w)
  /\ UNCHANGED <<assets, stale, req, faults, taken>>

\* a database call of a worker fails
DatabaseFails(w) ==
  /\ pc[w] # "wedged"
  /\ faults.errors < MaxErrors
  /\ faults' = [faults EXCEPT !.errors = @ + 1]
  /\ Wedge(w)
  /\ UNCHANGED <<jobs, assets, req, taken>>

\* the process ends and is started again
Restart(w) ==
  /\ faults.crashes < MaxCrashes
  /\ faults' = [faults EXCEPT !.crashes = @ + 1]
  /\ Return(w)
  /\ view' = [view EXCEPT ![w] = Blank]
  /\ stale' = [stale EXCEPT ![w] = {}]
  /\ UNCHANGED <<jobs, assets, req, taken>>

\* a lease runs out; while the job is run this takes a stalled heartbeat
Lapse(j) ==
  /\ jobs[j].lease = "live"
  /\ IF \E w \in Workers : AtWork(w, j)
     THEN /\ faults.lapses < MaxLapses
          /\ faults' = [faults EXCEPT !.lapses = @ + 1]
     ELSE UNCHANGED faults
  /\ jobs' = [jobs EXCEPT ![j] = Leased(@, "lapsed")]
  /\ UNCHANGED <<assets, pc, at, view, stale, result, req, taken>>
-----------------------------------------------------------------------------
(* The requests of the API: AssetJobService and AssetGenerationService.      *)

Ends(r) == req' = [req EXCEPT ![r] = [FreshRequest EXCEPT !.pc = "over"]]

\* a request reads the job row j into its own session and goes on at p
Finds(r, p, j) ==
  req' = [req EXCEPT ![r] = [FreshRequest EXCEPT !.pc = p, !.job = j, !.view = jobs[j]]]

\* a request goes on at p with the key k it was sent with
Sends(r, p, k) == req' = [req EXCEPT ![r] = [FreshRequest EXCEPT !.pc = p, !.key = k]]

\* submit: no finished asset has the key (else the request is answered at once)
SubmitMisses(r) ==
  /\ req[r].pc = "new"
  /\ \E k \in Keys : ~Ready(k) /\ Sends(r, "submit", k)
  /\ UNCHANGED <<jobs, assets, pc, at, view, stale, result, faults, taken>>

\* submit: the job is created
Submit(r) ==
  /\ req[r].pc = "submit"
  /\ \E j \in JobIds :
       /\ jobs[j] = Blank
       /\ \A i \in 1..(j - 1) : jobs[i] # Blank
       /\ jobs' = [jobs EXCEPT ![j] = NewJob(req[r].key)]
  /\ Ends(r)
  /\ UNCHANGED <<assets, pc, at, view, stale, result, faults, taken>>

\* cancel_job and retry_job: the status is read and checked
Check(r) ==
  /\ req[r].pc = "new"
  /\ \E j \in JobIds : \/ jobs[j].status = "pending" /\ Finds(r, "cancel", j)
                       \/ jobs[j].status = "failed" /\ Finds(r, "retry", j)
  /\ UNCHANGED <<jobs, assets, pc, at, view, stale, result, faults, taken>>

\* cancel_job: the status is written
Cancel(r) ==
  /\ req[r].pc = "cancel"
  /\ jobs' = [jobs EXCEPT ![req[r].job] =
       Save(@, req[r].view, Marked(req[r].view, "cancelled"))]
  /\ Takes({req[r].job})
  /\ Ends(r)
  /\ UNCHANGED <<assets, pc, at, view, stale, result, faults>>

\* retry_job, its first commit: update_status
Reopen(r) ==
  LET j == req[r].job IN
  /\ req[r].pc = "retry"
  /\ jobs' = [jobs EXCEPT ![j] =
       Save(@, req[r].view, Marked(req[r].view, "pending"))]
  /\ req' = [req EXCEPT ![r] = [FreshRequest EXCEPT !.pc = "schedule", !.job = j]]
  /\ Takes({j})
  /\ UNCHANGED <<assets, pc, at, view, stale, result, faults>>

\* retry_job, the refresh between its two commits
Reread(r) ==
  /\ req[r].pc = "schedule"
  /\ req[r].view = Blank
  /\ req' = [req EXCEPT ![r].view = jobs[req[r].job]]
  /\ UNCHANGED <<jobs, assets, pc, at, view, stale, result, faults, taken>>

\* retry_job, its second commit: schedule_retry
CountRetry(r) ==
  LET j == req[r].job IN
  /\ req[r].pc = "schedule"
  /\ req[r].view # Blank
  /\ jobs' = [jobs EXCEPT ![j] =
       Save(@, req[r].view, Retried(req[r].view))]
  /\ Ends(r)
  /\ Takes({j})
  /\ UNCHANGED <<assets, pc, at, view, stale, result, faults>>

\* generate_asset: no finished asset has the key
GenerateMisses(r) ==
  /\ req[r].pc = "new"
  /\ \E k \in Keys : ~Ready(k) /\ Sends(r, "create", k)
  /\ UNCHANGED <<jobs, assets, pc, at, view, stale, result, faults, taken>>

\* generate_asset: its own row takes the key, or the key is taken
CreateAsset(r) ==
  /\ req[r].pc = "create"
  /\ \/ /\ assets[req[r].key] = Null
        /\ assets' = [assets EXCEPT ![req[r].key] = [id |-> "own", status |-> "processing"]]
        /\ Sends(r, "generating", req[r].key)
     \/ /\ assets[req[r].key] # Null
        /\ Ends(r)
        /\ UNCHANGED assets
  /\ UNCHANGED <<jobs, pc, at, view, stale, result, faults, taken>>

\* generate_asset: the provider has answered, update_status
Generated(r) ==
  /\ req[r].pc = "generating"
  /\ \E s \in {"completed", "failed"} :
       assets' = [assets EXCEPT ![req[r].key].status = s]
  /\ Ends(r)
  /\ UNCHANGED <<jobs, pc, at, view, stale, result, faults, taken>>

\* the API process ends between two transactions of a request
Abandoned(r) ==
  /\ req[r].pc \notin {"new", "over"}
  /\ Ends(r)
  /\ UNCHANGED <<jobs, assets, pc, at, view, stale, result, faults, taken>>
-----------------------------------------------------------------------------
Runs(w) == \/ SelectStale(w) \/ ResetStale(w) \/ SelectPending(w) \/ Grab(w)
           \/ Refresh(w) \/ FinalHeartbeat(w) \/ Lookup(w)
           \/ InsertAsset(w) \/ InsertConflicts(w) \/ MarkCompleted(w)
           \/ ScheduleRetry(w) \/ MarkFailed(w) \/ DeadLetter(w)

Request(r) == \/ SubmitMisses(r) \/ Submit(r) \/ Check(r) \/ Cancel(r)
              \/ Reopen(r) \/ Reread(r) \/ CountRetry(r)
              \/ GenerateMisses(r) \/ CreateAsset(r) \/ Generated(r) \/ Abandoned(r)

Next ==
  \/ \E w \in Workers : \/ Runs(w) \/ Heartbeat(w) \/ ProviderEnds(w)
                        \/ DatabaseFails(w) \/ Restart(w)
  \/ \E j \in JobIds : Lapse(j)
  \/ \E r \in Requests : Request(r)

Spec == Init /\ [][Next]_vars

\* A worker process runs on and its provider calls end; a lease that nobody
\* renews runs out.  Nothing is assumed of requests, restarts or errors.
Fairness ==
  /\ \A w \in Workers : WF_vars(Runs(w)) /\ WF_vars(ProviderEnds(w))
  /\ \A j \in JobIds : WF_vars(Lapse(j) /\ UNCHANGED faults)

LiveSpec == Spec /\ Fairness
-----------------------------------------------------------------------------
(* Properties.                                                               *)

\* What a worker carries fits the place it stands at: it has a job from the
\* claim to the outcome, a cached row only in between, and an asset id from the
\* provider's success to mark_completed.
Carries(w) ==
  /\ at[w] = 0 <=> pc[w] \in {"recover", "reset", "select", "wedged"}
  /\ pc[w] \in {"recover", "reset", "select", "grab", "wedged"} => view[w] = Blank
  /\ pc[w] = "insert" => view[w] # Blank
  /\ pc[w] \in {"lookup", "insert", "complete"} => result[w] # Null

\* The same for a request: the job it changes, the key it was sent with.
Asks(r) ==
  /\ req[r].pc \in {"cancel", "retry", "schedule"} => req[r].job # 0
  /\ req[r].pc \in {"submit", "create", "generating"} => req[r].key # Null

\* generate_asset updates a row that is its own.
Holds(r) ==
  req[r].pc = "generating" =>
    assets[req[r].key] \in AssetRow /\ assets[req[r].key].id = "own"

\* Types: rows keep their columns' types, and run_next_job forgets its job, its
\* cached row and its asset id on every way out, failures included.
TypeOK ==
  /\ jobs \in [JobIds -> JobRow]
  /\ assets \in [Keys -> AssetRow \cup {Null}]
  /\ pc \in [Workers -> WorkerPcs]
  /\ at \in [Workers -> {0} \cup JobIds]
  /\ view \in [Workers -> JobRow]
  /\ stale \in [Workers -> SUBSET JobIds]
  /\ result \in [Workers -> AssetIds \cup {Null}]
  /\ req \in [Requests -> [pc : RequestPcs, job : {0} \cup JobIds,
                           key : Keys \cup {Null}, view : JobRow]]
  /\ faults \in [crashes : 0..MaxCrashes, errors : 0..MaxErrors, lapses : 0..MaxLapses]
  /\ taken \subseteq JobIds
  /\ \A w \in Workers : Carries(w)
  /\ \A r \in Requests : Asks(r) /\ Holds(r)

\* A job that is shown as completed has an asset id, and a finished asset has
\* that id: the asset is durable before the job says so, and no mixture of
\* columns from two writers of the job's row can lose the id.
CompletedHasAsset ==
  \A j \in JobIds : jobs[j].status = "completed" =>
    \E k \in Keys : assets[k] # Null /\ assets[k] = [id |-> jobs[j].asset, status |-> "completed"]

\* Two workers are at one job only after the job was taken from a worker that
\* was still at it, by a stale recovery or by a retry over a running claim;
\* the guarded update of the claim lets no two of them in by itself.
OverlapHasCause ==
  \A v, w \in Workers : \A j \in JobIds :
    v # w /\ AtWork(v, j) /\ AtWork(w, j) => j \in taken

\* A running job without a lease cannot be recovered.  It takes two stale
\* workers and manual retries: a dead-lettering worker that has a dead-lettered
\* row cached clears the lease of a claim, but not its status.
Unleased(j) == jobs[j].status = "processing" /\ jobs[j].lease = "none"

\* A job that waits is brought to an end, whatever crashes and errors meet it,
\* unless every worker's session has failed or the job has lost its lease.
JobsEnd ==
  \A j \in JobIds :
    jobs[j].status = "pending" ~>
      \/ jobs[j].status \in Terminal
      \/ Unleased(j)
      \/ \A w \in Workers : pc[w] = "wedged"

\* cancel_job: "Only cancels if the job status is 'pending'".
CancelsPendingOnly ==
  [][\A j \in JobIds : jobs[j].status # "cancelled" /\ jobs'[j].status = "cancelled"
       => jobs[j].status = "pending"]_vars

\* heartbeat: the lease is extended "only if lease_owner matches worker_id".
RenewsOwnLeaseOnly ==
  [][\A w \in Workers : Heartbeat(w) => jobs[at[w]].owner = w]_vars
=============================================================================
