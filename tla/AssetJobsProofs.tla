--------------------------- MODULE AssetJobsProofs ---------------------------
(***************************************************************************)
(* Theorems about AssetJobs, for any number of workers, requests, jobs,    *)
(* keys and faults.                                                        *)
(***************************************************************************)
EXTENDS AssetJobs, TLAPS

-----------------------------------------------------------------------------
(* Operators.                                                               *)

\* The ORM's update of a typed row is a typed row, column by column.
LEMMA SaveColumns ==
  ASSUME NEW row \in JobRow, NEW seen \in JobRow, NEW new \in JobRow
  PROVE  LET s == Save(row, seen, new) IN
         /\ s \in JobRow
         /\ s.status = IF new.status = seen.status THEN row.status ELSE new.status
         /\ s.key = IF new.key = seen.key THEN row.key ELSE new.key
         /\ s.asset = IF new.asset = seen.asset THEN row.asset ELSE new.asset
PROOF BY DEF Save, JobRow

\* Blank is a row, and so is a new job.
LEMMA FreshRows ==
  /\ Blank \in JobRow
  /\ \A k \in Keys : NewJob(k) \in JobRow
  /\ \A k \in Keys : NewJob(k).status = "pending" /\ NewJob(k).key = k /\ NewJob(k).asset = Null
PROOF BY DEF Blank, NewJob, JobRow, Statuses

\* Every write keeps a row typed and keeps its key; only a completion sets the
\* asset id, and only a lease write keeps the status.
LEMMA RowWrites ==
  ASSUME NEW row \in JobRow, NEW w \in Workers
  PROVE  /\ Recovered(row) \in JobRow /\ Claimed(row, w) \in JobRow /\ Buried(row) \in JobRow
         /\ Recovered(row).status = "pending" /\ Claimed(row, w).status = "processing"
         /\ Buried(row).status = "dead_lettered"
         /\ Recovered(row).key = row.key /\ Claimed(row, w).key = row.key
         /\ Buried(row).key = row.key
         /\ Recovered(row).asset = row.asset /\ Claimed(row, w).asset = row.asset
         /\ Buried(row).asset = row.asset
PROOF BY DEF Recovered, Claimed, Buried, JobRow, Statuses

LEMMA LeaseWrites ==
  ASSUME NEW row \in JobRow, NEW l \in {"live", "lapsed"}
  PROVE  /\ Leased(row, l) \in JobRow /\ Leased(row, l).status = row.status
         /\ Leased(row, l).key = row.key /\ Leased(row, l).asset = row.asset
PROOF BY DEF Leased, JobRow

LEMMA StatusWrites ==
  ASSUME NEW row \in JobRow, NEW s \in Statuses
  PROVE  /\ Marked(row, s) \in JobRow /\ Marked(row, s).status = s
         /\ Marked(row, s).key = row.key /\ Marked(row, s).asset = row.asset
PROOF BY DEF Marked, JobRow

LEMMA RetryWrites ==
  ASSUME NEW row \in JobRow
  PROVE  /\ Retried(row) \in JobRow /\ Retried(row).status = "pending"
         /\ Retried(row).key = row.key /\ Retried(row).asset = row.asset
PROOF
<1>1. row.attempts + 1 \in Nat
  BY DEF JobRow
<1> QED BY <1>1 DEF Retried, JobRow, Statuses

LEMMA CompletionWrites ==
  ASSUME NEW row \in JobRow, NEW a \in AssetIds
  PROVE  /\ Completed(row, a) \in JobRow /\ Completed(row, a).status = "completed"
         /\ Completed(row, a).key = row.key /\ Completed(row, a).asset = a
PROOF BY DEF Completed, JobRow, Statuses

-----------------------------------------------------------------------------
(* TypeOK is inductive.                                                     *)

LEMMA InitTypes == Init => TypeOK
PROOF
<1> SUFFICES ASSUME Init PROVE TypeOK
  OBVIOUS
<1>1. jobs \in [JobIds -> JobRow]
  BY FreshRows DEF Init, JobIds
<1>2. req \in [Requests -> [pc : RequestPcs, job : {0} \cup JobIds,
                            key : Keys \cup {Null}, view : JobRow]]
  BY FreshRows DEF Init, FreshRequest, RequestPcs
<1>3. faults \in [crashes : 0..MaxCrashes, errors : 0..MaxErrors, lapses : 0..MaxLapses]
  BY JobConstants DEF Init
<1>4. \A w \in Workers : Carries(w)
  BY DEF Init, Carries
<1>5. \A r \in Requests : Asks(r)
  BY DEF Init, Asks, FreshRequest
<1>6. \A r \in Requests : Holds(r)
  BY DEF Init, Holds, FreshRequest
<1> QED BY <1>1, <1>2, <1>3, <1>4, <1>5, <1>6, FreshRows DEF Init, TypeOK, WorkerPcs

\* What a worker's step leaves typed when the jobs, the pcs and what the worker
\* carries stay typed and nothing else changes.
LEMMA SelectTypes ==
  ASSUME TypeOK, NEW w \in Workers,
         SelectStale(w) \/ ResetStale(w) \/ SelectPending(w) \/ Grab(w)
  PROVE  TypeOK'
PROOF
<1> USE DEF TypeOK, WorkerPcs
<1>1. CASE SelectStale(w)
  BY <1>1 DEF SelectStale, Lapsed, Carries, Asks, Holds
<1>2. CASE ResetStale(w)
  <2>1. jobs' \in [JobIds -> JobRow]
    <3>1. \A j \in JobIds : Recovered(jobs[j]) \in JobRow
      BY RowWrites
    <3> QED BY <1>2, <3>1 DEF ResetStale
  <2>2. taken' \subseteq JobIds
    BY <1>2 DEF ResetStale, Takes
  <2>3. \A v \in Workers : Carries(v)'
    BY <1>2 DEF ResetStale, Carries
  <2> QED BY <1>2, <2>1, <2>2, <2>3 DEF ResetStale, Asks, Holds
<1>3. CASE SelectPending(w)
  <2>1. \A v \in Workers : Carries(v)'
    BY <1>3 DEF SelectPending, Pending, Return, Carries, JobIds
  <2>2. at' \in [Workers -> {0} \cup JobIds] /\ pc' \in [Workers -> WorkerPcs]
          /\ result' \in [Workers -> AssetIds \cup {Null}]
    BY <1>3 DEF SelectPending, Pending, Return
  <2> QED BY <1>3, <2>1, <2>2 DEF SelectPending, Asks, Holds
<1>4. CASE Grab(w)
  <2>0. at[w] \in JobIds
    BY <1>4 DEF Grab, Carries
  <2>1. jobs' \in [JobIds -> JobRow]
    <3>1. jobs[at[w]] \in JobRow
      BY <2>0
    <3>2. Claimed(jobs[at[w]], w) \in JobRow
      BY <3>1, RowWrites
    <3> QED BY <1>4, <3>2 DEF Grab
  <2>2. at' \in [Workers -> {0} \cup JobIds] /\ pc' \in [Workers -> WorkerPcs]
          /\ result' \in [Workers -> AssetIds \cup {Null}]
    BY <1>4 DEF Grab, Return
  <2>3. \A v \in Workers : Carries(v)'
    BY <1>4 DEF Grab, Return, Carries
  <2> QED BY <1>4, <2>1, <2>2, <2>3 DEF Grab, Asks, Holds
<1> QED BY <1>1, <1>2, <1>3, <1>4

\* The cached row is a row; a worker's commit keeps the jobs and the views typed.
LEMMA CommitTypes ==
  ASSUME TypeOK, NEW w \in Workers, NEW new \in JobRow, at[w] \in JobIds, Commit(w, at[w], new)
  PROVE  /\ jobs' \in [JobIds -> JobRow] /\ view' \in [Workers -> JobRow]
         /\ view'[w] = Blank /\ \A v \in Workers \ {w} : view'[v] = view[v]
PROOF
<1>1. jobs[at[w]] \in JobRow /\ view[w] \in JobRow
  BY DEF TypeOK
<1>2. Save(jobs[at[w]], view[w], new) \in JobRow
  BY <1>1, SaveColumns
<1> QED BY <1>2, FreshRows DEF TypeOK, Commit

\* The same for a heartbeat.
LEMMA RenewedTypes ==
  ASSUME TypeOK, NEW w \in Workers, at[w] \in JobIds, Renewed(w)
  PROVE  /\ jobs' \in [JobIds -> JobRow] /\ view' \in [Workers -> JobRow]
         /\ view'[w] = Blank /\ \A v \in Workers \ {w} : view'[v] = view[v]
PROOF
<1>1. Leased(jobs[at[w]], "live") \in JobRow
  BY LeaseWrites DEF TypeOK
<1> QED BY <1>1, FreshRows DEF TypeOK, Renewed

LEMMA RunTypes ==
  ASSUME TypeOK, NEW w \in Workers,
         Refresh(w) \/ Heartbeat(w) \/ ProviderEnds(w) \/ FinalHeartbeat(w)
  PROVE  TypeOK'
PROOF
<1>0. pc[w] \in {"working", "final", "lookup", "complete", "failing"} /\ at[w] \in JobIds
  BY DEF TypeOK, Carries, Refresh, Heartbeat, ProviderEnds, FinalHeartbeat, Reads
<1>1. CASE Refresh(w)
  <2>1. \A v \in Workers : Carries(v)'
    BY <1>0, <1>1 DEF Refresh, Carries, TypeOK
  <2> QED BY <1>0, <1>1, <2>1 DEF Refresh, Asks, TypeOK, Holds
<1>2. CASE Heartbeat(w)
  <2>1. jobs' \in [JobIds -> JobRow] /\ view' \in [Workers -> JobRow]
          /\ view'[w] = Blank /\ \A v \in Workers \ {w} : view'[v] = view[v]
    BY <1>0, <1>2, RenewedTypes DEF Heartbeat
  <2>2. \A v \in Workers : Carries(v)'
    BY <1>2, <2>1 DEF Heartbeat, Reads, Carries, TypeOK
  <2> QED BY <1>2, <2>1, <2>2 DEF Heartbeat, Asks, TypeOK, Holds
<1>3. CASE ProviderEnds(w)
  <2>1. pc' \in [Workers -> WorkerPcs] /\ result' \in [Workers -> AssetIds \cup {Null}]
    BY <1>3 DEF ProviderEnds, TypeOK, WorkerPcs
  <2>2. \A v \in Workers : Carries(v)'
    BY <1>3 DEF ProviderEnds, Carries, TypeOK
  <2> QED BY <1>3, <2>1, <2>2 DEF ProviderEnds, Asks, TypeOK, Holds
<1>4. CASE FinalHeartbeat(w)
  <2>1. jobs' \in [JobIds -> JobRow] /\ view' \in [Workers -> JobRow]
          /\ \A v \in Workers \ {w} : view'[v] = view[v]
    BY <1>0, <1>4, RenewedTypes DEF FinalHeartbeat, TypeOK
  <2>2. pc' \in [Workers -> WorkerPcs]
    BY <1>4 DEF FinalHeartbeat, TypeOK, WorkerPcs
  <2>3. \A v \in Workers : Carries(v)'
    BY <1>0, <1>4, <2>1 DEF FinalHeartbeat, Reads, Carries, TypeOK
  <2> QED BY <1>4, <2>1, <2>2, <2>3 DEF FinalHeartbeat, Asks, TypeOK, Holds
<1> QED BY <1>1, <1>2, <1>3, <1>4

\* A session that fails leaves its worker with nothing.
LEMMA WedgeTypes ==
  ASSUME TypeOK, NEW w \in Workers, Wedge(w)
  PROVE  /\ pc' \in [Workers -> WorkerPcs] /\ at' \in [Workers -> {0} \cup JobIds]
         /\ view' \in [Workers -> JobRow] /\ stale' \in [Workers -> SUBSET JobIds]
         /\ result' \in [Workers -> AssetIds \cup {Null}]
         /\ \A v \in Workers : Carries(v)'
PROOF
<1>1. \A v \in Workers : Carries(v)'
  BY DEF Wedge, Carries, TypeOK
<1> QED BY <1>1, FreshRows DEF Wedge, TypeOK, WorkerPcs

LEMMA StoreTypes ==
  ASSUME TypeOK, NEW w \in Workers, Lookup(w) \/ InsertAsset(w) \/ InsertConflicts(w)
  PROVE  TypeOK'
PROOF
<1>1. CASE Lookup(w)
  <2>1. \A v \in Workers : Carries(v)'
    BY <1>1 DEF Lookup, Reads, Carries, TypeOK
  <2> QED BY <1>1, <2>1, FreshRows DEF Lookup, Asks, TypeOK, WorkerPcs, Holds
<1>2. CASE InsertAsset(w)
  <2>1. result[w] \in AssetIds
    BY <1>2 DEF InsertAsset, Reads, Carries, TypeOK
  <2>2. assets' \in [Keys -> AssetRow \cup {Null}]
    BY <1>2, <2>1 DEF InsertAsset, AssetRow, TypeOK
  <2>3. \A v \in Workers : Carries(v)'
    BY <1>2 DEF InsertAsset, Reads, Carries, TypeOK
  <2>4. \A r \in Requests : Holds(r)'
    <3> SUFFICES ASSUME NEW r \in Requests, req[r].pc = "generating"
                 PROVE  assets'[req[r].key] \in AssetRow /\ assets'[req[r].key].id = "own"
      BY <1>2 DEF InsertAsset, Holds
    <3>1. assets[req[r].key] \in AssetRow /\ assets[req[r].key].id = "own" /\ req[r].key \in Keys
      BY DEF Holds, Asks, TypeOK
    <3>2. CASE req[r].key = view[w].key
      <4>1. assets[req[r].key] = Null
        BY <1>2, <3>2 DEF InsertAsset
      <4> QED BY <3>1, <4>1, JobConstants
    <3>3. CASE req[r].key # view[w].key
      BY <1>2, <3>1, <3>3 DEF InsertAsset, TypeOK
    <3> QED BY <3>2, <3>3
  <2> QED BY <1>2, <2>2, <2>3, <2>4, FreshRows DEF InsertAsset, Asks, TypeOK, WorkerPcs
<1>3. CASE InsertConflicts(w)
  BY <1>3, WedgeTypes DEF InsertConflicts, Asks, TypeOK, Holds
<1> QED BY <1>1, <1>2, <1>3

\* A worker that returns with its cached row expired carries nothing.
LEMMA ReturnTypes ==
  ASSUME TypeOK, NEW w \in Workers, Return(w), view'[w] = Blank,
         \A v \in Workers \ {w} : view'[v] = view[v]
  PROVE  /\ pc' \in [Workers -> WorkerPcs] /\ at' \in [Workers -> {0} \cup JobIds]
         /\ result' \in [Workers -> AssetIds \cup {Null}]
         /\ \A v \in Workers : Carries(v)'
PROOF
<1>1. \A v \in Workers : Carries(v)'
  BY DEF Return, Carries, TypeOK
<1> QED BY <1>1 DEF Return, TypeOK, WorkerPcs

LEMMA OutcomeTypes ==
  ASSUME TypeOK, NEW w \in Workers,
         MarkCompleted(w) \/ ScheduleRetry(w) \/ MarkFailed(w) \/ DeadLetter(w)
  PROVE  TypeOK'
PROOF
<1>1. at[w] \in JobIds /\ (pc[w] = "complete" => result[w] # Null)
  BY DEF MarkCompleted, ScheduleRetry, MarkFailed, DeadLetter, Reads, TypeOK, Carries
<1>2. \E new \in JobRow : Commit(w, at[w], new)
  <2>1. view[w] \in JobRow /\ {"completed", "pending", "failed"} \subseteq Statuses
    BY DEF TypeOK, Statuses
  <2>2. CASE MarkCompleted(w)
    <3>1. result[w] \in AssetIds
      BY <1>1, <2>2 DEF MarkCompleted, Reads, TypeOK
    <3>2. Completed(view[w], result[w]) \in JobRow
      BY <2>1, <3>1, CompletionWrites
    <3> QED BY <2>2, <3>2 DEF MarkCompleted
  <2>3. CASE ScheduleRetry(w)
    BY <2>1, <2>3, RetryWrites DEF ScheduleRetry
  <2>4. CASE MarkFailed(w)
    BY <2>1, <2>4, StatusWrites DEF MarkFailed
  <2>5. CASE DeadLetter(w)
    BY <2>1, <2>5, RowWrites DEF DeadLetter
  <2> QED BY <2>2, <2>3, <2>4, <2>5
<1>3. Return(w) /\ UNCHANGED <<assets, stale, req, faults, taken>>
  BY DEF MarkCompleted, ScheduleRetry, MarkFailed, DeadLetter
<1>4. /\ jobs' \in [JobIds -> JobRow] /\ view' \in [Workers -> JobRow]
      /\ view'[w] = Blank /\ \A v \in Workers \ {w} : view'[v] = view[v]
  BY <1>1, <1>2, CommitTypes
<1> QED BY <1>3, <1>4, ReturnTypes DEF TypeOK, Asks, Holds

LEMMA FaultTypes ==
  ASSUME TypeOK,
         \/ \E w \in Workers : DatabaseFails(w) \/ Restart(w)
         \/ \E j \in JobIds : Lapse(j)
  PROVE  TypeOK'
PROOF
<1> USE JobConstants
<1>1. ASSUME NEW w \in Workers, DatabaseFails(w) PROVE TypeOK'
  <2>1. faults' \in [crashes : 0..MaxCrashes, errors : 0..MaxErrors, lapses : 0..MaxLapses]
    BY <1>1 DEF DatabaseFails, TypeOK
  <2>2. /\ pc' \in [Workers -> WorkerPcs] /\ at' \in [Workers -> {0} \cup JobIds]
        /\ view' \in [Workers -> JobRow] /\ stale' \in [Workers -> SUBSET JobIds]
        /\ result' \in [Workers -> AssetIds \cup {Null}]
        /\ \A v \in Workers : Carries(v)'
    BY <1>1, WedgeTypes DEF DatabaseFails
  <2> QED BY <1>1, <2>1, <2>2 DEF DatabaseFails, TypeOK, Asks, Holds
<1>2. ASSUME NEW w \in Workers, Restart(w) PROVE TypeOK'
  <2>1. faults' \in [crashes : 0..MaxCrashes, errors : 0..MaxErrors, lapses : 0..MaxLapses]
    BY <1>2 DEF Restart, TypeOK
  <2>2. /\ view' \in [Workers -> JobRow]
        /\ view'[w] = Blank /\ \A v \in Workers \ {w} : view'[v] = view[v]
    BY <1>2, FreshRows DEF Restart, TypeOK
  <2>3. stale' \in [Workers -> SUBSET JobIds]
    BY <1>2 DEF Restart, TypeOK
  <2>4. /\ pc' \in [Workers -> WorkerPcs] /\ at' \in [Workers -> {0} \cup JobIds]
        /\ result' \in [Workers -> AssetIds \cup {Null}]
        /\ \A v \in Workers : Carries(v)'
    BY <1>2, <2>2, ReturnTypes DEF Restart
  <2> QED BY <1>2, <2>1, <2>2, <2>3, <2>4 DEF Restart, TypeOK, Asks, Holds
<1>3. ASSUME NEW j \in JobIds, Lapse(j) PROVE TypeOK'
  <2>1. faults' \in [crashes : 0..MaxCrashes, errors : 0..MaxErrors, lapses : 0..MaxLapses]
    BY <1>3 DEF Lapse, TypeOK
  <2>2. Leased(jobs[j], "lapsed") \in JobRow
    BY LeaseWrites DEF TypeOK
  <2>3. jobs' \in [JobIds -> JobRow]
    BY <1>3, <2>2 DEF Lapse, TypeOK
  <2> QED BY <1>3, <2>1, <2>3 DEF Lapse, TypeOK, Carries, Asks, Holds
<1> QED BY <1>1, <1>2, <1>3

\* A request's save keeps the jobs typed.
LEMMA RequestSaves ==
  ASSUME TypeOK, NEW r \in Requests, NEW new \in JobRow, NEW j \in JobIds,
         jobs' = [jobs EXCEPT ![j] = Save(@, req[r].view, new)]
  PROVE  jobs' \in [JobIds -> JobRow]
PROOF
<1>1. jobs[j] \in JobRow /\ req[r].view \in JobRow
  BY DEF TypeOK
<1>2. Save(jobs[j], req[r].view, new) \in JobRow
  BY <1>1, SaveColumns
<1> QED BY <1>2 DEF TypeOK

\* The states of a request.
RequestRow == [pc : RequestPcs, job : {0} \cup JobIds, key : Keys \cup {Null}, view : JobRow]

\* While the assets stay, a request that is generating holds its row.
LEMMA HoldsOn ==
  ASSUME TypeOK, assets' = assets,
         \A q \in Requests : req'[q].pc = "generating" => req'[q] = req[q]
  PROVE  \A q \in Requests : Holds(q)'
PROOF BY DEF TypeOK, Holds

\* A request that is over asks for nothing.
LEMMA EndTypes ==
  ASSUME TypeOK, NEW r \in Requests, Ends(r)
  PROVE  /\ req' \in [Requests -> RequestRow] /\ \A q \in Requests : Asks(q)'
         /\ \A q \in Requests : req'[q].pc = "generating" => req'[q] = req[q] /\ q # r
PROOF
<1>1. [FreshRequest EXCEPT !.pc = "over"] \in RequestRow
  BY FreshRows DEF FreshRequest, RequestRow, RequestPcs
<1>2. req' \in [Requests -> RequestRow]
  BY <1>1 DEF Ends, TypeOK, RequestRow
<1>3. [FreshRequest EXCEPT !.pc = "over"].pc = "over"
  BY DEF FreshRequest
<1> QED BY <1>2, <1>3 DEF Ends, Asks, TypeOK

\* A request that was sent with a key.
LEMMA SendTypes ==
  ASSUME TypeOK, NEW r \in Requests, NEW p \in {"submit", "create", "generating"},
         NEW k \in Keys, Sends(r, p, k)
  PROVE  /\ req' \in [Requests -> RequestRow] /\ \A q \in Requests : Asks(q)'
         /\ \A q \in Requests \ {r} : req'[q] = req[q]
         /\ req'[r].pc = p /\ req'[r].key = k
PROOF
<1> DEFINE x == [FreshRequest EXCEPT !.pc = p, !.key = k]
<1>1. x \in RequestRow
  BY FreshRows DEF FreshRequest, RequestRow, RequestPcs
<1>2. x.pc = p /\ x.key = k
  BY DEF FreshRequest
<1>3. k # Null
  BY JobConstants
<1> QED BY <1>1, <1>2, <1>3 DEF Sends, Asks, TypeOK, RequestRow

LEMMA SubmitTypes ==
  ASSUME TypeOK, NEW r \in Requests,
         SubmitMisses(r) \/ Submit(r) \/ Check(r) \/ Abandoned(r)
  PROVE  TypeOK'
PROOF
<1> USE JobConstants
<1>1. CASE SubmitMisses(r)
  <2>1. /\ req' \in [Requests -> RequestRow] /\ \A q \in Requests : Asks(q)'
        /\ \A q \in Requests : req'[q].pc = "generating" => req'[q] = req[q]
    BY <1>1, SendTypes DEF SubmitMisses
  <2> QED BY <1>1, <2>1, HoldsOn DEF SubmitMisses, TypeOK, Carries, RequestRow
<1>2. CASE Submit(r)
  <2>1. req[r].key \in Keys
    BY <1>2 DEF Submit, Asks, TypeOK
  <2>2. jobs' \in [JobIds -> JobRow]
    BY <1>2, <2>1, FreshRows DEF Submit, TypeOK
  <2>3. /\ req' \in [Requests -> RequestRow] /\ \A q \in Requests : Asks(q)'
        /\ \A q \in Requests : req'[q].pc = "generating" => req'[q] = req[q]
    BY <1>2, EndTypes DEF Submit
  <2> QED BY <1>2, <2>2, <2>3, HoldsOn DEF Submit, TypeOK, Carries, RequestRow
<1>3. CASE Check(r)
  <2>1. ASSUME NEW p \in {"cancel", "retry"}, NEW j \in JobIds, Finds(r, p, j)
        PROVE  /\ req' \in [Requests -> RequestRow] /\ \A q \in Requests : Asks(q)'
               /\ \A q \in Requests : req'[q].pc = "generating" => req'[q] = req[q]
    <3>1. [FreshRequest EXCEPT !.pc = p, !.job = j, !.view = jobs[j]] \in RequestRow
      BY <2>1, FreshRows DEF TypeOK, FreshRequest, RequestRow, RequestPcs
    <3>2. /\ [FreshRequest EXCEPT !.pc = p, !.job = j, !.view = jobs[j]].pc = p
          /\ [FreshRequest EXCEPT !.pc = p, !.job = j, !.view = jobs[j]].job = j
      BY DEF FreshRequest
    <3>3. j # 0
      BY DEF JobIds
    <3> QED BY <2>1, <3>1, <3>2, <3>3 DEF Finds, Asks, TypeOK, RequestRow
  <2>2. /\ req' \in [Requests -> RequestRow] /\ \A q \in Requests : Asks(q)'
        /\ \A q \in Requests : req'[q].pc = "generating" => req'[q] = req[q]
    BY <1>3, <2>1 DEF Check
  <2> QED BY <1>3, <2>2, HoldsOn DEF Check, TypeOK, Carries, RequestRow
<1>4. CASE Abandoned(r)
  BY <1>4, EndTypes, HoldsOn DEF Abandoned, TypeOK, Carries, RequestRow
<1> QED BY <1>1, <1>2, <1>3, <1>4

LEMMA ChangeTypes ==
  ASSUME TypeOK, NEW r \in Requests,
         Cancel(r) \/ Reopen(r) \/ Reread(r) \/ CountRetry(r)
  PROVE  TypeOK'
PROOF
<1> DEFINE j == req[r].job
<1>1. j \in JobIds /\ req[r].view \in JobRow /\ "cancelled" \in Statuses /\ "pending" \in Statuses
  BY DEF TypeOK, Asks, Cancel, Reopen, Reread, CountRetry, Statuses
<1>2. CASE Cancel(r)
  <2>1. jobs' \in [JobIds -> JobRow]
    BY <1>1, <1>2, RequestSaves, StatusWrites DEF Cancel
  <2>2. /\ req' \in [Requests -> RequestRow] /\ \A q \in Requests : Asks(q)'
        /\ \A q \in Requests : req'[q].pc = "generating" => req'[q] = req[q]
    BY <1>2, EndTypes DEF Cancel
  <2> QED BY <1>1, <1>2, <2>1, <2>2, HoldsOn DEF Cancel, Takes, TypeOK, Carries, RequestRow
<1>3. CASE Reopen(r)
  <2>1. jobs' \in [JobIds -> JobRow]
    BY <1>1, <1>3, RequestSaves, StatusWrites DEF Reopen
  <2>2. /\ req' \in [Requests -> RequestRow] /\ \A q \in Requests : Asks(q)'
        /\ \A q \in Requests : req'[q].pc = "generating" => req'[q] = req[q]
    <3> DEFINE x == [FreshRequest EXCEPT !.pc = "schedule", !.job = j]
    <3>1. x \in RequestRow
      BY <1>1, FreshRows DEF FreshRequest, RequestRow, RequestPcs
    <3>2. x.pc = "schedule" /\ x.job = j /\ j # 0
      BY <1>1 DEF FreshRequest, JobIds
    <3>3. req' = [req EXCEPT ![r] = x]
      BY <1>3 DEF Reopen
    <3> QED BY <3>1, <3>2, <3>3 DEF Asks, TypeOK, RequestRow
  <2> QED BY <1>1, <1>3, <2>1, <2>2, HoldsOn DEF Reopen, Takes, TypeOK, Carries, RequestRow
<1>4. CASE Reread(r)
  <2>1. /\ req' \in [Requests -> RequestRow] /\ \A q \in Requests : Asks(q)'
        /\ \A q \in Requests : req'[q].pc = "generating" => req'[q] = req[q]
    BY <1>1, <1>4 DEF Reread, Asks, TypeOK, RequestRow
  <2> QED BY <1>4, <2>1, HoldsOn DEF Reread, TypeOK, Carries, RequestRow
<1>5. CASE CountRetry(r)
  <2>1. jobs' \in [JobIds -> JobRow]
    BY <1>1, <1>5, RequestSaves, RetryWrites DEF CountRetry
  <2>2. /\ req' \in [Requests -> RequestRow] /\ \A q \in Requests : Asks(q)'
        /\ \A q \in Requests : req'[q].pc = "generating" => req'[q] = req[q]
    BY <1>5, EndTypes DEF CountRetry
  <2> QED BY <1>1, <1>5, <2>1, <2>2, HoldsOn DEF CountRetry, Takes, TypeOK, Carries, RequestRow
<1> QED BY <1>2, <1>3, <1>4, <1>5

LEMMA GenerateTypes ==
  ASSUME TypeOK, NEW r \in Requests, GenerateMisses(r) \/ CreateAsset(r) \/ Generated(r)
  PROVE  TypeOK'
PROOF
<1> USE JobConstants
<1>1. CASE GenerateMisses(r)
  <2>1. /\ req' \in [Requests -> RequestRow] /\ \A q \in Requests : Asks(q)'
        /\ \A q \in Requests : req'[q].pc = "generating" => req'[q] = req[q]
    BY <1>1, SendTypes DEF GenerateMisses
  <2> QED BY <1>1, <2>1, HoldsOn DEF GenerateMisses, TypeOK, Carries, RequestRow
<1>2. CASE CreateAsset(r)
  <2>1. req[r].key \in Keys
    BY <1>2 DEF CreateAsset, Asks, TypeOK
  <2>2. CASE assets[req[r].key] # Null
    BY <1>2, <2>2, EndTypes, HoldsOn DEF CreateAsset, TypeOK, Carries, RequestRow
  <2>3. CASE assets[req[r].key] = Null
    <3> DEFINE own == [id |-> "own", status |-> "processing"]
    <3>1. own \in AssetRow /\ own.id = "own"
      BY DEF AssetRow
    <3>2. assets' = [assets EXCEPT ![req[r].key] = own] /\ Sends(r, "generating", req[r].key)
      BY <1>2, <2>3 DEF CreateAsset
    <3>3. assets' \in [Keys -> AssetRow \cup {Null}]
      BY <3>1, <3>2 DEF TypeOK
    <3>4. /\ req' \in [Requests -> RequestRow] /\ \A q \in Requests : Asks(q)'
          /\ \A q \in Requests \ {r} : req'[q] = req[q]
          /\ req'[r].pc = "generating" /\ req'[r].key = req[r].key
      BY <2>1, <3>2, SendTypes
    <3>5. \A q \in Requests : Holds(q)'
      <4>1. ASSUME NEW q \in Requests, req'[q].pc = "generating" PROVE req'[q].key \in Keys
        BY <3>4, <4>1, JobConstants DEF Asks, RequestRow
      <4> QED BY <2>1, <3>1, <3>2, <3>4, <4>1 DEF TypeOK, Holds
    <3> QED BY <1>2, <3>3, <3>4, <3>5 DEF CreateAsset, TypeOK, Carries, RequestRow
  <2> QED BY <2>2, <2>3
<1>3. CASE Generated(r)
  <2>1. req[r].key \in Keys /\ assets[req[r].key] \in AssetRow /\ assets[req[r].key].id = "own"
    BY <1>3 DEF Generated, Asks, Holds, TypeOK
  <2>2. PICK s \in {"completed", "failed"} : assets' = [assets EXCEPT ![req[r].key].status = s]
    BY <1>3 DEF Generated
  <2>3. [assets[req[r].key] EXCEPT !.status = s] \in AssetRow
          /\ [assets[req[r].key] EXCEPT !.status = s].id = "own"
    BY <2>1 DEF AssetRow
  <2>4. assets' = [assets EXCEPT ![req[r].key] = [assets[req[r].key] EXCEPT !.status = s]]
    BY <2>2
  <2>5. assets' \in [Keys -> AssetRow \cup {Null}]
    BY <2>3, <2>4 DEF TypeOK
  <2>6. /\ req' \in [Requests -> RequestRow] /\ \A q \in Requests : Asks(q)'
        /\ \A q \in Requests : req'[q].pc = "generating" => req'[q] = req[q] /\ q # r
    BY <1>3, EndTypes DEF Generated
  <2>7. \A q \in Requests : Holds(q)'
    BY <2>1, <2>3, <2>4, <2>6 DEF TypeOK, Holds, Asks
  <2> QED BY <1>3, <2>5, <2>6, <2>7 DEF Generated, TypeOK, Carries, RequestRow
<1> QED BY <1>1, <1>2, <1>3

LEMMA NextTypes == TypeOK /\ [Next]_vars => TypeOK'
PROOF
<1> SUFFICES ASSUME TypeOK, [Next]_vars PROVE TypeOK'
  OBVIOUS
<1>1. CASE UNCHANGED vars
  BY <1>1 DEF vars, TypeOK, Carries, Asks, Holds
<1>2. ASSUME NEW w \in Workers, Runs(w) \/ Heartbeat(w) \/ ProviderEnds(w) PROVE TypeOK'
  BY <1>2, SelectTypes, RunTypes, StoreTypes, OutcomeTypes DEF Runs
<1>3. ASSUME NEW r \in Requests, Request(r) PROVE TypeOK'
  BY <1>3, SubmitTypes, ChangeTypes, GenerateTypes DEF Request
<1> QED BY <1>1, <1>2, <1>3, FaultTypes DEF Next

\* Type correctness: nothing a worker, a request or a fault does leaves the
\* types, and a worker that leaves run_next_job carries nothing out of it.
THEOREM JobTypes == Spec => []TypeOK
PROOF BY InitTypes, NextTypes, PTL DEF Spec

-----------------------------------------------------------------------------
(* Two workers are at one job only if the job was taken from one of them.   *)
(*                                                                          *)
(* OverlapHasCause is not inductive: a claim needs a pending row, so it     *)
(* must be known that the row of a job that a worker is at is not pending   *)
(* unless somebody took the job from it.  A worker's own outcome makes its  *)
(* row leave "processing" too, while another one might be at it; that case  *)
(* is OverlapHasCause itself, so both are proved together.                  *)

\* A job that was never taken shows that it is run.
Shown ==
  \A w \in Workers : \A j \in JobIds :
    AtWork(w, j) /\ j \notin taken => jobs[j].status = "processing"

OverlapInv == TypeOK /\ Shown /\ OverlapHasCause

-----------------------------------------------------------------------------
\* A step that puts no worker at a job: a job that a worker stays at keeps its
\* status, or is taken.
LEMMA QuietStep ==
  ASSUME OverlapInv, TypeOK', taken \subseteq taken',
         \A w \in Workers : \A j \in JobIds : AtWork(w, j)' => AtWork(w, j),
         \A w \in Workers : \A j \in JobIds :
           AtWork(w, j)' /\ jobs[j].status = "processing" =>
             jobs'[j].status = "processing" \/ j \in taken'
  PROVE  OverlapInv'
PROOF
<1>1. Shown'
  <2> SUFFICES ASSUME NEW w \in Workers, NEW j \in JobIds, AtWork(w, j)', j \notin taken'
               PROVE  jobs'[j].status = "processing"
    BY DEF Shown
  <2>1. AtWork(w, j) /\ j \notin taken
    OBVIOUS
  <2>2. jobs[j].status = "processing"
    BY <2>1 DEF OverlapInv, Shown
  <2> QED BY <2>2
<1>2. OverlapHasCause'
  <2> SUFFICES ASSUME NEW v \in Workers, NEW w \in Workers, NEW j \in JobIds,
                      v # w, AtWork(v, j)', AtWork(w, j)'
               PROVE  j \in taken'
    BY DEF OverlapHasCause
  <2>1. AtWork(v, j) /\ AtWork(w, j)
    OBVIOUS
  <2> QED BY <2>1 DEF OverlapInv, OverlapHasCause
<1> QED BY <1>1, <1>2 DEF OverlapInv

\* Every write of a row but a claim, by somebody who is not at the job, counts
\* the job as taken if it makes it leave "processing" under a worker.
LEMMA TakingStep ==
  ASSUME OverlapInv, TypeOK', NEW S \in SUBSET JobIds, Takes(S), UNCHANGED at,
         \A w \in Workers : pc'[w] = pc[w] \/ pc'[w] = "select",
         \A j \in JobIds \ S : jobs'[j] = jobs[j]
  PROVE  OverlapInv'
PROOF
<1>1. \A w \in Workers : \A j \in JobIds : AtWork(w, j)' => AtWork(w, j)
  BY DEF AtWork
<1>2. ASSUME NEW w \in Workers, NEW j \in JobIds, AtWork(w, j), jobs[j].status = "processing"
      PROVE  jobs'[j].status = "processing" \/ j \in taken'
  <2>1. CASE j \in S
    BY <1>2, <2>1 DEF Takes
  <2>2. CASE j \notin S
    BY <1>2, <2>2
  <2> QED BY <2>1, <2>2
<1>3. taken \subseteq taken'
  BY DEF Takes
<1> QED BY <1>1, <1>2, <1>3, QuietStep

\* A claim: the row was pending, so whoever is still at the job lost it.
LEMMA GrabStep ==
  ASSUME OverlapInv, TypeOK', NEW w \in Workers, Grab(w)
  PROVE  OverlapInv'
PROOF
<1>1. at[w] \in JobIds /\ taken' = taken /\ pc[w] = "grab"
  BY DEF Grab, OverlapInv, TypeOK, Carries
<1>2. CASE jobs[at[w]].status = "pending"
  <2> DEFINE i == at[w]
  <2>1. at' = at /\ jobs' = [jobs EXCEPT ![i] = Claimed(jobs[i], w)]
          /\ pc' = [pc EXCEPT ![w] = "working"]
    BY <1>2 DEF Grab
  <2>2. jobs'[i].status = "processing" /\ \A j \in JobIds \ {i} : jobs'[j] = jobs[j]
    <3>1. jobs[i] \in JobRow
      BY <1>1 DEF OverlapInv, TypeOK
    <3>2. Claimed(jobs[i], w).status = "processing"
      BY <3>1, RowWrites
    <3> QED BY <1>1, <2>1, <3>2 DEF OverlapInv, TypeOK
  <2>3. \A v \in Workers \ {w} : \A j \in JobIds : AtWork(v, j)' <=> AtWork(v, j)
    BY <2>1 DEF AtWork, OverlapInv, TypeOK
  <2>4. \A j \in JobIds : AtWork(w, j)' => j = i
    BY <2>1 DEF AtWork
  <2>5. Shown'
    BY <1>1, <2>2, <2>3, <2>4 DEF OverlapInv, Shown
  <2>6. \A v \in Workers : AtWork(v, i) => i \in taken
    BY <1>1, <1>2 DEF OverlapInv, Shown
  <2>7. OverlapHasCause'
    <3> SUFFICES ASSUME NEW u \in Workers, NEW v \in Workers, NEW j \in JobIds,
                        u # v, AtWork(u, j)', AtWork(v, j)'
                 PROVE  j \in taken
      BY <1>1 DEF OverlapHasCause
    <3>1. CASE u = w
      <4>1. j = i /\ v # w
        BY <2>4, <3>1
      <4> QED BY <1>1, <2>3, <2>6, <4>1
    <3>2. CASE v = w
      <4>1. j = i /\ u # w
        BY <2>4, <3>2
      <4> QED BY <1>1, <2>3, <2>6, <4>1
    <3>3. CASE u # w /\ v # w
      BY <2>3, <3>3 DEF OverlapInv, OverlapHasCause
    <3> QED BY <3>1, <3>2, <3>3
  <2> QED BY <2>5, <2>7 DEF OverlapInv
<1>3. CASE jobs[at[w]].status # "pending"
  <2>1. Return(w) /\ jobs' = jobs
    BY <1>3 DEF Grab
  <2>2. \A v \in Workers : \A j \in JobIds : AtWork(v, j)' => AtWork(v, j)
    BY <2>1 DEF Return, AtWork, OverlapInv, TypeOK
  <2> QED BY <1>1, <2>1, <2>2, QuietStep
<1> QED BY <1>2, <1>3

\* The outcome of a worker: another worker at the job is there because it was
\* taken already.
LEMMA EndStep ==
  ASSUME OverlapInv, TypeOK', NEW w \in Workers,
         MarkCompleted(w) \/ ScheduleRetry(w) \/ MarkFailed(w) \/ DeadLetter(w)
  PROVE  OverlapInv'
PROOF
<1>1. Return(w) /\ taken' = taken /\ \E new : Commit(w, at[w], new)
  BY DEF MarkCompleted, ScheduleRetry, MarkFailed, DeadLetter
<1>2. at[w] \in JobIds /\ AtWork(w, at[w])
  BY DEF MarkCompleted, ScheduleRetry, MarkFailed, DeadLetter, Reads, OverlapInv, TypeOK, Carries, AtWork
<1>3. \A v \in Workers : \A j \in JobIds : AtWork(v, j)' => AtWork(v, j) /\ v # w
  BY <1>1 DEF Return, AtWork, OverlapInv, TypeOK, JobIds
<1>4. \A j \in JobIds \ {at[w]} : jobs'[j] = jobs[j]
  BY <1>1 DEF Commit, OverlapInv, TypeOK
<1>5. ASSUME NEW v \in Workers, NEW j \in JobIds, AtWork(v, j)', jobs[j].status = "processing"
      PROVE  jobs'[j].status = "processing" \/ j \in taken'
  <2>1. AtWork(v, j) /\ v # w
    BY <1>3, <1>5
  <2>2. CASE j = at[w]
    BY <1>1, <1>2, <2>1, <2>2 DEF OverlapInv, OverlapHasCause
  <2>3. CASE j # at[w]
    BY <1>4, <1>5, <2>3
  <2> QED BY <2>2, <2>3
<1> QED BY <1>1, <1>3, <1>5, QuietStep

\* A heartbeat and an expiry write the lease only.
LEMMA LeaseOnlyStep ==
  ASSUME OverlapInv, TypeOK',
         \/ \E w \in Workers : Heartbeat(w) \/ FinalHeartbeat(w)
         \/ \E j \in JobIds : Lapse(j)
  PROVE  OverlapInv'
PROOF
<1>1. taken' = taken /\ at' = at
  BY DEF Heartbeat, FinalHeartbeat, Lapse
<1>2. \A w \in Workers : \A j \in JobIds : AtWork(w, j)' => AtWork(w, j)
  BY <1>1 DEF Heartbeat, FinalHeartbeat, Reads, Lapse, AtWork, OverlapInv, TypeOK
<1>3. \A i \in JobIds : jobs'[i].status = jobs[i].status
  <2>1. \/ jobs' = jobs
        \/ \E j \in JobIds : \E l \in {"live", "lapsed"} : jobs' = [jobs EXCEPT ![j] = Leased(jobs[j], l)]
    <3>1. ASSUME NEW w \in Workers, Heartbeat(w) \/ FinalHeartbeat(w)
          PROVE  jobs' = jobs \/ jobs' = [jobs EXCEPT ![at[w]] = Leased(jobs[at[w]], "live")]
      BY <3>1 DEF Heartbeat, FinalHeartbeat, Renewed
    <3>2. ASSUME NEW w \in Workers, Heartbeat(w) \/ FinalHeartbeat(w) PROVE at[w] \in JobIds
      BY <3>2 DEF Heartbeat, FinalHeartbeat, Reads, OverlapInv, TypeOK, Carries
    <3>3. ASSUME NEW j \in JobIds, Lapse(j) PROVE jobs' = [jobs EXCEPT ![j] = Leased(jobs[j], "lapsed")]
      BY <3>3 DEF Lapse
    <3> QED BY <3>1, <3>2, <3>3
  <2>2. \A j \in JobIds : \A l \in {"live", "lapsed"} : Leased(jobs[j], l).status = jobs[j].status
    BY LeaseWrites DEF OverlapInv, TypeOK
  <2> QED BY <2>1, <2>2 DEF OverlapInv, TypeOK
<1> QED BY <1>1, <1>2, <1>3, QuietStep

\* Steps of a worker that leave the jobs alone.
LEMMA AloneStep ==
  ASSUME OverlapInv, TypeOK', NEW w \in Workers,
         \/ SelectStale(w) \/ SelectPending(w) \/ Refresh(w) \/ ProviderEnds(w) \/ Lookup(w)
         \/ InsertAsset(w) \/ InsertConflicts(w) \/ DatabaseFails(w) \/ Restart(w)
  PROVE  OverlapInv'
PROOF
<1>1. taken' = taken /\ jobs' = jobs
  BY DEF SelectStale, SelectPending, Refresh, ProviderEnds, Lookup, InsertAsset,
         InsertConflicts, DatabaseFails, Restart
<1>2. \A v \in Workers \ {w} : pc'[v] = pc[v] /\ at'[v] = at[v]
  BY DEF SelectStale, SelectPending, Refresh, ProviderEnds, Lookup, InsertAsset,
         InsertConflicts, DatabaseFails, Restart, Wedge, Return, OverlapInv, TypeOK
<1>3. \A j \in JobIds : AtWork(w, j)' => AtWork(w, j)
  <2>1. CASE SelectStale(w) \/ SelectPending(w) \/ InsertConflicts(w) \/ DatabaseFails(w) \/ Restart(w)
    BY <2>1 DEF SelectStale, SelectPending, InsertConflicts, DatabaseFails, Restart, Wedge,
                Return, AtWork, OverlapInv, TypeOK
  <2>2. CASE Refresh(w) \/ ProviderEnds(w) \/ Lookup(w) \/ InsertAsset(w)
    BY <2>2 DEF Refresh, ProviderEnds, Lookup, InsertAsset, Reads, AtWork
  <2> QED BY <2>1, <2>2
<1>4. \A v \in Workers : \A j \in JobIds : AtWork(v, j)' => AtWork(v, j)
  BY <1>2, <1>3 DEF AtWork
<1> QED BY <1>1, <1>4, QuietStep

LEMMA RequestStep ==
  ASSUME OverlapInv, TypeOK', NEW r \in Requests, Request(r)
  PROVE  OverlapInv'
PROOF
<1>0. UNCHANGED <<pc, at>>
  BY DEF Request, SubmitMisses, Submit, Check, Cancel, Reopen, Reread, CountRetry,
         GenerateMisses, CreateAsset, Generated, Abandoned
<1>1. CASE jobs' = jobs /\ taken' = taken
  <2>1. \A w \in Workers : \A j \in JobIds : AtWork(w, j)' => AtWork(w, j)
    BY <1>0 DEF AtWork
  <2> QED BY <1>1, <2>1, QuietStep
<1>2. CASE Submit(r)
  <2>1. \A w \in Workers : \A j \in JobIds : AtWork(w, j)' => AtWork(w, j)
    BY <1>0 DEF AtWork
  <2>2. \A j \in JobIds : jobs[j].status = "processing" => jobs'[j] = jobs[j]
    BY <1>2 DEF Submit, Blank, OverlapInv, TypeOK
  <2>3. taken' = taken
    BY <1>2 DEF Submit
  <2> QED BY <2>1, <2>2, <2>3, QuietStep
<1>3. CASE Cancel(r) \/ Reopen(r) \/ CountRetry(r)
  <2>1. req[r].job \in JobIds
    BY <1>3 DEF Cancel, Reopen, CountRetry, OverlapInv, TypeOK, Asks
  <2>2. Takes({req[r].job}) /\ \A j \in JobIds \ {req[r].job} : jobs'[j] = jobs[j]
    BY <1>3, <2>1 DEF Cancel, Reopen, CountRetry, OverlapInv, TypeOK
  <2> QED BY <1>0, <2>1, <2>2, TakingStep
<1> QED BY <1>1, <1>2, <1>3 DEF Request, SubmitMisses, Check, Reread, GenerateMisses,
                                CreateAsset, Generated, Abandoned

LEMMA ResetStep ==
  ASSUME OverlapInv, TypeOK', NEW w \in Workers, ResetStale(w)
  PROVE  OverlapInv'
PROOF
<1>1. stale[w] \in SUBSET JobIds /\ Takes(stale[w]) /\ UNCHANGED at
  BY DEF ResetStale, OverlapInv, TypeOK
<1>2. \A j \in JobIds \ stale[w] : jobs'[j] = jobs[j]
  BY DEF ResetStale
<1>3. \A v \in Workers : pc'[v] = pc[v] \/ pc'[v] = "select"
  BY DEF ResetStale, OverlapInv, TypeOK
<1> QED BY <1>1, <1>2, <1>3, TakingStep

-----------------------------------------------------------------------------
LEMMA OverlapInit == Init => OverlapInv
PROOF
<1> SUFFICES ASSUME Init PROVE OverlapInv
  OBVIOUS
<1>1. \A w \in Workers : \A j \in JobIds : ~AtWork(w, j)
  BY DEF Init, AtWork
<1> QED BY <1>1, InitTypes DEF OverlapInv, Shown, OverlapHasCause

LEMMA OverlapNext == OverlapInv /\ [Next]_vars => OverlapInv'
PROOF
<1> SUFFICES ASSUME OverlapInv, [Next]_vars PROVE OverlapInv'
  OBVIOUS
<1>1. TypeOK'
  BY NextTypes DEF OverlapInv
<1>2. CASE UNCHANGED vars
  <2>1. \A w \in Workers : \A j \in JobIds : AtWork(w, j)' => AtWork(w, j)
    BY <1>2 DEF vars, AtWork
  <2> QED BY <1>1, <1>2, <2>1, QuietStep DEF vars
<1>3. ASSUME NEW w \in Workers, Runs(w) \/ Heartbeat(w) \/ ProviderEnds(w) PROVE OverlapInv'
  BY <1>1, <1>3, ResetStep, AloneStep, GrabStep, LeaseOnlyStep, EndStep DEF Runs
<1>4. ASSUME NEW w \in Workers, DatabaseFails(w) \/ Restart(w) PROVE OverlapInv'
  BY <1>1, <1>4, AloneStep
<1>5. ASSUME NEW j \in JobIds, Lapse(j) PROVE OverlapInv'
  BY <1>1, <1>5, LeaseOnlyStep
<1>6. ASSUME NEW r \in Requests, Request(r) PROVE OverlapInv'
  BY <1>1, <1>6, RequestStep
<1> QED BY <1>2, <1>3, <1>4, <1>5, <1>6 DEF Next

\* The claim (claim_next_pending_with_lease) is exclusive: two workers are at
\* one job only after a recovery, a retry or a cancel took it from one of them.
THEOREM OverlapIsTaken == Spec => []OverlapHasCause
PROOF
<1>1. OverlapInv => OverlapHasCause
  BY DEF OverlapInv
<1> QED BY <1>1, OverlapInit, OverlapNext, PTL DEF Spec

-----------------------------------------------------------------------------
(* What a completed job promises: its asset is stored.                     *)
(*                                                                         *)
(* CompletedHasAsset alone is not inductive.  A row is written column by   *)
(* column, from values that a session has cached; that the status          *)
(* "completed" never meets an asset id that is NULL rests on what the      *)
(* cached rows of all workers and requests may say about the row itself.   *)

\* A finished asset has the id a.
Done(a) == \E k \in Keys : assets[k] # Null /\ assets[k] = [id |-> a, status |-> "completed"]

\* A row that names an asset names a finished one, a completed row names one,
\* and a row that exists has a cache key.
RowInv(row) ==
  /\ row.asset # Null => Done(row.asset)
  /\ row.status = "completed" => row.asset # Null
  /\ row.status # "absent" => row.key \in Keys

\* A cached row names no asset that the row has lost, for none is ever lost.
Seen(seen, row) ==
  /\ row.status # "absent"
  /\ seen.asset # Null => row.asset # Null
  /\ seen.status = "completed" => seen.asset # Null
  /\ seen # Blank => seen.key \in Keys

WorkersInv ==
  \A w \in Workers : /\ at[w] # 0 => Seen(view[w], jobs[at[w]])
                     /\ pc[w] = "complete" => Done(result[w])
                     /\ \A j \in stale[w] : jobs[j].status # "absent"
RequestsInv == \A r \in Requests : req[r].job # 0 => Seen(req[r].view, jobs[req[r].job])
StoreInv == \A k \in Keys : assets[k] # Null /\ assets[k].id # "own" => assets[k].status = "completed"

AssetInv ==
  /\ TypeOK
  /\ \A j \in JobIds : RowInv(jobs[j])
  /\ WorkersInv
  /\ RequestsInv
  /\ StoreInv

\* A step of a row that loses neither its asset nor its existence.
Grows(row, new) ==
  /\ row.asset # Null => new.asset # Null
  /\ row.status # "absent" => new.status # "absent"

\* What a worker, or a request, has at hand after a step: its job and a cached
\* row as before, or one that fits; the same for its asset and its selection.
WorkerKeeps(w) ==
  /\ \/ at'[w] = 0
     \/ at'[w] = at[w] /\ view'[w] \in {view[w], Blank}
     \/ Seen(view'[w], jobs'[at'[w]])
  /\ pc'[w] = "complete" => \/ pc[w] = "complete" /\ result'[w] = result[w]
                           \/ Done(result'[w])
  /\ stale'[w] \subseteq stale[w] \/ \A j \in stale'[w] : jobs'[j].status # "absent"
RequestKeeps(r) ==
  \/ req'[r].job = 0
  \/ req'[r].job = req[r].job /\ req'[r].view \in {req[r].view, Blank}
  \/ Seen(req'[r].view, jobs'[req'[r].job])

-----------------------------------------------------------------------------
LEMMA BlankSeen == Blank.asset = Null /\ Blank.status = "absent"
PROOF BY DEF Blank

\* Saving a row: the outcomes other than a completion leave the asset alone.
LEMMA SaveGrows ==
  ASSUME NEW row \in JobRow, NEW seen \in JobRow, NEW new \in JobRow,
         RowInv(row), Seen(seen, row), new.key = seen.key, new.status # "absent",
         \/ new.asset = seen.asset /\ new.status # "completed"
         \/ new.asset # Null /\ Done(new.asset)
  PROVE  RowInv(Save(row, seen, new)) /\ Grows(row, Save(row, seen, new))
PROOF
<1> DEFINE s == Save(row, seen, new)
<1>1. /\ s.status = IF new.status = seen.status THEN row.status ELSE new.status
      /\ s.key = IF new.key = seen.key THEN row.key ELSE new.key
      /\ s.asset = IF new.asset = seen.asset THEN row.asset ELSE new.asset
  BY SaveColumns
<1> SUFFICES RowInv(s) /\ Grows(row, s)
  OBVIOUS
<1> HIDE DEF s
<1>2. CASE new.asset = seen.asset /\ new.status # "completed"
  BY <1>1, <1>2 DEF RowInv, Seen, Grows
<1>3. CASE new.asset # Null /\ Done(new.asset)
  BY <1>1, <1>3 DEF RowInv, Seen, Grows
<1> QED BY <1>2, <1>3

\* The shape of a step that writes rows and leaves the assets alone: whoever
\* keeps a cached row keeps it for the same job.
LEMMA RowsStep ==
  ASSUME AssetInv, TypeOK', assets' = assets,
         \A j \in JobIds : RowInv(jobs'[j]) /\ Grows(jobs[j], jobs'[j]),
         \A w \in Workers : WorkerKeeps(w),
         \A r \in Requests : RequestKeeps(r)
  PROVE  AssetInv'
PROOF
<1>1. \A a : Done(a)' <=> Done(a)
  BY DEF Done
<1>2. \A j \in JobIds : RowInv(jobs[j])'
  BY <1>1 DEF RowInv
<1>3. WorkersInv'
  <2> SUFFICES ASSUME NEW w \in Workers
               PROVE  /\ at'[w] # 0 => Seen(view[w], jobs[at[w]])'
                      /\ pc'[w] = "complete" => Done(result[w])'
                      /\ \A j \in stale'[w] : jobs'[j].status # "absent"
    BY DEF WorkersInv
  <2>1. pc'[w] = "complete" => Done(result[w])'
    BY <1>1 DEF AssetInv, WorkersInv, WorkerKeeps, Done
  <2>2. ASSUME at'[w] # 0 PROVE Seen(view[w], jobs[at[w]])'
    <3>1. CASE at'[w] = at[w] /\ view'[w] \in {view[w], Blank}
      <4>1. at[w] \in JobIds
        BY <2>2, <3>1 DEF TypeOK
      <4>2. Seen(view[w], jobs[at[w]]) /\ Grows(jobs[at[w]], jobs'[at[w]])
        BY <2>2, <3>1, <4>1 DEF AssetInv, WorkersInv
      <4> QED BY <3>1, <4>2, BlankSeen DEF Seen, Grows
    <3>2. CASE Seen(view'[w], jobs'[at'[w]])
      BY <3>2 DEF Seen
    <3> QED BY <2>2, <3>1, <3>2 DEF WorkerKeeps
  <2>3. ASSUME NEW j \in stale'[w] PROVE jobs'[j].status # "absent"
    <3>1. CASE j \in stale[w]
      <4>1. j \in JobIds
        BY <3>1 DEF AssetInv, TypeOK
      <4> QED BY <3>1, <4>1 DEF AssetInv, WorkersInv, Grows
    <3> QED BY <2>3, <3>1 DEF WorkerKeeps
  <2> QED BY <2>1, <2>2, <2>3
<1>4. RequestsInv'
  <2> SUFFICES ASSUME NEW r \in Requests, req'[r].job # 0
               PROVE  Seen(req[r].view, jobs[req[r].job])'
    BY DEF RequestsInv
  <2>1. CASE req'[r].job = req[r].job /\ req'[r].view \in {req[r].view, Blank}
    <3>1. req[r].job \in JobIds
      BY <2>1 DEF TypeOK
    <3>2. Seen(req[r].view, jobs[req[r].job]) /\ Grows(jobs[req[r].job], jobs'[req[r].job])
      BY <2>1, <3>1 DEF AssetInv, RequestsInv
    <3> QED BY <2>1, <3>2, BlankSeen DEF Seen, Grows
  <2>2. CASE Seen(req'[r].view, jobs'[req'[r].job])
    BY <2>2 DEF Seen
  <2> QED BY <2>1, <2>2 DEF RequestKeeps
<1>5. StoreInv'
  BY DEF AssetInv, StoreInv
<1> QED BY <1>2, <1>3, <1>4, <1>5 DEF AssetInv

LEMMA RequestsRest == req' = req => \A r \in Requests : RequestKeeps(r)
PROOF BY DEF RequestKeeps

LEMMA WorkersRest ==
  UNCHANGED <<pc, at, view, stale, result>> => \A w \in Workers : WorkerKeeps(w)
PROOF BY DEF WorkerKeeps

-----------------------------------------------------------------------------
(* Steps that write rows.                                                   *)

\* A worker's commit.
LEMMA CommitStep ==
  ASSUME AssetInv, NEW w \in Workers, at[w] \in JobIds, NEW new \in JobRow,
         Commit(w, at[w], new), view[w] # Blank,
         new.key = view[w].key, new.status # "absent",
         \/ new.asset = view[w].asset /\ new.status # "completed"
         \/ new.asset # Null /\ Done(new.asset)
  PROVE  \A j \in JobIds : RowInv(jobs'[j]) /\ Grows(jobs[j], jobs'[j])
PROOF
<1> DEFINE row == jobs[at[w]]
<1>1. row \in JobRow /\ view[w] \in JobRow /\ RowInv(row) /\ Seen(view[w], row)
  BY DEF AssetInv, TypeOK, WorkersInv, JobIds
<1>2. RowInv(Save(row, view[w], new)) /\ Grows(row, Save(row, view[w], new))
  BY <1>1, SaveGrows
<1>3. jobs' = [jobs EXCEPT ![at[w]] = Save(row, view[w], new)]
  BY DEF Commit
<1> QED BY <1>2, <1>3 DEF AssetInv, TypeOK, Grows

LEMMA OutcomeStep ==
  ASSUME AssetInv, TypeOK', NEW w \in Workers,
         MarkCompleted(w) \/ ScheduleRetry(w) \/ MarkFailed(w) \/ DeadLetter(w)
  PROVE  AssetInv'
PROOF
<1>1. /\ at[w] \in JobIds /\ view[w] \in JobRow /\ view[w] # Blank
      /\ pc[w] = "complete" => result[w] \in AssetIds /\ Done(result[w])
  BY DEF MarkCompleted, ScheduleRetry, MarkFailed, DeadLetter, Reads, AssetInv, TypeOK,
         Carries, WorkersInv
<1>2. \A j \in JobIds : RowInv(jobs'[j]) /\ Grows(jobs[j], jobs'[j])
  <2>1. CASE MarkCompleted(w)
    <3> DEFINE new == Completed(view[w], result[w])
    <3>1. result[w] \in AssetIds /\ Done(result[w]) /\ result[w] # Null
      BY <1>1, <2>1, JobConstants DEF MarkCompleted, Reads
    <3>2. /\ new \in JobRow /\ new.key = view[w].key
          /\ new.status = "completed" /\ new.asset = result[w]
      BY <1>1, <3>1, CompletionWrites
    <3>3. Commit(w, at[w], new)
      BY <2>1 DEF MarkCompleted
    <3> HIDE DEF new
    <3> QED BY <1>1, <3>1, <3>2, <3>3, CommitStep
  <2>2. CASE ScheduleRetry(w)
    <3> DEFINE new == Retried(view[w])
    <3>1. /\ new \in JobRow /\ new.key = view[w].key
          /\ new.status = "pending" /\ new.asset = view[w].asset
      BY <1>1, RetryWrites
    <3>2. Commit(w, at[w], new)
      BY <2>2 DEF ScheduleRetry
    <3> HIDE DEF new
    <3> QED BY <1>1, <3>1, <3>2, CommitStep
  <2>3. CASE MarkFailed(w)
    <3> DEFINE new == Marked(view[w], "failed")
    <3>1. "failed" \in Statuses
      BY DEF Statuses
    <3>2. /\ new \in JobRow /\ new.key = view[w].key
          /\ new.status = "failed" /\ new.asset = view[w].asset
      BY <1>1, <3>1, StatusWrites
    <3>3. Commit(w, at[w], new)
      BY <2>3 DEF MarkFailed
    <3> HIDE DEF new
    <3> QED BY <1>1, <3>2, <3>3, CommitStep
  <2>4. CASE DeadLetter(w)
    <3> DEFINE new == Buried(view[w])
    <3>1. /\ new \in JobRow /\ new.key = view[w].key
          /\ new.status = "dead_lettered" /\ new.asset = view[w].asset
      BY <1>1, RowWrites
    <3>2. Commit(w, at[w], new)
      BY <2>4 DEF DeadLetter
    <3> HIDE DEF new
    <3> QED BY <1>1, <3>1, <3>2, CommitStep
  <2> QED BY <2>1, <2>2, <2>3, <2>4
<1>3. /\ Return(w) /\ UNCHANGED <<assets, stale, req, faults, taken>>
      /\ view' = [view EXCEPT ![w] = Blank]
  BY DEF MarkCompleted, ScheduleRetry, MarkFailed, DeadLetter, Commit
<1>4. \A v \in Workers : WorkerKeeps(v)
  BY <1>3 DEF WorkerKeeps, Return, AssetInv, TypeOK
<1> QED BY <1>2, <1>3, <1>4, RowsStep, RequestsRest

\* A heartbeat, an expiry, a claim and a recovery keep a row's asset, and none
\* of them completes it.
LEMMA LeaseGrows ==
  ASSUME NEW row \in JobRow, RowInv(row), NEW w \in Workers, NEW l \in {"live", "lapsed"}
  PROVE  /\ RowInv(Leased(row, l)) /\ Grows(row, Leased(row, l))
         /\ row.status # "absent" => RowInv(Claimed(row, w)) /\ Grows(row, Claimed(row, w))
         /\ row.status # "absent" => RowInv(Recovered(row)) /\ Grows(row, Recovered(row))
PROOF
<1>1. RowInv(Leased(row, l)) /\ Grows(row, Leased(row, l))
  BY LeaseWrites DEF RowInv, Grows
<1>2. row.status # "absent" => RowInv(Claimed(row, w)) /\ Grows(row, Claimed(row, w))
  BY RowWrites DEF RowInv, Grows
<1>3. row.status # "absent" => RowInv(Recovered(row)) /\ Grows(row, Recovered(row))
  BY RowWrites DEF RowInv, Grows
<1> QED BY <1>1, <1>2, <1>3

\* A row in JobIds is a typed row that keeps RowInv, and may stay as it is.
LEMMA Row ==
  ASSUME AssetInv, NEW j \in JobIds
  PROVE  jobs[j] \in JobRow /\ RowInv(jobs[j]) /\ Grows(jobs[j], jobs[j])
PROOF BY DEF AssetInv, TypeOK, Grows

LEMMA LeaseStep ==
  ASSUME AssetInv, TypeOK',
         \/ \E w \in Workers : Grab(w) \/ Heartbeat(w) \/ FinalHeartbeat(w)
         \/ \E j \in JobIds : Lapse(j)
  PROVE  AssetInv'
PROOF
<1>1. ASSUME NEW w \in Workers, Grab(w) PROVE AssetInv'
  <2>1. at[w] \in JobIds
    BY <1>1 DEF Grab, AssetInv, TypeOK, Carries
  <2>2. \A j \in JobIds : RowInv(jobs'[j]) /\ Grows(jobs[j], jobs'[j])
    <3>1. CASE jobs[at[w]].status = "pending"
      <4>1. jobs' = [jobs EXCEPT ![at[w]] = Claimed(jobs[at[w]], w)]
        BY <1>1, <3>1 DEF Grab
      <4>2. RowInv(Claimed(jobs[at[w]], w)) /\ Grows(jobs[at[w]], Claimed(jobs[at[w]], w))
        BY <2>1, <3>1, Row, LeaseGrows
      <4> QED BY <4>1, <4>2, Row DEF AssetInv, TypeOK
    <3>2. CASE jobs' = jobs
      BY <3>2, Row
    <3> QED BY <1>1, <3>1, <3>2 DEF Grab
  <2>3. \A v \in Workers : WorkerKeeps(v)
    BY <1>1 DEF WorkerKeeps, Grab, Return, AssetInv, TypeOK
  <2> QED BY <1>1, <2>2, <2>3, RowsStep, RequestsRest DEF Grab
<1>2. ASSUME NEW w \in Workers, Heartbeat(w) \/ (FinalHeartbeat(w) /\ Renewed(w)) PROVE AssetInv'
  <2>1. at[w] \in JobIds
    BY <1>2 DEF Heartbeat, FinalHeartbeat, Reads, AssetInv, TypeOK, Carries
  <2>2. \A j \in JobIds : RowInv(jobs'[j]) /\ Grows(jobs[j], jobs'[j])
    <3>1. jobs' = [jobs EXCEPT ![at[w]] = Leased(jobs[at[w]], "live")]
      BY <1>2 DEF Heartbeat, FinalHeartbeat, Renewed
    <3>2. RowInv(Leased(jobs[at[w]], "live")) /\ Grows(jobs[at[w]], Leased(jobs[at[w]], "live"))
      BY <2>1, Row, LeaseGrows
    <3> QED BY <3>1, <3>2, Row DEF AssetInv, TypeOK
  <2>3. \A v \in Workers : WorkerKeeps(v)
    BY <1>2 DEF WorkerKeeps, Heartbeat, FinalHeartbeat, Renewed, AssetInv, TypeOK
  <2> QED BY <1>2, <2>2, <2>3, RowsStep, RequestsRest DEF Heartbeat, FinalHeartbeat
<1>3. ASSUME NEW w \in Workers, FinalHeartbeat(w), UNCHANGED <<jobs, view>> PROVE AssetInv'
  <2>1. \A v \in Workers : WorkerKeeps(v)
    BY <1>3 DEF WorkerKeeps, FinalHeartbeat, AssetInv, TypeOK
  <2> QED BY <1>3, <2>1, Row, RowsStep, RequestsRest DEF FinalHeartbeat
<1>4. ASSUME NEW j \in JobIds, Lapse(j) PROVE AssetInv'
  <2>1. jobs' = [jobs EXCEPT ![j] = Leased(jobs[j], "lapsed")]
    BY <1>4 DEF Lapse
  <2>2. PICK w \in Workers \cup {Null} : TRUE
    OBVIOUS
  <2>3. RowInv(Leased(jobs[j], "lapsed")) /\ Grows(jobs[j], Leased(jobs[j], "lapsed"))
    BY Row, LeaseWrites DEF RowInv, Grows
  <2>4. \A i \in JobIds : RowInv(jobs'[i]) /\ Grows(jobs[i], jobs'[i])
    BY <2>1, <2>3, Row DEF AssetInv, TypeOK
  <2> QED BY <1>4, <2>4, RowsStep, RequestsRest, WorkersRest DEF Lapse
<1> QED BY <1>1, <1>2, <1>3, <1>4 DEF FinalHeartbeat

LEMMA RecoveryStep ==
  ASSUME AssetInv, TypeOK', NEW w \in Workers, SelectStale(w) \/ ResetStale(w)
  PROVE  AssetInv'
PROOF
<1>1. \A j \in JobIds : RowInv(jobs'[j]) /\ Grows(jobs[j], jobs'[j])
  <2>1. CASE SelectStale(w)
    BY <2>1, Row DEF SelectStale
  <2>2. CASE ResetStale(w)
    <3> SUFFICES ASSUME NEW j \in JobIds PROVE RowInv(jobs'[j]) /\ Grows(jobs[j], jobs'[j])
      OBVIOUS
    <3>1. CASE j \in stale[w]
      <4>1. jobs'[j] = Recovered(jobs[j]) /\ jobs[j].status # "absent"
        BY <2>2, <3>1 DEF ResetStale, AssetInv, WorkersInv
      <4> QED BY <4>1, Row, LeaseGrows
    <3>2. CASE j \notin stale[w]
      <4>1. jobs'[j] = jobs[j]
        BY <2>2, <3>2 DEF ResetStale
      <4> QED BY <4>1, Row
    <3> QED BY <3>1, <3>2
  <2> QED BY <2>1, <2>2
<1>2. \A v \in Workers : WorkerKeeps(v)
  <2>1. CASE SelectStale(w)
    <3>1. \A j \in Lapsed : jobs'[j].status # "absent"
      BY <2>1 DEF SelectStale, Lapsed
    <3>2. stale' = [stale EXCEPT ![w] = Lapsed] /\ UNCHANGED <<at, view, result>>
          /\ \A v \in Workers : pc'[v] = "complete" => pc[v] = "complete"
      BY <2>1 DEF SelectStale, AssetInv, TypeOK
    <3> QED BY <3>1, <3>2 DEF WorkerKeeps, AssetInv, TypeOK
  <2>2. CASE ResetStale(w)
    BY <2>2 DEF WorkerKeeps, ResetStale, AssetInv, TypeOK
  <2> QED BY <2>1, <2>2
<1> QED BY <1>1, <1>2, RowsStep, RequestsRest DEF SelectStale, ResetStale

\* A row that has just been read shows what it holds.
LEMMA FreshlySeen ==
  ASSUME AssetInv, NEW j \in JobIds, jobs[j].status # "absent"
  PROVE  Seen(jobs[j], jobs[j])
PROOF BY DEF AssetInv, RowInv, Seen

\* Steps of a worker that write nothing.
LEMMA WorkerReads ==
  ASSUME AssetInv, TypeOK', NEW w \in Workers,
         SelectPending(w) \/ Refresh(w) \/ ProviderEnds(w) \/ Lookup(w)
  PROVE  AssetInv'
PROOF
<1>1. UNCHANGED <<jobs, assets, stale, req>>
  BY DEF SelectPending, Refresh, ProviderEnds, Lookup
<1>2. \A j \in JobIds : RowInv(jobs'[j]) /\ Grows(jobs[j], jobs'[j])
  BY <1>1, Row
<1>3. \A v \in Workers : WorkerKeeps(v)
  <2>1. CASE SelectPending(w)
    <3>1. at'[w] = 0 \/ Seen(view'[w], jobs'[at'[w]])
      <4>1. CASE Pending = {}
        BY <2>1, <4>1 DEF SelectPending, Return, AssetInv, TypeOK
      <4>2. CASE Pending # {}
        <5>1. PICK j \in Pending : at' = [at EXCEPT ![w] = j]
          BY <2>1, <4>2 DEF SelectPending
        <5>2. view[w] = Blank /\ view' = view /\ at'[w] = j /\ jobs'[j].status = "pending"
          BY <1>1, <2>1, <5>1 DEF SelectPending, Pending, AssetInv, TypeOK, Carries
        <5> QED BY <5>2, BlankSeen DEF Seen
      <4> QED BY <4>1, <4>2
    <3>2. /\ \A v \in Workers \ {w} : at'[v] = at[v] /\ result'[v] = result[v]
          /\ \A v \in Workers : pc'[v] = "complete" => pc[v] = "complete" /\ v # w
          /\ view' = view
      BY <2>1 DEF SelectPending, Return, AssetInv, TypeOK
    <3> QED BY <1>1, <3>1, <3>2 DEF WorkerKeeps
  <2>2. CASE Refresh(w)
    <3>1. at[w] \in JobIds
      BY <2>2 DEF Refresh, AssetInv, TypeOK, Carries
    <3>2. Seen(jobs[at[w]], jobs[at[w]])
      BY <3>1, FreshlySeen DEF AssetInv, WorkersInv, Seen, JobIds
    <3> QED BY <1>1, <2>2, <3>2 DEF Refresh, WorkerKeeps, AssetInv, TypeOK
  <2>3. CASE ProviderEnds(w)
    BY <1>1, <2>3 DEF ProviderEnds, WorkerKeeps, AssetInv, TypeOK
  <2>4. CASE Lookup(w)
    <3>1. pc'[w] = "complete" => Done(result[w])
      <4> SUFFICES ASSUME pc'[w] = "complete" PROVE Done(result[w])
        OBVIOUS
      <4>1. Stored(result[w])
        BY <2>4 DEF Lookup, AssetInv, TypeOK
      <4>2. PICK k \in Keys : assets[k] # Null /\ assets[k].id = result[w]
        BY <4>1 DEF Stored
      <4>3. result[w] \in AssetIds
        BY <2>4 DEF Lookup, Reads, AssetInv, TypeOK, Carries
      <4>4. assets[k] \in AssetRow /\ assets[k].status = "completed"
        BY <4>2, <4>3, JobConstants DEF AssetInv, TypeOK, StoreInv
      <4>5. assets[k] = [id |-> result[w], status |-> "completed"]
        BY <4>2, <4>4 DEF AssetRow
      <4> QED BY <4>2, <4>5 DEF Done
    <3>2. /\ \A v \in Workers \ {w} : pc'[v] = pc[v]
          /\ \A v \in Workers : view'[v] \in {view[v], Blank}
          /\ UNCHANGED <<at, result>>
      BY <2>4 DEF Lookup, AssetInv, TypeOK
    <3> QED BY <1>1, <3>1, <3>2 DEF WorkerKeeps
  <2> QED BY <2>1, <2>2, <2>3, <2>4
<1> QED BY <1>1, <1>2, <1>3, RowsStep, RequestsRest

\* A worker that fails or ends keeps nothing.
LEMMA WorkerStops ==
  ASSUME AssetInv, TypeOK', NEW w \in Workers,
         InsertConflicts(w) \/ DatabaseFails(w) \/ Restart(w)
  PROVE  AssetInv'
PROOF
<1>1. UNCHANGED <<jobs, assets, req>>
  BY DEF InsertConflicts, DatabaseFails, Restart
<1>2. \A j \in JobIds : RowInv(jobs'[j]) /\ Grows(jobs[j], jobs'[j])
  BY <1>1, Row
<1>3. \A v \in Workers : WorkerKeeps(v)
  BY DEF InsertConflicts, DatabaseFails, Restart, Wedge, Return, WorkerKeeps, AssetInv, TypeOK
<1> QED BY <1>1, <1>2, <1>3, RowsStep, RequestsRest

-----------------------------------------------------------------------------
(* Steps that write the assets.                                             *)

\* A cache key that was free, or that generate_asset holds, gets a row: the
\* finished assets that jobs name stay as they are.
LEMMA StoreStep ==
  ASSUME AssetInv, TypeOK', jobs' = jobs, NEW k \in Keys, NEW x \in AssetRow,
         assets' = [assets EXCEPT ![k] = x],
         assets[k] = Null \/ assets[k].id = "own",
         x.id = "own" \/ x.status = "completed",
         UNCHANGED <<at, stale, result>>,
         \A w \in Workers : /\ view'[w] \in {view[w], Blank}
                            /\ pc'[w] = "complete" => pc[w] = "complete" \/ Done(result[w])',
         \A r \in Requests : RequestKeeps(r)
  PROVE  AssetInv'
PROOF
<1>1. ASSUME NEW a \in AssetIds, Done(a) PROVE Done(a)'
  <2>1. PICK i \in Keys : assets[i] # Null /\ assets[i] = [id |-> a, status |-> "completed"]
    BY <1>1 DEF Done
  <2>2. i # k
    BY <2>1, JobConstants
  <2>3. assets'[i] = assets[i]
    BY <2>2 DEF AssetInv, TypeOK
  <2> QED BY <2>1, <2>3 DEF Done
<1>2. \A j \in JobIds : RowInv(jobs[j])'
  <2> SUFFICES ASSUME NEW j \in JobIds PROVE RowInv(jobs[j])'
    OBVIOUS
  <2>1. jobs[j] \in JobRow /\ RowInv(jobs[j])
    BY Row
  <2>2. jobs[j].asset # Null => jobs[j].asset \in AssetIds
    BY <2>1 DEF JobRow
  <2> QED BY <1>1, <2>1, <2>2 DEF RowInv
<1>3. WorkersInv'
  <2> SUFFICES ASSUME NEW w \in Workers
               PROVE  /\ at[w] # 0 => Seen(view'[w], jobs[at[w]])
                      /\ pc'[w] = "complete" => Done(result[w])'
                      /\ \A j \in stale[w] : jobs[j].status # "absent"
    BY DEF WorkersInv
  <2>1. at[w] # 0 => Seen(view'[w], jobs[at[w]])
    BY BlankSeen DEF AssetInv, WorkersInv, Seen
  <2>2. pc'[w] = "complete" => Done(result[w])'
    <3>1. pc[w] = "complete" => result[w] \in AssetIds /\ Done(result[w])
      BY DEF AssetInv, TypeOK, Carries, WorkersInv
    <3> QED BY <1>1, <3>1
  <2> QED BY <2>1, <2>2 DEF AssetInv, WorkersInv
<1>4. RequestsInv'
  <2> SUFFICES ASSUME NEW r \in Requests, req'[r].job # 0
               PROVE  Seen(req'[r].view, jobs[req'[r].job])
    BY DEF RequestsInv
  <2> QED BY BlankSeen DEF RequestKeeps, AssetInv, RequestsInv, Seen
<1>5. StoreInv'
  BY JobConstants DEF AssetInv, TypeOK, StoreInv
<1> QED BY <1>2, <1>3, <1>4, <1>5 DEF AssetInv

\* What a request keeps when another one, or none, takes the step.
LEMMA RequestMoves ==
  ASSUME TypeOK, NEW r \in Requests,
         \/ Ends(r)
         \/ \E p \in RequestPcs : \E k \in Keys : Sends(r, p, k)
  PROVE  \A q \in Requests : RequestKeeps(q)
PROOF
<1>1. \E x : req' = [req EXCEPT ![r] = x] /\ x.job = 0
  <2>1. [FreshRequest EXCEPT !.pc = "over"].job = 0
    BY DEF FreshRequest
  <2>2. \A p, k : [FreshRequest EXCEPT !.pc = p, !.key = k].job = 0
    BY DEF FreshRequest
  <2>3. CASE Ends(r)
    BY <2>1, <2>3 DEF Ends
  <2>4. CASE \E p \in RequestPcs : \E k \in Keys : Sends(r, p, k)
    BY <2>2, <2>4 DEF Sends
  <2> QED BY <2>3, <2>4
<1> QED BY <1>1 DEF RequestKeeps, TypeOK

LEMMA AssetSteps ==
  ASSUME AssetInv, TypeOK',
         \/ \E w \in Workers : InsertAsset(w)
         \/ \E r \in Requests : CreateAsset(r) \/ Generated(r)
  PROVE  AssetInv'
PROOF
<1>1. ASSUME NEW w \in Workers, InsertAsset(w) PROVE AssetInv'
  <2> DEFINE x == [id |-> result[w], status |-> "completed"]
  <2> DEFINE k == view[w].key
  <2>1. at[w] # 0 /\ view[w] # Blank /\ result[w] \in AssetIds
    BY <1>1 DEF InsertAsset, Reads, AssetInv, TypeOK, Carries
  <2>2. k \in Keys
    BY <2>1 DEF AssetInv, WorkersInv, Seen
  <2>3. x \in AssetRow /\ x.status = "completed"
    BY <2>1 DEF AssetRow
  <2>4. assets' = [assets EXCEPT ![k] = x] /\ assets[k] = Null
    BY <1>1 DEF InsertAsset
  <2>5. Done(result[w])'
    <3>1. assets'[k] = x
      BY <2>2, <2>4 DEF AssetInv, TypeOK
    <3>2. x # Null
      BY <2>3, JobConstants
    <3>3. result' = result
      BY <1>1 DEF InsertAsset
    <3> QED BY <2>2, <3>1, <3>2, <3>3 DEF Done
  <2>6. \A v \in Workers : /\ view'[v] \in {view[v], Blank}
                           /\ pc'[v] = "complete" => pc[v] = "complete" \/ Done(result[v])'
    BY <1>1, <2>5 DEF InsertAsset, AssetInv, TypeOK
  <2> HIDE DEF x, k
  <2> QED BY <1>1, <2>2, <2>3, <2>4, <2>6, RequestsRest, StoreStep DEF InsertAsset
<1>2. ASSUME NEW r \in Requests, CreateAsset(r) \/ Generated(r) PROVE AssetInv'
  <2>1. req[r].key \in Keys
    BY <1>2 DEF CreateAsset, Generated, AssetInv, TypeOK, Asks
  <2>2. \A q \in Requests : RequestKeeps(q)
    BY <1>2, <2>1, RequestMoves DEF CreateAsset, Generated, AssetInv, RequestPcs
  <2>3. UNCHANGED <<jobs, pc, at, view, stale, result>>
    BY <1>2 DEF CreateAsset, Generated
  <2>4. CASE assets' = assets
    BY <2>2, <2>3, <2>4, Row, WorkersRest, RowsStep
  <2>5. CASE assets' # assets
    <3>1. \E x \in AssetRow : /\ assets' = [assets EXCEPT ![req[r].key] = x] /\ x.id = "own"
                              /\ assets[req[r].key] = Null \/ assets[req[r].key].id = "own"
      <4>1. CASE CreateAsset(r)
        <5>1. [id |-> "own", status |-> "processing"] \in AssetRow
          BY DEF AssetRow
        <5> QED BY <2>5, <4>1, <5>1 DEF CreateAsset
      <4>2. CASE Generated(r)
        <5>1. assets[req[r].key] \in AssetRow /\ assets[req[r].key].id = "own"
          BY <4>2 DEF Generated, AssetInv, TypeOK, Holds
        <5>2. PICK s \in {"completed", "failed"} :
                assets' = [assets EXCEPT ![req[r].key] = [assets[req[r].key] EXCEPT !.status = s]]
          BY <4>2 DEF Generated
        <5>3. [assets[req[r].key] EXCEPT !.status = s] \in AssetRow
                /\ [assets[req[r].key] EXCEPT !.status = s].id = "own"
          BY <5>1 DEF AssetRow
        <5> QED BY <5>1, <5>2, <5>3
      <4> QED BY <1>2, <4>1, <4>2
    <3> QED BY <2>1, <2>2, <2>3, <3>1, StoreStep
  <2> QED BY <2>4, <2>5
<1> QED BY <1>1, <1>2

-----------------------------------------------------------------------------
(* Steps of the requests that write jobs, or nothing.                       *)

LEMMA RequestReads ==
  ASSUME AssetInv, TypeOK', NEW r \in Requests,
         SubmitMisses(r) \/ Check(r) \/ Reread(r) \/ GenerateMisses(r) \/ Abandoned(r)
  PROVE  AssetInv'
PROOF
<1>1. UNCHANGED <<jobs, assets, pc, at, view, stale, result>>
  BY DEF SubmitMisses, Check, Reread, GenerateMisses, Abandoned
<1>2. \A q \in Requests : RequestKeeps(q)
  <2>1. CASE SubmitMisses(r) \/ GenerateMisses(r) \/ Abandoned(r)
    BY <2>1, RequestMoves DEF SubmitMisses, GenerateMisses, Abandoned, AssetInv, RequestPcs
  <2>2. CASE Check(r)
    <3>1. PICK j \in JobIds : jobs[j].status # "absent" /\ \E p \in RequestPcs : Finds(r, p, j)
      BY <2>2 DEF Check, RequestPcs
    <3>2. Seen(jobs[j], jobs[j])
      BY <3>1, FreshlySeen
    <3>3. \E x : req' = [req EXCEPT ![r] = x] /\ x.job = j /\ x.view = jobs[j]
      <4>1. \A p : /\ [FreshRequest EXCEPT !.pc = p, !.job = j, !.view = jobs[j]].job = j
                   /\ [FreshRequest EXCEPT !.pc = p, !.job = j, !.view = jobs[j]].view = jobs[j]
        BY DEF FreshRequest
      <4> QED BY <3>1, <4>1 DEF Finds
    <3> QED BY <1>1, <3>2, <3>3 DEF RequestKeeps, AssetInv, TypeOK
  <2>3. CASE Reread(r)
    <3>1. req[r].job \in JobIds
      BY <2>3 DEF Reread, AssetInv, TypeOK, Asks
    <3>2. Seen(jobs[req[r].job], jobs[req[r].job])
      BY <3>1, FreshlySeen DEF AssetInv, RequestsInv, Seen, JobIds
    <3> QED BY <1>1, <2>3, <3>2 DEF Reread, RequestKeeps, AssetInv, TypeOK
  <2> QED BY <2>1, <2>2, <2>3
<1> QED BY <1>1, <1>2, Row, WorkersRest, RowsStep

\* A request's save: it cancels, reopens or counts, and completes nothing.
LEMMA RequestSaveStep ==
  ASSUME AssetInv, NEW r \in Requests, NEW j \in JobIds, j = req[r].job, NEW new \in JobRow,
         jobs' = [jobs EXCEPT ![j] = Save(@, req[r].view, new)],
         new.key = req[r].view.key, new.asset = req[r].view.asset,
         new.status \in {"cancelled", "pending"}
  PROVE  \A i \in JobIds : RowInv(jobs'[i]) /\ Grows(jobs[i], jobs'[i])
PROOF
<1>1. jobs[j] \in JobRow /\ req[r].view \in JobRow /\ RowInv(jobs[j]) /\ Seen(req[r].view, jobs[j])
  BY DEF AssetInv, TypeOK, RequestsInv, JobIds
<1>2. RowInv(Save(jobs[j], req[r].view, new)) /\ Grows(jobs[j], Save(jobs[j], req[r].view, new))
  BY <1>1, SaveGrows
<1>3. jobs' = [jobs EXCEPT ![j] = Save(jobs[j], req[r].view, new)]
  OBVIOUS
<1> QED BY <1>2, <1>3, Row DEF AssetInv, TypeOK

LEMMA RequestWrites ==
  ASSUME AssetInv, TypeOK', NEW r \in Requests,
         Submit(r) \/ Cancel(r) \/ Reopen(r) \/ CountRetry(r)
  PROVE  AssetInv'
PROOF
<1>1. UNCHANGED <<assets, pc, at, view, stale, result>>
  BY DEF Submit, Cancel, Reopen, CountRetry
<1>2. \A q \in Requests : RequestKeeps(q)
  <2>1. CASE Submit(r) \/ Cancel(r) \/ CountRetry(r)
    BY <2>1, RequestMoves DEF Submit, Cancel, CountRetry, AssetInv
  <2>2. CASE Reopen(r)
    <3>1. /\ [FreshRequest EXCEPT !.pc = "schedule", !.job = req[r].job].job = req[r].job
          /\ [FreshRequest EXCEPT !.pc = "schedule", !.job = req[r].job].view = Blank
      BY DEF FreshRequest
    <3>2. req' = [req EXCEPT ![r] = [FreshRequest EXCEPT !.pc = "schedule", !.job = req[r].job]]
      BY <2>2 DEF Reopen
    <3> QED BY <3>1, <3>2 DEF RequestKeeps, AssetInv, TypeOK
  <2> QED BY <2>1, <2>2
<1>3. \A i \in JobIds : RowInv(jobs'[i]) /\ Grows(jobs[i], jobs'[i])
  <2>1. CASE Submit(r)
    <3>1. PICK j \in JobIds : jobs[j] = Blank /\ jobs' = [jobs EXCEPT ![j] = NewJob(req[r].key)]
      BY <2>1 DEF Submit
    <3>2. req[r].key \in Keys
      BY <2>1 DEF Submit, AssetInv, TypeOK, Asks
    <3>3. RowInv(NewJob(req[r].key)) /\ Grows(jobs[j], NewJob(req[r].key))
      BY <3>1, <3>2, FreshRows, BlankSeen DEF RowInv, Grows
    <3> QED BY <3>1, <3>3, Row DEF AssetInv, TypeOK
  <2>2. CASE Cancel(r) \/ Reopen(r) \/ CountRetry(r)
    <3> DEFINE j == req[r].job
    <3>1. j \in JobIds /\ req[r].view \in JobRow
      BY <2>2 DEF Cancel, Reopen, CountRetry, AssetInv, TypeOK, Asks
    <3>2. \E new \in JobRow : /\ jobs' = [jobs EXCEPT ![j] = Save(@, req[r].view, new)]
                              /\ new.key = req[r].view.key /\ new.asset = req[r].view.asset
                              /\ new.status \in {"cancelled", "pending"}
      <4>1. "cancelled" \in Statuses /\ "pending" \in Statuses
        BY DEF Statuses
      <4>2. CASE Cancel(r)
        BY <3>1, <4>1, <4>2, StatusWrites DEF Cancel
      <4>3. CASE Reopen(r)
        BY <3>1, <4>1, <4>3, StatusWrites DEF Reopen
      <4>4. CASE CountRetry(r)
        BY <3>1, <4>4, RetryWrites DEF CountRetry
      <4> QED BY <2>2, <4>2, <4>3, <4>4
    <3> QED BY <3>1, <3>2, RequestSaveStep
  <2> QED BY <2>1, <2>2
<1> QED BY <1>1, <1>2, <1>3, WorkersRest, RowsStep

-----------------------------------------------------------------------------
LEMMA AssetInit == Init => AssetInv
PROOF
<1> SUFFICES ASSUME Init PROVE AssetInv
  OBVIOUS
<1>1. TypeOK
  BY InitTypes
<1>2. \A j \in JobIds : RowInv(jobs[j])
  <2>1. PICK n \in 0..Backlog : \E k \in [1..n -> Keys] :
          jobs = [j \in JobIds |-> IF j <= n THEN NewJob(k[j]) ELSE Blank]
    BY DEF Init
  <2>2. PICK k \in [1..n -> Keys] : jobs = [j \in JobIds |-> IF j <= n THEN NewJob(k[j]) ELSE Blank]
    BY <2>1
  <2> SUFFICES ASSUME NEW j \in JobIds PROVE RowInv(jobs[j])
    OBVIOUS
  <2>3. CASE j <= n
    <3>1. k[j] \in Keys
      BY <2>2, <2>3, JobConstants DEF JobIds
    <3> QED BY <2>2, <2>3, <3>1, FreshRows DEF RowInv
  <2>4. CASE ~(j <= n)
    BY <2>2, <2>4, BlankSeen DEF RowInv
  <2> QED BY <2>3, <2>4
<1>3. WorkersInv
  BY DEF Init, WorkersInv
<1>4. RequestsInv
  BY DEF Init, RequestsInv, FreshRequest
<1>5. StoreInv
  BY DEF Init, StoreInv
<1> QED BY <1>1, <1>2, <1>3, <1>4, <1>5 DEF AssetInv

LEMMA AssetNext == AssetInv /\ [Next]_vars => AssetInv'
PROOF
<1> SUFFICES ASSUME AssetInv, [Next]_vars PROVE AssetInv'
  OBVIOUS
<1>1. TypeOK'
  BY NextTypes DEF AssetInv
<1>2. CASE UNCHANGED vars
  BY <1>1, <1>2, Row, RequestsRest, WorkersRest, RowsStep DEF vars
<1>3. ASSUME NEW w \in Workers, Runs(w) \/ Heartbeat(w) \/ ProviderEnds(w) PROVE AssetInv'
  BY <1>1, <1>3, RecoveryStep, WorkerReads, LeaseStep, AssetSteps, WorkerStops, OutcomeStep DEF Runs
<1>4. ASSUME NEW w \in Workers, DatabaseFails(w) \/ Restart(w) PROVE AssetInv'
  BY <1>1, <1>4, WorkerStops
<1>5. ASSUME NEW j \in JobIds, Lapse(j) PROVE AssetInv'
  BY <1>1, <1>5, LeaseStep
<1>6. ASSUME NEW r \in Requests, Request(r) PROVE AssetInv'
  BY <1>1, <1>6, RequestReads, RequestWrites, AssetSteps DEF Request
<1> QED BY <1>2, <1>3, <1>4, <1>5, <1>6 DEF Next

\* A job that is shown as completed has an asset, and a finished asset has its
\* id (run_next_job and mark_completed, against every other writer of the row).
THEOREM CompletedIsStored == Spec => []CompletedHasAsset
PROOF
<1>1. AssetInv => CompletedHasAsset
  BY DEF AssetInv, RowInv, Done, CompletedHasAsset
<1> QED BY <1>1, AssetInit, AssetNext, PTL DEF Spec
=============================================================================
