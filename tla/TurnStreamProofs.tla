-------------------------- MODULE TurnStreamProofs --------------------------
(***************************************************************************)
(* Proofs about TurnStream, for every number of submissions, queue size,   *)
(* heartbeat, deadline and number of broken connections: its types, that a *)
(* stream tells of a commit only after it, that its end tells the outcome  *)
(* of the turn, and that page and server keep the promise of TurnPromise.  *)
(***************************************************************************)
EXTENDS TurnStream, TLAPS

StreamOK(st) == st \in StreamType /\ Len(st.queue) <= Capacity

\* A coroutine that leaves its loop has the type of a coroutine.
LEMMA QuietOK ==
  ASSUME NEW p \in Live \cup {"off", "asked", "done", "cancelled"}
  PROVE  StreamOK(Quiet(p)) /\ Quiet(p).place = p
BY StreamConstants DEF StreamOK, Quiet, StreamType, Entries, Live, Looping

\* Arming the wait keeps type and queue.
LEMMA LoopOK ==
  ASSUME NEW st, StreamOK(st), NEW n \in 0..HardDeadline
  PROVE  /\ StreamOK(Loop(st, n))
         /\ Loop(st, n).place \in Looping
<1>1. (IF Heartbeat < n THEN Heartbeat ELSE n) \in 0..Heartbeat
  BY StreamConstants
<1>2. (IF n > 0 THEN "loop" ELSE "due") \in Looping
  BY DEF Looping
<1> QED
  BY <1>1, <1>2 DEF StreamOK, StreamType, Loop, Live

LEMMA BecomeOK ==
  ASSUME \A k \in Keys : StreamOK(stream[k]), stream \in [Keys -> StreamType],
         NEW k \in Keys, NEW st, StreamOK(st), Become(k, st)
  PROVE  stream' \in [Keys -> StreamType] /\ \A j \in Keys : StreamOK(stream'[j])
BY DEF Become, StreamOK

LEMMA CloseOK ==
  ASSUME \A k \in Keys : StreamOK(stream[k]), stream \in [Keys -> StreamType],
         link \in [Keys -> {"none", "open", "closed"}],
         NEW k \in Keys, Close(k)
  PROVE  /\ stream' \in [Keys -> StreamType] /\ \A j \in Keys : StreamOK(stream'[j])
         /\ link' \in [Keys -> {"none", "open", "closed"}]
BY QuietOK DEF Close, StreamOK

LEMMA YieldOK ==
  ASSUME wire \in [Keys -> Seq(Events)], said \in [Keys -> SUBSET Events],
         NEW k \in Keys, NEW e \in Events, Yield(k, e)
  PROVE  wire' \in [Keys -> Seq(Events)] /\ said' \in [Keys -> SUBSET Events]
BY DEF Yield

\* What the browser's steps do to the page, the connection and the coroutine.
LEMMA LeaveOK ==
  ASSUME TypeOK, NEW k \in Keys,
         Leave(k) \/ (\E how \in {"complete", "failed"} : Settle(k, how))
  PROVE  /\ hook' \in [Keys -> {"none", "reading", "posting", "ended"}]
         /\ shown' \in [key : 0..MaxSubmissions, is : {"nothing", "pending", "complete", "failed"}]
         /\ link' \in [Keys -> {"none", "open", "closed"}]
         /\ wire' \in [Keys -> Seq(Events)]
         /\ stream' \in [Keys -> StreamType] /\ \A j \in Keys : StreamOK(stream'[j])
<1>0. \A j \in Keys : StreamOK(stream[j])
  BY DEF TypeOK, StreamOK
<1>1. CASE Leave(k)
  BY <1>0, <1>1 DEF Leave, StopReading, TypeOK
<1>2. ASSUME NEW how \in {"complete", "failed"}, Settle(k, how)
      PROVE  /\ hook' \in [Keys -> {"none", "reading", "posting", "ended"}]
             /\ shown' \in [key : 0..MaxSubmissions, is : {"nothing", "pending", "complete", "failed"}]
             /\ link' \in [Keys -> {"none", "open", "closed"}]
             /\ wire' \in [Keys -> Seq(Events)]
             /\ stream' \in [Keys -> StreamType] /\ \A j \in Keys : StreamOK(stream'[j])
  <2>1. Close(k)
    BY <1>2 DEF Settle
  <2>2. /\ stream' \in [Keys -> StreamType] /\ \A j \in Keys : StreamOK(stream'[j])
        /\ link' \in [Keys -> {"none", "open", "closed"}]
    BY <2>1, <1>0, CloseOK DEF TypeOK
  <2> QED
    BY <2>2, <1>2 DEF Settle, StopReading, TypeOK, Keys
<1> QED
  BY <1>1, <1>2

-----------------------------------------------------------------------------
LEMMA HookTypes ==
  ASSUME TypeOK, NEW k \in Keys,
         Submit(k) \/ HookStep(k) \/ PostLost(k) \/ Cut(k)
  PROVE  TypeOK'
<1>0. \A j \in Keys : StreamOK(stream[j])
  BY DEF TypeOK, StreamOK
<1>1. CASE Submit(k)
  <2>1. \A j \in Keys : StreamOK(stream'[j])
    BY <1>1, <1>0, QuietOK DEF Submit, TypeOK
  <2>2. stream' \in [Keys -> StreamType]
    BY <2>1, <1>1 DEF Submit, StreamOK
  <2> QED
    BY <2>1, <2>2, <1>1 DEF Submit, TypeOK, service, StreamOK, Keys
<1>2. CASE Read(k)
  <2> DEFINE e == Head(wire[k])
  <2>1. CASE Leave(k) \/ (\E how \in {"complete", "failed"} : Settle(k, how))
    BY <2>1, <1>2, LeaveOK DEF Read, TypeOK, service, StreamOK
  <2>2. CASE /\ wire' = [wire EXCEPT ![k] = Tail(@)]
             /\ UNCHANGED <<hook, shown, link, stream>>
    BY <2>2, <1>2 DEF Read, TypeOK, service
  <2> QED
    BY <2>1, <2>2, <1>2 DEF Read
<1>3. CASE StreamOver(k)
  <2>1. CASE Leave(k) /\ UNCHANGED at
    BY <2>1, <1>3, LeaveOK DEF StreamOver, TypeOK, StreamOK
  <2>2. CASE /\ hook' = [hook EXCEPT ![k] = "posting"]
             /\ at' = [at EXCEPT ![OnPost(k)] = "asked"]
             /\ StopReading(k)
             /\ Close(k)
             /\ UNCHANGED shown
    <3>1. /\ stream' \in [Keys -> StreamType] /\ \A j \in Keys : StreamOK(stream'[j])
          /\ link' \in [Keys -> {"none", "open", "closed"}]
      BY <2>2, <1>0, CloseOK DEF TypeOK
    <3>2. wire' \in [Keys -> Seq(Events)]
      BY <2>2 DEF StopReading, TypeOK
    <3> QED
      BY <3>1, <3>2, <2>2, <1>3 DEF StreamOver, TypeOK, StreamOK
  <2> QED
    BY <2>1, <2>2, <1>3 DEF StreamOver
<1>4. CASE PostAnswered(k)
  <2>1. Leave(k) \/ (\E how \in {"complete", "failed"} : Settle(k, how))
    BY <1>4 DEF PostAnswered
  <2> QED
    BY <2>1, <1>4, LeaveOK DEF PostAnswered, TypeOK, service, StreamOK
<1>5. CASE PostLost(k)
  <2>1. Leave(k) \/ (\E how \in {"complete", "failed"} : Settle(k, how))
    BY <1>5 DEF PostLost
  <2>2. faults' \in 0..MaxFaults
    BY <1>5, StreamConstants DEF PostLost, Fault, TypeOK
  <2> QED
    BY <2>1, <2>2, <1>5, LeaveOK DEF PostLost, TypeOK, service, StreamOK
<1>6. CASE Cut(k)
  <2>1. /\ stream' \in [Keys -> StreamType] /\ \A j \in Keys : StreamOK(stream'[j])
        /\ link' \in [Keys -> {"none", "open", "closed"}]
    BY <1>6, <1>0, CloseOK DEF Cut, TypeOK
  <2>2. faults' \in 0..MaxFaults
    BY <1>6, StreamConstants DEF Cut, Fault, TypeOK
  <2> QED
    BY <2>1, <2>2, <1>6 DEF Cut, TypeOK, page, service, StreamOK
<1> QED
  BY <1>1, <1>2, <1>3, <1>4, <1>5, <1>6 DEF HookStep

LEMMA LoopTypes ==
  ASSUME TypeOK, NEW k \in Keys, LoopStep(k) \/ Open(k)
  PROVE  TypeOK'
<1>0. \A j \in Keys : StreamOK(stream[j])
  BY DEF TypeOK, StreamOK
<1>a. stream[k].left \in 0..HardDeadline /\ HardDeadline \in 0..HardDeadline
  BY StreamConstants DEF TypeOK, StreamType
<1> DEFINE Next1(st) == Become(k, st) /\ StreamOK(st)
<1>b. ASSUME NEW st, Next1(st)
      PROVE  stream' \in [Keys -> StreamType] /\ \A j \in Keys : StreamOK(stream'[j])
  BY <1>b, <1>0, BecomeOK DEF TypeOK
<1>1. CASE Timeout(k)
  <2>1. Next1(Quiet("tail")) /\ Yield(k, "turn_timeout")
    BY <1>1, QuietOK DEF Timeout, Live
  <2> QED
    BY <2>1, <1>b, <1>1, YieldOK DEF Timeout, TypeOK, page, service, StreamOK, Events, Failures
<1>2. CASE Beat(k)
  <2>1. Next1(Loop(stream[k], stream[k].left))
    BY <1>2, <1>0, <1>a, LoopOK DEF Beat
  <2> QED
    BY <2>1, <1>b, <1>2 DEF Beat, TypeOK, page, service, StreamOK
<1>3. CASE Take(k)
  <2> DEFINE rest == [stream[k] EXCEPT !.queue = Tail(@)]
  <2>0. stream[k] \in StreamType /\ stream[k].queue \in Seq(Entries) /\ stream[k].queue # <<>>
    BY <1>3 DEF Take, TypeOK, StreamType
  <2>a. /\ Tail(stream[k].queue) \in Seq(Entries)
        /\ Len(Tail(stream[k].queue)) <= Capacity
    BY <2>0, <1>0, StreamConstants DEF StreamOK
  <2>1. StreamOK(rest) /\ rest.left = stream[k].left
    BY <2>0, <2>a DEF StreamOK, StreamType
  <2>2. Next1(Quiet("tail")) \/ Next1(Loop(rest, stream[k].left))
    BY <2>1, <1>3, <1>a, LoopOK, QuietOK DEF Take, Live
  <2> QED
    BY <2>2, <1>b, <1>3 DEF Take, TypeOK, page, service, StreamOK
<1>4. CASE Tell(k)
  <2>1. /\ Next1(Quiet("done")) \/ Next1(Quiet("narrating"))
        /\ UNCHANGED <<wire, said>> \/ \E e \in Events : Yield(k, e)
    BY <1>4, QuietOK DEF Tell, Live, Events, Failures, Tales
  <2> QED
    BY <2>1, <1>b, <1>4, YieldOK DEF Tell, TypeOK, page, service, StreamOK
<1>5. CASE TellNarration(k)
  <2>1. Next1(Quiet("completing")) /\ Yield(k, "narration_delta")
    BY <1>5, QuietOK DEF TellNarration, Live
  <2> QED
    BY <2>1, <1>b, <1>5, YieldOK DEF TellNarration, TypeOK, page, service, StreamOK, Events, Tales
<1>6. CASE TellCompleted(k)
  <2>1. Next1(Quiet("done")) /\ Yield(k, "turn_completed")
    BY <1>6, QuietOK DEF TellCompleted, Live
  <2> QED
    BY <2>1, <1>b, <1>6, YieldOK DEF TellCompleted, TypeOK, page, service, StreamOK, Events, Tales
<1>7. CASE Open(k)
  <2>1. Next1(Quiet("cancelled")) \/ Next1(Loop(stream[k], HardDeadline))
    BY <1>7, <1>0, <1>a, LoopOK, QuietOK DEF Open
  <2> QED
    BY <2>1, <1>b, <1>7 DEF Open, TypeOK, page, StreamOK
<1> QED
  BY <1>1, <1>2, <1>3, <1>4, <1>5, <1>6, <1>7 DEF LoopStep

LEMMA PutOK ==
  ASSUME NEW st, StreamOK(st), NEW e \in Entries, Len(st.queue) < Capacity
  PROVE  StreamOK([st EXCEPT !.queue = Append(@, e)])
<1>1. st \in StreamType /\ st.queue \in Seq(Entries) /\ Len(st.queue) \in Nat /\ Capacity \in Nat
  BY StreamConstants DEF StreamOK, StreamType
<1>2. Append(st.queue, e) \in Seq(Entries) /\ Len(Append(st.queue, e)) = Len(st.queue) + 1
  BY <1>1
<1>3. Len(Append(st.queue, e)) <= Capacity
  BY <1>1, <1>2
<1>4. [st EXCEPT !.queue = Append(@, e)] \in StreamType
  BY <1>1, <1>2 DEF StreamType
<1>5. [st EXCEPT !.queue = Append(@, e)].queue = Append(st.queue, e)
  BY <1>1 DEF StreamType
<1> QED
  BY <1>3, <1>4, <1>5 DEF StreamOK

LEMMA ThreadTypes ==
  ASSUME TypeOK, NEW k \in Keys, Emit(k) \/ PublishSentinel(k)
  PROVE  TypeOK'
<1>0. \A j \in Keys : StreamOK(stream[j])
  BY DEF TypeOK, StreamOK
<1>1. CASE Emit(k)
  <2> DEFINE st == [stream[k] EXCEPT !.emitted = @ + 1]
             next == IF Len(st.queue) < Capacity
                     THEN [st EXCEPT !.queue = Append(@, "stage")] ELSE st
  <2>1. StreamOK(st)
    <3>1. stream[k] \in StreamType /\ Len(stream[k].queue) <= Capacity
      BY <1>0 DEF StreamOK
    <3>2. stream[k].emitted + 1 \in 0..MaxProgress
      BY <1>1, <3>1, StreamConstants DEF Emit, StreamType
    <3>3. st \in StreamType /\ st.queue = stream[k].queue
      BY <3>1, <3>2 DEF StreamType
    <3> QED
      BY <3>1, <3>3 DEF StreamOK
  <2>2. StreamOK(next)
    BY <2>1, PutOK DEF Entries
  <2>3. Become(k, next)
    BY <1>1 DEF Emit
  <2>4. stream' \in [Keys -> StreamType] /\ \A j \in Keys : StreamOK(stream'[j])
    BY <2>2, <2>3, <1>0, BecomeOK DEF TypeOK
  <2> QED
    BY <2>4, <1>1 DEF Emit, TypeOK, page, service, StreamOK
<1>2. CASE PublishSentinel(k)
  <2> DEFINE next == IF stream[k].place \in Looping /\ Len(stream[k].queue) < Capacity
                     THEN [stream[k] EXCEPT !.queue = Append(@, "sentinel")] ELSE stream[k]
  <2>1. StreamOK(next)
    BY <1>0, PutOK DEF Entries
  <2>2. Become(k, next)
    BY <1>2 DEF PublishSentinel, Put
  <2>3. stream' \in [Keys -> StreamType] /\ \A j \in Keys : StreamOK(stream'[j])
    BY <2>1, <2>2, <1>0, BecomeOK DEF TypeOK
  <2> QED
    BY <2>3, <1>2 DEF PublishSentinel, TypeOK, page, StreamOK
<1> QED
  BY <1>1, <1>2

LEMMA ServiceTypes ==
  ASSUME TypeOK, NEW r \in Calls, ServiceStep(r)
  PROVE  TypeOK'
<1>0. r[1] \in Keys
  BY DEF Calls
<1>a. /\ at \in [Calls -> {"off", "asked", "preparing", "narrating", "returned", "gone"}]
      /\ out \in [Calls -> {"none", "result", "error", "failure"}]
      /\ claim \in [Keys -> {"none", "pending", "aborted", "superseded", "committed"}]
  BY DEF TypeOK
<1>1. /\ at' \in [Calls -> {"off", "asked", "preparing", "narrating", "returned", "gone"}]
      /\ out' \in [Calls -> {"none", "result", "error", "failure"}]
      /\ claim' \in [Keys -> {"none", "pending", "aborted", "superseded", "committed"}]
  <2>1. CASE ClaimRefused(r) \/ Replayed(r)
    BY <2>1, <1>a DEF ClaimRefused, Replayed, Return
  <2>2. CASE Claimed(r)
    BY <2>2, <1>a DEF Claimed
  <2>3. CASE Commit(r)
    BY <2>3, <1>0, <1>a DEF Commit
  <2>4. CASE Fail(r)
    BY <2>4, <1>0, <1>a DEF Fail, Return
  <2>5. CASE Finish(r)
    BY <2>5, <1>a DEF Finish, Return
  <2> QED
    BY <2>1, <2>2, <2>3, <2>4, <2>5 DEF ServiceStep
<1> QED
  BY <1>1 DEF ServiceStep, TypeOK, page

LEMMA TickTypes ==
  ASSUME TypeOK, Tick
  PROVE  TypeOK'
<1>1. ASSUME NEW k \in Keys
      PROVE  StreamOK(stream'[k])
  <2>1. StreamOK(stream[k])
    BY DEF TypeOK, StreamOK
  <2>2. Down(stream[k].left) \in 0..HardDeadline /\ Down(stream[k].timer) \in 0..Heartbeat
    BY StreamConstants DEF TypeOK, StreamType, Down
  <2> QED
    BY <2>1, <2>2 DEF Tick, StreamOK, StreamType
<1>2. stream' \in [Keys -> StreamType]
  BY <1>1 DEF Tick, StreamOK
<1> QED
  BY <1>1, <1>2 DEF Tick, TypeOK, page, service, StreamOK

LEMMA InitTypes == Init => TypeOK
BY QuietOK, StreamConstants DEF Init, TypeOK, StreamOK, Calls, Keys, Channels

\* The steps of the system keep every variable in its type.
LEMMA StepTypes == TypeOK /\ [Next]_vars => TypeOK'
<1> SUFFICES ASSUME TypeOK, [Next]_vars PROVE TypeOK'
  OBVIOUS
<1>1. CASE UNCHANGED vars
  BY <1>1 DEF TypeOK, vars, page, service
<1> QED
  BY <1>1, HookTypes, LoopTypes, ThreadTypes, ServiceTypes, TickTypes DEF Next

\* Types, the bound of the progress queue among them, for every value of the constants.
THEOREM StreamTypes == Spec => []TypeOK
BY InitTypes, StepTypes, PTL DEF Spec

-----------------------------------------------------------------------------
(* Durability.                                                              *)

Done(k) == claim[k] = "committed"

\* What each holder of a result knows, on its way from the commit to the page: the
\* service, and the streams.
ServiceKnows ==
  /\ \A r \in Calls : at[r] = "narrating" \/ out[r] = "result" => Done(r[1])
  /\ \A r \in Calls : at[r] = "preparing" => claim[r[1]] = "pending"
  /\ \A r, q \in Calls : at[r] = "preparing" /\ at[q] = "preparing" => r = q
StreamsKnow ==
  /\ \A k \in Keys : stream[k].place \in {"narrating", "completing"} => Done(k)
  /\ \A k \in Keys : said[k] \cap Tales # {} => Done(k)
  /\ \A k \in Keys : \A i \in 1..Len(wire[k]) : wire[k][i] \in Tales => Done(k)

Durable == ServiceKnows /\ StreamsKnow

\* A committed claim stays committed.
LEMMA DoneStays ==
  ASSUME TypeOK, Durable, [Next]_vars, NEW k \in Keys, Done(k)
  PROVE  Done(k)'
<1>1. CASE \E r \in Calls : ServiceStep(r)
  <2>1. PICK r \in Calls : ServiceStep(r)
    BY <1>1
  <2>2. r[1] \in Keys
    BY DEF Calls
  <2> QED
    BY <2>1, <2>2 DEF ServiceStep, ClaimRefused, Replayed, Claimed, Commit, Fail, Finish, Done,
      Durable, ServiceKnows, TypeOK
<1>2. CASE UNCHANGED claim
  BY <1>2 DEF Done
<1>3. UNCHANGED claim \/ \E r \in Calls : ServiceStep(r)
  <2>1. CASE UNCHANGED vars
    BY <2>1 DEF vars, service
  <2>2. CASE Tick
    BY <2>2 DEF Tick, service
  <2>3. ASSUME NEW j \in Keys,
               \/ Submit(j) \/ HookStep(j) \/ PostLost(j) \/ Cut(j)
               \/ Open(j) \/ LoopStep(j) \/ Emit(j) \/ PublishSentinel(j)
        PROVE  UNCHANGED claim
    BY <2>3 DEF Submit, HookStep, Read, StreamOver, PostAnswered, PostLost, Cut, Open, LoopStep,
      Timeout, Beat, Take, Tell, TellNarration, TellCompleted, Emit, PublishSentinel, service
  <2> QED
    BY <2>1, <2>2, <2>3 DEF Next
<1> QED
  BY <1>1, <1>2, <1>3

LEMMA ServiceStepKnows ==
  ASSUME TypeOK, ServiceKnows, NEW r \in Calls, ServiceStep(r)
  PROVE  ServiceKnows'
<1>0. r[1] \in Keys /\ \A q \in Calls : q[1] \in Keys
  BY DEF Calls
<1>1. CASE ClaimRefused(r)
  BY <1>1, <1>0 DEF ClaimRefused, Return, ServiceKnows, Done, TypeOK
<1>2. CASE Replayed(r)
  BY <1>2, <1>0 DEF Replayed, Return, ServiceKnows, Done, TypeOK
<1>3. CASE Claimed(r)
  <2>1. \A q \in Calls : at[q] # "preparing"
    BY <1>3, <1>0 DEF Claimed, InProgress, ServiceKnows
  <2>2. \A k \in Keys : Done(k) => Done(k)'
    BY <1>3 DEF Claimed, Done
  <2>3. claim'[r[1]] = "pending"
    BY <1>3, <1>0 DEF Claimed
  <2>4. \A q \in Calls : at'[q] = "preparing" => q = r
    BY <2>1, <1>3 DEF Claimed, TypeOK
  <2>5. \A q \in Calls : at'[q] = "narrating" \/ out'[q] = "result" => Done(q[1])'
    BY <2>2, <1>0, <1>3 DEF Claimed, ServiceKnows, TypeOK
  <2> QED
    BY <2>3, <2>4, <2>5 DEF ServiceKnows
<1>4. CASE Commit(r)
  <2>1. /\ \A k \in Keys : Done(k) => Done(k)'
        /\ Done(r[1])'
    BY <1>4, <1>0 DEF Commit, Done, TypeOK
  <2>2. \A q \in Calls : at'[q] # "preparing"
    BY <1>4 DEF Commit, ServiceKnows, TypeOK
  <2> QED
    BY <2>1, <2>2, <1>4, <1>0 DEF Commit, ServiceKnows, TypeOK
<1>5. CASE Fail(r)
  <2>1. \A k \in Keys : Done(k) => Done(k)'
    BY <1>5, <1>0 DEF Fail, Done, ServiceKnows, TypeOK
  <2>2. \A q \in Calls : at'[q] # "preparing"
    BY <1>5 DEF Fail, Return, ServiceKnows, TypeOK
  <2>3. \A q \in Calls : at'[q] = "narrating" \/ out'[q] = "result" =>
                         at[q] = "narrating" \/ out[q] = "result"
    BY <1>5 DEF Fail, Return, TypeOK
  <2> QED
    BY <2>1, <2>2, <2>3, <1>0 DEF ServiceKnows
<1>6. CASE Finish(r)
  <2>1. \A k \in Keys : Done(k) => Done(k)'
    BY <1>6 DEF Finish, Done
  <2>2. \A q \in Calls : at'[q] = "preparing" => at[q] = "preparing" /\ claim' = claim
    BY <1>6 DEF Finish, Return, TypeOK
  <2>3. \A q \in Calls : at'[q] = "narrating" \/ out'[q] = "result" => Done(q[1])
    BY <1>6 DEF Finish, Return, ServiceKnows, TypeOK
  <2> QED
    BY <2>1, <2>2, <2>3, <1>0 DEF ServiceKnows
<1> QED
  BY <1>1, <1>2, <1>3, <1>4, <1>5, <1>6 DEF ServiceStep

\* Outside the service a step asks for a call or ends the thread of one.
LEMMA OtherStepKnows ==
  ASSUME TypeOK, ServiceKnows, UNCHANGED <<out, claim>>,
         \/ UNCHANGED at
         \/ \E q \in Calls, s \in {"asked", "gone"} : at' = [at EXCEPT ![q] = s]
  PROVE  ServiceKnows'
BY DEF ServiceKnows, Done, TypeOK

LEMMA OtherSteps ==
  ASSUME NEW k \in Keys,
         \/ Submit(k) \/ HookStep(k) \/ PostLost(k) \/ Cut(k)
         \/ Open(k) \/ LoopStep(k) \/ Emit(k) \/ PublishSentinel(k)
  PROVE  /\ UNCHANGED <<out, claim>>
         /\ \/ UNCHANGED at
            \/ \E q \in Calls, s \in {"asked", "gone"} : at' = [at EXCEPT ![q] = s]
<1>1. OnPost(k) \in Calls /\ OnStream(k) \in Calls
  BY DEF OnPost, OnStream, Calls, Channels
<1>2. CASE Submit(k) \/ Read(k) \/ PostAnswered(k) \/ PostLost(k) \/ Cut(k) \/ LoopStep(k) \/ Emit(k)
  BY <1>2 DEF Submit, Read, PostAnswered, PostLost, Cut, LoopStep, Timeout, Beat, Take, Tell,
    TellNarration, TellCompleted, Emit, service
<1>3. CASE StreamOver(k)
  BY <1>3, <1>1 DEF StreamOver
<1>4. CASE Open(k)
  BY <1>4, <1>1 DEF Open
<1>5. CASE PublishSentinel(k)
  BY <1>5, <1>1 DEF PublishSentinel
<1> QED
  BY <1>2, <1>3, <1>4, <1>5 DEF HookStep

\* An event may be yielded when its key is committed or it tells no tale.
LEMMA YieldKnows ==
  ASSUME TypeOK, NEW k \in Keys, NEW e \in Events, Yield(k, e), UNCHANGED claim,
         e \in Tales => Done(k),
         \A j \in Keys : said[j] \cap Tales # {} => Done(j),
         \A j \in Keys : \A i \in 1..Len(wire[j]) : wire[j][i] \in Tales => Done(j)
  PROVE  /\ (\A j \in Keys : said[j] \cap Tales # {} => Done(j))'
         /\ (\A j \in Keys : \A i \in 1..Len(wire[j]) : wire[j][i] \in Tales => Done(j))'
<1>1. \A j \in Keys : said'[j] \cap Tales # {} => Done(j)
  BY DEF Yield, TypeOK
<1>2. ASSUME NEW j \in Keys, NEW i \in 1..Len(wire'[j]), wire'[j][i] \in Tales
      PROVE  Done(j)
  <2>1. wire[j] \in Seq(Events)
    BY DEF TypeOK
  <2>2. CASE wire'[j] = wire[j]
    BY <2>2, <1>2
  <2>3. CASE j = k /\ wire'[j] = Append(wire[j], e)
    BY <2>1, <2>3, <1>2
  <2> QED
    BY <2>2, <2>3 DEF Yield, TypeOK
<1> QED
  BY <1>1, <1>2 DEF Done

\* Reading or forgetting a stream adds nothing to it.
LEMMA ReadKnows ==
  ASSUME TypeOK, NEW k \in Keys, StopReading(k) \/ (wire[k] # <<>> /\ wire' = [wire EXCEPT ![k] = Tail(@)]),
         UNCHANGED claim,
         \A j \in Keys : \A i \in 1..Len(wire[j]) : wire[j][i] \in Tales => Done(j)
  PROVE  (\A j \in Keys : \A i \in 1..Len(wire[j]) : wire[j][i] \in Tales => Done(j))'
<1>1. ASSUME NEW j \in Keys, NEW i \in 1..Len(wire'[j]), wire'[j][i] \in Tales
      PROVE  Done(j)
  <2>1. wire[j] \in Seq(Events)
    BY DEF TypeOK
  <2>2. CASE wire'[j] = wire[j]
    BY <2>2, <1>1
  <2>3. CASE wire'[j] = <<>>
    BY <2>3, <1>1
  <2>4. CASE wire[j] # <<>> /\ wire'[j] = Tail(wire[j])
    <3>1. Len(wire'[j]) = Len(wire[j]) - 1 /\ wire'[j][i] = wire[j][i + 1]
      BY <2>1, <2>4
    <3>2. i + 1 \in 1..Len(wire[j])
      BY <3>1, <2>1
    <3> QED
      BY <3>1, <3>2, <1>1
  <2> QED
    BY <2>2, <2>3, <2>4 DEF StopReading, TypeOK
<1> QED
  BY <1>1 DEF Done

\* A coroutine that is not about to narrate knows nothing.
LEMMA PlaceKnows ==
  ASSUME TypeOK, NEW k \in Keys, NEW st, Become(k, st), UNCHANGED claim,
         st.place \in {"narrating", "completing"} => Done(k),
         \A j \in Keys : stream[j].place \in {"narrating", "completing"} => Done(j)
  PROVE  (\A j \in Keys : stream[j].place \in {"narrating", "completing"} => Done(j))'
BY DEF Become, Done, TypeOK

LEMMA CloseKnows ==
  ASSUME TypeOK, NEW k \in Keys, Close(k), UNCHANGED claim,
         \A j \in Keys : stream[j].place \in {"narrating", "completing"} => Done(j)
  PROVE  (\A j \in Keys : stream[j].place \in {"narrating", "completing"} => Done(j))'
BY QuietOK DEF Close, Done, TypeOK, Live, Looping

LEMMA HookKnows ==
  ASSUME TypeOK, StreamsKnow, NEW k \in Keys,
         Submit(k) \/ HookStep(k) \/ PostLost(k) \/ Cut(k)
  PROVE  StreamsKnow'
<1> DEFINE P == \A j \in Keys : stream[j].place \in {"narrating", "completing"} => Done(j)
           S == \A j \in Keys : said[j] \cap Tales # {} => Done(j)
           W == \A j \in Keys : \A i \in 1..Len(wire[j]) : wire[j][i] \in Tales => Done(j)
<1>0. P /\ S /\ W /\ claim' = claim
  BY OtherSteps DEF StreamsKnow
<1>a. P' /\ S' /\ W' => StreamsKnow'
  BY DEF StreamsKnow
<1>b. said' = said => S'
  BY <1>0 DEF Done
<1>c. stream' = stream => P'
  BY <1>0 DEF Done
<1>d. Close(k) => P'
  BY <1>0, CloseKnows
<1>e. StopReading(k) => W'
  BY <1>0, ReadKnows
<1>f. Leave(k) \/ (\E how : Settle(k, how)) => P' /\ W'
  BY <1>c, <1>d, <1>e DEF Leave, Settle
<1>1. CASE Submit(k)
  <2>1. P'
    BY <1>0, <1>1, QuietOK DEF Submit, Done, TypeOK, Live, Looping
  <2>2. W'
    BY <1>0, <1>1 DEF Submit, Done
  <2> QED
    BY <2>1, <2>2, <1>a, <1>b, <1>1 DEF Submit
<1>2. CASE Read(k)
  <2>1. CASE Leave(k) \/ (\E how : Settle(k, how))
    BY <2>1, <1>a, <1>b, <1>f, <1>2 DEF Read
  <2>2. CASE wire' = [wire EXCEPT ![k] = Tail(@)] /\ UNCHANGED stream
    BY <2>2, <1>0, <1>a, <1>b, <1>c, <1>2, ReadKnows DEF Read
  <2> QED
    BY <2>1, <2>2, <1>2 DEF Read
<1>3. CASE StreamOver(k)
  BY <1>3, <1>a, <1>b, <1>d, <1>e, <1>f DEF StreamOver
<1>4. CASE PostAnswered(k) \/ PostLost(k)
  BY <1>4, <1>a, <1>b, <1>f DEF PostAnswered, PostLost
<1>5. CASE Cut(k)
  <2>1. W'
    BY <1>0, <1>5 DEF Cut, Done
  <2> QED
    BY <2>1, <1>5, <1>a, <1>b, <1>d DEF Cut
<1> QED
  BY <1>1, <1>2, <1>3, <1>4, <1>5 DEF HookStep

LEMMA LoopKnows ==
  ASSUME TypeOK, ServiceKnows, StreamsKnow, NEW k \in Keys,
         Open(k) \/ LoopStep(k) \/ Emit(k) \/ PublishSentinel(k)
  PROVE  StreamsKnow'
<1> DEFINE P == \A j \in Keys : stream[j].place \in {"narrating", "completing"} => Done(j)
           S == \A j \in Keys : said[j] \cap Tales # {} => Done(j)
           W == \A j \in Keys : \A i \in 1..Len(wire[j]) : wire[j][i] \in Tales => Done(j)
<1>0. P /\ S /\ W /\ claim' = claim
  BY OtherSteps DEF StreamsKnow
<1>a. P' /\ S' /\ W' => StreamsKnow'
  BY DEF StreamsKnow
<1>b. UNCHANGED <<wire, said>> => S' /\ W'
  BY <1>0 DEF Done
<1>c. \A e \in Events : Yield(k, e) /\ (e \in Tales => Done(k)) => S' /\ W'
  BY <1>0, YieldKnows
<1>d. \A st : Become(k, st) /\ (st.place \in {"narrating", "completing"} => Done(k)) => P'
  BY <1>0, PlaceKnows
<1>e. \A p \in {"tail", "done", "cancelled"} : Become(k, Quiet(p)) => P'
  BY <1>d DEF Quiet
<1>g. stream[k] \in StreamType
  BY DEF TypeOK
<1>f. ASSUME NEW n
      PROVE  /\ Loop(stream[k], n).place \notin {"narrating", "completing"}
             /\ Loop([stream[k] EXCEPT !.queue = Tail(@)], n).place
                  \notin {"narrating", "completing"}
  BY <1>g DEF Loop, StreamType
<1>1. CASE Open(k)
  BY <1>1, <1>a, <1>b, <1>d, <1>e, <1>f DEF Open
<1>2. CASE Timeout(k)
  BY <1>2, <1>a, <1>c, <1>e DEF Timeout, Events, Failures, Tales
<1>3. CASE Beat(k)
  BY <1>3, <1>a, <1>b, <1>d, <1>f DEF Beat
<1>4. CASE Take(k)
  <2>1. CASE Become(k, Quiet("tail"))
    BY <2>1, <1>4, <1>a, <1>b, <1>e DEF Take
  <2>2. CASE Become(k, Loop([stream[k] EXCEPT !.queue = Tail(@)], stream[k].left))
    BY <2>2, <1>4, <1>a, <1>b, <1>d, <1>f DEF Take
  <2> QED
    BY <2>1, <2>2, <1>4 DEF Take
<1>5. CASE Tell(k)
  <2>1. CASE out[OnStream(k)] = "none"
    BY <2>1, <1>5, <1>a, <1>b, <1>e DEF Tell
  <2>2. CASE out[OnStream(k)] \in {"error", "failure"}
    BY <2>2, <1>5, <1>a, <1>c, <1>e DEF Tell, Events, Failures, Tales
  <2>3. CASE out[OnStream(k)] = "result"
    <3>1. Done(k)
      BY <2>3 DEF ServiceKnows, OnStream, Calls, Channels
    <3> QED
      BY <3>1, <2>3, <1>5, <1>a, <1>c, <1>d DEF Tell, Events, Tales
  <2> QED
    BY <2>1, <2>2, <2>3, <1>5 DEF Tell
<1>6. CASE TellNarration(k) \/ TellCompleted(k)
  <2>1. Done(k)
    BY <1>6, <1>0 DEF TellNarration, TellCompleted
  <2> QED
    BY <2>1, <1>6, <1>a, <1>c, <1>d DEF TellNarration, TellCompleted, Events, Tales
<1>7. CASE Emit(k)
  <2> DEFINE st == [stream[k] EXCEPT !.emitted = @ + 1]
             next == IF Len(st.queue) < Capacity
                     THEN [st EXCEPT !.queue = Append(@, "stage")] ELSE st
  <2>1. next.place = stream[k].place
    BY <1>g DEF StreamType
  <2>2. Become(k, next) /\ UNCHANGED <<wire, said>>
    BY <1>7 DEF Emit
  <2> HIDE DEF next
  <2> QED
    BY <2>1, <2>2, <1>0, <1>a, <1>b, <1>d
<1>8. CASE PublishSentinel(k)
  <2>1. [stream[k] EXCEPT !.queue = Append(@, "sentinel")].place = stream[k].place
    BY <1>g DEF StreamType
  <2> QED
    BY <2>1, <1>8, <1>0, <1>a, <1>b, <1>d DEF PublishSentinel, Put
<1> QED
  BY <1>1, <1>2, <1>3, <1>4, <1>5, <1>6, <1>7, <1>8 DEF LoopStep

LEMMA InitKnows == Init => ServiceKnows /\ StreamsKnow
BY DEF Init, ServiceKnows, StreamsKnow, Quiet

LEMMA StepKnows ==
  TypeOK /\ ServiceKnows /\ StreamsKnow /\ [Next]_vars => (ServiceKnows /\ StreamsKnow)'
<1> SUFFICES ASSUME TypeOK, ServiceKnows, StreamsKnow, [Next]_vars
             PROVE  (ServiceKnows /\ StreamsKnow)'
  OBVIOUS
<1>1. ASSUME NEW k \in Keys,
             \/ Submit(k) \/ HookStep(k) \/ PostLost(k) \/ Cut(k)
             \/ Open(k) \/ LoopStep(k) \/ Emit(k) \/ PublishSentinel(k)
      PROVE  (ServiceKnows /\ StreamsKnow)'
  <2>1. ServiceKnows'
    BY <1>1, OtherSteps, OtherStepKnows
  <2>2. StreamsKnow'
    BY <1>1, HookKnows, LoopKnows
  <2> QED
    BY <2>1, <2>2
<1>2. ASSUME NEW r \in Calls, ServiceStep(r)
      PROVE  (ServiceKnows /\ StreamsKnow)'
  <2>1. ServiceKnows'
    BY <1>2, ServiceStepKnows
  <2>2. \A k \in Keys : Done(k) => Done(k)'
    BY DoneStays DEF Durable
  <2> QED
    BY <2>1, <2>2, <1>2 DEF ServiceStep, StreamsKnow
<1>3. CASE Tick
  <2>1. ASSUME NEW k \in Keys
        PROVE  stream'[k].place = stream[k].place
    <3>1. stream[k] \in StreamType
      BY DEF TypeOK
    <3>2. stream'[k] = stream[k]
            \/ stream'[k] = [stream[k] EXCEPT !.left = Down(@), !.timer = Down(@)]
      BY <1>3 DEF Tick
    <3> QED
      BY <3>1, <3>2 DEF StreamType
  <2>2. UNCHANGED <<wire, said, at, out, claim>>
    BY <1>3 DEF Tick, service
  <2>3. ServiceKnows'
    BY <2>2 DEF ServiceKnows, Done
  <2>4. StreamsKnow'
    BY <2>1, <2>2 DEF StreamsKnow, Done
  <2> QED
    BY <2>3, <2>4
<1>4. CASE UNCHANGED vars
  BY <1>4 DEF vars, service, ServiceKnows, StreamsKnow, Done
<1> QED
  BY <1>1, <1>2, <1>3, <1>4 DEF Next

\* No stream tells of a commit before the turn is durable: what it says comes from a
\* thread that returned after its commit, and a committed claim stays committed.
THEOREM ToldTurnsAreDurable == Spec => []SaidIsDurable
<1>1. Init => TypeOK /\ ServiceKnows /\ StreamsKnow
  BY InitTypes, InitKnows
<1>2. TypeOK /\ ServiceKnows /\ StreamsKnow /\ [Next]_vars
        => (TypeOK /\ ServiceKnows /\ StreamsKnow)'
  BY StepTypes, StepKnows
<1>3. StreamsKnow => SaidIsDurable
  BY DEF StreamsKnow, SaidIsDurable, Done
<1> QED
  BY <1>1, <1>2, <1>3, PTL DEF Spec

-----------------------------------------------------------------------------
(* The promise.                                                             *)

\* The page shows the last submission, as done only after its commit and as pending
\* while its call runs; what was not submitted yet has left no trace.
PageInv ==
  /\ shown.key = current
  /\ shown.is = "complete" => current \in Keys /\ Done(current)
  /\ \A k \in Keys : k = current /\ hook[k] \in {"reading", "posting"} => shown.is = "pending"
  /\ \A k \in Keys : k > current =>
       /\ hook[k] = "none" /\ stream[k].place = "off"
       /\ at[OnStream(k)] = "off" /\ at[OnPost(k)] = "off"

LEMMA InitPage == Init => PageInv
BY DEF Init, PageInv, Quiet, Keys, Calls, Channels, OnStream, OnPost

\* A call of the hook for a submission that was made.
LEMMA SettlePage ==
  ASSUME TypeOK, PageInv, NEW k \in Keys, k <= current, UNCHANGED <<current, at, claim>>,
         \/ Leave(k) /\ current # k
         \/ Settle(k, "failed") /\ current = k
         \/ Settle(k, "complete") /\ current = k /\ Done(k)
  PROVE  PageInv'
<1>0. current \in Nat /\ k \in Nat /\ \A j \in Keys : j > current => j # k
  BY DEF TypeOK, Keys
<1>1. \A j \in Keys : j > current => stream'[j] = stream[j] /\ hook'[j] = hook[j]
  <2>1. CASE Leave(k)
    BY <1>0, <2>1 DEF Leave, TypeOK
  <2>2. CASE \E how : Settle(k, how)
    BY <1>0, <2>2 DEF Settle, Close, TypeOK
  <2> QED
    BY <2>1, <2>2
<1>2. CASE Leave(k) /\ current # k
  BY <1>1, <1>2 DEF Leave, PageInv, TypeOK, Done
<1>3. CASE Settle(k, "failed") /\ current = k
  BY <1>1, <1>3 DEF Settle, PageInv, TypeOK, Done
<1>4. CASE Settle(k, "complete") /\ current = k /\ Done(k)
  BY <1>1, <1>4 DEF Settle, PageInv, TypeOK, Done
<1> QED
  BY <1>2, <1>3, <1>4

\* A step that leaves the page alone, and starts nothing for a later submission.
LEMMA OtherPage ==
  ASSUME TypeOK, PageInv, UNCHANGED page, \A k \in Keys : Done(k) => Done(k)',
         \A k \in Keys : k > current =>
           /\ stream'[k].place = "off" /\ at'[OnStream(k)] = "off" /\ at'[OnPost(k)] = "off"
  PROVE  PageInv'
BY DEF PageInv, page

LEMMA StepPage ==
  TypeOK /\ Durable /\ PageInv /\ [Next]_vars => PageInv'
<1> SUFFICES ASSUME TypeOK, Durable, PageInv, [Next]_vars PROVE PageInv'
  OBVIOUS
<1>0. \A k \in Keys : Done(k) => Done(k)'
  BY DoneStays
<1>n. current \in Nat /\ Keys \subseteq Nat
  BY DEF TypeOK, Keys
<1>k. ASSUME NEW k \in Keys
      PROVE  /\ stream[k].place # "off" \/ hook[k] # "none" => k <= current
             /\ at[OnStream(k)] # "off" \/ at[OnPost(k)] # "off" => k <= current
             /\ OnStream(k) \in Calls /\ OnPost(k) \in Calls
             /\ \A j \in Keys : OnPost(j) # OnStream(k)
             /\ \A j \in Keys : j # k => OnPost(j) # OnPost(k) /\ OnStream(j) # OnStream(k)
  BY <1>n DEF PageInv, OnStream, OnPost, Calls, Channels
<1> DEFINE Later(k) ==
      k > current => /\ stream'[k].place = "off"
                     /\ at'[OnStream(k)] = "off" /\ at'[OnPost(k)] = "off"
<1>1. CASE UNCHANGED vars
  BY <1>1 DEF vars, page, service, PageInv, Done
<1>2. CASE Tick
  <2>1. ASSUME NEW k \in Keys, k > current
        PROVE  stream'[k] = stream[k]
    BY <2>1, <1>2 DEF Tick, Ticking, PageInv
  <2>2. /\ UNCHANGED page
        /\ UNCHANGED at
    BY <1>2 DEF Tick, service
  <2>3. \A k \in Keys : Later(k)
    BY <2>1, <2>2 DEF PageInv
  <2> QED
    BY <2>2, <2>3, <1>0, OtherPage
<1>3. ASSUME NEW r \in Calls, ServiceStep(r)
      PROVE  PageInv'
  <2>1. at[r] # "off" /\ \A q \in Calls : q # r => at'[q] = at[q]
    BY <1>3 DEF ServiceStep, ClaimRefused, Replayed, Claimed, Commit, Fail, Finish, Return, TypeOK
  <2>2. \A k \in Keys : Later(k)
    BY <2>1, <1>3, <1>k DEF ServiceStep, PageInv
  <2> QED
    BY <2>2, <1>0, <1>3, OtherPage DEF ServiceStep
<1>4. ASSUME NEW k \in Keys, Open(k) \/ LoopStep(k) \/ Emit(k) \/ PublishSentinel(k)
      PROVE  PageInv'
  <2>1. stream[k].place # "off" \/ at[OnStream(k)] # "off"
    BY <1>4 DEF Open, LoopStep, Timeout, Beat, Take, Tell, TellNarration, TellCompleted, Emit,
      PublishSentinel
  <2>2. UNCHANGED page /\ UNCHANGED claim
    BY <1>4 DEF Open, LoopStep, Timeout, Beat, Take, Tell, TellNarration, TellCompleted, Emit,
      PublishSentinel, service
  <2>3. at' = at \/ \E w \in {"asked", "gone"} : at' = [at EXCEPT ![OnStream(k)] = w]
    BY <1>4 DEF Open, LoopStep, Timeout, Beat, Take, Tell, TellNarration, TellCompleted, Emit,
      PublishSentinel, service
  <2>4. \A j \in Keys : j # k => stream'[j] = stream[j]
    BY <1>4 DEF Open, LoopStep, Timeout, Beat, Take, Tell, TellNarration, TellCompleted, Emit,
      PublishSentinel, Put, Become, TypeOK
  <2>5. \A j \in Keys : Later(j)
    BY <2>1, <2>3, <2>4, <1>k, <1>n DEF PageInv, TypeOK
  <2> QED
    BY <2>2, <2>5, <1>0, OtherPage
<1>5. ASSUME NEW k \in Keys, Submit(k)
      PROVE  PageInv'
  <2>1. k = current + 1 /\ current' = k
    BY <1>5 DEF Submit
  <2>2. \A j \in Keys : j > k => /\ hook'[j] = "none" /\ stream'[j].place = "off"
                                 /\ at'[OnStream(j)] = "off" /\ at'[OnPost(j)] = "off"
    BY <2>1, <1>5, <1>n DEF Submit, PageInv, service, TypeOK, Live, Looping
  <2> QED
    BY <2>1, <2>2, <1>5 DEF Submit, PageInv, Keys
<1>6. ASSUME NEW k \in Keys, Read(k)
      PROVE  PageInv'
  <2>0. k <= current
    BY <1>6, <1>k DEF Read
  <2>1. CASE UNCHANGED <<hook, shown, stream>>
    BY <2>1, <1>6, <1>0 DEF Read, PageInv, service
  <2>2. CASE /\ ~Superseded(k) /\ Head(wire[k]) = "turn_completed" /\ Settle(k, "complete")
    <3>1. wire[k] \in Seq(Events) /\ wire[k] # <<>>
      BY <1>6 DEF Read, TypeOK
    <3>2. 1 \in 1..Len(wire[k]) /\ Head(wire[k]) = wire[k][1]
      BY <3>1
    <3>3. Done(k)
      BY <3>2, <2>2 DEF Durable, StreamsKnow, Tales
    <3> QED
      BY <3>3, <2>0, <2>2, <1>6, SettlePage DEF Read, service, Superseded
  <2>3. CASE Superseded(k) /\ Leave(k)
    BY <2>3, <2>0, <1>6, SettlePage DEF Read, service, Superseded
  <2>4. CASE ~Superseded(k) /\ Settle(k, "failed")
    BY <2>4, <2>0, <1>6, SettlePage DEF Read, service, Superseded
  <2> QED
    BY <2>1, <2>2, <2>3, <2>4, <1>6 DEF Read
<1>7. ASSUME NEW k \in Keys, StreamOver(k)
      PROVE  PageInv'
  <2>0. k <= current
    BY <1>7, <1>k DEF StreamOver, IsOver
  <2>1. CASE Superseded(k) /\ Leave(k) /\ UNCHANGED at
    BY <2>1, <2>0, <1>7, SettlePage DEF StreamOver, Superseded
  <2>2. CASE /\ ~Superseded(k)
             /\ hook' = [hook EXCEPT ![k] = "posting"]
             /\ at' = [at EXCEPT ![OnPost(k)] = "asked"]
             /\ Close(k)
             /\ UNCHANGED shown
    <3>1. shown.is = "pending"
      BY <2>2, <1>7 DEF StreamOver, IsOver, Superseded, PageInv
    <3>2. \A j \in Keys : j > current => /\ hook'[j] = hook[j] /\ stream'[j] = stream[j]
                                         /\ at'[OnStream(j)] = at[OnStream(j)]
                                         /\ at'[OnPost(j)] = at[OnPost(j)]
      BY <2>0, <2>2, <1>n, <1>k DEF Close, TypeOK
    <3>3. current' = current
      BY <1>7 DEF StreamOver
    <3> QED
      BY <3>1, <3>2, <3>3, <2>2 DEF PageInv, TypeOK
  <2> QED
    BY <2>1, <2>2, <1>7 DEF StreamOver
<1>8. ASSUME NEW k \in Keys, PostAnswered(k) \/ PostLost(k)
      PROVE  PageInv'
  <2>0. k <= current
    BY <1>8, <1>k DEF PostAnswered, PostLost
  <2>1. out[OnPost(k)] = "result" => Done(k)
    BY <1>k DEF Durable, ServiceKnows, OnPost
  <2>2. /\ UNCHANGED <<current, at, claim>>
        /\ \/ Leave(k) /\ current # k
           \/ Settle(k, "failed") /\ current = k
           \/ Settle(k, "complete") /\ current = k /\ Done(k)
    BY <2>1, <1>8 DEF PostAnswered, PostLost, Superseded, service
  <2> QED
    BY <2>0, <2>2, SettlePage
<1>9. ASSUME NEW k \in Keys, Cut(k)
      PROVE  PageInv'
  <2>1. \A j \in Keys : j > current => stream'[j].place = "off"
    BY <1>9 DEF Cut, Close, PageInv, TypeOK, Live, Looping
  <2> QED
    BY <2>1, <1>9, <1>0, OtherPage DEF Cut, service, PageInv
<1> QED
  BY <1>1, <1>2, <1>3, <1>4, <1>5, <1>6, <1>7, <1>8, <1>9 DEF Next, HookStep

\* Page and server keep the promise at every step: a commit plays a submission that was
\* made and not played before, a page that settles as done tells a played turn, a new
\* submission asks, and every other step changes nothing that the promise speaks of.
played == {k \in Keys : claim[k] = "committed"}
told == IF shown.is = "complete" THEN shown.key ELSE 0

LEMMA PromiseInit == Init => Promise!Init
BY DEF Init, Promise!Init

\* What a call of the hook that settles the page does to the promise.
LEMMA SettleKeeps ==
  ASSUME TypeOK, PageInv, NEW k \in Keys, UNCHANGED <<current, claim>>,
         hook[k] \in {"reading", "posting"},
         \/ Leave(k)
         \/ Settle(k, "failed") /\ current = k
         \/ Settle(k, "complete") /\ current = k /\ Done(k)
  PROVE  [Promise!Next]_<<current, played, told>>
<1>0. played' = played
  BY DEF played
<1>1. CASE Leave(k)
  BY <1>0, <1>1 DEF Leave, told
<1>2. ASSUME NEW how \in {"failed", "complete"}, Settle(k, how), current = k
      PROVE  told = 0 /\ shown' = [key |-> k, is |-> how]
  BY <1>2 DEF Settle, PageInv, told
<1>3. CASE Settle(k, "failed") /\ current = k
  BY <1>0, <1>2, <1>3 DEF told
<1>4. CASE Settle(k, "complete") /\ current = k /\ Done(k)
  <2>1. told = 0 /\ told' = current
    BY <1>2, <1>4 DEF told
  <2>2. current \in played
    BY <1>4 DEF played, Done
  <2>3. Promise!Tell
    BY <1>0, <2>1, <2>2 DEF Promise!Tell, played, told
  <2> QED
    BY <2>3 DEF Promise!Next
<1> QED
  BY <1>1, <1>3, <1>4

LEMMA PromiseStep ==
  TypeOK /\ Durable /\ PageInv /\ [Next]_vars => [Promise!Next]_<<current, played, told>>
<1> SUFFICES ASSUME TypeOK, Durable, PageInv, [Next]_vars
             PROVE  [Promise!Next]_<<current, played, told>>
  OBVIOUS
<1>1. ASSUME UNCHANGED <<current, shown, claim>>
      PROVE  [Promise!Next]_<<current, played, told>>
  BY <1>1 DEF played, told
<1>2. CASE UNCHANGED vars
  BY <1>1, <1>2 DEF vars, page, service
<1>3. CASE Tick
  BY <1>1, <1>3 DEF Tick, page, service
<1>4. ASSUME NEW r \in Calls, ServiceStep(r)
      PROVE  [Promise!Next]_<<current, played, told>>
  <2>0. UNCHANGED <<current, shown>>
    BY <1>4 DEF ServiceStep, page
  <2>1. CASE Commit(r)
    <3>1. PICK k \in Keys, c \in Channels : r = <<k, c>>
      BY DEF Calls
    <3>2. r[1] = k /\ at[r] = "preparing" /\ claim' = [claim EXCEPT ![k] = "committed"]
      BY <3>1, <2>1 DEF Commit
    <3>3. k \in 1..current
      <4>1. r = OnStream(k) \/ r = OnPost(k)
        BY <3>1 DEF Channels, OnStream, OnPost
      <4>2. ~(k > current)
        BY <3>2, <4>1 DEF PageInv
      <4> QED
        BY <4>2 DEF TypeOK, Keys
    <3>4. claim[k] = "pending"
      BY <3>1, <3>2 DEF Durable, ServiceKnows
    <3>5. k \notin played /\ played' = played \cup {k}
      BY <3>2, <3>4 DEF played, TypeOK
    <3>6. Promise!Play(k)
      BY <2>0, <3>5 DEF Promise!Play, played, told
    <3> QED
      BY <3>3, <3>6 DEF Promise!Next
  <2>2. CASE ClaimRefused(r) \/ Replayed(r) \/ Finish(r)
    BY <2>0, <2>2, <1>1 DEF ClaimRefused, Replayed, Finish
  <2>3. CASE Claimed(r) \/ Fail(r)
    <3>1. \A k \in Keys : Done(k) <=> Done(k)'
      BY <2>3 DEF Claimed, Fail, Done, Durable, ServiceKnows, TypeOK
    <3>2. played' = played
      BY <3>1 DEF played, Done
    <3> QED
      BY <2>0, <3>2 DEF told
  <2> QED
    BY <1>4, <2>1, <2>2, <2>3 DEF ServiceStep
<1>5. ASSUME NEW k \in Keys, Cut(k) \/ Open(k) \/ LoopStep(k) \/ Emit(k) \/ PublishSentinel(k)
      PROVE  [Promise!Next]_<<current, played, told>>
  BY <1>1, <1>5 DEF Cut, Open, LoopStep, Timeout, Beat, Take, Tell, TellNarration, TellCompleted,
    Emit, PublishSentinel, page, service
<1>6. ASSUME NEW k \in Keys, Submit(k)
      PROVE  [Promise!Next]_<<current, played, told>>
  <2>1. current' = current + 1 /\ told' = 0 /\ played' = played
    BY <1>6 DEF Submit, service, told, played
  <2>2. Promise!Ask
    BY <2>1 DEF Promise!Ask, told, played
  <2> QED
    BY <2>2 DEF Promise!Next
<1>7. ASSUME NEW k \in Keys, Read(k)
      PROVE  [Promise!Next]_<<current, played, told>>
  <2>1. CASE UNCHANGED <<hook, shown, link, stream>>
    BY <2>1, <1>7, <1>1 DEF Read, service
  <2>2. CASE ~Superseded(k) /\ Head(wire[k]) = "turn_completed" /\ Settle(k, "complete")
    <3>1. wire[k] \in Seq(Events) /\ wire[k] # <<>>
      BY <1>7 DEF Read, TypeOK
    <3>2. 1 \in 1..Len(wire[k]) /\ Head(wire[k]) = wire[k][1]
      BY <3>1
    <3>3. Done(k)
      BY <3>2, <2>2 DEF Durable, StreamsKnow, Tales
    <3> QED
      BY <3>3, <2>2, <1>7, SettleKeeps DEF Read, service, Superseded
  <2>3. CASE Leave(k) \/ (~Superseded(k) /\ Settle(k, "failed"))
    BY <2>3, <1>7, SettleKeeps DEF Read, service, Superseded
  <2> QED
    BY <2>1, <2>2, <2>3, <1>7 DEF Read
<1>8. ASSUME NEW k \in Keys, StreamOver(k)
      PROVE  [Promise!Next]_<<current, played, told>>
  BY <1>1, <1>8 DEF StreamOver, Leave
<1>9. ASSUME NEW k \in Keys, PostAnswered(k) \/ PostLost(k)
      PROVE  [Promise!Next]_<<current, played, told>>
  <2>1. out[OnPost(k)] = "result" => Done(k)
    BY DEF Durable, ServiceKnows, OnPost, Calls, Channels
  <2>2. /\ UNCHANGED <<current, claim>>
        /\ hook[k] \in {"reading", "posting"}
        /\ \/ Leave(k)
           \/ Settle(k, "failed") /\ current = k
           \/ Settle(k, "complete") /\ current = k /\ Done(k)
    BY <2>1, <1>9 DEF PostAnswered, PostLost, Superseded, service
  <2> QED
    BY <2>2, SettleKeeps
<1> QED
  BY <1>2, <1>3, <1>4, <1>5, <1>6, <1>7, <1>8, <1>9 DEF Next, HookStep

\* The page and the server keep TurnPromise: nobody is told of a turn that was not
\* played, no submission is played twice, and what is shown stays until the next one.
THEOREM PromiseKept == Spec => KeepsPromise
<1>1. Init => TypeOK /\ Durable /\ PageInv
  BY InitTypes, InitKnows, InitPage DEF Durable
<1>2. TypeOK /\ Durable /\ PageInv /\ [Next]_vars => (TypeOK /\ Durable /\ PageInv)'
  BY StepTypes, StepKnows, StepPage DEF Durable
<1>3. Init => Promise!Init
  BY PromiseInit
<1>4. TypeOK /\ Durable /\ PageInv /\ [Next]_vars => [Promise!Next]_<<current, played, told>>
  BY PromiseStep
<1> QED
  BY <1>1, <1>2, <1>3, <1>4, PTL DEF Spec, KeepsPromise, Promise!Spec, played, told
-----------------------------------------------------------------------------
(* The outcome of a stream.                                                 *)

\* What a stream has said at each place of its coroutine, p with queue q, when its call is
\* at a and came to o: nothing while it loops, then either the deadline or, since a
\* sentinel is put after the outcome is set, nothing that the outcome does not say.
OutcomeSaid(s, o) ==
  \/ "turn_timeout" \in s
  \/ /\ o # "none"
     /\ s \cap Ends = CASE o = "result" -> {"turn_completed"}
                        [] o = "error" -> {"error"}
                        [] o = "failure" -> {"turn_error"}
                        [] OTHER -> Ends
Consistent(p, q, s, a, o) ==
  /\ o = "none" <=> a \notin {"returned", "gone"}
  /\ p \in {"off", "asked"} => a = "off"
  /\ p \in Looping \cup {"off", "asked"} => s = {}
  /\ (\E i \in 1..Len(q) : q[i] = "sentinel") => a = "gone"
  /\ p = "tail" => "turn_timeout" \in s \/ (s = {} /\ o # "none")
  /\ p \in {"narrating", "completing"} =>
       "turn_timeout" \in s \/ (s \cap Ends = {} /\ o = "result")
  /\ p = "done" => OutcomeSaid(s, o)
OutcomeOf(k) ==
  Consistent(stream[k].place, stream[k].queue, said[k], at[OnStream(k)], out[OnStream(k)])
OutcomeInv == \A k \in Keys : OutcomeOf(k)

LEMMA InitOutcome == Init => OutcomeInv
BY DEF Init, OutcomeInv, OutcomeOf, Consistent, Quiet, OnStream, Calls, Channels

\* Closing a connection cancels a coroutine that lives and leaves every other one alone.
LEMMA CancelConsistent ==
  ASSUME NEW p, NEW q, NEW s, NEW a, NEW o, Consistent(p, q, s, a, o)
  PROVE  Consistent("cancelled", <<>>, s, a, o)
BY DEF Consistent, Looping

LEMMA OthersOutcome ==
  ASSUME OutcomeInv, NEW k \in Keys,
         \A j \in Keys : j # k => /\ stream'[j] = stream[j] /\ said'[j] = said[j]
                                  /\ at'[OnStream(j)] = at[OnStream(j)]
                                  /\ out'[OnStream(j)] = out[OnStream(j)],
         OutcomeOf(k)'
  PROVE  OutcomeInv'
BY DEF OutcomeInv, OutcomeOf

LEMMA HookOutcome ==
  ASSUME TypeOK, PageInv, OutcomeInv, NEW k \in Keys,
         Submit(k) \/ HookStep(k) \/ PostLost(k) \/ Cut(k)
  PROVE  OutcomeInv'
<1>1. /\ UNCHANGED <<said, out>>
      /\ \A j \in Keys : at'[OnStream(j)] = at[OnStream(j)]
  <2>1. \A j \in Keys : OnStream(j) # OnPost(k) /\ OnStream(j) \in Calls
    BY DEF OnStream, OnPost, Calls, Channels
  <2> QED
    BY <2>1 DEF Submit, HookStep, Read, StreamOver, PostAnswered, PostLost, Cut, service, TypeOK
<1>2. \A j \in Keys : \/ stream'[j] = stream[j]
                      \/ stream'[j] = Quiet("cancelled")
                      \/ Submit(k) /\ j = k /\ stream'[j] = Quiet("asked")
  BY DEF Submit, HookStep, Read, StreamOver, PostAnswered, PostLost, Cut, Leave, Settle, Close,
    TypeOK
<1>3. ASSUME NEW j \in Keys PROVE OutcomeOf(j)'
  <2>0. OutcomeOf(j)
    BY DEF OutcomeInv
  <2>1. CASE stream'[j] = stream[j]
    BY <1>1, <2>0, <2>1 DEF OutcomeOf
  <2>2. CASE stream'[j] = Quiet("cancelled")
    <3>1. stream'[j].place = "cancelled" /\ stream'[j].queue = <<>>
      BY <2>2 DEF Quiet
    <3> QED BY <1>1, <2>0, <3>1, CancelConsistent DEF OutcomeOf
  <2>3. CASE Submit(k) /\ j = k /\ stream'[j] = Quiet("asked")
    <3>1. stream'[j].place = "asked" /\ stream'[j].queue = <<>>
      BY <2>3 DEF Quiet
    <3>2. stream[j].place = "off" /\ at[OnStream(j)] = "off"
      BY <2>3 DEF Submit, PageInv, TypeOK, Keys
    <3> QED BY <1>1, <2>0, <3>1, <3>2 DEF OutcomeOf, Consistent, Looping
  <2> QED BY <1>2, <2>1, <2>2, <2>3
<1> QED BY <1>3 DEF OutcomeInv

LEMMA ServiceOutcome ==
  ASSUME TypeOK, OutcomeInv, NEW r \in Calls, ServiceStep(r)
  PROVE  OutcomeInv'
<1>1. UNCHANGED <<stream, said>>
  BY DEF ServiceStep
<1>2. \/ at[r] \in {"asked", "preparing"} /\ UNCHANGED out
         /\ (\E w \in {"preparing", "narrating"} : at' = [at EXCEPT ![r] = w])
      \/ /\ at[r] \in {"asked", "preparing", "narrating"}
         /\ \E what \in {"result", "error", "failure"} : Return(r, what)
  BY DEF ServiceStep, ClaimRefused, Replayed, Claimed, Commit, Fail, Finish
<1>3. ASSUME NEW j \in Keys PROVE OutcomeOf(j)'
  <2>0. OutcomeOf(j) /\ OnStream(j) \in Calls
    BY DEF OutcomeInv, OnStream, Calls, Channels
  <2>1. CASE OnStream(j) # r
    BY <1>1, <1>2, <2>0, <2>1 DEF OutcomeOf, Return, TypeOK
  <2>2. CASE OnStream(j) = r
    <3>1. /\ at[r] \in {"asked", "preparing", "narrating"} /\ out[r] = "none"
          /\ stream[j].place \notin {"off", "asked"}
          /\ stream[j].place = "tail" => "turn_timeout" \in said[j]
          /\ stream[j].place \in {"narrating", "completing", "done"} => "turn_timeout" \in said[j]
          /\ ~\E i \in 1..Len(stream[j].queue) : stream[j].queue[i] = "sentinel"
      BY <1>2, <2>0, <2>2 DEF OutcomeOf, Consistent, OutcomeSaid
    <3>2. \/ at'[r] \in {"preparing", "narrating"} /\ out'[r] = "none"
          \/ at'[r] = "returned" /\ out'[r] \in {"result", "error", "failure"}
      BY <1>2, <2>0, <2>2, <3>1 DEF Return, TypeOK
    <3>3. /\ stream[j].place \in Looping => said[j] = {}
          /\ stream'[j] = stream[j] /\ said'[j] = said[j]
      BY <1>1, <2>0 DEF OutcomeOf, Consistent
    <3> QED BY <2>2, <3>1, <3>2, <3>3 DEF OutcomeOf, Consistent, OutcomeSaid
  <2> QED BY <2>1, <2>2
<1> QED BY <1>3 DEF OutcomeInv

LEMMA LoopOutcome ==
  ASSUME TypeOK, OutcomeInv, NEW k \in Keys,
         Open(k) \/ LoopStep(k) \/ Emit(k) \/ PublishSentinel(k)
  PROVE  OutcomeInv'
<1> DEFINE st == stream[k]
           q == st.queue
           s == said[k]
           r == OnStream(k)
<1>0. /\ st \in StreamType /\ q \in Seq(Entries) /\ s \in SUBSET Events /\ r \in Calls
      /\ \A j \in Keys : OnStream(j) \in Calls /\ (j # k => OnStream(j) # r)
  BY DEF TypeOK, StreamType, OnStream, Calls, Channels
<1>1. Consistent(st.place, q, s, at[r], out[r])
  BY DEF OutcomeInv, OutcomeOf
<1>2. /\ out' = out
      /\ \A j \in Keys : j # k => /\ stream'[j] = stream[j] /\ said'[j] = said[j]
                                  /\ at'[OnStream(j)] = at[OnStream(j)]
  <2>1. /\ out' = out
        /\ at' = at \/ \E w \in {"asked", "gone"} : at' = [at EXCEPT ![r] = w]
    BY DEF Open, LoopStep, Timeout, Beat, Take, Tell, TellNarration, TellCompleted, Emit,
      PublishSentinel, service
  <2>2. \E v : stream' = [stream EXCEPT ![k] = v]
    BY DEF Open, LoopStep, Timeout, Beat, Take, Tell, TellNarration, TellCompleted, Emit,
      PublishSentinel, Put, Become
  <2>3. said' = said \/ \E e : said' = [said EXCEPT ![k] = @ \cup {e}]
    BY DEF Open, LoopStep, Timeout, Beat, Take, Tell, TellNarration, TellCompleted, Emit,
      PublishSentinel, Yield
  <2> QED BY <1>0, <2>1, <2>2, <2>3 DEF TypeOK
<1>3. SUFFICES Consistent(stream'[k].place, stream'[k].queue, said'[k], at'[r], out[r])
  BY <1>2, OthersOutcome DEF OutcomeOf
<1>4. \A n : /\ Loop(st, n).place \in Looping /\ Loop(st, n).queue = q
             /\ Loop([st EXCEPT !.queue = Tail(@)], n).place \in Looping
             /\ Loop([st EXCEPT !.queue = Tail(@)], n).queue = Tail(q)
  BY <1>0 DEF Loop, StreamType, Looping
<1>5. \A p : Quiet(p).place = p /\ Quiet(p).queue = <<>>
  BY DEF Quiet
<1>6. \A v : Become(k, v) => stream'[k] = v
  BY DEF Become, TypeOK
<1>7. \A e \in Events : Yield(k, e) => said'[k] = s \cup {e}
  BY DEF Yield, TypeOK
<1>8. CASE Open(k)
  <2>1. /\ st.place = "asked" /\ at'[r] = "asked" /\ said' = said
        /\ \/ stream'[k].place \in Looping /\ stream'[k].queue = q
           \/ stream'[k].place = "cancelled" /\ stream'[k].queue = <<>>
    BY <1>0, <1>4, <1>5, <1>6, <1>8 DEF Open, TypeOK
  <2> QED BY <1>1, <2>1 DEF Consistent, Looping
<1>9. CASE Timeout(k)
  <2>1. stream'[k].place = "tail" /\ stream'[k].queue = <<>> /\ "turn_timeout" \in said'[k]
    BY <1>5, <1>6, <1>7, <1>9 DEF Timeout, Events, Failures
  <2> QED BY <1>1, <1>9, <2>1 DEF Consistent, Looping, Timeout, service
<1>10. CASE Beat(k)
  <2>1. stream'[k].place \in Looping /\ stream'[k].queue = q /\ UNCHANGED <<said, at>>
    BY <1>4, <1>6, <1>10 DEF Beat, service
  <2> QED BY <1>1, <1>10, <2>1 DEF Consistent, Looping, Beat
<1>11. CASE Take(k)
  <2>1. st.place = "loop" /\ q # <<>> /\ UNCHANGED <<said, at>>
    BY <1>11 DEF Take, service
  <2>2. CASE Head(q) = "sentinel"
    <3>1. stream'[k].place = "tail" /\ stream'[k].queue = <<>>
      BY <1>5, <1>6, <1>11, <2>2 DEF Take
    <3>2. 1 \in 1..Len(q) /\ q[1] = "sentinel"
      BY <1>0, <2>1, <2>2
    <3>3. out[r] # "none" /\ s = {}
      BY <1>1, <2>1, <3>2 DEF Consistent, Looping
    <3> QED BY <1>1, <2>1, <3>1, <3>3 DEF Consistent, Looping
  <2>3. CASE Head(q) # "sentinel"
    <3>1. stream'[k].place \in Looping /\ stream'[k].queue = Tail(q)
      BY <1>4, <1>6, <1>11, <2>3 DEF Take
    <3>2. ASSUME NEW i \in 1..Len(Tail(q)), Tail(q)[i] = "sentinel"
          PROVE  \E j \in 1..Len(q) : q[j] = "sentinel"
      <4>1. i + 1 \in 1..Len(q) /\ q[i + 1] = Tail(q)[i]
        BY <1>0, <2>1
      <4> QED BY <3>2, <4>1
    <3> QED BY <1>1, <2>1, <3>1, <3>2 DEF Consistent, Looping
  <2> QED BY <2>2, <2>3
<1>12. CASE Tell(k)
  <2>1. st.place = "tail" /\ at' = at /\ ("turn_timeout" \in s \/ (s = {} /\ out[r] # "none"))
    BY <1>1, <1>12 DEF Tell, service, Consistent
  <2>2. \/ out[r] = "none" /\ stream'[k].place = "done" /\ said'[k] = s
        \/ out[r] = "error" /\ stream'[k].place = "done" /\ said'[k] = s \cup {"error"}
        \/ out[r] = "failure" /\ stream'[k].place = "done" /\ said'[k] = s \cup {"turn_error"}
        \/ out[r] = "result" /\ stream'[k].place = "narrating" /\ said'[k] = s \cup {"event_committed"}
    BY <1>5, <1>6, <1>7, <1>12 DEF Tell, Events, Failures, Tales
  <2>3. stream'[k].queue = <<>>
    BY <1>5, <1>6, <1>12 DEF Tell
  <2> QED BY <1>1, <2>1, <2>2, <2>3 DEF Consistent, OutcomeSaid, Looping, Ends, Failures
<1>13. CASE TellNarration(k)
  <2>1. /\ st.place = "narrating" /\ at' = at /\ said'[k] = s \cup {"narration_delta"}
        /\ stream'[k].place = "completing" /\ stream'[k].queue = <<>>
    BY <1>5, <1>6, <1>7, <1>13 DEF TellNarration, service, Events, Tales
  <2> QED BY <1>1, <2>1 DEF Consistent, Looping, Ends, Failures
<1>14. CASE TellCompleted(k)
  <2>1. /\ st.place = "completing" /\ at' = at /\ said'[k] = s \cup {"turn_completed"}
        /\ stream'[k].place = "done" /\ stream'[k].queue = <<>>
    BY <1>5, <1>6, <1>7, <1>14 DEF TellCompleted, service, Events, Tales
  <2> QED BY <1>1, <2>1 DEF Consistent, OutcomeSaid, Looping, Ends, Failures
<1>15. CASE Emit(k)
  <2>1. /\ st.place \in Looping /\ UNCHANGED <<said, at>>
        /\ stream'[k].place = st.place
        /\ stream'[k].queue \in {q, Append(q, "stage")}
    BY <1>0, <1>6, <1>15 DEF Emit, service, StreamType
  <2>2. \A i \in 1..Len(Append(q, "stage")) : Append(q, "stage")[i] = "sentinel" =>
          i \in 1..Len(q) /\ q[i] = "sentinel"
    BY <1>0
  <2> QED BY <1>1, <2>1, <2>2 DEF Consistent, Looping
<1>16. CASE PublishSentinel(k)
  <2>1. /\ at[r] = "returned" /\ at'[r] = "gone" /\ said' = said
        /\ stream'[k].place = st.place
    BY <1>0, <1>6, <1>16 DEF PublishSentinel, Put, TypeOK, StreamType
  <2> QED BY <1>1, <2>1 DEF Consistent
<1> QED BY <1>8, <1>9, <1>10, <1>11, <1>12, <1>13, <1>14, <1>15, <1>16 DEF LoopStep

LEMMA StepOutcome ==
  TypeOK /\ PageInv /\ OutcomeInv /\ [Next]_vars => OutcomeInv'
<1> SUFFICES ASSUME TypeOK, PageInv, OutcomeInv, [Next]_vars PROVE OutcomeInv'
  OBVIOUS
<1>1. CASE Tick
  <2>1. ASSUME NEW k \in Keys
        PROVE  stream'[k].place = stream[k].place /\ stream'[k].queue = stream[k].queue
    <3>1. stream[k] \in StreamType
      BY DEF TypeOK
    <3>2. stream'[k] = stream[k]
            \/ stream'[k] = [stream[k] EXCEPT !.left = Down(@), !.timer = Down(@)]
      BY <1>1 DEF Tick
    <3> QED BY <3>1, <3>2 DEF StreamType
  <2> QED BY <1>1, <2>1 DEF Tick, service, OutcomeInv, OutcomeOf
<1>2. CASE UNCHANGED vars
  BY <1>2 DEF vars, service, OutcomeInv, OutcomeOf
<1> QED BY <1>1, <1>2, HookOutcome, LoopOutcome, ServiceOutcome DEF Next

\* A stream that ends by itself without having reported the deadline ends with what its
\* thread returned or raised: the outcome is set before the sentinel is put, and nothing
\* changes it afterwards.
THEOREM StreamsEndTruly == Spec => []EndTellsOutcome
<1>1. Init => TypeOK /\ Durable /\ PageInv /\ OutcomeInv
  BY InitTypes, InitKnows, InitPage, InitOutcome DEF Durable
<1>2. TypeOK /\ Durable /\ PageInv /\ OutcomeInv /\ [Next]_vars
        => (TypeOK /\ Durable /\ PageInv /\ OutcomeInv)'
  BY StepTypes, StepKnows, StepPage, StepOutcome DEF Durable
<1>3. OutcomeInv => EndTellsOutcome
  BY DEF OutcomeInv, OutcomeOf, Consistent, OutcomeSaid, EndTellsOutcome
<1> QED BY <1>1, <1>2, <1>3, PTL DEF Spec
=============================================================================
