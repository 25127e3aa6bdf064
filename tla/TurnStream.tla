----------------------------- MODULE TurnStream -----------------------------
(***************************************************************************)
(* A submitted action on its way from the game page to the server and back.*)
(*                                                                         *)
(* The page's hook (useTurnStream) posts each submission with a fresh key  *)
(* to the streaming endpoint.  There execute_turn_stream, a coroutine on   *)
(* the event loop, starts a thread for the turn and forwards its progress  *)
(* as SSE events.  The thread reaches the loop only by callbacks, which    *)
(* put into a bounded queue and drop what does not fit, the sentinel that  *)
(* announces the thread's end included.  The coroutine waits with a        *)
(* heartbeat and a hard deadline.  When a stream breaks or ends without an *)
(* outcome the hook falls back to the plain endpoint with the same key.    *)
(*                                                                         *)
(* A key is the number of its submission.  What the turn service decides   *)
(* is kept to one claim per key (TurnClaim has the protocol): claims are   *)
(* owned by live threads here, leases and crashes are TurnClaim's.  The    *)
(* response buffer never blocks the coroutine: its events are small.  What *)
(* a coroutine yields between the end of its connection and its            *)
(* cancellation reaches nobody: the cancellation is part of that end.      *)
(***************************************************************************)
EXTENDS Integers, Sequences

CONSTANTS MaxSubmissions, \* bound: submissions of the player
          Capacity,       \* maxsize of the progress queue
          MaxProgress,    \* bound: progress events of a turn
          MaxFaults,      \* bound: broken connections
          Heartbeat,      \* HEARTBEAT_INTERVAL, in ticks
          HardDeadline    \* HARD_DEADLINE, in ticks

ASSUME StreamConstants ==
  /\ MaxSubmissions \in Nat /\ Capacity \in Nat \ {0}
  /\ MaxProgress \in Nat /\ MaxFaults \in Nat
  /\ Heartbeat \in Nat \ {0} /\ HardDeadline \in Nat \ {0}

VARIABLES
  current,  \* pendingKeyRef: the key of the last submission
  hook,     \* submitTurn, by key: where that call is
  shown,    \* what the page shows, and for which key
  link,     \* the connection of each stream
  faults,   \* how many connections have broken
  wire,     \* the events of each stream that the hook has yet to read
  said,     \* the events each stream has yielded
  stream,   \* the coroutine of each stream: place, clocks, progress queue
  at,       \* where each call of execute_turn_service is
  out,      \* what each call of execute_turn_service returned or raised
  claim     \* the claim of each key in the database

page == <<current, hook, shown>>
service == <<at, out, claim>>
vars == <<page, link, faults, wire, said, stream, service>>

-----------------------------------------------------------------------------
Keys == 1..MaxSubmissions
Channels == {"stream", "post"}
Calls == Keys \X Channels
OnStream(k) == <<k, "stream">>
OnPost(k) == <<k, "post">>

\* the events that tell something of a turn's outcome: turn_started, the stages and
\* heartbeats only refresh the display.  A turn_timeout is a turn_error event that the
\* hook does not tell from others.
Failures == {"turn_error", "turn_timeout"}
Tales == {"event_committed", "narration_delta", "turn_completed"}
Events == Failures \cup Tales \cup {"error"}
Ends == Failures \cup {"turn_completed", "error"}
Entries == {"stage", "sentinel"}

Looping == {"loop", "due"}
Live == Looping \cup {"tail", "narrating", "completing"}
StreamType == [place : Live \cup {"off", "asked", "done", "cancelled"},
               left : 0..HardDeadline, timer : 0..Heartbeat,
               queue : Seq(Entries), emitted : 0..MaxProgress]
\* outside its loop a coroutine does not look at its clocks and its queue
Quiet(place) ==
  [place |-> place, left |-> 0, timer |-> 0, queue |-> <<>>, emitted |-> 0]

Init ==
  /\ current = 0
  /\ hook = [k \in Keys |-> "none"]
  /\ shown = [key |-> 0, is |-> "nothing"]
  /\ link = [k \in Keys |-> "none"]
  /\ faults = 0
  /\ wire = [k \in Keys |-> <<>>]
  /\ said = [k \in Keys |-> {}]
  /\ stream = [k \in Keys |-> Quiet("off")]
  /\ at = [r \in Calls |-> "off"]
  /\ out = [r \in Calls |-> "none"]
  /\ claim = [k \in Keys |-> "none"]

-----------------------------------------------------------------------------
(* The hook.                                                                *)

\* an open connection ends: the server cancels the coroutine, the thread goes on
Close(k) ==
  /\ link' = [link EXCEPT ![k] = "closed"]
  /\ stream' = [stream EXCEPT ![k] = IF @.place \in Live THEN Quiet("cancelled") ELSE @]

\* cleanup() aborts the stream of the submission before, if it is still being read
Submit(k) ==
  /\ k = current + 1
  /\ current' = k
  /\ hook' = [hook EXCEPT ![k] = "reading"]
  /\ shown' = [key |-> k, is |-> "pending"]
  /\ link' = [j \in Keys |-> IF j = k THEN "open"
                             ELSE IF link[j] = "open" THEN "closed" ELSE link[j]]
  /\ stream' = [j \in Keys |-> IF j = k THEN Quiet("asked")
                  ELSE IF stream[j].place \in Live THEN Quiet("cancelled") ELSE stream[j]]
  /\ UNCHANGED <<faults, wire, said, service>>

\* return from submitTurn, or go on to the fallback: what the stream has yet to
\* deliver is not read any more.  A superseded call leaves everything else alone.
StopReading(k) == wire' = [wire EXCEPT ![k] = <<>>]
Leave(k) ==
  /\ hook' = [hook EXCEPT ![k] = "ended"]
  /\ StopReading(k)
  /\ UNCHANGED <<shown, link, stream>>
Settle(k, how) ==
  /\ hook' = [hook EXCEPT ![k] = "ended"]
  /\ StopReading(k)
  /\ Close(k)
  /\ shown' = [key |-> k, is |-> how]
Superseded_Never(k) == FALSE
Superseded(k) == current # k

\* events that were received before an abort are still read
Read(k) ==
  /\ hook[k] = "reading" /\ wire[k] # <<>>
  /\ LET e == Head(wire[k]) IN
       \/ Superseded(k) /\ Leave(k)
       \/ ~Superseded(k) /\ e = "turn_completed" /\ Settle(k, "complete")
       \/ ~Superseded(k) /\ e \in Failures /\ Settle(k, "failed")
       \/ /\ ~Superseded(k) /\ e \notin Failures \cup {"turn_completed"}
          /\ wire' = [wire EXCEPT ![k] = Tail(@)]
          /\ UNCHANGED <<hook, shown, link, stream>>
  /\ UNCHANGED <<current, faults, said, service>>

\* the stream ended or broke without an outcome: post the same key again
IsOver(k) ==
  /\ hook[k] = "reading"
  /\ link[k] = "closed" \/ (stream[k].place = "done" /\ wire[k] = <<>>)
StreamOver_Silently(k) ==
  /\ IsOver(k)
  /\ Leave(k)
  /\ UNCHANGED <<current, faults, said, service>>
StreamOver(k) ==
  /\ IsOver(k)
  /\ \/ Superseded(k) /\ Leave(k) /\ UNCHANGED at
     \/ /\ ~Superseded(k)
        /\ hook' = [hook EXCEPT ![k] = "posting"]
        /\ at' = [at EXCEPT ![OnPost(k)] = "asked"]
        /\ StopReading(k)
        /\ Close(k)
        /\ UNCHANGED shown
  /\ UNCHANGED <<current, faults, said, out, claim>>

\* the answer to the post arrives, or its connection breaks
PostAnswered(k) ==
  /\ hook[k] = "posting" /\ out[OnPost(k)] # "none"
  /\ \/ Superseded(k) /\ Leave(k)
     \/ /\ ~Superseded(k)
        /\ Settle(k, IF out[OnPost(k)] = "result" THEN "complete" ELSE "failed")
  /\ UNCHANGED <<current, faults, said, service>>

Fault ==
  /\ faults < MaxFaults
  /\ faults' = faults + 1

PostLost(k) ==
  /\ hook[k] = "posting" /\ Fault
  /\ \/ Superseded(k) /\ Leave(k)
     \/ ~Superseded(k) /\ Settle(k, "failed")
  /\ UNCHANGED <<current, said, service>>

\* the stream's connection breaks; so it does when the page is left
Cut(k) ==
  /\ link[k] = "open" /\ Fault
  /\ Close(k)
  /\ UNCHANGED <<page, wire, said, service>>

-----------------------------------------------------------------------------
(* execute_turn_stream on the event loop.                                   *)

\* the top of the loop: the next wait lasts to the next heartbeat or to the deadline
Loop(st, remaining) ==
  [st EXCEPT !.place = IF remaining > 0 THEN "loop" ELSE "due",
             !.timer = IF Heartbeat < remaining THEN Heartbeat ELSE remaining,
             !.left = remaining]
Become(k, st) == stream' = [stream EXCEPT ![k] = st]

\* an event is delivered while the hook reads
Yield(k, e) ==
  /\ said' = [said EXCEPT ![k] = @ \cup {e}]
  /\ wire' = IF hook[k] = "reading" THEN [wire EXCEPT ![k] = Append(@, e)] ELSE wire

\* the request may have been on its way when its connection broke
Open(k) ==
  /\ stream[k].place = "asked"
  /\ Become(k, IF link[k] = "open" THEN Loop(stream[k], HardDeadline) ELSE Quiet("cancelled"))
  /\ at' = [at EXCEPT ![OnStream(k)] = "asked"]
  /\ UNCHANGED <<page, link, faults, wire, said, out, claim>>

\* falls through to whatever the thread has left behind by now
Timeout(k) ==
  /\ stream[k].place = "due"
  /\ Become(k, Quiet("tail"))
  /\ Yield(k, "turn_timeout")
  /\ UNCHANGED <<page, link, faults, service>>

Beat_Rearms(k) ==
  /\ stream[k].place = "loop" /\ stream[k].timer = 0
  /\ Become(k, Loop(stream[k], HardDeadline))
  /\ UNCHANGED <<page, link, faults, wire, said, service>>
Beat(k) ==
  /\ stream[k].place = "loop" /\ stream[k].timer = 0
  /\ Become(k, Loop(stream[k], stream[k].left))
  /\ UNCHANGED <<page, link, faults, wire, said, service>>

Take(k) ==
  /\ stream[k].place = "loop" /\ stream[k].queue # <<>>
  /\ LET st == stream[k] IN
       Become(k, IF Head(st.queue) = "sentinel" THEN Quiet("tail")
                 ELSE Loop([st EXCEPT !.queue = Tail(@)], st.left))
  /\ UNCHANGED <<page, link, faults, wire, said, service>>

\* thread_error, thread_result or, after a timeout, neither of them
Tell(k) ==
  /\ stream[k].place = "tail"
  /\ \/ out[OnStream(k)] = "none" /\ Become(k, Quiet("done")) /\ UNCHANGED <<wire, said>>
     \/ out[OnStream(k)] = "error" /\ Become(k, Quiet("done")) /\ Yield(k, "error")
     \/ out[OnStream(k)] = "failure" /\ Become(k, Quiet("done")) /\ Yield(k, "turn_error")
     \/ /\ out[OnStream(k)] = "result"
        /\ Become(k, Quiet("narrating"))
        /\ Yield(k, "event_committed")
  /\ UNCHANGED <<page, link, faults, service>>

\* without narration the event is skipped, which changes nothing
TellNarration(k) ==
  /\ stream[k].place = "narrating"
  /\ Become(k, Quiet("completing"))
  /\ Yield(k, "narration_delta")
  /\ UNCHANGED <<page, link, faults, service>>

TellCompleted(k) ==
  /\ stream[k].place = "completing"
  /\ Become(k, Quiet("done"))
  /\ Yield(k, "turn_completed")
  /\ UNCHANGED <<page, link, faults, service>>

Ticking(k) == stream[k].place = "loop" /\ stream[k].left > 0
Down(n) == IF n > 0 THEN n - 1 ELSE n
Tick ==
  /\ \E k \in Keys : Ticking(k)
  /\ stream' = [k \in Keys |-> IF ~Ticking(k) THEN stream[k]
                  ELSE [stream[k] EXCEPT !.left = Down(@), !.timer = Down(@)]]
  /\ UNCHANGED <<page, link, faults, wire, said, service>>

-----------------------------------------------------------------------------
(* execute_turn_service, called r = <<key, channel>>.                       *)

Return(r, what) ==
  /\ at' = [at EXCEPT ![r] = "returned"]
  /\ out' = [out EXCEPT ![r] = what]

InProgress == \E k \in Keys : claim[k] = "pending"

ClaimRefused(r) ==
  /\ at[r] = "asked"
  /\ claim[r[1]] # "committed"
  /\ InProgress \/ claim[r[1]] = "superseded"
  /\ Return(r, "error")
  /\ UNCHANGED claim

\* the stored result of a committed key; this service commits a turn with its
\* result, so the answer that the result is incomplete does not occur
Replayed(r) ==
  /\ at[r] = "asked" /\ claim[r[1]] = "committed"
  /\ Return(r, "result")
  /\ UNCHANGED claim

\* the key that takes over an aborted row supersedes its owner
Claimed(r) ==
  /\ at[r] = "asked"
  /\ ~InProgress /\ claim[r[1]] \in {"none", "aborted"}
  /\ at' = [at EXCEPT ![r] = "preparing"]
  /\ claim' = [k \in Keys |-> IF k = r[1] THEN "pending"
                 ELSE IF claim[k] = "aborted" THEN "superseded" ELSE claim[k]]
  /\ UNCHANGED out

Commit(r) ==
  /\ at[r] = "preparing"
  /\ at' = [at EXCEPT ![r] = "narrating"]
  /\ claim' = [claim EXCEPT ![r[1]] = "committed"]
  /\ UNCHANGED out

\* budget and conflicts raise errors that the stream sends as "error"
Fail(r) ==
  /\ at[r] = "preparing"
  /\ claim' = [claim EXCEPT ![r[1]] = "aborted"]
  /\ \E what \in {"error", "failure"} : Return(r, what)

\* an exception after the commit ends in a confirmed receipt, or in a failure
\* although the turn is committed; a receipt without a result does not occur
Finish_BeforeCommit(r) ==
  /\ at[r] \in {"preparing", "narrating"}
  /\ \E what \in {"result", "failure"} : Return(r, what)
  /\ UNCHANGED claim
Finish(r) ==
  /\ at[r] = "narrating"
  /\ \E what \in {"result", "failure"} : Return(r, what)
  /\ UNCHANGED claim

ServiceStep(r) ==
  /\ ClaimRefused(r) \/ Replayed(r) \/ Claimed(r) \/ Commit(r) \/ Fail(r) \/ Finish(r)
  /\ UNCHANGED <<page, link, faults, wire, said, stream>>

\* call_soon_threadsafe(put): the loop runs its callbacks in order and before it
\* resumes the coroutine; what does not fit is dropped
Put_Unbounded(k, e) ==
  Become(k, IF stream[k].place \in Looping
            THEN [stream[k] EXCEPT !.queue = Append(@, e)] ELSE stream[k])
Put(k, e) ==
  Become(k, IF stream[k].place \in Looping /\ Len(stream[k].queue) < Capacity
            THEN [stream[k] EXCEPT !.queue = Append(@, e)] ELSE stream[k])

\* progress_callback, while the coroutine may still take the event
Emit(k) ==
  /\ at[OnStream(k)] \in {"preparing", "narrating"}
  /\ stream[k].place \in Looping /\ stream[k].emitted < MaxProgress
  /\ LET st == [stream[k] EXCEPT !.emitted = @ + 1] IN
       Become(k, IF Len(st.queue) < Capacity
                 THEN [st EXCEPT !.queue = Append(@, "stage")] ELSE st)
  /\ UNCHANGED <<page, link, faults, wire, said, service>>

\* run_turn_in_thread ends: the outcome is set before
PublishSentinel_Early(k) ==
  /\ at[OnStream(k)] \in {"narrating", "returned"}
  /\ at' = [at EXCEPT ![OnStream(k)] = "gone"]
  /\ Put(k, "sentinel")
  /\ UNCHANGED <<page, link, faults, wire, said, out, claim>>
PublishSentinel(k) ==
  /\ at[OnStream(k)] = "returned"
  /\ at' = [at EXCEPT ![OnStream(k)] = "gone"]
  /\ Put(k, "sentinel")
  /\ UNCHANGED <<page, link, faults, wire, said, out, claim>>

-----------------------------------------------------------------------------
HookStep(k) == Read(k) \/ StreamOver(k) \/ PostAnswered(k)
LoopStep(k) ==
  \/ Timeout(k) \/ Beat(k) \/ Take(k)
  \/ Tell(k) \/ TellNarration(k) \/ TellCompleted(k)

Next ==
  \/ Tick
  \/ \E k \in Keys :
       \/ Submit(k) \/ HookStep(k) \/ PostLost(k) \/ Cut(k)
       \/ Open(k) \/ LoopStep(k) \/ Emit(k) \/ PublishSentinel(k)
  \/ \E r \in Calls : ServiceStep(r)

Spec == Init /\ [][Next]_vars

\* The browser, the event loop and the clock run, and the call behind a plain post
\* ends (the timeouts of its model calls are relied on).  Nothing is assumed of a stream's thread: a
\* model call in it may hang.  A request arrives unless its connection breaks.
Fairness ==
  /\ WF_vars(Tick)
  /\ \A k \in Keys :
       /\ WF_vars(HookStep(k)) /\ WF_vars(LoopStep(k))
       /\ WF_vars(link[k] = "open" /\ Open(k))
       /\ WF_vars(ServiceStep(OnPost(k)))

LiveSpec == Spec /\ Fairness

-----------------------------------------------------------------------------
(* Safety.                                                                  *)

\* Every variable keeps its type; the progress queue never exceeds its size.
TypeOK ==
  /\ current \in 0..MaxSubmissions
  /\ hook \in [Keys -> {"none", "reading", "posting", "ended"}]
  /\ shown \in [key : 0..MaxSubmissions, is : {"nothing", "pending", "complete", "failed"}]
  /\ link \in [Keys -> {"none", "open", "closed"}]
  /\ faults \in 0..MaxFaults
  /\ wire \in [Keys -> Seq(Events)]
  /\ said \in [Keys -> SUBSET Events]
  /\ stream \in [Keys -> StreamType]
  /\ \A k \in Keys : Len(stream[k].queue) <= Capacity
  /\ at \in [Calls -> {"off", "asked", "preparing", "narrating", "returned", "gone"}]
  /\ out \in [Calls -> {"none", "result", "error", "failure"}]
  /\ claim \in [Keys -> {"none", "pending", "aborted", "superseded", "committed"}]

\* A stream says that a turn was committed, and narrates it, only once the turn is
\* durable: the thread, the callbacks and the coroutine hand over nothing earlier.
SaidIsDurable ==
  \A k \in Keys : said[k] \cap Tales # {} => claim[k] = "committed"

\* A stream that ends by itself ends with what its thread returned or raised, unless
\* it has reported the hard deadline: a sentinel that arrives finds the outcome set,
\* and one that is dropped leads to the deadline.
EndTellsOutcome ==
  \A k \in Keys : stream[k].place = "done" =>
    \/ "turn_timeout" \in said[k]
    \/ said[k] \cap Ends =
         CASE out[OnStream(k)] = "result" -> {"turn_completed"}
           [] out[OnStream(k)] = "error" -> {"error"}
           [] out[OnStream(k)] = "failure" -> {"turn_error"}
           [] OTHER -> Ends

\* The page and the server together keep TurnPromise: a superseded call never
\* touches what the page shows, a turn shown as done was played and stays shown,
\* and a key that was streamed and posted is played once.
Promise == INSTANCE TurnPromise WITH
  asked <- current,
  played <- {k \in Keys : claim[k] = "committed"},
  told <- IF shown.is = "complete" THEN shown.key ELSE 0
KeepsPromise == Promise!Spec

-----------------------------------------------------------------------------
(* Liveness.                                                                *)

\* Every stream that has started its thread ends: by its sentinel, by the hard
\* deadline when the sentinel was dropped or the thread hangs, or by cancellation.
StreamEnds == \A k \in Keys :
  stream[k].place \in Looping ~> stream[k].place \in {"done", "cancelled"}

\* A pending page settles: every submission ends in a shown turn, in a shown
\* failure or in the next submission.
HookSettles == \A k \in Keys :
  (current = k /\ shown.is = "pending") ~> (current # k \/ shown.is # "pending")
=============================================================================
