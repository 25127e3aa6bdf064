-------------------------- MODULE TurnFencingProofs --------------------------
(***************************************************************************)
(* The fencing token is unique, and facts and receipt are one, for any     *)
(* number of workers, keys, inputs, turns and generations.                 *)
(*                                                                         *)
(* Neither is inductive.  Four things make them true.  A row is only ever  *)
(* claimed at the next turn of the session, so the turn of a row is the    *)
(* row; every grant raises the generation of its row, so all tokens are    *)
(* behind their row and the one that is level with it is its owner's; a    *)
(* final transaction keeps the lock from its swap to its outcome, so its   *)
(* row is still its own when it becomes durable; and a row that predates   *)
(* the fingerprints is never granted.                                      *)
(***************************************************************************)
EXTENDS TurnClaimProofs

\* The turn of a row is its number, and only the next turn has a row unplayed.
Numbering ==
  \A r \in DOMAIN rows : rows[r].turn = r /\ (r \in DOMAIN events \/ r = NextTurn)

\* No two rows have the same key.
KeysUnique == \A r, s \in DOMAIN rows : rows[r].key = rows[s].key => r = s

\* A row without fingerprint stays as the migration found it; an aborted row has
\* no lease left.
RestingRows ==
  \A r \in DOMAIN rows :
    /\ rows[r].input = Null => rows[r].status = "pending" /\ rows[r].lease = Null
    /\ rows[r].status = "aborted" => rows[r].lease = 0

\* A token is never ahead of its row, and agrees with it when it is level.
Behind(t) ==
  /\ t \in Tokens /\ t.row \in DOMAIN rows /\ t.turn = t.row
  /\ rows[t.row].input # Null
  /\ t.gen <= rows[t.row].gen
  /\ t.gen = rows[t.row].gen => t.key = rows[t.row].key /\ t.input = rows[t.row].input
TokensBehind == \A w \in Workers : pc[w] # "idle" => Behind(job[w].token)

\* An open final transaction owns its row, and a worker that waits for its commit
\* has it open under its own token.
CommitsOwn ==
  /\ \A x \in txn : /\ Owned(x.token) /\ x.token.turn = x.token.row
                    /\ x.token.turn \notin DOMAIN events
  /\ \A w \in Workers : pc[w] = "commit" =>
       lock = TurnLock(w) /\ txn # {} /\ \A x \in txn : x.token = job[w].token

\* An open renewal renews a pending row that has a fingerprint.
Renewable(r) ==
  r \in DOMAIN rows /\ rows[r].status = "pending" /\ rows[r].input # Null
RenewsPending ==
  \A w \in Workers : beat[w].state = "renewing" => Renewable(beat[w].row)

\* Every event has its row, under the key and the input it was played with.
EventsHaveRows ==
  \A n \in DOMAIN events :
    n \in DOMAIN rows /\ events[n].key = rows[n].key /\ events[n].input = rows[n].input

FenceInv ==
  /\ UpdateInv /\ Numbering /\ KeysUnique /\ RestingRows /\ TokensBehind
  /\ CommitsOwn /\ RenewsPending /\ EventsHaveRows /\ SoleOwner /\ FactsMatchReceipt

-----------------------------------------------------------------------------
(* Five kinds of steps.  Most are quiet: facts, receipts, tokens and open   *)
(* transactions stay, except that narration is finalized, leases run and    *)
(* a transaction rolls back.                                                *)

SameFacts ==
  /\ DOMAIN events' = DOMAIN events
  /\ \A n \in DOMAIN events : events'[n] \in {events[n], [events[n] EXCEPT !.shown = "finalized"]}

SameRows ==
  /\ DOMAIN rows' = DOMAIN rows
  /\ \A r \in DOMAIN rows :
       /\ rows'[r] = [rows[r] EXCEPT !.lease = rows'[r].lease]
       /\ (rows[r].input = Null \/ rows[r].status = "aborted") => rows'[r].lease = rows[r].lease

SameTokens ==
  \A w \in Workers : pc'[w] # "idle" => pc[w] # "idle" /\ job'[w].token = job[w].token

SameRenewals ==
  \A w \in Workers : beat'[w].state = "renewing" =>
    \/ beat[w].state = "renewing" /\ beat'[w].row = beat[w].row
    \/ Renewable(beat'[w].row)

SameCommits ==
  \/ /\ txn' = txn /\ (txn # {} => lock' = lock)
     /\ \A w \in Workers : pc'[w] = "commit" => pc[w] = "commit"
  \/ txn' = {} /\ \A w \in Workers : pc'[w] # "commit"

Quiet == SameFacts /\ SameRows /\ SameTokens /\ SameRenewals /\ SameCommits

\* A claim is granted: on a new row at the next turn, or as the next generation
\* of a row whose lease is over; no other row has the key, and no row dropped it.
Fresh(r, row) == r \notin DOMAIN rows /\ r = NextTurn /\ row.hist = {}
Succeeds(r, row) ==
  /\ r \in DOMAIN rows
  /\ rows[r].lease = 0 /\ rows[r].status \in {"pending", "aborted"} /\ rows[r].input # Null
  /\ row.gen = rows[r].gen + 1
  /\ rows[r].hist \subseteq row.hist /\ row.hist \subseteq rows[r].hist \cup {rows[r].key}
  /\ IF row.key = rows[r].key THEN row.input = rows[r].input ELSE rows[r].key \in row.hist
Granting(w, r, row) ==
  /\ lock = LockFree
  /\ Grant(w, r, row)
  /\ r \in Turns /\ row \in RowType
  /\ row.turn = r /\ row.input # Null /\ row.status = "pending"
  /\ Fresh(r, row) \/ Succeeds(r, row)
  /\ SameKey(row.key) \subseteq {r}
  /\ ~Superseded(row.key)

\* A final transaction passes its claim swap.
Swapping(w) ==
  LET t == job[w].token
  IN /\ pc[w] = "writing" /\ pc' = [pc EXCEPT ![w] = "commit"]
     /\ Owned(t) /\ t.turn \notin DOMAIN events
     /\ txn' = {[token |-> t, reads |-> job[w].reads, plan |-> job[w].plan]}
     /\ UNCHANGED <<rows, events, world, lock, job, beat, answer>>

\* A final transaction becomes durable; only its own worker may learn of it.
Committing(x) ==
  /\ Durable(x)
  /\ \A w \in Workers : /\ pc'[w] # "commit"
                        /\ pc'[w] # pc[w] => pc[w] = "commit" /\ pc'[w] = "narrate"
  /\ UNCHANGED <<job, beat, answer>>

\* A worker that gave up aborts its own claim.
Aborting(w) ==
  LET t == job[w].token
  IN /\ pc[w] = "failing" /\ lock = LockFree /\ CanSwap(t)
     /\ rows' = [rows EXCEPT ![t.row].status = "aborted", ![t.row].lease = 0]
     /\ \E kind, n : Finish(w, kind, n)
     /\ UNCHANGED <<events, world, lock, txn>>

-----------------------------------------------------------------------------
(* Each kind keeps the invariant.                                           *)

\* What stays in a row whose lease alone may change, and in an event that may be
\* finalized.
LEMMA SameFields ==
  ASSUME TypeOK, SameFacts, SameRows
  PROVE  /\ \A r \in DOMAIN rows :
              /\ rows'[r].key = rows[r].key /\ rows'[r].input = rows[r].input
              /\ rows'[r].turn = rows[r].turn /\ rows'[r].gen = rows[r].gen
              /\ rows'[r].status = rows[r].status /\ rows'[r].hist = rows[r].hist
         /\ \A n \in DOMAIN events :
              /\ events'[n].key = events[n].key /\ events'[n].input = events[n].input
              /\ events'[n].gen = events[n].gen /\ events'[n].reads = events[n].reads
         /\ NextTurn' = NextTurn
PROOF
<1>1. ASSUME NEW r \in DOMAIN rows
      PROVE  /\ rows'[r].key = rows[r].key /\ rows'[r].input = rows[r].input
             /\ rows'[r].turn = rows[r].turn /\ rows'[r].gen = rows[r].gen
             /\ rows'[r].status = rows[r].status /\ rows'[r].hist = rows[r].hist
  <2>1. rows[r] \in RowType /\ rows'[r] = [rows[r] EXCEPT !.lease = rows'[r].lease]
    BY DEF SameRows, TypeOK
  <2> QED BY <2>1 DEF RowType
<1>2. ASSUME NEW n \in DOMAIN events
      PROVE  /\ events'[n].key = events[n].key /\ events'[n].input = events[n].input
             /\ events'[n].gen = events[n].gen /\ events'[n].reads = events[n].reads
  <2>1. /\ events[n] \in EventType
        /\ events'[n] \in {events[n], [events[n] EXCEPT !.shown = "finalized"]}
    BY DEF SameFacts, TypeOK
  <2> QED BY <2>1 DEF EventType
<1>3. NextTurn' = NextTurn
  BY DEF SameFacts, NextTurn
<1> QED BY <1>1, <1>2, <1>3

LEMMA FenceQuiet ==
  ASSUME FenceInv, UpdateInv', Quiet
  PROVE  FenceInv'
PROOF
<1>0. TypeOK /\ SameFacts /\ SameRows
  BY DEF FenceInv, UpdateInv, Quiet
<1>1. /\ \A r \in DOMAIN rows :
           /\ rows'[r].key = rows[r].key /\ rows'[r].input = rows[r].input
           /\ rows'[r].turn = rows[r].turn /\ rows'[r].gen = rows[r].gen
           /\ rows'[r].status = rows[r].status
      /\ \A n \in DOMAIN events :
           /\ events'[n].key = events[n].key /\ events'[n].input = events[n].input
           /\ events'[n].gen = events[n].gen
      /\ NextTurn' = NextTurn
  BY <1>0, SameFields
<1>2. DOMAIN rows' = DOMAIN rows /\ DOMAIN events' = DOMAIN events
  BY <1>0 DEF SameFacts, SameRows
<1>3. Numbering' /\ KeysUnique' /\ EventsHaveRows'
  BY <1>1, <1>2 DEF FenceInv, Numbering, KeysUnique, EventsHaveRows
<1>4. RestingRows'
  BY <1>0, <1>1, <1>2 DEF FenceInv, RestingRows, SameRows
<1>5. TokensBehind'
  <2>1. ASSUME NEW w \in Workers, pc'[w] # "idle" PROVE Behind(job[w].token)'
    <3>1. pc[w] # "idle" /\ job'[w].token = job[w].token
      BY <2>1 DEF Quiet, SameTokens
    <3>2. Behind(job[w].token)
      BY <3>1 DEF FenceInv, TokensBehind
    <3> QED BY <1>1, <1>2, <3>1, <3>2 DEF Behind
  <2> QED BY <2>1 DEF TokensBehind
<1>6. SoleOwner'
  BY DEF FenceInv, SoleOwner, Quiet, SameTokens
<1>7. CommitsOwn'
  <2>1. CASE txn' = {} /\ \A w \in Workers : pc'[w] # "commit"
    BY <2>1 DEF CommitsOwn
  <2>2. CASE /\ txn' = txn /\ (txn # {} => lock' = lock)
             /\ \A w \in Workers : pc'[w] = "commit" => pc[w] = "commit"
    <3>1. \A x \in txn' : /\ Owned(x.token)' /\ x.token.turn = x.token.row
                          /\ x.token.turn \notin DOMAIN events'
      BY <1>1, <1>2, <2>2 DEF FenceInv, CommitsOwn, Owned
    <3>2. ASSUME NEW w \in Workers, pc'[w] = "commit"
          PROVE  lock' = TurnLock(w) /\ txn' # {} /\ \A x \in txn' : x.token = job'[w].token
      BY <2>2, <3>2 DEF FenceInv, CommitsOwn, Quiet, SameTokens
    <3> QED BY <1>1, <1>2, <2>2, <3>1, <3>2 DEF CommitsOwn, Owned
  <2> QED BY <2>1, <2>2 DEF Quiet, SameCommits
<1>8. RenewsPending'
  BY <1>1, <1>2 DEF FenceInv, RenewsPending, Renewable, Quiet, SameRenewals
<1>9. FactsMatchReceipt'
  BY <1>1, <1>2 DEF FenceInv, FactsMatchReceipt
<1> QED BY <1>3, <1>4, <1>5, <1>6, <1>7, <1>8, <1>9 DEF FenceInv

\* While the lock is free nothing that needs it is open.
LEMMA LockFreeMeans ==
  ASSUME FenceInv, lock = LockFree
  PROVE  /\ txn = {}
         /\ \A w \in Workers : pc[w] \notin {"writing", "commit"} /\ beat[w].state # "renewing"
PROOF
<1>1. txn = {}
  BY LockNames DEF FenceInv, UpdateInv, Locking
<1>2. \A w \in Workers : pc[w] \notin {"writing", "commit"} /\ beat[w].state # "renewing"
  BY <1>1, LockNames DEF FenceInv, UpdateInv, Locking, CommitsOwn
<1> QED BY <1>1, <1>2

\* What a grant does: one row, one token.
LEMMA GrantEffect ==
  ASSUME TypeOK, NEW w \in Workers, NEW r, NEW row, Granting(w, r, row)
  PROVE  /\ DOMAIN rows' = DOMAIN rows \cup {r}
         /\ rows'[r] = row
         /\ \A s \in DOMAIN rows \ {r} : rows'[s] = rows[s]
         /\ pc'[w] = "claimed" /\ \A u \in Workers \ {w} : pc'[u] = pc[u] /\ job'[u] = job[u]
         /\ job'[w].token = [row |-> r, gen |-> row.gen, key |-> row.key,
                             input |-> row.input, turn |-> row.turn]
         /\ UNCHANGED <<events, world, lock, txn, beat>>
PROOF
<1>1. DOMAIN rows' = DOMAIN rows \cup {r} /\ rows'[r] = row
      /\ \A s \in DOMAIN rows \ {r} : rows'[s] = rows[s]
  BY DEF Granting, Grant, Put
<1>2. job'[w].token = [row |-> r, gen |-> row.gen, key |-> row.key,
                       input |-> row.input, turn |-> row.turn]
  BY DEF Granting, Grant, TypeOK, NoJob
<1> QED BY <1>1, <1>2 DEF Granting, Grant, TypeOK

LEMMA FenceGrant ==
  ASSUME FenceInv, UpdateInv', NEW w \in Workers, NEW r, NEW row, Granting(w, r, row)
  PROVE  FenceInv'
PROOF
<1> DEFINE token == [row |-> r, gen |-> row.gen, key |-> row.key,
                     input |-> row.input, turn |-> row.turn]
<1>0. TypeOK /\ r \in Turns /\ row \in RowType /\ lock = LockFree
  BY DEF FenceInv, UpdateInv, Granting
<1>1. /\ DOMAIN rows' = DOMAIN rows \cup {r}
      /\ rows'[r] = row
      /\ \A s \in DOMAIN rows \ {r} : rows'[s] = rows[s]
      /\ pc'[w] = "claimed" /\ \A u \in Workers \ {w} : pc'[u] = pc[u] /\ job'[u] = job[u]
      /\ job'[w].token = token
      /\ UNCHANGED <<events, world, lock, txn, beat>>
  BY <1>0, GrantEffect
<1>2. /\ txn = {}
      /\ \A u \in Workers : pc[u] \notin {"writing", "commit"} /\ beat[u].state # "renewing"
  BY <1>0, LockFreeMeans
<1>3. NextTurn' = NextTurn
  BY <1>1 DEF NextTurn
<1>4. r \notin DOMAIN events
  <2>1. CASE Fresh(r, row)
    BY <1>0, <2>1, NextTurnAbove DEF Fresh, Turns
  <2>2. CASE Succeeds(r, row)
    BY <2>2 DEF Succeeds, FenceInv, FactsMatchReceipt, Numbering
  <2> QED BY <2>1, <2>2 DEF Granting
<1>5. r = NextTurn /\ row.turn = r /\ row.input # Null /\ row.status = "pending"
  BY <1>4 DEF Granting, Fresh, Succeeds, FenceInv, Numbering
<1>6. Numbering'
  BY <1>1, <1>3, <1>5 DEF FenceInv, Numbering
<1>7. KeysUnique'
  BY <1>1 DEF FenceInv, KeysUnique, Granting, SameKey
<1>8. RestingRows'
  BY <1>1, <1>5 DEF FenceInv, RestingRows
<1>9. \A u \in Workers \ {w} : pc[u] # "idle" /\ job[u].token.row = r => job[u].token.gen < row.gen
  <2> SUFFICES ASSUME NEW u \in Workers \ {w}, pc[u] # "idle", job[u].token.row = r
               PROVE  job[u].token.gen < row.gen
    OBVIOUS
  <2>1. Behind(job[u].token)
    BY DEF FenceInv, TokensBehind
  <2>2. r \in DOMAIN rows /\ rows[r].gen \in Nat /\ job[u].token.gen \in Nat
        /\ job[u].token.gen <= rows[r].gen
    BY <1>0, <2>1 DEF Behind, TypeOK, RowType, Tokens
  <2>3. row.gen = rows[r].gen + 1
    BY <2>2 DEF Granting, Fresh, Succeeds
  <2> QED BY <2>2, <2>3
<1>10. TokensBehind'
  <2>1. Behind(token)'
    <3>1. token \in Tokens
      BY <1>0, <1>5 DEF Tokens, RowType
    <3> QED BY <1>0, <1>1, <1>5, <3>1 DEF Behind, RowType
  <2>2. ASSUME NEW u \in Workers \ {w}, pc[u] # "idle" PROVE Behind(job[u].token)'
    <3>1. Behind(job[u].token) /\ job'[u] = job[u]
      BY <1>1, <2>2 DEF FenceInv, TokensBehind
    <3>2. CASE job[u].token.row = r
      <4>1. job[u].token.gen < row.gen
        BY <1>9, <2>2, <3>2
      <4> QED BY <1>0, <1>1, <1>5, <3>1, <3>2, <4>1 DEF Behind, RowType, Tokens
    <3>3. CASE job[u].token.row # r
      BY <1>1, <3>1, <3>3 DEF Behind
    <3> QED BY <3>2, <3>3
  <2> QED BY <1>1, <2>1, <2>2 DEF TokensBehind
<1>11. SoleOwner'
  <2>1. \A u \in Workers \ {w} : pc[u] # "idle" /\ job[u].token.row = r => job[u].token.gen # row.gen
    BY <1>9, <1>0 DEF RowType, TypeOK, JobType, Tokens, NoToken
  <2> QED BY <1>1, <2>1 DEF FenceInv, SoleOwner
<1>12. CommitsOwn' /\ RenewsPending'
  BY <1>1, <1>2 DEF CommitsOwn, RenewsPending
<1>13. EventsHaveRows' /\ FactsMatchReceipt'
  BY <1>1, <1>4, <1>5 DEF FenceInv, EventsHaveRows, FactsMatchReceipt, Numbering
<1> QED BY <1>6, <1>7, <1>8, <1>10, <1>11, <1>12, <1>13 DEF FenceInv

LEMMA FenceSwap ==
  ASSUME FenceInv, UpdateInv', NEW w \in Workers, Swapping(w)
  PROVE  FenceInv'
PROOF
<1>0. TypeOK /\ UNCHANGED <<rows, events, job, beat>> /\ NextTurn' = NextTurn
  BY DEF FenceInv, UpdateInv, Swapping, NextTurn
<1>1. \A u \in Workers : (pc'[u] = "idle") = (pc[u] = "idle")
  BY <1>0 DEF Swapping, TypeOK
<1>2. Numbering' /\ KeysUnique' /\ RestingRows' /\ EventsHaveRows' /\ FactsMatchReceipt'
  BY <1>0 DEF FenceInv, Numbering, KeysUnique, RestingRows, EventsHaveRows, FactsMatchReceipt
<1>3. TokensBehind' /\ SoleOwner' /\ RenewsPending'
  BY <1>0, <1>1 DEF FenceInv, TokensBehind, Behind, SoleOwner, RenewsPending, Renewable
<1>4. CommitsOwn'
  <2>1. Behind(job[w].token) /\ lock = TurnLock(w) /\ txn = {}
    BY DEF Swapping, FenceInv, TokensBehind, UpdateInv, Locking
  <2>2. \A x \in txn' : /\ Owned(x.token)' /\ x.token = job[w].token
                        /\ x.token.turn = x.token.row /\ x.token.turn \notin DOMAIN events'
    BY <1>0, <2>1 DEF Swapping, Owned, Behind
  <2>3. ASSUME NEW u \in Workers, pc'[u] = "commit" PROVE u = w
    BY <1>0, <2>1, <2>3 DEF FenceInv, CommitsOwn, Swapping, TypeOK
  <2> QED BY <1>0, <2>1, <2>2, <2>3 DEF CommitsOwn, Swapping
<1> QED BY <1>2, <1>3, <1>4 DEF FenceInv

\* What a durable transaction does: one row, one event.
LEMMA DurableEffect ==
  ASSUME FenceInv, NEW x \in txn, Durable(x)
  PROVE  LET r == x.token.row
         IN /\ r \in DOMAIN rows /\ r \notin DOMAIN events /\ r = NextTurn
            /\ rows[r].status = "pending" /\ rows[r].turn = r
            /\ x.token.key = rows[r].key /\ x.token.input = rows[r].input
            /\ x.token.gen = rows[r].gen
            /\ rows' = [rows EXCEPT ![r].status = "committed"]
            /\ events' = Put(events, r,
                 [key |-> rows[r].key, input |-> rows[r].input, gen |-> rows[r].gen,
                  reads |-> x.reads, base |-> world, shown |-> "template"])
            /\ txn' = {}
PROOF
<1>1. Owned(x.token) /\ x.token.turn = x.token.row /\ x.token.turn \notin DOMAIN events
  BY DEF FenceInv, CommitsOwn
<1>2. x.token.row = NextTurn
  BY <1>1 DEF Owned, FenceInv, Numbering
<1> QED BY <1>1, <1>2 DEF Owned, Durable

LEMMA FenceCommit ==
  ASSUME FenceInv, UpdateInv', NEW x \in txn, Committing(x)
  PROVE  FenceInv'
PROOF
<1> DEFINE r == x.token.row
<1>0. TypeOK /\ Durable(x) /\ UNCHANGED <<job, beat>>
  BY DEF FenceInv, UpdateInv, Committing
<1>1. /\ r \in DOMAIN rows /\ r \notin DOMAIN events /\ r = NextTurn
      /\ rows[r].status = "pending" /\ rows[r].turn = r
      /\ rows' = [rows EXCEPT ![r].status = "committed"]
      /\ events' = Put(events, r,
           [key |-> rows[r].key, input |-> rows[r].input, gen |-> rows[r].gen,
            reads |-> x.reads, base |-> world, shown |-> "template"])
      /\ txn' = {}
  BY <1>0, DurableEffect
<1>2. rows[r].input # Null
  <2>1. x.token.input # Null
    BY <1>0, ClaimConstants DEF TypeOK, TxnType, Tokens
  <2> QED BY <1>0, <2>1, DurableEffect
<1> HIDE DEF r
<1>3. /\ DOMAIN rows' = DOMAIN rows
      /\ \A s \in DOMAIN rows :
           /\ rows'[s].key = rows[s].key /\ rows'[s].input = rows[s].input
           /\ rows'[s].turn = rows[s].turn /\ rows'[s].gen = rows[s].gen
           /\ rows'[s].lease = rows[s].lease
           /\ rows'[s].status = IF s = r THEN "committed" ELSE rows[s].status
  <2>1. \A s \in DOMAIN rows : rows[s] \in RowType
    BY <1>0 DEF TypeOK
  <2> QED BY <1>1, <2>1 DEF RowType
<1>4. /\ DOMAIN events' = DOMAIN events \cup {r}
      /\ \A n \in DOMAIN events : events'[n] = events[n]
      /\ events'[r].key = rows[r].key /\ events'[r].input = rows[r].input
      /\ events'[r].gen = rows[r].gen
  BY <1>1 DEF Put
<1>5. \A w \in Workers : (pc'[w] = "idle") = (pc[w] = "idle")
  BY DEF Committing
<1>6. Numbering' /\ KeysUnique' /\ RestingRows' /\ EventsHaveRows'
  BY <1>1, <1>2, <1>3, <1>4 DEF FenceInv, Numbering, KeysUnique, RestingRows, EventsHaveRows
<1>7. FactsMatchReceipt'
  BY <1>1, <1>3, <1>4 DEF FenceInv, FactsMatchReceipt, Numbering
<1>8. TokensBehind' /\ SoleOwner'
  BY <1>0, <1>3, <1>5 DEF FenceInv, TokensBehind, Behind, SoleOwner
<1>9. CommitsOwn'
  BY <1>1 DEF CommitsOwn, Committing
<1>10. RenewsPending'
  BY <1>0, DurableUpdate DEF FenceInv, RenewsPending
<1> QED BY <1>6, <1>7, <1>8, <1>9, <1>10 DEF FenceInv

LEMMA FenceAbort ==
  ASSUME FenceInv, UpdateInv', NEW w \in Workers, Aborting(w)
  PROVE  FenceInv'
PROOF
<1> DEFINE r == job[w].token.row
<1>0. TypeOK /\ lock = LockFree /\ Owned(job[w].token)
  BY DEF FenceInv, UpdateInv, Aborting, CanSwap
<1>1. /\ r \in DOMAIN rows /\ rows[r].status = "pending" /\ rows[r].input # Null
      /\ rows' = [rows EXCEPT ![r].status = "aborted", ![r].lease = 0]
  BY <1>0 DEF Aborting, FenceInv, TokensBehind, Behind, Owned
<1>2. PICK kind, n : Finish(w, kind, n)
  BY DEF Aborting
<1> HIDE DEF r
<1>3. /\ DOMAIN rows' = DOMAIN rows
      /\ \A s \in DOMAIN rows :
           /\ rows'[s].key = rows[s].key /\ rows'[s].input = rows[s].input
           /\ rows'[s].turn = rows[s].turn /\ rows'[s].gen = rows[s].gen
           /\ rows'[s].lease = IF s = r THEN 0 ELSE rows[s].lease
           /\ rows'[s].status = IF s = r THEN "aborted" ELSE rows[s].status
  <2>1. \A s \in DOMAIN rows : rows[s] \in RowType
    BY <1>0 DEF TypeOK
  <2> QED BY <1>1, <2>1 DEF RowType
<1>4. events' = events /\ txn' = txn /\ NextTurn' = NextTurn
  BY DEF Aborting, NextTurn
<1>5. /\ pc'[w] = "idle" /\ \A u \in Workers \ {w} : pc'[u] = pc[u] /\ job'[u] = job[u]
      /\ \A u \in Workers : beat'[u].state # "renewing" /\ pc'[u] # "commit"
  <2>1. \A u \in Workers : beat'[u].state = "renewing" => beat[u].state = "renewing"
    BY <1>0, <1>2, FinishEffect
  <2> QED BY <1>0, <1>2, <2>1, LockFreeMeans DEF Finish, Goto, TypeOK
<1>6. Numbering' /\ KeysUnique' /\ EventsHaveRows'
  BY <1>3, <1>4 DEF FenceInv, Numbering, KeysUnique, EventsHaveRows
<1>7. RestingRows'
  BY <1>1, <1>3 DEF FenceInv, RestingRows
<1>8. FactsMatchReceipt'
  BY <1>1, <1>3, <1>4 DEF FenceInv, FactsMatchReceipt
<1>9. TokensBehind' /\ SoleOwner'
  BY <1>3, <1>5 DEF FenceInv, TokensBehind, Behind, SoleOwner
<1>10. CommitsOwn' /\ RenewsPending'
  BY <1>0, <1>4, <1>5, LockFreeMeans DEF CommitsOwn, RenewsPending
<1> QED BY <1>6, <1>7, <1>8, <1>9, <1>10 DEF FenceInv

-----------------------------------------------------------------------------
(* Every step is of one of the five kinds.                                  *)

LEMMA FenceInit == Init => FenceInv
PROOF
<1> SUFFICES ASSUME Init PROVE FenceInv
  OBVIOUS
<1>1. PICK shape \in Legacy, k \in Keys :
        /\ rows = IF shape = "none" THEN <<>> ELSE Put(<<>>, 1, LegacyRow(k))
        /\ events = IF shape = "played" THEN Put(<<>>, 1, LegacyEvent(k)) ELSE <<>>
  BY DEF Init
<1>2. /\ DOMAIN rows \subseteq {1} /\ \A r \in DOMAIN rows : rows[r] = LegacyRow(k)
      /\ DOMAIN events \subseteq DOMAIN rows /\ \A n \in DOMAIN events : events[n] = LegacyEvent(k)
  BY <1>1 DEF Put
<1>3. 1 \in DOMAIN events \/ NextTurn = 1
  <2>1. SUFFICES ASSUME DOMAIN events = {} PROVE NextTurn = 1
    BY <1>2
  <2>2. Max({0}) \in {0}
    BY MaxBounded
  <2> QED BY <2>1, <2>2 DEF NextTurn
<1>4. Numbering /\ KeysUnique /\ RestingRows /\ EventsHaveRows /\ FactsMatchReceipt
  BY <1>2, <1>3 DEF Numbering, KeysUnique, RestingRows, EventsHaveRows, FactsMatchReceipt,
                    LegacyRow, LegacyEvent
<1>5. TokensBehind /\ CommitsOwn /\ RenewsPending /\ SoleOwner
  BY DEF Init, TokensBehind, CommitsOwn, RenewsPending, SoleOwner, NoBeat
<1> QED BY <1>4, <1>5, UpdateInit DEF FenceInv

\* A lapsed row has a fingerprint and no event: it is the row of the next turn.
LEMMA LapsedRow ==
  ASSUME FenceInv, NEW r \in Lapsed
  PROVE  /\ r \in DOMAIN rows /\ rows[r].status = "pending" /\ rows[r].lease = 0
         /\ rows[r].input # Null /\ r \notin DOMAIN events /\ r = NextTurn /\ ~HasTurn(r)
PROOF
<1>1. r \in DOMAIN rows /\ rows[r].status = "pending" /\ rows[r].lease = 0
  BY DEF Lapsed, Expired
<1>2. rows[r].input # Null
  BY <1>1, ClaimConstants DEF FenceInv, RestingRows
<1>3. rows[r].turn = r /\ r \notin DOMAIN events
  BY <1>1, <1>2 DEF FenceInv, Numbering, FactsMatchReceipt
<1> QED BY <1>1, <1>2, <1>3 DEF FenceInv, Numbering, HasTurn

\* What the rows of the session may tell a request whose key decides nothing: it
\* is never resumed with another request's turn, and no lapsed row is retired.
LEMMA SessionVerdicts ==
  ASSUME FenceInv, NEW k \in Keys, NEW i \in Inputs
  PROVE  /\ SessionVerdict(k, i) \notin {"claim_expired", "resume"}
         /\ SessionVerdict(k, i) = "insert" => SameKey(k) = {} /\ AtTurn(NextTurn) = {}
         /\ SessionVerdict(k, i) = "retry" => \E r \in SameKey(k) : rows[r].status = "aborted"
         /\ SessionVerdict(k, i) = "takeover" =>
              Lapsed # {} \/ \E r \in AtTurn(NextTurn) : rows[r].status = "aborted"
PROOF
<1> DEFINE here == AtTurn(NextTurn)
           judged == {r \in here : Adjudicated(r)}
           c == CHOOSE r \in judged : TRUE
           d == CHOOSE r \in Lapsed : TRUE
<1>0. TypeOK
  BY DEF FenceInv, UpdateInv
<1>1. judged # {} => Adjudicate(c) = "legacy_inconsistent"
  <2>1. SUFFICES ASSUME judged # {} PROVE ~HasTurn(c)
    BY DEF Adjudicate
  <2>2. c \in here
    BY <2>1
  <2>3. rows[c].turn = NextTurn
    BY <2>2 DEF AtTurn
  <2> QED BY <1>0, <2>3, NextTurnAbove DEF HasTurn, TypeOK, Turns
<1>2. Lapsed # {} => LapsedVerdict(d) \in {"takeover", "legacy_inconsistent"}
  <2>1. SUFFICES ASSUME Lapsed # {}
                 PROVE  LapsedVerdict(d) \in {"takeover", "legacy_inconsistent"}
    OBVIOUS
  <2>2. d \in Lapsed
    BY <2>1
  <2>3. rows[d].input # Null /\ ~HasTurn(d)
    BY <2>2, LapsedRow
  <2> HIDE DEF d
  <2> QED BY <2>3 DEF LapsedVerdict, Adjudicate
<1> HIDE DEF c, d
<1> QED BY <1>1, <1>2 DEF SessionVerdict, c, d

\* A request goes on to them only if its key is not superseded.
LEMMA SessionDecides ==
  ASSUME FenceInv, NEW k \in Keys, NEW i \in Inputs,
         Verdict(k, i) \in {"insert", "retry", "takeover", "claim_expired"}
  PROVE  /\ ~Superseded(k)
         /\ Verdict(k, i) = SessionVerdict(k, i)
PROOF
<1> DEFINE own == {SameKeyVerdict(r, i) : r \in SameKey(k)}
<1>1. \A r \in SameKey(k) : r \in DOMAIN rows
  BY DEF SameKey
<1>2. own \subseteq {"fingerprint_conflict", "resume", "legacy_inconsistent",
                     "legacy_claim", "open"}
  BY <1>1, SameKeyVerdicts DEF FenceInv, UpdateInv
<1>3. ~Superseded(k)
  BY DEF Verdict
<1>4. own \subseteq {"open"}
  <2>1. SUFFICES ASSUME ~(own \subseteq {"open"}) PROVE FALSE
    OBVIOUS
  <2>2. Verdict(k, i) = CHOOSE v \in own : TRUE
    BY <1>3, <2>1 DEF Verdict
  <2>3. Verdict(k, i) \in own
    BY <2>1, <2>2
  <2> QED BY <1>2, <2>3
<1> QED BY <1>3, <1>4 DEF Verdict

\* A step that leaves rows and events alone.
LEMMA NothingWritten ==
  ASSUME TypeOK, UNCHANGED <<rows, events>>
  PROVE  SameFacts /\ SameRows
PROOF
<1>1. \A r \in DOMAIN rows : rows[r] = [rows[r] EXCEPT !.lease = rows[r].lease]
  BY DEF TypeOK, RowType
<1> QED BY <1>1 DEF SameFacts, SameRows

\* A retried row is pending, under a new lease and generation, otherwise as it was.
LEMMA RetriedRow ==
  ASSUME NEW q \in RowType, NEW g \in Nat
  PROVE  LET new == [q EXCEPT !.status = "pending", !.lease = Lease, !.gen = g]
         IN /\ new \in RowType
            /\ new.key = q.key /\ new.input = q.input /\ new.turn = q.turn
            /\ new.status = "pending" /\ new.hist = q.hist /\ new.gen = g
PROOF
<1> DEFINE s == [q EXCEPT !.status = "pending"]
           l == [s EXCEPT !.lease = Lease]
           n == [l EXCEPT !.gen = g]
<1>1. s \in RowType /\ s.key = q.key /\ s.input = q.input /\ s.turn = q.turn
      /\ s.status = "pending" /\ s.hist = q.hist
  BY DEF RowType
<1> HIDE DEF s
<1>2. l \in RowType /\ l.key = s.key /\ l.input = s.input /\ l.turn = s.turn
      /\ l.status = s.status /\ l.hist = s.hist
  BY <1>1, ClaimConstants DEF RowType
<1> HIDE DEF l
<1>3. n \in RowType /\ n.key = l.key /\ n.input = l.input /\ n.turn = l.turn
      /\ n.status = l.status /\ n.hist = l.hist /\ n.gen = g
  BY <1>2 DEF RowType
<1>4. n = [q EXCEPT !.status = "pending", !.lease = Lease, !.gen = g]
  BY DEF n, l, s
<1> HIDE DEF n
<1> QED BY <1>1, <1>2, <1>3, <1>4

LEMMA ClaimKinds ==
  ASSUME FenceInv, NEW w \in Workers, Claim(w)
  PROVE  Quiet \/ \E r, row : Granting(w, r, row)
PROOF
<1>0. TypeOK /\ Lease \in Nat \ {0}
  BY ClaimConstants DEF FenceInv, UpdateInv
<1>1. PICK k \in Keys, i \in Inputs :
        \/ ClaimLockBusy(w, k, i) \/ ClaimRefused(w, k, i) \/ ClaimResumed(w, k, i)
        \/ ClaimInserted(w, k, i) \/ ClaimRetried(w, k, i) \/ ClaimTakenOver(w, k, i)
  BY DEF Claim
<1>2. k # Null /\ i # Null
  BY ClaimConstants
<1>3. CASE ClaimLockBusy(w, k, i) \/ ClaimRefused(w, k, i) \/ ClaimResumed(w, k, i)
  <2>1. UNCHANGED <<rows, events, lock, txn, pc, job, beat>>
    <3>1. Verdict(k, i) # "claim_expired"
      BY SessionDecides, SessionVerdicts
    <3> QED BY <1>3, <3>1 DEF ClaimLockBusy, ClaimRefused, ClaimResumed, database
  <2>2. SameFacts /\ SameRows
    BY <1>0, <2>1, NothingWritten
  <2> QED BY <2>1, <2>2 DEF Quiet, SameTokens, SameRenewals, SameCommits
<1>4. CASE ClaimInserted(w, k, i)
  <2> DEFINE r == NextTurn
             row == [key |-> k, input |-> i, turn |-> NextTurn, gen |-> 1,
                     status |-> "pending", lease |-> Lease, hist |-> {}]
  <2>1. lock = LockFree /\ Grant(w, r, row)
    BY <1>4 DEF ClaimInserted
  <2>2. SameKey(k) = {} /\ AtTurn(NextTurn) = {} /\ ~Superseded(k)
    BY <1>4, SessionDecides, SessionVerdicts DEF ClaimInserted
  <2>3. Fresh(r, row)
    BY <2>2 DEF Fresh, AtTurn, FenceInv, Numbering
  <2>4. r \in Turns
    BY <1>0, <2>1, NextTurnAbove, ClaimConstants DEF Grant, Turns
  <2>5. row \in RowType
    BY <1>0, <2>4 DEF RowType
  <2>6. Granting(w, r, row)
    BY <1>2, <2>1, <2>2, <2>3, <2>4, <2>5 DEF Granting
  <2> QED BY <2>6
<1>5. CASE ClaimRetried(w, k, i)
  <2>1. PICK r \in SameKey(k) :
          Grant(w, r, [rows[r] EXCEPT !.status = "pending", !.lease = Lease,
                                      !.gen = NextGen(r)])
    BY <1>5 DEF ClaimRetried
  <2> DEFINE row == [rows[r] EXCEPT !.status = "pending", !.lease = Lease, !.gen = NextGen(r)]
  <2>2. ~Superseded(k) /\ \E q \in SameKey(k) : rows[q].status = "aborted"
    BY <1>5, SessionDecides, SessionVerdicts DEF ClaimRetried
  <2>3. SameKey(k) \subseteq {r} /\ r \in DOMAIN rows /\ rows[r].key = k
    BY DEF SameKey, FenceInv, KeysUnique
  <2>4. rows[r].status = "aborted" /\ rows[r].lease = 0
    BY <2>2, <2>3 DEF FenceInv, RestingRows
  <2>5. rows[r].input = i /\ rows[r].turn = r
    BY <1>0, <1>5, <2>3, OpenVerdict DEF ClaimRetried, FenceInv, Numbering
  <2>6. rows[r] \in RowType /\ r \in Turns
    BY <1>0, <2>3 DEF TypeOK
  <2>7. /\ row \in RowType
        /\ row.key = k /\ row.input = i /\ row.turn = r /\ row.status = "pending"
        /\ row.hist = rows[r].hist /\ row.gen = rows[r].gen + 1
    <3>1. NextGen(r) = rows[r].gen + 1 /\ NextGen(r) \in Nat
      BY <2>6 DEF RowType, NextGen
    <3> QED BY <2>3, <2>5, <2>6, <3>1, RetriedRow
  <2> HIDE DEF row
  <2>8. Succeeds(r, row)
    BY <1>2, <2>3, <2>4, <2>5, <2>7 DEF Succeeds
  <2>9. Granting(w, r, row)
    BY <1>2, <1>5, <2>1, <2>2, <2>3, <2>6, <2>7, <2>8 DEF Granting, ClaimRetried, row
  <2> QED BY <2>9
<1>6. CASE ClaimTakenOver(w, k, i)
  <2> DEFINE row(r) == [key |-> k, input |-> i, turn |-> NextTurn, gen |-> NextGen(r),
                        status |-> "pending", lease |-> Lease,
                        hist |-> rows[r].hist \cup {rows[r].key}]
  <2>1. PICK r \in IF Lapsed # {} THEN Lapsed ELSE AtTurn(NextTurn) :
          SameKey(k) \subseteq {r} /\ Grant(w, r, row(r))
    BY <1>6 DEF ClaimTakenOver
  <2>2. /\ ~Superseded(k)
        /\ Lapsed # {} \/ \E q \in AtTurn(NextTurn) : rows[q].status = "aborted"
    BY <1>6, SessionDecides, SessionVerdicts DEF ClaimTakenOver
  <2>3. /\ r \in DOMAIN rows /\ rows[r].lease = 0 /\ rows[r].status \in {"pending", "aborted"}
        /\ rows[r].input # Null /\ r = NextTurn
    <3>1. CASE Lapsed # {}
      BY <2>1, <3>1, LapsedRow
    <3>2. CASE Lapsed = {}
      BY <2>1, <2>2, <3>2 DEF AtTurn, FenceInv, Numbering, RestingRows
    <3> QED BY <3>1, <3>2
  <2>4. rows[r] \in RowType /\ r \in Turns
    BY <1>0, <2>3 DEF TypeOK
  <2>5. row(r) \in RowType /\ row(r).gen = rows[r].gen + 1
    <3>1. /\ rows[r].gen \in Nat /\ NextGen(r) = rows[r].gen + 1
          /\ rows[r].hist \cup {rows[r].key} \in SUBSET Keys
      BY <2>4 DEF RowType, NextGen
    <3>2. NextTurn \in Turns /\ Lease \in (0..Lease) \cup {Null}
      BY <1>0, <2>3, <2>4
    <3> QED BY <3>1, <3>2 DEF RowType
  <2>6. k = rows[r].key => i = rows[r].input
    BY <1>0, <1>6, <2>3, OpenVerdict DEF ClaimTakenOver, SameKey
  <2>7. Succeeds(r, row(r))
    BY <2>3, <2>5, <2>6 DEF Succeeds
  <2>8. Granting(w, r, row(r))
    BY <1>2, <1>6, <2>1, <2>2, <2>3, <2>4, <2>5, <2>7 DEF Granting, ClaimTakenOver
  <2> QED BY <2>8
<1> QED BY <1>1, <1>3, <1>4, <1>5, <1>6

\* A worker that gives up and frees the lock only if it was writing.
LEMMA GivesUp ==
  ASSUME FenceInv, NEW w \in Workers, NEW outcome \in Outcomes, GiveUp(w, outcome),
         pc[w] # "idle", UNCHANGED <<rows, events, txn>>,
         lock' = IF pc[w] = "writing" THEN LockFree ELSE lock
  PROVE  Quiet
PROOF
<1>0. TypeOK
  BY DEF FenceInv, UpdateInv
<1>1. SameFacts /\ SameRows
  BY <1>0, NothingWritten
<1>2. SameTokens
  BY <1>0 DEF GiveUp, Goto, SameTokens, TypeOK, JobType
<1>3. SameRenewals
  BY <1>0 DEF GiveUp, Stopped, SameRenewals, TypeOK, BeatType
<1>4. SameCommits
  BY <1>0 DEF GiveUp, Goto, SameCommits, TypeOK, FenceInv, UpdateInv, Locking
<1> QED BY <1>1, <1>2, <1>3, <1>4 DEF Quiet

\* A request that returns without touching a row.
LEMMA Finishes ==
  ASSUME FenceInv, NEW w \in Workers, NEW kind, NEW n, Finish(w, kind, n),
         UNCHANGED <<rows, lock, txn>>, SameFacts
  PROVE  Quiet
PROOF
<1>0. TypeOK
  BY DEF FenceInv, UpdateInv
<1>1. SameRows
  BY <1>0 DEF SameRows, TypeOK, RowType
<1>2. SameTokens /\ SameCommits
  BY <1>0 DEF Finish, Goto, SameTokens, SameCommits, TypeOK
<1>3. SameRenewals
  BY <1>0 DEF Finish, SameRenewals, TypeOK, BeatType, NoBeat
<1> QED BY <1>1, <1>2, <1>3 DEF Quiet

\* A worker that moves on under its token.
LEMMA MovesOn ==
  ASSUME FenceInv, NEW w \in Workers, NEW stage \in Stages \ {"commit"}, Goto(w, stage),
         pc[w] # "idle", UNCHANGED <<rows, events, txn>>, txn # {} => lock' = lock,
         \A u \in Workers : job'[u].token = job[u].token, SameRenewals
  PROVE  Quiet
PROOF
<1>0. TypeOK
  BY DEF FenceInv, UpdateInv
<1>1. SameFacts /\ SameRows
  BY <1>0, NothingWritten
<1>2. SameTokens /\ SameCommits
  BY <1>0 DEF Goto, SameTokens, SameCommits, TypeOK
<1> QED BY <1>1, <1>2 DEF Quiet

\* A worker that learns of its commit: no other one waits for a commit.
LEMMA Acknowledged ==
  ASSUME FenceInv, NEW w \in Workers, CommitAcknowledged(w)
  PROVE  \E x \in txn : Committing(x)
PROOF
<1>1. PICK x \in txn : Durable(x)
  BY DEF CommitAcknowledged
<1>2. /\ TypeOK
      /\ pc[w] = "commit" /\ pc' = [pc EXCEPT ![w] = "narrate"] /\ UNCHANGED <<job, beat, answer>>
  BY DEF CommitAcknowledged, Goto, FenceInv, UpdateInv
<1>3. ASSUME NEW u \in Workers, pc[u] = "commit" PROVE u = w
  BY <1>2, <1>3, LockNames DEF FenceInv, CommitsOwn
<1>4. Committing(x)
  BY <1>1, <1>2, <1>3 DEF Committing, TypeOK
<1> QED BY <1>4

LEMMA TurnKinds ==
  ASSUME FenceInv, NEW w \in Workers, Turn(w)
  PROVE  Quiet \/ Swapping(w) \/ (\E x \in txn : Committing(x)) \/ Aborting(w)
PROOF
<1>0. TypeOK
  BY DEF FenceInv, UpdateInv
<1>1. beat' = beat => SameRenewals
  BY DEF SameRenewals
<1>2. CASE Begin(w)
  <2>1. SameRenewals
    BY <1>0, <1>2 DEF Begin, SameRenewals, TypeOK, NoBeat
  <2>2. \A u \in Workers : job'[u].token = job[u].token
    BY <1>0, <1>2 DEF Begin, TypeOK, JobType
  <2> QED BY <1>2, <2>1, <2>2, MovesOn DEF Begin, Stages, database
<1>3. CASE Reconstruct(w)
  <2>1. CASE GiveUp(w, "turn") \/ GiveUp(w, "turn_in_progress")
    BY <1>3, <2>1, GivesUp DEF Reconstruct, database, Outcomes
  <2>2. CASE Goto(w, "stages") /\ job' = [job EXCEPT ![w].reads = @ \cup {world}]
             /\ UNCHANGED beat
    <3>1. \A u \in Workers : job'[u].token = job[u].token
      BY <1>0, <2>2 DEF TypeOK, JobType
    <3> QED BY <1>1, <1>3, <2>2, <3>1, MovesOn DEF Reconstruct, Stages, database
  <2> QED BY <1>3, <2>1, <2>2 DEF Reconstruct
<1>4. CASE RunStages(w)
  <2>1. \A u \in Workers : job'[u].token = job[u].token
    BY <1>0, <1>4 DEF RunStages, TypeOK, JobType
  <2> QED BY <1>1, <1>4, <2>1, MovesOn DEF RunStages, Stages, database
<1>5. CASE Quiesce(w)
  <2>1. CASE GiveUp(w, "claim_lost") \/ GiveUp(w, "budget_exceeded")
    BY <1>5, <2>1, GivesUp DEF Quiesce, database, Outcomes
  <2>2. CASE Goto(w, "lockwait") /\ beat' = [beat EXCEPT ![w] = Stopped(@)]
             /\ UNCHANGED job
    <3>1. SameRenewals
      BY <1>0, <2>2 DEF SameRenewals, Stopped, TypeOK, BeatType
    <3> QED BY <1>5, <2>2, <3>1, MovesOn DEF Quiesce, Stages, database
  <2> QED BY <1>5, <2>1, <2>2 DEF Quiesce
<1>6. CASE AcquireLock(w)
  <2>1. CASE GiveUp(w, "state_conflict") /\ UNCHANGED lock
    <3>1. lock' = IF pc[w] = "writing" THEN LockFree ELSE lock
      BY <1>6, <2>1 DEF AcquireLock
    <3> QED BY <1>6, <2>1, <3>1, GivesUp DEF AcquireLock, Outcomes
  <2>2. CASE Goto(w, "writing") /\ UNCHANGED <<job, beat>>
    BY <1>1, <1>6, <2>2, LockFreeMeans, MovesOn DEF AcquireLock, Stages
  <2> QED BY <1>6, <2>1, <2>2 DEF AcquireLock
<1>7. CASE WriteAndSwap(w)
  <2>1. CASE \E outcome \in {"failed", "budget_exceeded", "claim_lost"} :
               GiveUp(w, outcome) /\ lock' = LockFree /\ UNCHANGED txn
    BY <1>7, <2>1, GivesUp DEF WriteAndSwap, Outcomes
  <2>2. CASE /\ job[w].token.turn \notin DOMAIN events /\ CanSwap(job[w].token)
             /\ Goto(w, "commit")
             /\ txn' = {[token |-> job[w].token, reads |-> job[w].reads,
                         plan |-> job[w].plan]}
             /\ UNCHANGED <<lock, job, beat>>
    BY <1>7, <2>2 DEF WriteAndSwap, Swapping, CanSwap, Goto
  <2> QED BY <1>7, <2>1, <2>2 DEF WriteAndSwap
<1>8. CASE CommitAcknowledged(w)
  BY <1>8, Acknowledged
<1>9. CASE CommitRaised(w)
  BY <1>1, <1>9, MovesOn DEF CommitRaised, Stages, database
<1>10. CASE ConfirmReceipt(w)
  <2>1. CASE Finish(w, "turn", job[w].token.turn)
    BY <1>0, <1>10, <2>1, NothingWritten, Finishes DEF ConfirmReceipt, database
  <2>2. CASE GiveUp(w, "failed")
    BY <1>10, <2>2, GivesUp DEF ConfirmReceipt, database, Outcomes
  <2> QED BY <1>10, <2>1, <2>2 DEF ConfirmReceipt
<1>11. CASE Narrate(w)
  <2>1. SameFacts
    BY <1>0, <1>11 DEF Narrate, SameFacts, TypeOK
  <2> QED BY <1>11, <2>1, Finishes DEF Narrate
<1>12. CASE NarrateRaised(w)
  BY <1>1, <1>12, MovesOn DEF NarrateRaised, Stages, database
<1>13. CASE Raise(w)
  BY <1>13, GivesUp DEF Raise, Outcomes
<1>14. CASE Abort(w)
  <2>1. PICK n : Finish(w, job[w].outcome, n)
    BY <1>14 DEF Abort
  <2>2. CASE UNCHANGED rows
    BY <1>0, <1>14, <2>1, <2>2, NothingWritten, Finishes DEF Abort
  <2>3. CASE /\ lock = LockFree /\ CanSwap(job[w].token)
             /\ rows' = [rows EXCEPT ![job[w].token.row].status = "aborted",
                                     ![job[w].token.row].lease = 0]
    BY <1>14, <2>1, <2>3 DEF Abort, Aborting
  <2> QED BY <1>14, <2>2, <2>3 DEF Abort
<1> QED BY <1>2, <1>3, <1>4, <1>5, <1>6, <1>7, <1>8, <1>9, <1>10, <1>11, <1>12, <1>13, <1>14
        DEF Turn

LEMMA BeatKinds ==
  ASSUME FenceInv, NEW w \in Workers, Beat(w)
  PROVE  Quiet
PROOF
<1>0. TypeOK
  BY DEF FenceInv, UpdateInv
<1>1. UNCHANGED <<events, txn, pc, job>> /\ \A u \in Workers \ {w} : beat'[u] = beat[u]
  BY <1>0 DEF Beat, BeatRenew, BeatRejected, BeatError, BeatCommit, BeatCommitFails, BeatBudget,
              database, TypeOK
<1>2. \A b \in BeatType, failed \in BOOLEAN : AfterRenewal(b, failed).state # "renewing"
  BY DEF AfterRenewal, NoBeat, BeatType
<1>3. beat[w] \in BeatType
  BY <1>0 DEF TypeOK
<1>4. SameFacts /\ SameTokens
  BY <1>1 DEF SameFacts, SameTokens
<1>5. CASE BeatRenew(w)
  <2>1. txn = {} /\ UNCHANGED rows
    BY <1>5, LockFreeMeans DEF BeatRenew
  <2>2. beat'[w].row = job[w].token.row
    BY <1>0, <1>3, <1>5 DEF BeatRenew, TypeOK, BeatType
  <2>3. Renewable(job[w].token.row)
    <3>1. Owned(job[w].token)
      BY <1>5 DEF BeatRenew, CanSwap
    <3>2. job[w].token \in Tokens
      BY <1>0, <3>1 DEF TypeOK, JobType, NoToken, Owned, Turns
    <3>3. job[w].token.input # Null
      BY <3>2, ClaimConstants DEF Tokens
    <3> QED BY <3>1, <3>3 DEF Owned, Renewable
  <2> QED BY <1>0, <1>1, <1>4, <2>1, <2>2, <2>3, NothingWritten
          DEF Quiet, SameRenewals, SameCommits
<1>6. CASE BeatCommit(w) \/ BeatCommitFails(w)
  <2>1. txn = {} /\ Renewable(beat[w].row)
    BY <1>6, LockNames DEF BeatCommit, BeatCommitFails, FenceInv, UpdateInv, Locking, RenewsPending
  <2>2. beat'[w].state # "renewing"
    BY <1>0, <1>2, <1>3, <1>6 DEF BeatCommit, BeatCommitFails, TypeOK
  <2>3. SameRows
    <3>1. CASE BeatCommitFails(w)
      BY <1>0, <1>1, <3>1, NothingWritten DEF BeatCommitFails
    <3>2. CASE BeatCommit(w)
      BY <1>0, <2>1, <3>2 DEF BeatCommit, SameRows, Renewable, TypeOK, RowType
    <3> QED BY <1>6, <3>1, <3>2
  <2> QED BY <1>1, <1>4, <2>1, <2>2, <2>3 DEF Quiet, SameRenewals, SameCommits
<1>7. CASE BeatRejected(w) \/ BeatError(w) \/ BeatBudget(w)
  <2>1. UNCHANGED <<rows, lock>>
    BY <1>7 DEF BeatRejected, BeatError, BeatBudget, database
  <2>2. beat'[w].state # "renewing"
    <3>1. CASE BeatError(w)
      BY <1>0, <1>2, <1>3, <3>1 DEF BeatError, TypeOK
    <3>2. CASE BeatRejected(w) \/ BeatBudget(w)
      BY <1>0, <1>3, <3>2 DEF BeatRejected, BeatBudget, TypeOK, BeatType
    <3> QED BY <1>7, <3>1, <3>2
  <2> QED BY <1>0, <1>1, <1>4, <2>1, <2>2, NothingWritten DEF Quiet, SameRenewals, SameCommits
<1> QED BY <1>5, <1>6, <1>7 DEF Beat

LEMMA CrashKinds ==
  ASSUME FenceInv, NEW w \in Workers, Crash(w)
  PROVE  Quiet
PROOF
<1>0. TypeOK
  BY DEF FenceInv, UpdateInv
<1>1. SameFacts /\ SameRows
  BY <1>0, NothingWritten DEF Crash
<1>2. SameTokens /\ SameRenewals
  BY <1>0 DEF Crash, Goto, SameTokens, SameRenewals, TypeOK, NoBeat
<1>3. txn # {} => lock' = lock
  BY LockNames DEF Crash, FenceInv, UpdateInv, Locking
<1>4. SameCommits
  BY <1>0, <1>3 DEF Crash, Goto, SameCommits, TypeOK
<1> QED BY <1>1, <1>2, <1>4 DEF Quiet

\* The database clock moves leases only, and none that is over or was never set.
LEMMA TickKinds ==
  ASSUME FenceInv, Tick
  PROVE  Quiet
PROOF
<1>0. TypeOK
  BY DEF FenceInv, UpdateInv
<1>1. /\ \A r \in DOMAIN rows : rows'[r] = [rows[r] EXCEPT !.lease = Down(rows[r].lease)]
      /\ DOMAIN rows' = DOMAIN rows
  BY DEF Tick
<1>2. Down(0) = 0 /\ Down(Null) = Null
  BY ClaimConstants DEF Down
<1>3. SameRows
  <2>1. ASSUME NEW r \in DOMAIN rows
        PROVE  /\ rows'[r] = [rows[r] EXCEPT !.lease = rows'[r].lease]
               /\ rows'[r].lease = Down(rows[r].lease)
    <3>1. rows[r] \in RowType
      BY <1>0 DEF TypeOK
    <3> QED BY <1>1, <3>1 DEF RowType
  <2>2. \A r \in DOMAIN rows : (rows[r].input = Null \/ rows[r].status = "aborted") =>
                                 rows[r].lease \in {0, Null}
    BY DEF FenceInv, RestingRows
  <2>3. \A r \in DOMAIN rows : (rows[r].input = Null \/ rows[r].status = "aborted") =>
                                 Down(rows[r].lease) = rows[r].lease
    BY <1>2, <2>2
  <2> QED BY <1>1, <2>1, <2>3 DEF SameRows
<1>4. SameRenewals
  BY <1>0 DEF Tick, SameRenewals, TypeOK, BeatType
<1>5. SameFacts /\ SameTokens /\ SameCommits
  BY DEF Tick, SameFacts, SameTokens, SameCommits
<1> QED BY <1>3, <1>4, <1>5 DEF Quiet

\* Every step is of one of the five kinds.
LEMMA Kinds ==
  ASSUME FenceInv, [Next]_vars
  PROVE  \/ Quiet
         \/ \E w \in Workers : (\E r, row : Granting(w, r, row)) \/ Swapping(w) \/ Aborting(w)
         \/ \E x \in txn : Committing(x)
PROOF
<1>0. TypeOK
  BY DEF FenceInv, UpdateInv
<1>1. ASSUME NEW w \in Workers, BudgetExpires(w) PROVE Quiet
  BY <1>0, <1>1, NothingWritten
     DEF BudgetExpires, database, Quiet, SameTokens, SameRenewals, SameCommits
<1>2. CASE ServerDecides
  <2>1. PICK x \in txn : Durable(x) \/ RolledBack
    BY <1>2 DEF ServerDecides
  <2>2. /\ \A w \in Workers : pc[w] # "commit"
        /\ UNCHANGED <<pc, job, beat, answer>>
    BY <1>2 DEF ServerDecides
  <2>3. CASE Durable(x)
    BY <2>2, <2>3 DEF Committing
  <2>4. CASE RolledBack
    BY <1>0, <2>2, <2>4, NothingWritten
       DEF RolledBack, Quiet, SameTokens, SameRenewals, SameCommits
  <2> QED BY <2>1, <2>3, <2>4
<1>3. CASE AbandonLocks \/ AbandonEnds
  <2>1. UNCHANGED <<rows, events, txn, pc, job, beat>>
    BY <1>3 DEF AbandonLocks, AbandonEnds
  <2>2. txn = {}
    BY <1>3, LockNames DEF AbandonLocks, AbandonEnds, FenceInv, UpdateInv, Locking
  <2> QED BY <1>0, <2>1, <2>2, NothingWritten DEF Quiet, SameTokens, SameRenewals, SameCommits
<1>4. CASE UNCHANGED vars
  BY <1>0, <1>4, NothingWritten DEF vars, Quiet, SameTokens, SameRenewals, SameCommits
<1> QED BY <1>1, <1>2, <1>3, <1>4, ClaimKinds, TurnKinds, BeatKinds, CrashKinds, TickKinds DEF Next

LEMMA FenceStep == FenceInv /\ [Next]_vars => FenceInv'
PROOF
<1> SUFFICES ASSUME FenceInv, [Next]_vars PROVE FenceInv'
  OBVIOUS
<1>1. UpdateInv'
  BY UpdateStep DEF FenceInv
<1> QED BY <1>1, Kinds, FenceQuiet, FenceGrant, FenceSwap, FenceCommit, FenceAbort

LEMMA FenceAlways == Spec => []FenceInv
PROOF BY FenceInit, FenceStep, PTL DEF Spec

-----------------------------------------------------------------------------
\* Two requests in execution never carry the same row under the same generation,
\* for any number of workers, takeovers and retries: every way to get a claim
\* raises the generation of its row above all tokens that were ever handed out.
THEOREM TokensAreUnique == Spec => []SoleOwner
PROOF
<1>1. FenceInv => SoleOwner
  BY DEF FenceInv
<1> QED BY <1>1, FenceAlways, PTL

\* A claim row reads committed exactly when its turn has its event, written by
\* the request and the generation the row names: no fenced worker commits, and
\* no abort hides a durable turn.
THEOREM ReceiptsAreTrue == Spec => []FactsMatchReceipt
PROOF
<1>1. FenceInv => FactsMatchReceipt
  BY DEF FenceInv
<1> QED BY <1>1, FenceAlways, PTL

-----------------------------------------------------------------------------
(* What a step does to what is final, and how a claim changes hands.        *)

FinalStep ==
  /\ \A n \in DOMAIN events :
       n \in DOMAIN events' /\ events'[n] \in {events[n], [events[n] EXCEPT !.shown = "finalized"]}
  /\ \A r \in DOMAIN rows : rows[r].status = "committed" =>
       rows'[r] = [rows[r] EXCEPT !.lease = rows'[r].lease]

\* How the row of number r may change hands, or end, in one step.
HandStep(r) ==
  LET old == rows[r]
      new == rows'[r]
  IN /\ (old.status = "pending" /\ new.status = "committed") =>
          \E x \in txn : x.token.row = r /\ x.token.gen = old.gen /\ new.gen = old.gen
     /\ (old.status = "pending" /\ new.status = "aborted") =>
          \E w \in Workers : /\ pc[w] = "failing" /\ job[w].token.row = r
                             /\ job[w].token.gen = old.gen /\ new.gen = old.gen
     /\ (new.gen # old.gen \/ new.key # old.key) =>
          /\ old.lease = 0 /\ old.status \in {"pending", "aborted"}
          /\ new.gen = old.gen + 1
          /\ new.key # old.key => old.key \in new.hist

\* A row that a step does not touch.
LEMMA Untouched ==
  ASSUME TypeOK, NEW r \in DOMAIN rows, rows'[r] = rows[r]
  PROVE  rows'[r] = [rows[r] EXCEPT !.lease = rows'[r].lease] /\ HandStep(r)
PROOF
<1>1. rows[r] \in RowType
  BY DEF TypeOK
<1> QED BY <1>1 DEF RowType, HandStep

\* A grant leaves committed rows alone and follows the rules of a hand-over.
LEMMA FinalGrant ==
  ASSUME FenceInv, NEW w \in Workers, NEW r, NEW row, Granting(w, r, row)
  PROVE  FinalStep /\ \A q \in DOMAIN rows : HandStep(q)
PROOF
<1>0. TypeOK
  BY DEF FenceInv, UpdateInv
<1>1. /\ rows'[r] = row
      /\ \A s \in DOMAIN rows \ {r} : rows'[s] = rows[s]
      /\ events' = events
  BY DEF Granting, Grant, Put
<1>2. ASSUME r \in DOMAIN rows PROVE rows[r].status # "committed" /\ HandStep(r)
  <2>1. Succeeds(r, row) /\ row.status = "pending"
    BY <1>2 DEF Granting, Fresh
  <2> QED BY <1>1, <2>1 DEF Succeeds, HandStep
<1>3. \A q \in DOMAIN rows \ {r} : /\ rows'[q] = [rows[q] EXCEPT !.lease = rows'[q].lease]
                                   /\ HandStep(q)
  BY <1>0, <1>1, Untouched
<1> QED BY <1>1, <1>2, <1>3 DEF FinalStep

LEMMA FinalSteps ==
  ASSUME FenceInv, [Next]_vars
  PROVE  FinalStep /\ \A r \in DOMAIN rows : HandStep(r)
PROOF
<1>0. TypeOK
  BY DEF FenceInv, UpdateInv
<1>1. CASE Quiet
  <2>1. SameFacts /\ SameRows
    BY <1>1 DEF Quiet
  <2>2. FinalStep
    BY <2>1 DEF SameFacts, SameRows, FinalStep
  <2>3. \A r \in DOMAIN rows : HandStep(r)
    BY <1>0, <2>1, SameFields DEF HandStep
  <2> QED BY <2>2, <2>3
<1>2. ASSUME NEW w \in Workers, NEW r, NEW row, Granting(w, r, row)
      PROVE  FinalStep /\ \A q \in DOMAIN rows : HandStep(q)
  BY <1>2, FinalGrant
<1>3. ASSUME NEW w \in Workers, Swapping(w)
      PROVE  FinalStep /\ \A q \in DOMAIN rows : HandStep(q)
  <2>1. UNCHANGED <<rows, events>>
    BY <1>3 DEF Swapping
  <2> QED BY <1>0, <2>1, Untouched DEF FinalStep
<1>4. ASSUME NEW x \in txn, Committing(x)
      PROVE  FinalStep /\ \A q \in DOMAIN rows : HandStep(q)
  <2> DEFINE r == x.token.row
  <2>1. /\ r \in DOMAIN rows /\ r \notin DOMAIN events /\ rows[r].status = "pending"
        /\ x.token.gen = rows[r].gen
        /\ rows' = [rows EXCEPT ![r].status = "committed"]
        /\ \A n \in DOMAIN events : n \in DOMAIN events' /\ events'[n] = events[n]
    BY <1>4, DurableEffect DEF Committing, Put
  <2> HIDE DEF r
  <2>2. HandStep(r)
    <3>1. rows[r] \in RowType
      BY <1>0, <2>1 DEF TypeOK
    <3>2. rows'[r].gen = rows[r].gen /\ rows'[r].key = rows[r].key
          /\ rows'[r].status = "committed"
      BY <2>1, <3>1 DEF RowType
    <3> QED BY <2>1, <3>2 DEF HandStep, r
  <2>3. \A q \in DOMAIN rows \ {r} : rows'[q] = [rows[q] EXCEPT !.lease = rows'[q].lease]
                                     /\ HandStep(q)
    BY <1>0, <2>1, Untouched
  <2> QED BY <2>1, <2>2, <2>3 DEF FinalStep
<1>5. ASSUME NEW w \in Workers, Aborting(w)
      PROVE  FinalStep /\ \A q \in DOMAIN rows : HandStep(q)
  <2> DEFINE r == job[w].token.row
  <2>1. /\ r \in DOMAIN rows /\ rows[r].status = "pending" /\ pc[w] = "failing"
        /\ job[w].token.gen = rows[r].gen
        /\ rows' = [rows EXCEPT ![r].status = "aborted", ![r].lease = 0]
        /\ events' = events
    BY <1>5 DEF Aborting, CanSwap, Owned
  <2> HIDE DEF r
  <2>2. HandStep(r)
    <3>1. rows[r] \in RowType
      BY <1>0, <2>1 DEF TypeOK
    <3>2. rows'[r].gen = rows[r].gen /\ rows'[r].key = rows[r].key
          /\ rows'[r].status = "aborted"
      BY <2>1, <3>1 DEF RowType
    <3> QED BY <2>1, <3>2 DEF HandStep, r
  <2>3. \A q \in DOMAIN rows \ {r} : rows'[q] = [rows[q] EXCEPT !.lease = rows'[q].lease]
                                     /\ HandStep(q)
    BY <1>0, <2>1, Untouched
  <2> QED BY <2>1, <2>2, <2>3 DEF FinalStep
<1> QED BY <1>1, <1>2, <1>3, <1>4, <1>5, Kinds

\* A played turn is never removed or rewritten, except once by its narration, and
\* a committed claim never changes hands, in whatever way other requests are
\* retried, taken over, aborted or late.
THEOREM WhatIsCommittedStays == Spec => CommittedIsFinal
PROOF
<1>1. FenceInv /\ [Next]_vars => FinalStep
  BY FinalSteps
<1>2. Spec => [][FinalStep]_vars
  BY <1>1, FenceAlways, PTL DEF Spec
<1> QED BY <1>2 DEF CommittedIsFinal, FinalStep

\* A claim ends through the request that holds it, and changes hands only when it
\* was aborted or ran out, by exactly one generation, its old key remembered.
THEOREM ClaimsChangeHandsSafely == Spec => HandOver
PROOF
<1>1. FenceInv /\ [Next]_vars => \A r \in DOMAIN rows : HandStep(r)
  BY FinalSteps
<1>2. Spec => [][\A r \in DOMAIN rows : HandStep(r)]_vars
  BY <1>1, FenceAlways, PTL DEF Spec
<1> QED BY <1>2 DEF HandOver, HandStep
=============================================================================
