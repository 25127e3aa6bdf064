------------------------- MODULE ContentPublishProofs -------------------------
(***************************************************************************)
(* What is published stays as it is, and what clients were told of it      *)
(* stays true, for any number of requests, keys, contents and worlds.      *)
(*                                                                         *)
(* The guard of an edit is read in one statement and used in a later one,  *)
(* so it proves nothing of the moment of the edit.  What makes the catalog *)
(* safe is that a world is born frozen: a content world appears together   *)
(* with its published version, so nobody ever held a permission for it,    *)
(* and every edit on its way is an edit of a legacy world.                 *)
(***************************************************************************)
EXTENDS ContentPublish, TLAPS

WorldOf(v) == [code |-> versions[v].key, version |-> v,
               profile |-> versions[v].content, templates |-> versions[v].content]

\* A version with content is published, and the world that came with it is as it was.
Materialized ==
  \A v \in Committed : versions[v].content # Null =>
    /\ versions[v].status = "published"
    /\ versions[v].world = v
    /\ worlds[v] = WorldOf(v)

\* A world is a legacy world, without a code of the publisher's, or came with a version;
\* the version it names is there.
Origins ==
  /\ \A w \in LegacyWorlds : worlds[w] # Null /\ worlds[w].code = Null
  /\ \A w \in Requests : worlds[w] # Null => w \in Committed /\ versions[w].content # Null
  /\ \A w \in Existing : worlds[w].version # Null => worlds[w].version \in Committed

KeysUnique ==
  \A u, v \in Committed : versions[u].key = versions[v].key => u = v

\* At most one transaction holds a key, and then the key has no row.
KeysHeld ==
  \A p \in Requests : job[p].at = "inserted" =>
    /\ Holders(job[p].key) = {}
    /\ \A q \in Requests : job[q].at = "inserted" /\ job[q].key = job[p].key => p = q

\* What a request has read of the rows it works on.
Reads(p) ==
  /\ job[p].at \in Publication => job[p].key # Null /\ job[p].content # Null
  /\ job[p].at = "unclaimed" => job[p].key # Null
  /\ job[p].at = "found" => job[p].version \in Holders(job[p].key)
  /\ job[p].at \in {"draft", "factory", "plain"} => job[p].version \in Committed
  /\ job[p].at = "editable" => job[p].world \in LegacyWorlds
  /\ job[p].at = "bound" => /\ job[p].version \in Committed
                            /\ job[p].content = versions[job[p].version].content
                            /\ job[p].content # Null
                            /\ job[p].world = job[p].version

\* The rows named by a request come with its answer.
Unborn(p) ==
  job[p].at # "done" => /\ versions[p] = Null /\ worlds[p] = Null /\ sessions[p] = Null
                        /\ job[p].answer = Null

Told(p) ==
  job[p].answer \in {"created", "existing"} =>
    /\ job[p].version \in Holders(job[p].key)
    /\ job[p].content # Null
    /\ versions[job[p].version].content = job[p].content
    /\ job[p].world = versions[job[p].version].world

Refused(p) ==
  /\ job[p].answer = "conflict" =>
       \E v \in Holders(job[p].key) : versions[v].content # job[p].content
  /\ job[p].answer = "already_bound" =>
       \E v \in Holders(job[p].key) : versions[v].content # Null

Bound(s) ==
  PlayOf(s) # Null => /\ sessions[s].version \in Committed
                      /\ sessions[s].binding = versions[sessions[s].version].content
                      /\ sessions[s].world = sessions[s].version

RowsInv == Materialized /\ Origins /\ KeysUnique
RequestsInv == \A p \in Requests : Reads(p) /\ Unborn(p) /\ Told(p) /\ Refused(p) /\ Bound(p)

Inv == TypeOK /\ RowsInv /\ KeysHeld /\ RequestsInv

-----------------------------------------------------------------------------
(* Rows stay.  What requests know is about rows that are there, so it can  *)
(* only be lost when such a row changes.                                   *)
RowsStay ==
  \A v \in Committed : /\ v \in Committed'
                       /\ versions'[v].key = versions[v].key
                       /\ versions'[v].content = versions[v].content
                       /\ versions'[v].world = versions[v].world

\* What the other requests see of a step of p.
Aside(p) ==
  \A q \in Requests \ {p} : /\ job'[q] = job[q]
                            /\ versions[q] = Null => versions'[q] = Null
                            /\ worlds[q] = Null => worlds'[q] = Null
                            /\ sessions'[q] = sessions[q]

Knows(p) == Reads(p) /\ Unborn(p) /\ Told(p) /\ Refused(p) /\ Bound(p)

\* The holders of a key keep it.
LEMMA HoldersStay ==
  ASSUME TypeOK, RowsStay, NEW k, NEW v \in Holders(k)
  PROVE  v \in Holders(k)' /\ versions'[v].content = versions[v].content
                           /\ versions'[v].world = versions[v].world
BY DEF RowsStay, Holders, Committed

\* What a request knows survives the steps of the others.
LEMMA OthersKnow ==
  ASSUME TypeOK, RowsStay, NEW p \in Requests, Aside(p), NEW q \in Requests \ {p}, Knows(q)
  PROVE  Knows(q)'
<1>1. job'[q] = job[q] /\ sessions'[q] = sessions[q]
  BY DEF Aside
<1>2. Reads(q)'
  BY <1>1, HoldersStay DEF Knows, Reads, RowsStay
<1>3. Unborn(q)'
  BY <1>1 DEF Knows, Unborn, Aside
<1>4. Told(q)'
  BY <1>1, HoldersStay DEF Knows, Told
<1>5. Refused(q)'
  <2>1. ASSUME job[q].answer = "conflict"
        PROVE  (\E v \in Holders(job[q].key) : versions[v].content # job[q].content)'
    <3>1. PICK v \in Holders(job[q].key) : versions[v].content # job[q].content
      BY <2>1 DEF Knows, Refused
    <3>. QED BY <3>1, <1>1, HoldersStay
  <2>2. ASSUME job[q].answer = "already_bound"
        PROVE  (\E v \in Holders(job[q].key) : versions[v].content # Null)'
    <3>1. PICK v \in Holders(job[q].key) : versions[v].content # Null
      BY <2>2 DEF Knows, Refused
    <3>. QED BY <3>1, <1>1, HoldersStay
  <2>. QED BY <1>1, <2>1, <2>2 DEF Refused
<1>6. Bound(q)'
  BY <1>1 DEF Knows, Bound, PlayOf, RowsStay
<1>. QED BY <1>2, <1>3, <1>4, <1>5, <1>6 DEF Knows

LEMMA AllKnow ==
  ASSUME Inv, RowsStay, NEW p \in Requests, Aside(p), Knows(p)'
  PROVE  RequestsInv'
BY OthersKnow DEF Inv, RequestsInv, Knows

-----------------------------------------------------------------------------
(* Steps that only read.                                                   *)
LEMMA ReadingKeeps ==
  ASSUME Inv, NEW p \in Requests, job[p].at # "done", UNCHANGED tables,
         job' \in [Requests -> JobType],
         \A q \in Requests \ {p} : job'[q] = job[q],
         job'[p].at # "inserted",
         job'[p].at = "done" \/ job'[p].answer = Null,
         Reads(p)', Told(p)', Refused(p)'
  PROVE  Inv'
<1>. USE DEF tables
<1>1. TypeOK'
  BY DEF Inv, TypeOK
<1>2. RowsStay /\ Aside(p)
  BY DEF RowsStay, Aside, Committed
<1>3. RowsInv'
  BY DEF Inv, RowsInv, Materialized, WorldOf, Origins, KeysUnique, Committed, Existing
<1>4. KeysHeld'
  BY DEF Inv, KeysHeld, Holders, Committed
<1>5. Unborn(p)' /\ Bound(p)'
  BY DEF Inv, RequestsInv, Unborn, Bound, PlayOf, Committed
<1>. QED BY <1>1, <1>2, <1>3, <1>4, <1>5, AllKnow DEF Inv, Knows

\* The shape of every step: only the locals of p change.
LEMMA LocalStep ==
  ASSUME TypeOK, NEW p \in Requests, NEW j \in JobType, Becomes(p, j)
  PROVE  /\ job' \in [Requests -> JobType]
         /\ job'[p] = j
         /\ \A q \in Requests \ {p} : job'[q] = job[q]
BY DEF TypeOK, Becomes

\* A request that only reads and goes on, or gives an answer.
LEMMA MovingKeeps ==
  ASSUME Inv, NEW p \in Requests, job[p].at # "done", UNCHANGED tables,
         NEW j \in JobType, Becomes(p, j), j.at # "inserted", j.answer = Null,
         Reads(p)'
  PROVE  Inv'
<1>1. job'[p] = j
  BY LocalStep DEF Inv
<1>2. Told(p)' /\ Refused(p)'
  BY <1>1, ContentConstants DEF Told, Refused, Answers
<1>. QED BY <1>1, <1>2, LocalStep, ReadingKeeps DEF Inv

\* The locals a request moves on with.
LEMMA LocalsTyped ==
  ASSUME Inv, NEW p \in Requests
  PROVE  /\ job[p] \in JobType
         /\ job[p].at # "done" => job[p].answer = Null
BY DEF Inv, TypeOK, RequestsInv, Unborn

\* An answer that promises nothing.
LEMMA PlainAnswerKeeps ==
  ASSUME Inv, NEW p \in Requests, job[p].at # "done", UNCHANGED tables,
         NEW a \in {"mismatch", "refused", "ok", "error"}, Answer(p, a)
  PROVE  Inv'
<1>. DEFINE j == [job[p] EXCEPT !.at = "done", !.answer = a]
<1>1. j \in JobType /\ j.at = "done" /\ j.answer = a
  BY LocalsTyped DEF JobType, Places, Answers
<1>. HIDE DEF j
<1>2. Becomes(p, j)
  BY DEF Answer, j
<1>3. /\ job' \in [Requests -> JobType] /\ job'[p] = j
      /\ \A q \in Requests \ {p} : job'[q] = job[q]
  BY <1>1, <1>2, LocalStep DEF Inv
<1>4. Reads(p)' /\ Told(p)' /\ Refused(p)'
  BY <1>1, <1>3 DEF Reads, Told, Refused, Publication
<1>. QED BY <1>1, <1>3, <1>4, ReadingKeeps

LEMMA LookUpKeeps ==
  ASSUME Inv, NEW p \in Requests, NEW k \in Keys, NEW c \in Contents, LookUp(p, k, c)
  PROVE  Inv'
<1>1. job[p].at = "new" /\ UNCHANGED tables
  BY DEF LookUp
<1>2. CASE Becomes(p, [job[p] EXCEPT !.at = "missing", !.key = k, !.content = c])
  <2>. DEFINE j == [job[p] EXCEPT !.at = "missing", !.key = k, !.content = c]
  <2>1. /\ j \in JobType /\ j.at = "missing" /\ j.answer = Null
        /\ j.key = k /\ j.content = c
    BY <1>1, LocalsTyped DEF JobType, Places, Publication
  <2>. HIDE DEF j
  <2>2. job'[p] = j /\ Becomes(p, j)
    BY <1>2, <2>1, LocalStep DEF Inv, j
  <2>3. Reads(p)'
    BY <2>1, <2>2, ContentConstants DEF Reads, Publication
  <2>. QED BY <1>1, <2>1, <2>2, <2>3, MovingKeeps
<1>3. ASSUME NEW v \in Holders(k),
             Becomes(p, [job[p] EXCEPT !.at = "found", !.key = k, !.content = c,
                                       !.version = v])
      PROVE  Inv'
  <2>. DEFINE j == [job[p] EXCEPT !.at = "found", !.key = k, !.content = c, !.version = v]
  <2>1. /\ j \in JobType /\ j.at = "found" /\ j.answer = Null
        /\ j.key = k /\ j.content = c /\ j.version = v
    BY <1>1, LocalsTyped DEF JobType, Places, Publication, Holders, Committed
  <2>. HIDE DEF j
  <2>2. job'[p] = j /\ Becomes(p, j)
    BY <1>3, <2>1, LocalStep DEF Inv, j
  <2>3. v \in Holders(k)'
    BY <1>1 DEF tables, Holders, Committed
  <2>4. Reads(p)'
    BY <2>1, <2>2, <2>3, ContentConstants DEF Reads, Publication
  <2>. QED BY <1>1, <2>1, <2>2, <2>4, MovingKeeps
<1>. QED BY <1>2, <1>3 DEF LookUp

LEMMA CompareKeeps ==
  ASSUME Inv, NEW p \in Requests, Compare(p)
  PROVE  Inv'
<1>. DEFINE v == job[p].version
            a == Verdict(v, job[p].content)
            j == [job[p] EXCEPT !.at = "done", !.world = versions[v].world, !.answer = a]
<1>1. /\ job[p].at = "found" /\ UNCHANGED tables /\ Becomes(p, j)
      /\ v \in Holders(job[p].key) /\ job[p].content # Null
  BY DEF Compare, Inv, RequestsInv, Reads, Publication
<1>2. /\ a \in {"conflict", "existing", "mismatch"}
      /\ a = "existing" => versions[v].content = job[p].content
      /\ a = "conflict" => versions[v].content # job[p].content
  BY DEF Verdict
<1>3. versions[v].world \in Worlds \cup {Null}
  BY <1>1 DEF Inv, TypeOK, Holders, Committed, VersionType
<1>. HIDE DEF a
<1>4. /\ j \in JobType /\ j.at = "done" /\ j.answer = a /\ j.world = versions[v].world
      /\ j.key = job[p].key /\ j.content = job[p].content /\ j.version = v
  BY <1>2, <1>3, LocalsTyped DEF JobType, Places, Answers
<1>. HIDE DEF j
<1>5. /\ job' \in [Requests -> JobType] /\ job'[p] = j
      /\ \A q \in Requests \ {p} : job'[q] = job[q]
  BY <1>1, <1>4, LocalStep DEF Inv
<1>6. versions' = versions /\ \A k : Holders(k)' = Holders(k)
  BY <1>1 DEF tables, Holders, Committed
<1>7. Reads(p)'
  BY <1>4, <1>5 DEF Reads, Publication
<1>8. Told(p)'
  BY <1>1, <1>2, <1>4, <1>5, <1>6 DEF Told
<1>9. Refused(p)'
  BY <1>1, <1>2, <1>4, <1>5, <1>6 DEF Refused
<1>. QED BY <1>1, <1>4, <1>5, <1>7, <1>8, <1>9, ReadingKeeps

\* A world with a code came with the version of that key.
LEMMA CodeHasRow ==
  ASSUME Inv, NEW w \in Existing, NEW k \in Keys, worlds[w].code = k
  PROVE  w \in Holders(k) /\ versions[w].content # Null
<1>1. w \in Requests
  BY ContentConstants DEF Inv, RowsInv, Origins, Existing, Worlds
<1>2. w \in Committed /\ versions[w].content # Null
  BY <1>1 DEF Inv, RowsInv, Origins, Existing
<1>3. worlds[w] = WorldOf(w)
  BY <1>2 DEF Inv, RowsInv, Materialized
<1>4. worlds[w].code = versions[w].key
  BY <1>3 DEF WorldOf
<1>. QED BY <1>2, <1>4 DEF Holders

LEMMA CheckCodeKeeps ==
  ASSUME Inv, NEW p \in Requests, CheckCode(p)
  PROVE  Inv'
<1>1. /\ job[p].at = "missing" /\ UNCHANGED tables
      /\ job[p].key \in Keys /\ job[p].key # Null /\ job[p].content # Null
  BY LocalsTyped DEF CheckCode, Inv, RequestsInv, Reads, Publication, JobType
<1>2. CASE To(p, "clear")
  <2>. DEFINE j == [job[p] EXCEPT !.at = "clear"]
  <2>1. /\ j \in JobType /\ j.at = "clear" /\ j.answer = Null
        /\ j.key = job[p].key /\ j.content = job[p].content
    BY <1>1, LocalsTyped DEF JobType, Places, Publication
  <2>. HIDE DEF j
  <2>2. job'[p] = j /\ Becomes(p, j)
    BY <1>2, <2>1, LocalStep DEF Inv, To, j
  <2>3. Reads(p)'
    BY <1>1, <2>1, <2>2 DEF Reads, Publication
  <2>. QED BY <1>1, <2>1, <2>2, <2>3, MovingKeeps
<1>3. ASSUME NEW w \in Existing, worlds[w].code = job[p].key, Answer(p, "already_bound")
      PROVE  Inv'
  <2>. DEFINE j == [job[p] EXCEPT !.at = "done", !.answer = "already_bound"]
  <2>1. j \in JobType /\ j.at = "done" /\ j.answer = "already_bound" /\ j.key = job[p].key
    BY LocalsTyped DEF JobType, Places, Answers
  <2>. HIDE DEF j
  <2>2. /\ job' \in [Requests -> JobType] /\ job'[p] = j
        /\ \A q \in Requests \ {p} : job'[q] = job[q]
    BY <1>3, <2>1, LocalStep DEF Inv, Answer, j
  <2>3. w \in Holders(job[p].key) /\ versions[w].content # Null
    BY <1>1, <1>3, CodeHasRow
  <2>4. versions' = versions /\ \A k : Holders(k)' = Holders(k)
    BY <1>1 DEF tables, Holders, Committed
  <2>5. Reads(p)' /\ Told(p)'
    BY <2>1, <2>2 DEF Reads, Told, Publication
  <2>6. Refused(p)'
    BY <2>1, <2>2, <2>3, <2>4 DEF Refused
  <2>. QED BY <1>1, <2>1, <2>2, <2>5, <2>6, ReadingKeeps
<1>. QED BY <1>2, <1>3 DEF CheckCode

\* The key is taken: nobody holds it and it has no row.
LEMMA InsertVersionKeeps ==
  ASSUME Inv, NEW p \in Requests, InsertVersion(p)
  PROVE  Inv'
<1>1. /\ job[p].at = "clear" /\ UNCHANGED tables /\ ~KeyLocked(job[p].key)
      /\ job[p].key # Null /\ job[p].content # Null
  BY DEF InsertVersion, Inv, RequestsInv, Reads, Publication
<1>2. CASE Holders(job[p].key) # {}
  <2>. DEFINE j == [job[p] EXCEPT !.at = "duplicate"]
  <2>1. /\ j \in JobType /\ j.at = "duplicate" /\ j.answer = Null
        /\ j.key = job[p].key /\ j.content = job[p].content
    BY <1>1, LocalsTyped DEF JobType, Places, Publication
  <2>. HIDE DEF j
  <2>2. job'[p] = j /\ Becomes(p, j)
    BY <1>2, <2>1, LocalStep DEF Inv, InsertVersion, To, j
  <2>3. Reads(p)'
    BY <1>1, <2>1, <2>2 DEF Reads, Publication
  <2>. QED BY <1>1, <2>1, <2>2, <2>3, MovingKeeps
<1>3. CASE Holders(job[p].key) = {}
  <2>. DEFINE j == [job[p] EXCEPT !.at = "inserted"]
  <2>1. /\ j \in JobType /\ j.at = "inserted" /\ j.answer = Null
        /\ j.key = job[p].key /\ j.content = job[p].content
    BY <1>1, LocalsTyped DEF JobType, Places, Publication
  <2>. HIDE DEF j
  <2>2. /\ job' \in [Requests -> JobType] /\ job'[p] = j
        /\ \A q \in Requests \ {p} : job'[q] = job[q]
    BY <1>3, <2>1, LocalStep DEF Inv, InsertVersion, To, j
  <2>3. versions' = versions /\ \A k : Holders(k)' = Holders(k)
    BY <1>1 DEF tables, Holders, Committed
  <2>4. TypeOK'
    BY <1>1, <2>2 DEF Inv, TypeOK, tables
  <2>5. RowsInv'
    BY <1>1 DEF Inv, RowsInv, Materialized, WorldOf, Origins, KeysUnique, Committed, Existing, tables
  <2>6. KeysHeld'
    BY <1>1, <1>3, <2>1, <2>2, <2>3 DEF Inv, KeysHeld, KeyLocked
  <2>7. RowsStay /\ Aside(p)
    BY <1>1, <2>2 DEF RowsStay, Aside, Committed, tables
  <2>8. Reads(p)' /\ Told(p)' /\ Refused(p)'
    BY <1>1, <2>1, <2>2, ContentConstants DEF Reads, Told, Refused, Publication, Answers
  <2>9. Unborn(p)' /\ Bound(p)'
    BY <1>1, <2>1, <2>2 DEF Inv, RequestsInv, Unborn, Bound, PlayOf, Committed, tables
  <2>. QED BY <2>4, <2>5, <2>6, <2>7, <2>8, <2>9, AllKnow DEF Inv, Knows
<1>. QED BY <1>2, <1>3

LEMMA RecoverKeeps ==
  ASSUME Inv, NEW p \in Requests, Recover(p)
  PROVE  Inv'
<1>1. /\ job[p].at = "duplicate" /\ UNCHANGED tables
      /\ job[p].key # Null /\ job[p].content # Null
  BY DEF Recover, Inv, RequestsInv, Reads, Publication
<1>2. PICK v \in Holders(job[p].key) : Becomes(p, [job[p] EXCEPT !.at = "found", !.version = v])
  BY DEF Recover
<1>. DEFINE j == [job[p] EXCEPT !.at = "found", !.version = v]
<1>3. /\ j \in JobType /\ j.at = "found" /\ j.answer = Null /\ j.version = v
      /\ j.key = job[p].key /\ j.content = job[p].content
  BY <1>1, LocalsTyped DEF JobType, Places, Publication, Holders, Committed
<1>. HIDE DEF j
<1>4. job'[p] = j /\ Becomes(p, j)
  BY <1>2, <1>3, LocalStep DEF Inv, j
<1>5. \A k : Holders(k)' = Holders(k)
  BY <1>1 DEF tables, Holders, Committed
<1>6. Reads(p)'
  BY <1>1, <1>3, <1>4, <1>5 DEF Reads, Publication
<1>. QED BY <1>1, <1>3, <1>4, <1>6, MovingKeeps

LEMMA LookUpDraftKeeps ==
  ASSUME Inv, NEW p \in Requests, NEW k \in Keys, NEW w \in Existing \cup {Null},
         LookUpDraft(p, k, w)
  PROVE  Inv'
<1>1. job[p].at = "new" /\ UNCHANGED tables
  BY DEF LookUpDraft
<1>2. CASE Becomes(p, [job[p] EXCEPT !.at = "unclaimed", !.key = k, !.world = w])
  <2>. DEFINE j == [job[p] EXCEPT !.at = "unclaimed", !.key = k, !.world = w]
  <2>1. j \in JobType /\ j.at = "unclaimed" /\ j.answer = Null /\ j.key = k
    BY <1>1, LocalsTyped DEF JobType, Places, Drafting, Existing
  <2>. HIDE DEF j
  <2>2. job'[p] = j /\ Becomes(p, j)
    BY <1>2, <2>1, LocalStep DEF Inv, j
  <2>3. Reads(p)'
    BY <2>1, <2>2, ContentConstants DEF Reads, Publication
  <2>. QED BY <1>1, <2>1, <2>2, <2>3, MovingKeeps
<1>3. CASE Answer(p, "refused")
  BY <1>1, <1>3, PlainAnswerKeeps
<1>. QED BY <1>2, <1>3 DEF LookUpDraft

LEMMA ReadDraftKeeps ==
  ASSUME Inv, NEW p \in Requests, NEW v \in Committed, ReadDraft(p, v)
  PROVE  Inv'
<1>1. job[p].at = "new" /\ UNCHANGED tables
  BY DEF ReadDraft
<1>2. CASE Becomes(p, [job[p] EXCEPT !.at = "draft", !.version = v])
  <2>. DEFINE j == [job[p] EXCEPT !.at = "draft", !.version = v]
  <2>1. j \in JobType /\ j.at = "draft" /\ j.answer = Null /\ j.version = v
    BY <1>1, LocalsTyped DEF JobType, Places, Drafting, Committed
  <2>. HIDE DEF j
  <2>2. job'[p] = j /\ Becomes(p, j)
    BY <1>2, <2>1, LocalStep DEF Inv, j
  <2>3. Reads(p)'
    BY <1>1, <2>1, <2>2 DEF Reads, Publication, tables, Committed
  <2>. QED BY <1>1, <2>1, <2>2, <2>3, MovingKeeps
<1>3. CASE Answer(p, "refused")
  BY <1>1, <1>3, PlainAnswerKeeps
<1>. QED BY <1>2, <1>3 DEF ReadDraft

\* Only a legacy world passes the guard: the others were born frozen.
LEMMA GuardWorldKeeps ==
  ASSUME Inv, NEW p \in Requests, NEW w \in Existing, GuardWorld(p, w)
  PROVE  Inv'
<1>1. job[p].at = "new" /\ UNCHANGED tables
  BY DEF GuardWorld
<1>2. ~Frozen(w) => w \in LegacyWorlds
  <2>1. SUFFICES ASSUME w \in Requests
                 PROVE  Frozen(w)
    BY DEF Existing, Worlds
  <2>2. w \in Committed /\ versions[w].content # Null
    BY <2>1 DEF Inv, RowsInv, Origins, Existing
  <2>3. versions[w].status = "published" /\ worlds[w] = WorldOf(w)
    BY <2>2 DEF Inv, RowsInv, Materialized
  <2>4. worlds[w].version = w
    BY <2>3 DEF WorldOf
  <2>. QED BY <2>1, <2>3, <2>4, ContentConstants DEF Frozen
<1>3. CASE ~Frozen(w) /\ Becomes(p, [job[p] EXCEPT !.at = "editable", !.world = w])
  <2>. DEFINE j == [job[p] EXCEPT !.at = "editable", !.world = w]
  <2>1. j \in JobType /\ j.at = "editable" /\ j.answer = Null /\ j.world = w
    BY <1>1, LocalsTyped DEF JobType, Places, Existing
  <2>. HIDE DEF j
  <2>2. job'[p] = j /\ Becomes(p, j)
    BY <1>3, <2>1, LocalStep DEF Inv, j
  <2>3. Reads(p)'
    BY <1>2, <1>3, <2>1, <2>2 DEF Reads, Publication
  <2>. QED BY <1>1, <2>1, <2>2, <2>3, MovingKeeps
<1>4. CASE Answer(p, "refused")
  BY <1>1, <1>4, PlainAnswerKeeps
<1>. QED BY <1>3, <1>4 DEF GuardWorld

\* A player's choice of a version, with or without the factory.
LEMMA ChosenKeeps ==
  ASSUME Inv, NEW p \in Requests, job[p].at = "new", UNCHANGED tables,
         NEW v \in Committed, NEW place \in {"factory", "plain"},
         Becomes(p, [job[p] EXCEPT !.at = place, !.version = v])
  PROVE  Inv'
<1>. DEFINE j == [job[p] EXCEPT !.at = place, !.version = v]
<1>1. j \in JobType /\ j.at = place /\ j.answer = Null /\ j.version = v
  BY LocalsTyped DEF JobType, Places, Playing, Committed
<1>. HIDE DEF j
<1>2. job'[p] = j /\ Becomes(p, j)
  BY <1>1, LocalStep DEF Inv, j
<1>3. Reads(p)'
  BY <1>1, <1>2 DEF Reads, Publication, tables, Committed
<1>. QED BY <1>1, <1>2, <1>3, MovingKeeps

LEMMA ChoosingKeeps ==
  ASSUME Inv, NEW p \in Requests,
         \/ \E v \in Committed : Choose(p, v) \/ ChoosePlain(p, v)
         \/ \E w \in Existing : ChooseWorld(p, w)
  PROVE  Inv'
<1>1. ASSUME NEW v \in Committed, Choose(p, v)
      PROVE  Inv'
  <2>1. job[p].at = "new" /\ UNCHANGED tables
    BY <1>1 DEF Choose
  <2>2. PICK factory : Becomes(p, [job[p] EXCEPT !.at = IF factory THEN "factory" ELSE "plain",
                                                 !.version = v])
    BY <1>1 DEF Choose
  <2>. DEFINE place == IF factory THEN "factory" ELSE "plain"
  <2>3. place \in {"factory", "plain"}
    OBVIOUS
  <2>4. Becomes(p, [job[p] EXCEPT !.at = place, !.version = v])
    BY <2>2
  <2>. HIDE DEF place
  <2>. QED BY <2>1, <2>3, <2>4, ChosenKeeps
<1>2. ASSUME NEW v \in Committed, ChoosePlain(p, v)
      PROVE  Inv'
  BY <1>2, ChosenKeeps DEF ChoosePlain
<1>3. ASSUME NEW w \in Existing, ChooseWorld(p, w)
      PROVE  Inv'
  <2>. DEFINE v == worlds[w].version
  <2>1. job[p].at = "new" /\ UNCHANGED tables
    BY <1>3 DEF ChooseWorld
  <2>2. CASE /\ v # Null /\ versions[v].content # Null /\ versions[v].world = w
             /\ Becomes(p, [job[p] EXCEPT !.at = "factory", !.version = v])
    <3>1. v \in Committed
      BY <2>2 DEF Inv, RowsInv, Origins
    <3>. QED BY <2>1, <2>2, <3>1, ChosenKeeps
  <2>3. CASE Answer(p, "refused")
    BY <2>1, <2>3, PlainAnswerKeeps
  <2>. QED BY <1>3, <2>2, <2>3 DEF ChooseWorld
<1>. QED BY <1>1, <1>2, <1>3

-----------------------------------------------------------------------------
(* Steps that write, and end the request.                                  *)
LEMMA WritingKeeps ==
  ASSUME Inv, NEW p \in Requests, job[p].at # "done",
         NEW j \in JobType, Becomes(p, j), j.at = "done",
         TypeOK', RowsInv', RowsStay,
         \A q \in Requests \ {p} : /\ versions[q] = Null => versions'[q] = Null
                                   /\ worlds[q] = Null => worlds'[q] = Null
                                   /\ sessions'[q] = sessions[q],
         \A q \in Requests \ {p}, k \in Keys :
           job[q].at = "inserted" /\ job[q].key = k => Holders(k)' = {},
         Told(p)', Refused(p)', Bound(p)'
  PROVE  Inv'
<1>1. job'[p] = j /\ \A q \in Requests \ {p} : job'[q] = job[q]
  BY LocalStep DEF Inv
<1>2. Aside(p)
  BY <1>1 DEF Aside
<1>3. KeysHeld'
  <2>1. SUFFICES ASSUME NEW q \in Requests, (job[q].at = "inserted")'
                 PROVE  (/\ Holders(job[q].key) = {}
                         /\ \A r \in Requests : job[r].at = "inserted" /\ job[r].key = job[q].key
                                                  => q = r)'
    BY DEF KeysHeld
  <2>2. q # p /\ job'[q] = job[q]
    BY <1>1, <2>1
  <2>3. job[q].key \in Keys
    BY <2>1, <2>2 DEF Inv, RequestsInv, Reads, Publication, TypeOK, JobType
  <2>4. ASSUME NEW k \in Keys, k = job[q].key
        PROVE  Holders(k)' = {}
    BY <2>1, <2>2, <2>4
  <2>5. (Holders(job[q].key) = {})'
    BY <2>2, <2>3, <2>4
  <2>. QED BY <1>1, <2>1, <2>2, <2>5 DEF Inv, KeysHeld
<1>4. Reads(p)' /\ Unborn(p)'
  BY <1>1 DEF Reads, Unborn, Publication
<1>. QED BY <1>2, <1>3, <1>4, AllKnow DEF Inv, Knows

\* A new row of the table of versions, and the other tables' changes aside.
LEMMA NewRow ==
  ASSUME TypeOK, NEW p \in Requests, versions[p] = Null,
         NEW row \in VersionType, versions' = [versions EXCEPT ![p] = row]
  PROVE  /\ versions' \in [Requests -> VersionType \cup {Null}]
         /\ versions'[p] = row
         /\ \A v \in Committed : v # p /\ versions'[v] = versions[v]
         /\ Committed' = Committed \cup {p}
         /\ RowsStay
         /\ \A k : Holders(k)' = Holders(k) \cup (IF row.key = k THEN {p} ELSE {})
<1>1. /\ versions' \in [Requests -> VersionType \cup {Null}] /\ versions'[p] = row
      /\ \A v \in Requests \ {p} : versions'[v] = versions[v]
  BY DEF TypeOK
<1>2. row # Null
  BY ContentConstants
<1>3. Committed' = Committed \cup {p}
  BY <1>1, <1>2 DEF Committed
<1>4. \A v \in Committed : v # p /\ versions'[v] = versions[v]
  BY <1>1 DEF Committed
<1>5. RowsStay
  BY <1>3, <1>4 DEF RowsStay
<1>6. ASSUME NEW k
      PROVE  Holders(k)' = Holders(k) \cup (IF row.key = k THEN {p} ELSE {})
  BY <1>1, <1>3, <1>4 DEF Holders
<1>. QED BY <1>1, <1>3, <1>4, <1>5, <1>6

LEMMA InsertDraftKeeps ==
  ASSUME Inv, NEW p \in Requests, InsertDraft(p)
  PROVE  Inv'
<1>1. /\ job[p].at = "unclaimed" /\ ~KeyLocked(job[p].key) /\ UNCHANGED <<worlds, sessions>>
      /\ job[p].key \in Keys /\ job[p].world \in Worlds \cup {Null}
  BY LocalsTyped DEF InsertDraft, Inv, RequestsInv, Reads, JobType
<1>2. CASE Answer(p, "error") /\ UNCHANGED versions
  BY <1>1, <1>2, PlainAnswerKeeps DEF tables
<1>3. ASSUME Holders(job[p].key) = {}, Answer(p, "ok"),
             versions' = [versions EXCEPT ![p] = [key |-> job[p].key, status |-> "draft",
                                                  world |-> job[p].world, content |-> Null]]
      PROVE  Inv'
  <2>. DEFINE row == [key |-> job[p].key, status |-> "draft",
                      world |-> job[p].world, content |-> Null]
              j == [job[p] EXCEPT !.at = "done", !.answer = "ok"]
  <2>1. row \in VersionType /\ row.key = job[p].key /\ row.content = Null
    BY <1>1 DEF VersionType
  <2>2. /\ versions[p] = Null /\ worlds[p] = Null /\ sessions[p] = Null
        /\ versions' = [versions EXCEPT ![p] = row] /\ TypeOK
    BY <1>1, <1>3 DEF Inv, RequestsInv, Unborn
  <2>3. j \in JobType /\ j.at = "done" /\ j.answer = "ok" /\ Becomes(p, j)
    BY <1>3, LocalsTyped DEF JobType, Places, Answers, Answer
  <2>. HIDE DEF row, j
  <2>4. /\ versions' \in [Requests -> VersionType \cup {Null}] /\ versions'[p] = row
        /\ \A v \in Committed : v # p /\ versions'[v] = versions[v]
        /\ Committed' = Committed \cup {p}
        /\ RowsStay
        /\ \A x : Holders(x)' = Holders(x) \cup (IF row.key = x THEN {p} ELSE {})
    <3>1. /\ TypeOK /\ versions[p] = Null /\ row \in VersionType
          /\ versions' = [versions EXCEPT ![p] = row]
      BY <2>1, <2>2
    <3>. QED BY <3>1, NewRow
  <2>5. job'[p] = j /\ job' \in [Requests -> JobType]
    BY <2>2, <2>3, LocalStep
  <2>6. TypeOK'
    BY <1>1, <2>2, <2>4, <2>5 DEF TypeOK
  <2>7. Materialized'
    BY <1>1, <2>1, <2>4 DEF Inv, RowsInv, Materialized, WorldOf
  <2>8. Origins'
    BY <1>1, <2>2, <2>4 DEF Inv, RowsInv, Origins, Existing
  <2>9. KeysUnique'
    BY <1>3, <2>1, <2>4 DEF Inv, RowsInv, KeysUnique, Holders
  <2>10. \A q \in Requests \ {p}, k \in Keys :
           job[q].at = "inserted" /\ job[q].key = k => Holders(k)' = {}
    BY <1>1, <2>1, <2>4 DEF Inv, KeysHeld, KeyLocked
  <2>11. Told(p)' /\ Refused(p)' /\ Bound(p)'
    BY <1>1, <2>2, <2>3, <2>5 DEF Told, Refused, Bound, PlayOf
  <2>12. \A q \in Requests \ {p} : versions[q] = Null => versions'[q] = Null
    BY <2>2
  <2>. QED BY <1>1, <2>3, <2>4, <2>6, <2>7, <2>8, <2>9, <2>10, <2>11, <2>12, WritingKeeps
              DEF RowsInv
<1>. QED BY <1>1, <1>2, <1>3 DEF InsertDraft

\* Publishing an old draft touches its status only.
LEMMA PublishDraftKeeps ==
  ASSUME Inv, NEW p \in Requests, PublishDraft(p)
  PROVE  Inv'
<1>. DEFINE d == job[p].version
            j == [job[p] EXCEPT !.at = "done", !.answer = "ok"]
<1>1. /\ job[p].at = "draft" /\ UNCHANGED <<worlds, sessions>> /\ d \in Committed
      /\ versions' = [versions EXCEPT ![d].status = "published"]
  BY DEF PublishDraft, Inv, RequestsInv, Reads
<1>2. j \in JobType /\ j.at = "done" /\ j.answer = "ok" /\ Becomes(p, j)
  BY LocalsTyped DEF JobType, Places, Answers, Answer, PublishDraft
<1>. HIDE DEF j
<1>3. d \in Requests /\ versions[d] \in VersionType
  BY <1>1 DEF Inv, TypeOK, Committed
<1>. DEFINE row == [versions[d] EXCEPT !.status = "published"]
<1>4. /\ row \in VersionType /\ row.key = versions[d].key /\ row.world = versions[d].world
      /\ row.content = versions[d].content /\ row.status = "published"
  BY <1>3 DEF VersionType
<1>5. versions' = [versions EXCEPT ![d] = row]
  BY <1>1
<1>. HIDE DEF row
<1>6. /\ versions' \in [Requests -> VersionType \cup {Null}] /\ versions'[d] = row
      /\ \A v \in Requests \ {d} : versions'[v] = versions[v]
  BY <1>3, <1>4, <1>5 DEF Inv, TypeOK
<1>7. Committed' = Committed
  BY <1>1, <1>4, <1>6, ContentConstants DEF Committed
<1>8. \A v \in Committed : /\ versions'[v].key = versions[v].key
                           /\ versions'[v].world = versions[v].world
                           /\ versions'[v].content = versions[v].content
                           /\ versions[v].status = "published" => versions'[v].status = "published"
  BY <1>4, <1>6 DEF Committed
<1>9. RowsStay /\ \A k : Holders(k)' = Holders(k)
  BY <1>7, <1>8 DEF RowsStay, Holders
<1>10. job'[p] = j /\ job' \in [Requests -> JobType]
  BY <1>2, LocalStep DEF Inv
<1>11. TypeOK'
  BY <1>1, <1>6, <1>10 DEF Inv, TypeOK
<1>12. RowsInv'
  BY <1>1, <1>7, <1>8 DEF Inv, RowsInv, Materialized, WorldOf, Origins, KeysUnique, Existing,
                          Committed
<1>13. \A q \in Requests \ {p}, k \in Keys :
         job[q].at = "inserted" /\ job[q].key = k => Holders(k)' = {}
  BY <1>9 DEF Inv, KeysHeld
<1>14. Told(p)' /\ Refused(p)'
  BY <1>2, <1>10 DEF Told, Refused
<1>15. Bound(p)'
  BY <1>1 DEF Inv, RequestsInv, Unborn, Bound, PlayOf
<1>16. \A q \in Requests \ {p} : versions[q] = Null => versions'[q] = Null
  BY <1>1, <1>6 DEF Committed
<1>. QED BY <1>1, <1>2, <1>9, <1>11, <1>12, <1>13, <1>14, <1>15, <1>16, WritingKeeps

\* An edit may come late, but it is an edit of a legacy world.
LEMMA EditWorldKeeps ==
  ASSUME Inv, NEW p \in Requests, EditWorld(p)
  PROVE  Inv'
<1>. DEFINE w == job[p].world
            j == [job[p] EXCEPT !.at = "done", !.answer = "ok"]
<1>1. /\ job[p].at = "editable" /\ UNCHANGED <<versions, sessions>>
      /\ w \in LegacyWorlds /\ w \in Worlds /\ worlds[w] # Null
  BY DEF EditWorld, Inv, RequestsInv, Reads, RowsInv, Origins, Worlds
<1>2. j \in JobType /\ j.at = "done" /\ j.answer = "ok" /\ Becomes(p, j)
  BY LocalsTyped DEF JobType, Places, Answers, Answer, EditWorld
<1>. HIDE DEF j
<1>3. worlds[w] \in WorldType /\ worlds[w].code = Null
  BY <1>1 DEF Inv, TypeOK, RowsInv, Origins
<1>4. PICK row \in WorldType : /\ worlds' = [worlds EXCEPT ![w] = row]
                               /\ row.code = Null
                               /\ row.version \in Committed \cup {Null, worlds[w].version}
  <2>1. CASE \E v \in Committed \cup {Null}, c \in Contents \cup {Null} :
               worlds' = [worlds EXCEPT ![w].version = v, ![w].profile = c]
    <3>1. PICK v \in Committed \cup {Null}, c \in Contents \cup {Null} :
                 worlds' = [worlds EXCEPT ![w].version = v, ![w].profile = c]
      BY <2>1
    <3>. DEFINE row == [[worlds[w] EXCEPT !.version = v] EXCEPT !.profile = c]
    <3>2. row \in WorldType /\ row.code = Null /\ row.version = v
      BY <1>3 DEF WorldType, Committed
    <3>3. worlds' = [worlds EXCEPT ![w] = row]
      BY <1>1, <3>1 DEF Inv, TypeOK
    <3>. QED BY <3>2, <3>3
  <2>2. CASE worlds' = [worlds EXCEPT ![w].templates = Null]
    <3>. DEFINE row == [worlds[w] EXCEPT !.templates = Null]
    <3>1. row \in WorldType /\ row.code = Null /\ row.version = worlds[w].version
      BY <1>3 DEF WorldType
    <3>. QED BY <2>2, <3>1
  <2>. QED BY <2>1, <2>2 DEF EditWorld
<1>5. /\ worlds' \in [Worlds -> WorldType \cup {Null}] /\ worlds'[w] = row
      /\ \A x \in Worlds \ {w} : worlds'[x] = worlds[x]
  BY <1>1, <1>4 DEF Inv, TypeOK
<1>6. row # Null
  BY <1>4, ContentConstants
<1>7. \A q \in Requests : q \in Worlds /\ worlds'[q] = worlds[q]
  BY <1>1, <1>5, ContentConstants DEF Worlds
<1>8. Existing' = Existing
  BY <1>1, <1>5, <1>6 DEF Existing
<1>9. /\ versions' = versions /\ RowsStay /\ Committed' = Committed
      /\ \A k : Holders(k)' = Holders(k)
  BY <1>1 DEF RowsStay, Holders, Committed
<1>10. job'[p] = j /\ job' \in [Requests -> JobType]
  BY <1>2, LocalStep DEF Inv
<1>11. TypeOK'
  BY <1>1, <1>5, <1>10 DEF Inv, TypeOK
<1>12. Materialized' /\ KeysUnique'
  BY <1>7, <1>9 DEF Inv, RowsInv, Materialized, WorldOf, KeysUnique, Committed
<1>13. Origins'
  <2>1. \A x \in LegacyWorlds : x \in Worlds /\ worlds'[x] # Null /\ worlds'[x].code = Null
    BY <1>4, <1>5, <1>6 DEF Inv, RowsInv, Origins, Worlds
  <2>2. \A x \in Requests : worlds'[x] # Null => x \in Committed' /\ versions'[x].content # Null
    BY <1>7, <1>9 DEF Inv, RowsInv, Origins
  <2>3. \A x \in Existing : worlds'[x].version # Null => worlds'[x].version \in Committed
    BY <1>1, <1>4, <1>5 DEF Inv, RowsInv, Origins, Existing
  <2>. QED BY <1>8, <1>9, <2>1, <2>2, <2>3 DEF Origins
<1>14. \A q \in Requests \ {p}, k \in Keys :
         job[q].at = "inserted" /\ job[q].key = k => Holders(k)' = {}
  BY <1>9 DEF Inv, KeysHeld
<1>15. Told(p)' /\ Refused(p)'
  BY <1>2, <1>10 DEF Told, Refused
<1>16. Bound(p)'
  BY <1>1 DEF Inv, RequestsInv, Unborn, Bound, PlayOf
<1>. QED BY <1>1, <1>2, <1>7, <1>9, <1>11, <1>12, <1>13, <1>14, <1>15, <1>16, WritingKeeps
        DEF RowsInv

LEMMA CheckBindingKeeps ==
  ASSUME Inv, NEW p \in Requests, CheckBinding(p)
  PROVE  Inv'
<1>. DEFINE v == job[p].version
<1>1. job[p].at = "factory" /\ UNCHANGED tables /\ v \in Committed
  BY DEF CheckBinding, Inv, RequestsInv, Reads
<1>2. CASE Answer(p, "refused")
  BY <1>1, <1>2, PlainAnswerKeeps
<1>3. ASSUME versions[v].content # Null,
             Becomes(p, [job[p] EXCEPT !.at = "bound", !.world = versions[v].world,
                                       !.content = versions[v].content])
      PROVE  Inv'
  <2>. DEFINE j == [job[p] EXCEPT !.at = "bound", !.world = versions[v].world,
                                  !.content = versions[v].content]
  <2>1. versions[v].world = v /\ v \in Requests /\ versions[v].content \in Contents
    BY <1>1, <1>3 DEF Inv, RowsInv, Materialized, TypeOK, Committed, VersionType
  <2>2. /\ j \in JobType /\ j.at = "bound" /\ j.answer = Null /\ j.version = v
        /\ j.world = v /\ j.content = versions[v].content
    BY <1>1, <2>1, LocalsTyped DEF JobType, Places, Playing, Worlds
  <2>. HIDE DEF j
  <2>3. job'[p] = j /\ Becomes(p, j)
    BY <1>3, <2>2, LocalStep DEF Inv, j
  <2>4. Reads(p)'
    BY <1>1, <1>3, <2>2, <2>3 DEF Reads, Publication, tables, Committed
  <2>. QED BY <1>1, <2>2, <2>3, <2>4, MovingKeeps
<1>. QED BY <1>2, <1>3 DEF CheckBinding

\* A session is made of what was read: rows that are there to stay.
LEMMA SessionKeeps ==
  ASSUME Inv, NEW p \in Requests, job[p].at # "done", UNCHANGED <<versions, worlds>>,
         NEW s \in SessionType, sessions' = [sessions EXCEPT ![p] = s],
         NEW a \in {"ok", "error"}, Answer(p, a),
         s.version \in Committed,
         s.binding = Null \/ /\ s.binding = versions[s.version].content
                             /\ s.world = s.version
  PROVE  Inv'
<1>. DEFINE j == [job[p] EXCEPT !.at = "done", !.answer = a]
<1>1. j \in JobType /\ j.at = "done" /\ j.answer = a /\ Becomes(p, j)
  BY LocalsTyped DEF JobType, Places, Answers, Answer
<1>. HIDE DEF j
<1>2. job'[p] = j /\ job' \in [Requests -> JobType]
  BY <1>1, LocalStep DEF Inv
<1>3. /\ sessions' \in [Requests -> SessionType \cup {Null}] /\ sessions'[p] = s
      /\ \A q \in Requests \ {p} : sessions'[q] = sessions[q]
  BY DEF Inv, TypeOK
<1>4. TypeOK'
  BY <1>2, <1>3 DEF Inv, TypeOK
<1>5. RowsInv'
  BY DEF Inv, RowsInv, Materialized, WorldOf, Origins, KeysUnique, Committed, Existing
<1>6. RowsStay /\ Committed' = Committed /\ \A k : Holders(k)' = Holders(k)
  BY DEF RowsStay, Holders, Committed
<1>7. \A q \in Requests \ {p}, k \in Keys :
         job[q].at = "inserted" /\ job[q].key = k => Holders(k)' = {}
  BY <1>6 DEF Inv, KeysHeld
<1>8. Told(p)' /\ Refused(p)'
  BY <1>1, <1>2 DEF Told, Refused
<1>9. Bound(p)'
  BY <1>3, <1>6 DEF Bound, PlayOf
<1>. QED BY <1>1, <1>3, <1>4, <1>5, <1>6, <1>7, <1>8, <1>9, WritingKeeps

LEMMA CommitInstanceKeeps ==
  ASSUME Inv, NEW p \in Requests, CommitInstance(p)
  PROVE  Inv'
<1>. DEFINE s == [version |-> job[p].version, world |-> job[p].world,
                  binding |-> job[p].content]
<1>1. /\ job[p].at = "bound" /\ UNCHANGED <<versions, worlds>>
      /\ sessions' = [sessions EXCEPT ![p] = s]
      /\ job[p].version \in Committed /\ job[p].world = job[p].version
      /\ job[p].content = versions[job[p].version].content
  BY DEF CommitInstance, Inv, RequestsInv, Reads
<1>2. /\ s \in SessionType /\ s.version \in Committed
      /\ s.binding = versions[s.version].content /\ s.world = s.version
  BY <1>1, LocalsTyped DEF SessionType, JobType, Committed, Worlds
<1>3. PICK a \in {"ok", "error"} : Answer(p, a)
  BY DEF CommitInstance
<1>. QED BY <1>1, <1>2, <1>3, SessionKeeps

LEMMA StartPlainKeeps ==
  ASSUME Inv, NEW p \in Requests, StartPlain(p)
  PROVE  Inv'
<1>. DEFINE v == job[p].version
            s == [version |-> v, world |-> versions[v].world, binding |-> Null]
<1>1. job[p].at = "plain" /\ UNCHANGED <<versions, worlds>> /\ v \in Committed
  BY DEF StartPlain, Inv, RequestsInv, Reads
<1>2. CASE Answer(p, "refused") /\ UNCHANGED sessions
  BY <1>1, <1>2, PlainAnswerKeeps DEF tables
<1>3. CASE /\ versions[v].world # Null /\ Answer(p, "ok")
           /\ sessions' = [sessions EXCEPT ![p] = s]
  <2>1. v \in Requests /\ versions[v].world \in Worlds
    BY <1>1, <1>3 DEF Inv, TypeOK, Committed, VersionType
  <2>2. s \in SessionType /\ s.version = v /\ s.binding = Null
    BY <2>1 DEF SessionType
  <2>. QED BY <1>1, <1>3, <2>2, SessionKeeps
<1>. QED BY <1>1, <1>2, <1>3 DEF StartPlain

\* The version and its world appear together.
LEMMA CommitPublicationKeeps ==
  ASSUME Inv, NEW p \in Requests, CommitPublication(p)
  PROVE  Inv'
<1>. DEFINE k == job[p].key
            c == job[p].content
            row == [key |-> k, status |-> "published", world |-> p, content |-> c]
            world == [code |-> k, version |-> p, profile |-> c, templates |-> c]
<1>1. /\ job[p].at = "inserted" /\ UNCHANGED sessions
      /\ k \in Keys /\ k # Null /\ c \in Contents /\ c # Null /\ Holders(k) = {}
      /\ versions[p] = Null /\ worlds[p] = Null /\ sessions[p] = Null
      /\ versions' = [versions EXCEPT ![p] = row] /\ worlds' = [worlds EXCEPT ![p] = world]
  BY LocalsTyped DEF CommitPublication, Materialize, JobType, Inv, RequestsInv, Reads, Unborn,
                     KeysHeld, Publication
<1>2. /\ row \in VersionType /\ row.key = k /\ row.content = c /\ row.world = p
      /\ row.status = "published"
  BY <1>1 DEF VersionType, Worlds
<1>3. world \in WorldType /\ world.version = p
  BY <1>1 DEF WorldType
<1>4. PICK a \in {"created", "error"}, j \in JobType :
           /\ Becomes(p, j) /\ j.at = "done" /\ j.answer = a
           /\ j.key = k /\ j.content = c
           /\ a = "created" => j.version = p /\ j.world = p
  <2>1. CASE Becomes(p, [job[p] EXCEPT !.at = "done", !.version = p, !.world = p,
                                       !.answer = "created"])
    <3>. DEFINE j == [job[p] EXCEPT !.at = "done", !.version = p, !.world = p,
                                    !.answer = "created"]
    <3>1. /\ j \in JobType /\ j.at = "done" /\ j.answer = "created"
          /\ j.key = k /\ j.content = c /\ j.version = p /\ j.world = p
      BY LocalsTyped DEF JobType, Places, Answers, Worlds
    <3>. QED BY <2>1, <3>1
  <2>2. CASE Answer(p, "error")
    <3>. DEFINE j == [job[p] EXCEPT !.at = "done", !.answer = "error"]
    <3>1. /\ j \in JobType /\ j.at = "done" /\ j.answer = "error"
          /\ j.key = k /\ j.content = c
      BY LocalsTyped DEF JobType, Places, Answers
    <3>. QED BY <2>2, <3>1 DEF Answer
  <2>. QED BY <2>1, <2>2 DEF CommitPublication
<1>. HIDE DEF row, world
<1>5. /\ versions' \in [Requests -> VersionType \cup {Null}] /\ versions'[p] = row
      /\ \A v \in Committed : v # p /\ versions'[v] = versions[v]
      /\ Committed' = Committed \cup {p}
      /\ RowsStay
      /\ \A x : Holders(x)' = Holders(x) \cup (IF row.key = x THEN {p} ELSE {})
  <2>1. /\ TypeOK /\ versions[p] = Null /\ row \in VersionType
        /\ versions' = [versions EXCEPT ![p] = row]
    BY <1>1, <1>2 DEF Inv
  <2>. QED BY <2>1, NewRow
<1>6. /\ worlds' \in [Worlds -> WorldType \cup {Null}] /\ worlds'[p] = world
      /\ \A w \in Worlds \ {p} : worlds'[w] = worlds[w]
  BY <1>1, <1>3 DEF Inv, TypeOK, Worlds
<1>7. job'[p] = j /\ job' \in [Requests -> JobType]
  BY <1>4, LocalStep DEF Inv
<1>8. TypeOK'
  BY <1>1, <1>5, <1>6, <1>7 DEF Inv, TypeOK
<1>9. Materialized'
  <2>1. ASSUME NEW v \in Committed, versions[v].content # Null
        PROVE  (/\ versions[v].status = "published" /\ versions[v].world = v
                /\ worlds[v] = WorldOf(v))'
    BY <1>5, <1>6, <2>1 DEF Inv, RowsInv, Materialized, WorldOf, Committed, Worlds
  <2>2. (/\ versions[p].status = "published" /\ versions[p].world = p
         /\ worlds[p] = WorldOf(p))'
    BY <1>2, <1>5, <1>6 DEF WorldOf, world
  <2>. QED BY <1>5, <2>1, <2>2 DEF Materialized
<1>10. Origins'
  <2>1. \A w \in LegacyWorlds : worlds'[w] # Null /\ worlds'[w].code = Null
    BY <1>6, ContentConstants DEF Inv, RowsInv, Origins, Worlds
  <2>2. \A w \in Requests : worlds'[w] # Null => w \in Committed' /\ versions'[w].content # Null
    <3>1. ASSUME NEW w \in Requests \ {p}, worlds'[w] # Null
          PROVE  w \in Committed /\ versions[w].content # Null
      BY <1>6, <3>1 DEF Inv, RowsInv, Origins, Worlds
    <3>2. p \in Committed' /\ versions'[p].content # Null
      BY <1>1, <1>2, <1>5
    <3>. QED BY <1>5, <3>1, <3>2
  <2>3. ASSUME NEW w \in Existing', worlds'[w].version # Null
        PROVE  worlds'[w].version \in Committed'
    <3>1. CASE w = p
      BY <1>3, <1>5, <1>6, <3>1
    <3>2. CASE w # p
      <4>1. w \in Existing /\ worlds'[w] = worlds[w]
        BY <1>6, <2>3, <3>2 DEF Existing
      <4>. QED BY <1>5, <2>3, <4>1 DEF Inv, RowsInv, Origins
    <3>. QED BY <3>1, <3>2
  <2>. QED BY <2>1, <2>2, <2>3 DEF Origins
<1>11. KeysUnique'
  BY <1>1, <1>2, <1>5 DEF Inv, RowsInv, KeysUnique, Holders
<1>12. \A q \in Requests \ {p}, x \in Keys :
         job[q].at = "inserted" /\ job[q].key = x => Holders(x)' = {}
  BY <1>1, <1>2, <1>5 DEF Inv, KeysHeld
<1>13. Told(p)'
  <2>1. a = "created" => (job[p].version \in Holders(job[p].key))'
    BY <1>2, <1>4, <1>5, <1>7 DEF Holders
  <2>. QED BY <1>1, <1>2, <1>4, <1>5, <1>7, <2>1 DEF Told
<1>14. Refused(p)' /\ Bound(p)'
  BY <1>1, <1>4, <1>7 DEF Refused, Bound, PlayOf
<1>15. \A q \in Requests \ {p} : /\ versions[q] = Null => versions'[q] = Null
                                 /\ worlds[q] = Null => worlds'[q] = Null
                                 /\ sessions'[q] = sessions[q]
  BY <1>1, <1>6 DEF Worlds
<1>. QED BY <1>1, <1>4, <1>5, <1>8, <1>9, <1>10, <1>11, <1>12, <1>13, <1>14, <1>15, WritingKeeps
        DEF RowsInv

-----------------------------------------------------------------------------
(* The invariant.                                                          *)
LEMMA InitEstablishes ==
  ASSUME Init
  PROVE  Inv
<1>. DEFINE w0 == [code |-> Null, version |-> Null, profile |-> Null, templates |-> Null]
            j0 == [at |-> "new", key |-> Null, content |-> Null,
                   version |-> Null, world |-> Null, answer |-> Null]
<1>1. w0 \in WorldType /\ w0.code = Null /\ w0.version = Null
  BY DEF WorldType
<1>2. j0 \in JobType /\ j0.at = "new" /\ j0.answer = Null
  BY DEF JobType, Places
<1>3. /\ worlds = [w \in Worlds |-> IF w \in LegacyWorlds THEN w0 ELSE Null]
      /\ job = [p \in Requests |-> j0]
      /\ versions = [v \in Requests |-> Null] /\ sessions = [s \in Requests |-> Null]
  BY DEF Init
<1>. HIDE DEF w0, j0
<1>4. w0 # Null
  BY <1>1, ContentConstants
<1>5. TypeOK
  BY <1>1, <1>2, <1>3 DEF TypeOK
<1>6. Committed = {} /\ \A k : Holders(k) = {}
  BY <1>3 DEF Committed, Holders
<1>7. Origins
  BY <1>1, <1>3, <1>4, ContentConstants DEF Origins, Existing, Worlds
<1>8. RowsInv /\ KeysHeld
  BY <1>2, <1>3, <1>6, <1>7 DEF RowsInv, Materialized, KeysUnique, KeysHeld
<1>9. ASSUME NEW p \in Requests
      PROVE  Reads(p) /\ Unborn(p) /\ Told(p) /\ Refused(p) /\ Bound(p)
  <2>1. /\ job[p].at = "new" /\ job[p].answer = Null
        /\ versions[p] = Null /\ worlds[p] = Null /\ sessions[p] = Null
    BY <1>2, <1>3, ContentConstants DEF Worlds
  <2>. QED BY <2>1, ContentConstants
           DEF Reads, Publication, Unborn, Told, Refused, Bound, PlayOf, Answers
<1>. QED BY <1>5, <1>8, <1>9 DEF Inv, RequestsInv

LEMMA StepKeeps ==
  ASSUME Inv, [Next]_vars
  PROVE  Inv'
<1>1. ASSUME NEW p \in Requests, Publishing(p)
      PROVE  Inv'
  BY <1>1, LookUpKeeps, CompareKeeps, CheckCodeKeeps, InsertVersionKeeps, RecoverKeeps,
     CommitPublicationKeeps DEF Publishing
<1>2. ASSUME NEW p \in Requests, Administering(p)
      PROVE  Inv'
  BY <1>2, LookUpDraftKeeps, InsertDraftKeeps, ReadDraftKeeps, PublishDraftKeeps,
     GuardWorldKeeps, EditWorldKeeps DEF Administering
<1>3. ASSUME NEW p \in Requests, Starting(p)
      PROVE  Inv'
  BY <1>3, ChoosingKeeps, CheckBindingKeeps, CommitInstanceKeeps, StartPlainKeeps DEF Starting
<1>4. ASSUME NEW p \in Requests, Fail(p)
      PROVE  Inv'
  BY <1>4, PlainAnswerKeeps DEF Fail
<1>5. CASE UNCHANGED vars
  BY <1>5 DEF vars, Inv, TypeOK, RowsInv, Materialized, WorldOf, Origins, KeysUnique, KeysHeld,
              RequestsInv, Reads, Unborn, Told, Refused, Bound, PlayOf, Holders, Committed, Existing
<1>. QED BY <1>1, <1>2, <1>3, <1>4, <1>5 DEF Next

LEMMA InvAlways == Spec => []Inv
<1>1. Init => Inv
  BY InitEstablishes
<1>2. Inv /\ [Next]_vars => Inv'
  BY StepKeeps
<1>. QED BY <1>1, <1>2, PTL DEF Spec

-----------------------------------------------------------------------------
(* The theorems.                                                           *)

\* Every row and every request's locals keep their shape, whatever the schedule.
THEOREM RowsAreTyped == Spec => []TypeOK
<1>1. Inv => TypeOK
  BY DEF Inv
<1>. QED BY <1>1, InvAlways, PTL

\* Who was told that a version is published, as its creator or as a second one with the
\* same content, was told the truth for ever: nobody takes the version, its content or
\* the templates of its world away again.
THEOREM AnswersHold == Spec => []AnswersStayTrue
<1>1. Inv => AnswersStayTrue
  <2>. SUFFICES ASSUME Inv, NEW p \in Requests, job[p].answer \in {"created", "existing"}
                PROVE  LET v == job[p].version
                           w == job[p].world
                       IN /\ v \in Holders(job[p].key)
                          /\ versions[v].world = w
                          /\ versions[v].status = "published"
                          /\ versions[v].content = job[p].content
                          /\ worlds[w].version = v
                          /\ worlds[w].profile = job[p].content
                          /\ worlds[w].templates = job[p].content
    BY DEF AnswersStayTrue
  <2>. DEFINE v == job[p].version
  <2>1. /\ v \in Holders(job[p].key) /\ job[p].content # Null
        /\ versions[v].content = job[p].content /\ job[p].world = versions[v].world
    BY DEF Inv, RequestsInv, Told
  <2>2. /\ versions[v].status = "published" /\ versions[v].world = v
        /\ worlds[v] = WorldOf(v)
    BY <2>1 DEF Inv, RowsInv, Materialized, Holders
  <2>3. /\ worlds[v].version = v /\ worlds[v].profile = versions[v].content
        /\ worlds[v].templates = versions[v].content
    BY <2>2 DEF WorldOf
  <2>. QED BY <2>1, <2>2, <2>3
<1>. QED BY <1>1, InvAlways, PTL

\* A publication is refused for a reason that is there and stays: other content under its
\* version, or a world with its code and then the published version too.
THEOREM RefusalsHold == Spec => []RefusalsHaveCause
<1>1. Inv => RefusalsHaveCause
  BY DEF Inv, RowsInv, Materialized, RequestsInv, Refused, RefusalsHaveCause, Holders
<1>. QED BY <1>1, InvAlways, PTL

\* A session that was bound to a pack finds all it was bound to at every later turn.
THEOREM SessionsStayReadable == Spec => []BoundSessionsStayReadable
<1>1. Inv => BoundSessionsStayReadable
  <2>. SUFFICES ASSUME Inv, NEW s \in Requests, PlayOf(s) # Null
                PROVE  Readable(s)
    BY DEF BoundSessionsStayReadable
  <2>. DEFINE v == sessions[s].version
  <2>1. /\ v \in Committed /\ sessions[s].binding = versions[v].content
        /\ sessions[s].world = v
    BY DEF Inv, RequestsInv, Bound
  <2>2. sessions[s].binding # Null
    BY DEF PlayOf
  <2>3. /\ versions[v].status = "published" /\ versions[v].world = v
        /\ worlds[v] = WorldOf(v)
    BY <2>1, <2>2 DEF Inv, RowsInv, Materialized
  <2>4. WorldOf(v) \in WorldType
    BY <2>1, <2>2 DEF Inv, TypeOK, Committed, VersionType, WorldType, WorldOf
  <2>5. worlds[v] # Null
    BY <2>3, <2>4, ContentConstants
  <2>6. /\ worlds[v].version = v /\ worlds[v].profile = versions[v].content
        /\ worlds[v].templates = versions[v].content
    BY <2>3 DEF WorldOf
  <2>. QED BY <2>1, <2>2, <2>3, <2>5, <2>6 DEF Readable, Committed
<1>. QED BY <1>1, InvAlways, PTL

-----------------------------------------------------------------------------
(* The refinement.                                                         *)

\* What is listed is what has content, and a key lists one version at most.
ShelvesRight ==
  \A k \in Keys :
    /\ Listed(k) = {v \in Holders(k) : versions[v].content # Null}
    /\ Listed(k) = {} => ShelfOf(k) = Null
    /\ \A v \in Listed(k) : /\ ShelfOf(k) = [version |-> v, content |-> versions[v].content,
                                             shown |-> worlds[v]]
                            /\ ShelfOf(k) \in EntryType

LEMMA ShelfIs == Inv => ShelvesRight
<1>. SUFFICES ASSUME Inv, NEW k \in Keys
              PROVE  /\ Listed(k) = {v \in Holders(k) : versions[v].content # Null}
                     /\ Listed(k) = {} => ShelfOf(k) = Null
                     /\ \A v \in Listed(k) :
                          /\ ShelfOf(k) = [version |-> v, content |-> versions[v].content,
                                           shown |-> worlds[v]]
                          /\ ShelfOf(k) \in EntryType
  BY DEF ShelvesRight
<1>1. Listed(k) = {v \in Holders(k) : versions[v].content # Null}
  BY DEF Inv, RowsInv, Materialized, Listed, Published, Holders
<1>2. Listed(k) = {} => ShelfOf(k) = Null
  BY DEF ShelfOf
<1>3. ASSUME NEW v \in Listed(k)
      PROVE  /\ ShelfOf(k) = [version |-> v, content |-> versions[v].content,
                              shown |-> worlds[v]]
             /\ ShelfOf(k) \in EntryType
  <2>1. \A u \in Listed(k) : u = v
    BY DEF Listed, Holders, Inv, RowsInv, KeysUnique
  <2>2. (CHOOSE u \in Listed(k) : TRUE) = v
    BY <2>1
  <2>3. ShelfOf(k) = EntryOf(v)
    BY <2>2 DEF ShelfOf
  <2>4. v \in Committed /\ versions[v].content # Null
    BY DEF Listed, Holders, Published
  <2>5. versions[v].world = v /\ worlds[v] = WorldOf(v)
    BY <2>4 DEF Inv, RowsInv, Materialized
  <2>6. WorldOf(v) \in WorldType /\ versions[v].content \in Contents /\ v \in Requests
    BY <2>4 DEF Inv, TypeOK, Committed, VersionType, WorldType, WorldOf
  <2>. QED BY <2>3, <2>5, <2>6 DEF EntryOf, EntryType
<1>. QED BY <1>1, <1>2, <1>3

\* The catalog stays when no content is added and no world of a version is touched.
LEMMA ShelvesStay ==
  ASSUME Inv, Inv', RowsStay,
         \A v \in Committed' : v \in Committed \/ versions'[v].content = Null,
         \A v \in Requests : worlds'[v] = worlds[v]
  PROVE  Shelves' = Shelves
<1>1. ShelvesRight /\ ShelvesRight'
  BY ShelfIs, PTL
<1>2. ASSUME NEW k \in Keys
      PROVE  ShelfOf(k)' = ShelfOf(k)
  <2>1. /\ Listed(k) = {v \in Holders(k) : versions[v].content # Null}
        /\ Listed(k)' = {v \in Holders(k)' : versions'[v].content # Null}
    BY <1>1 DEF ShelvesRight
  <2>2. Listed(k)' = Listed(k)
    BY <2>1 DEF RowsStay, Holders
  <2>3. ASSUME NEW v \in Listed(k)
        PROVE  ShelfOf(k)' = ShelfOf(k)
    <3>1. v \in Committed /\ v \in Requests
      BY DEF Listed, Holders, Committed
    <3>. QED BY <1>1, <2>2, <3>1 DEF ShelvesRight, RowsStay
  <2>. QED BY <1>1, <2>2, <2>3 DEF ShelvesRight
<1>. QED BY <1>2 DEF Shelves

LEMMA QuietStep ==
  ASSUME Inv, Inv', [Next]_vars,
         \A p \in Requests : ~CommitPublication(p) /\ ~CommitInstance(p)
  PROVE  UNCHANGED <<Shelves, Plays>>
<1>1. CASE UNCHANGED tables
  <2>1. RowsStay /\ Committed' = Committed
    BY <1>1 DEF tables, RowsStay, Committed
  <2>2. Shelves' = Shelves
    BY <1>1, <2>1, ShelvesStay DEF tables
  <2>3. Plays' = Plays
    BY <1>1 DEF tables, Plays, PlayOf
  <2>. QED BY <2>2, <2>3
<1>2. ASSUME NEW p \in Requests, InsertDraft(p)
      PROVE  UNCHANGED <<Shelves, Plays>>
  <2>1. CASE UNCHANGED versions
    BY <1>1, <1>2, <2>1 DEF InsertDraft, tables
  <2>2. CASE versions' = [versions EXCEPT ![p] = [key |-> job[p].key, status |-> "draft",
                                                  world |-> job[p].world, content |-> Null]]
    <3>. DEFINE row == [key |-> job[p].key, status |-> "draft",
                        world |-> job[p].world, content |-> Null]
    <3>1. /\ job[p].at = "unclaimed" /\ job[p].key # Null /\ UNCHANGED <<worlds, sessions>>
      BY <1>2 DEF InsertDraft, Inv, RequestsInv, Reads
    <3>2. row \in VersionType /\ row.content = Null
      BY <3>1, LocalsTyped DEF VersionType, JobType
    <3>3. versions[p] = Null /\ TypeOK /\ versions' = [versions EXCEPT ![p] = row]
      BY <2>2, <3>1 DEF Inv, RequestsInv, Unborn
    <3>. HIDE DEF row
    <3>4. RowsStay /\ Committed' = Committed \cup {p} /\ versions'[p] = row
      BY <3>2, <3>3, NewRow
    <3>5. Shelves' = Shelves
      BY <3>1, <3>2, <3>4, ShelvesStay
    <3>6. Plays' = Plays
      BY <3>1 DEF Plays, PlayOf
    <3>. QED BY <3>5, <3>6
  <2>. QED BY <1>2, <2>1, <2>2 DEF InsertDraft
<1>3. ASSUME NEW p \in Requests, PublishDraft(p)
      PROVE  UNCHANGED <<Shelves, Plays>>
  <2>. DEFINE d == job[p].version
  <2>1. /\ UNCHANGED <<worlds, sessions>> /\ d \in Requests /\ versions[d] \in VersionType
        /\ versions' = [versions EXCEPT ![d].status = "published"]
    BY <1>3 DEF PublishDraft, Inv, TypeOK, RequestsInv, Reads, Committed
  <2>2. /\ \A v \in Requests \ {d} : versions'[v] = versions[v]
        /\ versions'[d] = [versions[d] EXCEPT !.status = "published"]
    BY <2>1 DEF Inv, TypeOK
  <2>3. /\ versions'[d].key = versions[d].key /\ versions'[d].world = versions[d].world
        /\ versions'[d].content = versions[d].content /\ versions'[d] \in VersionType
    BY <2>1, <2>2 DEF VersionType
  <2>4. d \in Committed /\ Committed' = Committed
    BY <1>3, <2>2, <2>3, ContentConstants DEF PublishDraft, Inv, RequestsInv, Reads, Committed
  <2>5. RowsStay
    BY <2>2, <2>3, <2>4 DEF RowsStay, Committed
  <2>6. Shelves' = Shelves
    BY <2>1, <2>4, <2>5, ShelvesStay
  <2>7. Plays' = Plays
    BY <2>1 DEF Plays, PlayOf
  <2>. QED BY <2>6, <2>7
<1>4. ASSUME NEW p \in Requests, EditWorld(p)
      PROVE  UNCHANGED <<Shelves, Plays>>
  <2>. DEFINE w == job[p].world
  <2>1. /\ UNCHANGED <<versions, sessions>> /\ w \in LegacyWorlds
    BY <1>4 DEF EditWorld, Inv, RequestsInv, Reads
  <2>2. \A v \in Requests : worlds'[v] = worlds[v]
    BY <1>4, <2>1, ContentConstants DEF EditWorld, Inv, TypeOK, Worlds
  <2>3. RowsStay /\ Committed' = Committed
    BY <2>1 DEF RowsStay, Committed
  <2>4. Shelves' = Shelves
    BY <2>2, <2>3, ShelvesStay
  <2>5. Plays' = Plays
    BY <2>1 DEF Plays, PlayOf
  <2>. QED BY <2>4, <2>5
<1>5. ASSUME NEW p \in Requests, StartPlain(p)
      PROVE  UNCHANGED <<Shelves, Plays>>
  <2>1. CASE UNCHANGED sessions
    BY <1>1, <1>5, <2>1 DEF StartPlain, tables
  <2>2. CASE \E w : sessions' = [sessions EXCEPT ![p] = [version |-> job[p].version,
                                                        world |-> w, binding |-> Null]]
    <3>1. PICK w : sessions' = [sessions EXCEPT ![p] = [version |-> job[p].version,
                                                       world |-> w, binding |-> Null]]
      BY <2>2
    <3>2. sessions[p] = Null /\ UNCHANGED <<versions, worlds>>
      BY <1>5 DEF StartPlain, Inv, RequestsInv, Unborn
    <3>3. /\ sessions'[p].binding = Null
          /\ \A s \in Requests \ {p} : sessions'[s] = sessions[s]
      BY <3>1 DEF Inv, TypeOK
    <3>4. Plays' = Plays
      BY <3>2, <3>3 DEF Plays, PlayOf
    <3>5. RowsStay /\ Committed' = Committed
      BY <3>2 DEF RowsStay, Committed
    <3>6. Shelves' = Shelves
      BY <3>2, <3>5, ShelvesStay
    <3>. QED BY <3>4, <3>6
  <2>. QED BY <1>5, <2>1, <2>2 DEF StartPlain
<1>6. UNCHANGED vars => UNCHANGED tables
  BY DEF vars, tables
<1>7. \A p \in Requests : Publishing(p) => UNCHANGED tables
  BY DEF Publishing, LookUp, Compare, CheckCode, InsertVersion, Recover
<1>8. \A p \in Requests : Administering(p) =>
        InsertDraft(p) \/ PublishDraft(p) \/ EditWorld(p) \/ UNCHANGED tables
  BY DEF Administering, LookUpDraft, ReadDraft, GuardWorld
<1>9. \A p \in Requests : Starting(p) => StartPlain(p) \/ UNCHANGED tables
  BY DEF Starting, Choose, ChoosePlain, ChooseWorld, CheckBinding
<1>10. \A p \in Requests : Fail(p) => UNCHANGED tables
  BY DEF Fail
<1>. QED BY <1>1, <1>2, <1>3, <1>4, <1>5, <1>6, <1>7, <1>8, <1>9, <1>10 DEF Next

\* The commit of a publication makes the entry of its key, and of no other.
LEMMA PublishStep ==
  ASSUME Inv, Inv', NEW p \in Requests, CommitPublication(p)
  PROVE  \E k \in Keys : Catalog!Publish(k)
<1>1. PICK k \in Keys, c \in Contents \ {Null} :
        /\ job[p].key = k /\ job[p].content = c /\ Holders(k) = {}
  BY LocalsTyped DEF CommitPublication, Inv, RequestsInv, Reads, Publication, KeysHeld, JobType
<1>. DEFINE row == [key |-> k, status |-> "published", world |-> p, content |-> c]
<1>2. row \in VersionType /\ row.key = k /\ row.content = c
  BY DEF VersionType, Worlds
<1>3. /\ UNCHANGED sessions /\ TypeOK /\ versions[p] = Null
      /\ versions' = [versions EXCEPT ![p] = row]
      /\ \A w \in Requests \ {p} : worlds'[w] = worlds[w]
  BY <1>1 DEF CommitPublication, Materialize, Inv, RequestsInv, Unborn, TypeOK
<1>. HIDE DEF row
<1>4. /\ versions'[p] = row
      /\ \A v \in Committed : v # p /\ versions'[v] = versions[v]
      /\ Committed' = Committed \cup {p}
      /\ \A x : Holders(x)' = Holders(x) \cup (IF row.key = x THEN {p} ELSE {})
  BY <1>2, <1>3, NewRow
<1>5. ShelvesRight /\ ShelvesRight'
  BY ShelfIs, PTL
<1>6. \A x \in Keys : /\ Listed(x) = {v \in Holders(x) : versions[v].content # Null}
                      /\ Listed(x)' = {v \in Holders(x)' : versions'[v].content # Null}
  BY <1>5 DEF ShelvesRight
<1>7. ShelfOf(k) = Null
  BY <1>1, <1>5, <1>6 DEF ShelvesRight
<1>8. ShelfOf(k)' \in EntryType
  <2>1. p \in Listed(k)'
    BY <1>2, <1>4, <1>6
  <2>. QED BY <1>5, <2>1 DEF ShelvesRight
<1>9. ASSUME NEW x \in Keys \ {k}
      PROVE  ShelfOf(x)' = ShelfOf(x)
  <2>1. Holders(x)' = Holders(x) /\ \A v \in Holders(x) : v \in Committed /\ v # p
    BY <1>2, <1>4 DEF Holders
  <2>2. Listed(x)' = Listed(x)
    <3>1. /\ Listed(x) = {v \in Holders(x) : versions[v].content # Null}
          /\ Listed(x)' = {v \in Holders(x)' : versions'[v].content # Null}
      BY <1>6
    <3>. QED BY <1>4, <2>1, <3>1
  <2>3. ASSUME NEW v \in Listed(x)
        PROVE  ShelfOf(x)' = ShelfOf(x)
    <3>1. v \in Committed /\ v \in Requests \ {p}
      BY <2>1, <1>6 DEF Committed
    <3>. QED BY <1>3, <1>4, <1>5, <2>2, <3>1 DEF ShelvesRight
  <2>. QED BY <1>5, <2>2, <2>3 DEF ShelvesRight
<1>10. Shelves' = [Shelves EXCEPT ![k] = Shelves'[k]]
  BY <1>9 DEF Shelves
<1>11. Plays' = Plays
  BY <1>3 DEF Plays, PlayOf
<1>12. Shelves[k] = Null /\ Shelves'[k] \in EntryType
  BY <1>7, <1>8 DEF Shelves
<1>. QED BY <1>10, <1>11, <1>12 DEF Catalog!Publish

\* A bound session begins to play what the catalog holds.
LEMMA BeginStep ==
  ASSUME Inv, Inv', NEW p \in Requests, CommitInstance(p)
  PROVE  \E k \in Keys : Catalog!Begin(p, k)
<1>. DEFINE v == job[p].version
            c == job[p].content
            k == versions[v].key
<1>1. /\ UNCHANGED <<versions, worlds>> /\ v \in Committed
      /\ c = versions[v].content /\ c # Null /\ sessions[p] = Null
      /\ sessions' = [sessions EXCEPT ![p] = [version |-> v, world |-> job[p].world,
                                              binding |-> c]]
  BY DEF CommitInstance, Inv, RequestsInv, Reads, Unborn
<1>2. k \in Keys
  BY <1>1 DEF Inv, TypeOK, Committed, VersionType
<1>3. v \in Listed(k)
  BY <1>1, <1>2, ShelfIs DEF ShelvesRight, Holders
<1>4. ShelfOf(k) = [version |-> v, content |-> c, shown |-> worlds[v]] /\ ShelfOf(k) \in EntryType
  BY <1>1, <1>2, <1>3, ShelfIs DEF ShelvesRight
<1>5. Shelves[k].version = v /\ Shelves[k].content = c /\ Shelves[k] # Null
  BY <1>2, <1>4, ContentConstants DEF Shelves
<1>6. Shelves' = Shelves
  <2>1. RowsStay /\ Committed' = Committed
    BY <1>1 DEF RowsStay, Committed
  <2>. QED BY <1>1, <2>1, ShelvesStay
<1>7. PlayOf(p) = Null
  BY <1>1 DEF PlayOf
<1>8. /\ sessions'[p] = [version |-> v, world |-> job[p].world, binding |-> c]
      /\ \A s \in Requests \ {p} : sessions'[s] = sessions[s]
  BY <1>1 DEF Inv, TypeOK
<1>9. sessions'[p] # Null
  <2>1. [version |-> v, world |-> job[p].world, binding |-> c] \in SessionType
    BY <1>1, LocalsTyped DEF CommitInstance, Inv, RequestsInv, Reads, SessionType, JobType, Committed,
                             Worlds
  <2>. QED BY <1>8, <2>1, ContentConstants
<1>10. PlayOf(p)' = [version |-> v, content |-> c]
  BY <1>1, <1>8, <1>9 DEF PlayOf
<1>11. \A s \in Requests \ {p} : PlayOf(s)' = PlayOf(s)
  BY <1>8 DEF PlayOf
<1>12. /\ Plays' = [Plays EXCEPT ![p] = [version |-> v, content |-> c]]
       /\ Plays[p] = Null
  BY <1>7, <1>10, <1>11 DEF Plays
<1>. QED BY <1>2, <1>5, <1>6, <1>12 DEF Catalog!Begin

\* Publication and binding, step by step and for any number of requests, are a catalog
\* that only grows and plays that are tied to it.
THEOREM PublicationIsACatalog == Spec => ImplementsCatalog
<1>1. Init => Catalog!Init
  <2>. SUFFICES ASSUME Init PROVE Catalog!Init
    OBVIOUS
  <2>1. \A k : Holders(k) = {}
    BY DEF Init, Holders, Committed
  <2>2. \A k \in Keys : ShelfOf(k) = Null
    BY <2>1 DEF ShelfOf, Listed
  <2>3. \A s \in Requests : PlayOf(s) = Null
    BY DEF Init, PlayOf
  <2>. QED BY <2>2, <2>3 DEF Catalog!Init, Shelves, Plays
<1>2. Inv /\ Inv' /\ [Next]_vars => [Catalog!Next]_<<Shelves, Plays>>
  <2>. SUFFICES ASSUME Inv, Inv', [Next]_vars
                PROVE  [Catalog!Next]_<<Shelves, Plays>>
    OBVIOUS
  <2>1. CASE \E p \in Requests : CommitPublication(p)
    BY <2>1, PublishStep DEF Catalog!Next
  <2>2. CASE \E p \in Requests : CommitInstance(p)
    BY <2>2, BeginStep DEF Catalog!Next
  <2>3. CASE \A p \in Requests : ~CommitPublication(p) /\ ~CommitInstance(p)
    BY <2>3, QuietStep
  <2>. QED BY <2>1, <2>2, <2>3
<1>. QED BY <1>1, <1>2, InvAlways, PTL DEF Spec, ImplementsCatalog, Catalog!Spec
=============================================================================
