---------------------------- MODULE ContentPublish ----------------------------
(***************************************************************************)
(* Publication of content packs and the binding of playthroughs to them.   *)
(*                                                                         *)
(* A publication (publish_content_pack_version) writes a story package     *)
(* version with its compiled bundle and, in the same transaction, a world  *)
(* of its own with the bundle's templates.  Two publications of one        *)
(* version race: the unique key (story_package_id, version) arbitrates and *)
(* the loser recovers from the IntegrityError.  Around it work the older   *)
(* ways to make a version (a draft, published later), the administration's *)
(* edits of worlds and templates, whose guard reads first and writes later,*)
(* and the players who start to play a version.                            *)
(*                                                                         *)
(* Each request runs one operation, a transaction on PostgreSQL under READ *)
(* COMMITTED: its statements are steps, what it has written is visible     *)
(* from its commit on.  A row is named by the request that inserts it      *)
(* (generate_uuid).  A content stands for a bundle and its runtime hash:   *)
(* both columns are written together, here and nowhere else.  The lock of  *)
(* an existing version row is left out: those who wait for it only read.   *)
(***************************************************************************)
CONSTANTS Requests,      \* HTTP requests, each with its own transaction
          Keys,          \* pairs (story_package_id, version)
          Contents,      \* what a pack compiles to
          LegacyWorlds,  \* worlds that were there before
          Null           \* a column that is NULL

\* what a request is answered
Answers == {"created", "existing", "conflict", "already_bound", "mismatch",
            "refused", "ok", "error"}

VARIABLES
  versions,  \* table story_package_versions, by the request that inserted the row
  worlds,    \* table worlds, with the templates of each world
  sessions,  \* sessions and their playthrough instances
  job        \* where each request is, and its locals

vars == <<versions, worlds, sessions, job>>

-----------------------------------------------------------------------------
Worlds == LegacyWorlds \cup Requests

\* content is runtime_bundle_json with its runtime_hash
VersionType == [key : Keys, status : {"draft", "published"},
                world : Worlds \cup {Null}, content : Contents \cup {Null}]

\* code names a key only in the publisher's worlds, profile is the runtime hash in
\* ruleset_json.content_profile, templates what the template rows were made from
WorldType == [code : Keys \cup {Null}, version : Requests \cup {Null},
              profile : Contents \cup {Null}, templates : Contents \cup {Null}]

\* binding is the runtime hash in config_json.__content_binding
SessionType == [version : Requests, world : Worlds, binding : Contents \cup {Null}]

\* what a session is bound to, and what the catalog shows of a published version
PlayType == [version : Requests, content : Contents]
EntryType == [version : Requests, content : Contents, shown : WorldType]

\* worlds get ids of their own, and NULL is neither a name nor a row
ASSUME ContentConstants ==
  /\ Requests \cap LegacyWorlds = {}
  /\ Null \notin Requests \cup Keys \cup Contents \cup LegacyWorlds \cup Answers
  /\ Null \notin VersionType \cup WorldType \cup SessionType
  /\ Null \notin PlayType \cup EntryType

Publication == {"missing", "clear", "inserted", "duplicate", "found"}
Drafting == {"unclaimed", "draft"}
Playing == {"factory", "bound", "plain"}
Places == {"new", "editable", "done"} \cup Publication \cup Drafting \cup Playing

JobType == [at : Places, key : Keys \cup {Null}, content : Contents \cup {Null},
            version : Requests \cup {Null}, world : Worlds \cup {Null},
            answer : Answers \cup {Null}]

-----------------------------------------------------------------------------
(* What a statement reads.                                                 *)
Committed == {v \in Requests : versions[v] # Null}
Existing == {w \in Worlds : worlds[w] # Null}

\* the rows of a key: SELECT ... WHERE story_package_id = ... AND version = ...
Holders(k) == {v \in Committed : versions[v].key = k}

\* the worlds that name a version
BoundWorlds(v) == {w \in Existing : worlds[w].version = v}

\* the version and its world name each other, and no other world names it
BoundBothWays(v) ==
  /\ BoundWorlds(v) = {versions[v].world}
  /\ worlds[versions[v].world].profile = versions[v].content

\* assert_world_content_mutable: by the binding of the world, not of the version
Frozen(w) ==
  /\ worlds[w].version # Null
  /\ versions[worlds[w].version].status = "published"

\* another transaction has inserted this key and not yet ended
KeyLocked(k) == \E q \in Requests : job[q].at = "inserted" /\ job[q].key = k

\* the locals of a request after its step
Becomes(p, locals) == job' = [job EXCEPT ![p] = locals]
To(p, place) == Becomes(p, [job[p] EXCEPT !.at = place])
Answer(p, a) == Becomes(p, [job[p] EXCEPT !.at = "done", !.answer = a])

tables == <<versions, worlds, sessions>>

-----------------------------------------------------------------------------
(* POST /content-packs/{id}/publish: publish_content_pack_version.         *)

\* the pack is captured and compiled, then its version looked up
LookUp(p, k, c) ==
  /\ job[p].at = "new"
  /\ \/ /\ Holders(k) = {}
        /\ Becomes(p, [job[p] EXCEPT !.at = "missing", !.key = k, !.content = c])
     \/ \E v \in Holders(k) :
          Becomes(p, [job[p] EXCEPT !.at = "found", !.key = k, !.content = c, !.version = v])
  /\ UNCHANGED tables

\* mutant: the stored content is not compared
Verdict_AnyContent(v, c) == IF BoundBothWays(v) THEN "existing" ELSE "mismatch"
\* a row of that version is there: same content and a sound binding, or an error
Verdict(v, c) ==
  CASE versions[v].content # c -> "conflict"
    [] versions[v].content = c /\ BoundBothWays(v) -> "existing"
    [] OTHER -> "mismatch"

Compare(p) ==
  LET v == job[p].version IN
  /\ job[p].at = "found"
  /\ Becomes(p, [job[p] EXCEPT !.at = "done", !.world = versions[v].world,
                               !.answer = Verdict(v, job[p].content)])
  /\ UNCHANGED tables

\* a world with this version's code, looked for by a later statement
CheckCode(p) ==
  /\ job[p].at = "missing"
  /\ IF \E w \in Existing : worlds[w].code = job[p].key
       THEN Answer(p, "already_bound")
       ELSE To(p, "clear")
  /\ UNCHANGED tables

\* mutant: an insert that takes the key from the row that has it
InsertVersion_Upserts(p) ==
  /\ job[p].at = "clear"
  /\ ~KeyLocked(job[p].key)
  /\ To(p, "inserted")
  /\ UNCHANGED tables

\* the flush of the version row waits for the transaction that holds the key
InsertVersion(p) ==
  /\ job[p].at = "clear"
  /\ ~KeyLocked(job[p].key)
  /\ To(p, IF Holders(job[p].key) = {} THEN "inserted" ELSE "duplicate")
  /\ UNCHANGED tables

\* mutant: every IntegrityError is a conflict
Recover_Conflicts(p) == job[p].at = "duplicate" /\ Answer(p, "conflict") /\ UNCHANGED tables

\* IntegrityError: rolled back, the winner's row is read by a new transaction
Recover(p) ==
  /\ job[p].at = "duplicate"
  /\ \E v \in Holders(job[p].key) :
       Becomes(p, [job[p] EXCEPT !.at = "found", !.version = v])
  /\ UNCHANGED tables

\* mutant: the profile carries the id of the version instead of the hash
Materialize_NamesVersion(p) ==
  /\ versions' = [versions EXCEPT ![p] = [key |-> job[p].key, status |-> "published",
                                          world |-> p, content |-> job[p].content]]
  /\ worlds' = [worlds EXCEPT ![p] = [code |-> job[p].key, version |-> p, profile |-> p,
                                      templates |-> job[p].content]]

\* the world, its templates and both bindings are flushed behind the version row, then
\* all is committed; that no other world names the row goes without saying, since
\* nobody has seen it
Materialize(p) ==
  /\ versions' = [versions EXCEPT ![p] = [key |-> job[p].key, status |-> "published",
                                          world |-> p, content |-> job[p].content]]
  /\ worlds' = [worlds EXCEPT ![p] = [code |-> job[p].key, version |-> p,
                                      profile |-> job[p].content,
                                      templates |-> job[p].content]]

\* the commit, whose acknowledgement may be lost
CommitPublication(p) ==
  /\ job[p].at = "inserted"
  /\ Materialize(p)
  /\ \/ Becomes(p, [job[p] EXCEPT !.at = "done", !.version = p, !.world = p,
                                  !.answer = "created"])
     \/ Answer(p, "error")
  /\ UNCHANGED sessions

-----------------------------------------------------------------------------
(* The older way: POST /story-package-versions and its /publish, or both   *)
(* one after the other (/content-packs/publish-as-version).                *)
LookUpDraft(p, k, w) ==
  /\ job[p].at = "new"
  /\ IF Holders(k) = {}
       THEN Becomes(p, [job[p] EXCEPT !.at = "unclaimed", !.key = k, !.world = w])
       ELSE Answer(p, "refused")
  /\ UNCHANGED tables

\* repo.create inserts and commits; an IntegrityError is not handled
InsertDraft(p) ==
  /\ job[p].at = "unclaimed"
  /\ ~KeyLocked(job[p].key)
  /\ IF Holders(job[p].key) = {}
       THEN /\ versions' = [versions EXCEPT ![p] =
                              [key |-> job[p].key, status |-> "draft",
                               world |-> job[p].world, content |-> Null]]
            /\ Answer(p, "ok")
       ELSE Answer(p, "error") /\ UNCHANGED versions
  /\ UNCHANGED <<worlds, sessions>>

ReadDraft(p, v) ==
  /\ job[p].at = "new"
  /\ IF versions[v].status = "draft"
       THEN Becomes(p, [job[p] EXCEPT !.at = "draft", !.version = v])
       ELSE Answer(p, "refused")
  /\ UNCHANGED tables

PublishDraft(p) ==
  /\ job[p].at = "draft"
  /\ versions' = [versions EXCEPT ![job[p].version].status = "published"]
  /\ Answer(p, "ok")
  /\ UNCHANGED <<worlds, sessions>>

-----------------------------------------------------------------------------
(* The administration edits a world, or a template of it.                  *)

\* mutant: the guard is left out
GuardWorld_Unchecked(p, w) ==
  /\ job[p].at = "new"
  /\ Becomes(p, [job[p] EXCEPT !.at = "editable", !.world = w])
  /\ UNCHANGED tables

GuardWorld(p, w) ==
  /\ job[p].at = "new"
  /\ IF Frozen(w)
       THEN Answer(p, "refused")
       ELSE Becomes(p, [job[p] EXCEPT !.at = "editable", !.world = w])
  /\ UNCHANGED tables

\* PATCH /worlds/{id} writes any column, PATCH of a template its own
EditWorld(p) ==
  LET w == job[p].world IN
  /\ job[p].at = "editable"
  /\ \/ \E v \in Committed \cup {Null}, c \in Contents \cup {Null} :
          worlds' = [worlds EXCEPT ![w].version = v, ![w].profile = c]
     \/ worlds' = [worlds EXCEPT ![w].templates = Null]
  /\ Answer(p, "ok")
  /\ UNCHANGED <<versions, sessions>>

-----------------------------------------------------------------------------
(* Players start to play.                                                  *)

\* POST /sessions/instantiate: the factory when it is asked for or when the world of
\* the version carries a profile; the administration's endpoint never takes it
Choose(p, v) ==
  LET w == versions[v].world
      carries == IF w = Null THEN FALSE ELSE worlds[w].profile # Null
  IN
  /\ job[p].at = "new"
  /\ \E factory \in {carries, TRUE} :
       Becomes(p, [job[p] EXCEPT !.at = IF factory THEN "factory" ELSE "plain", !.version = v])
  /\ UNCHANGED tables

ChoosePlain(p, v) ==
  /\ job[p].at = "new"
  /\ Becomes(p, [job[p] EXCEPT !.at = "plain", !.version = v])
  /\ UNCHANGED tables

\* POST /saves/manual-save into a world with a profile
ChooseWorld(p, w) ==
  LET v == worlds[w].version IN
  /\ job[p].at = "new"
  /\ worlds[w].profile # Null
  /\ IF /\ v # Null
        /\ versions[v].world = w
        /\ versions[v].status = "published"
        /\ versions[v].content # Null
       THEN Becomes(p, [job[p] EXCEPT !.at = "factory", !.version = v])
       ELSE Answer(p, "refused")
  /\ UNCHANGED tables

\* create_content_v1_instance: bundle, binding and templates are checked ...
CheckBinding(p) ==
  LET v == job[p].version IN
  /\ job[p].at = "factory"
  /\ IF /\ versions[v].content # Null
        /\ versions[v].status = "published"
        /\ BoundBothWays(v)
        /\ worlds[versions[v].world].templates = versions[v].content
       THEN Becomes(p, [job[p] EXCEPT !.at = "bound", !.world = versions[v].world,
                                      !.content = versions[v].content])
       ELSE Answer(p, "refused")
  /\ UNCHANGED tables

\* ... and instance, session and initial state are written and committed together
CommitInstance(p) ==
  /\ job[p].at = "bound"
  /\ sessions' = [sessions EXCEPT ![p] = [version |-> job[p].version,
                                          world |-> job[p].world,
                                          binding |-> job[p].content]]
  /\ Answer(p, "ok") \/ Answer(p, "error")
  /\ UNCHANGED <<versions, worlds>>

\* create_playthrough_from_version: a session without a binding
StartPlain(p) ==
  LET v == job[p].version IN
  /\ job[p].at = "plain"
  /\ IF versions[v].status = "published" /\ versions[v].world # Null
       THEN /\ sessions' = [sessions EXCEPT ![p] = [version |-> v,
                                                    world |-> versions[v].world,
                                                    binding |-> Null]]
            /\ Answer(p, "ok")
       ELSE Answer(p, "refused") /\ UNCHANGED sessions
  /\ UNCHANGED <<versions, worlds>>

\* read_content_binding, load_published_bundle and _world_maps, at every turn; of the
\* templates the code compares the sets of codes
Readable(s) ==
  LET v == versions[sessions[s].version]
      w == worlds[sessions[s].world]
  IN
  /\ w # Null /\ w.version = sessions[s].version
  /\ v # Null /\ v.status = "published" /\ v.content # Null
  /\ v.world = sessions[s].world
  /\ w.profile = v.content
  /\ sessions[s].binding = v.content
  /\ w.templates = v.content

\* the version and content a session is bound to
PlayOf(s) == IF sessions[s] = Null THEN Null
             ELSE IF sessions[s].binding = Null THEN Null
             ELSE [version |-> sessions[s].version, content |-> sessions[s].binding]

-----------------------------------------------------------------------------
\* the transaction of a request is rolled back, by an error or a crash
Fail(p) ==
  /\ job[p].at \notin {"new", "done"}
  /\ Answer(p, "error")
  /\ UNCHANGED tables

Init ==
  /\ versions = [v \in Requests |-> Null]
  /\ worlds = [w \in Worlds |-> IF w \in LegacyWorlds
                                  THEN [code |-> Null, version |-> Null,
                                        profile |-> Null, templates |-> Null]
                                  ELSE Null]
  /\ sessions = [s \in Requests |-> Null]
  /\ job = [p \in Requests |-> [at |-> "new", key |-> Null, content |-> Null,
                                version |-> Null, world |-> Null, answer |-> Null]]

Publishing(p) ==
  \/ \E k \in Keys, c \in Contents : LookUp(p, k, c)
  \/ Compare(p) \/ CheckCode(p) \/ InsertVersion(p) \/ Recover(p) \/ CommitPublication(p)

Administering(p) ==
  \/ \E k \in Keys, w \in Existing \cup {Null} : LookUpDraft(p, k, w)
  \/ InsertDraft(p)
  \/ \E v \in Committed : ReadDraft(p, v)
  \/ PublishDraft(p)
  \/ \E w \in Existing : GuardWorld(p, w)
  \/ EditWorld(p)

Starting(p) ==
  \/ \E v \in Committed : Choose(p, v) \/ ChoosePlain(p, v)
  \/ \E w \in Existing : ChooseWorld(p, w)
  \/ CheckBinding(p) \/ CommitInstance(p) \/ StartPlain(p)

Next == \E p \in Requests :
          Publishing(p) \/ Administering(p) \/ Starting(p) \/ Fail(p)

Spec == Init /\ [][Next]_vars

-----------------------------------------------------------------------------
(* Properties.                                                             *)

TypeOK ==
  /\ versions \in [Requests -> VersionType \cup {Null}]
  /\ worlds \in [Worlds -> WorldType \cup {Null}]
  /\ sessions \in [Requests -> SessionType \cup {Null}]
  /\ job \in [Requests -> JobType]

\* A publication that was answered with success, as the one that created the version or
\* as one that found it, was told the truth and it stays true whatever the others do:
\* the version is there, published, with the content of this request, and the world it
\* was told shows that content (publish_content_pack_version).
AnswersStayTrue ==
  \A p \in Requests : job[p].answer \in {"created", "existing"} =>
    LET v == job[p].version
        w == job[p].world
    IN /\ v \in Holders(job[p].key)
       /\ versions[v].world = w
       /\ versions[v].status = "published"
       /\ versions[v].content = job[p].content
       /\ worlds[w].version = v
       /\ worlds[w].profile = job[p].content
       /\ worlds[w].templates = job[p].content

\* A publication is refused for what another one did: a conflict means that the version
\* has other content, and a world with its code means that the version is published,
\* though the message of CONTENT_WORLD_ALREADY_BOUND says that its row is not there
\* (publish_content_pack_version, the race between two first publications).
RefusalsHaveCause ==
  \A p \in Requests :
    /\ job[p].answer = "conflict" =>
         \E v \in Holders(job[p].key) : versions[v].content # job[p].content
    /\ job[p].answer = "already_bound" =>
         \E v \in Holders(job[p].key) : /\ versions[v].content # Null
                                        /\ versions[v].status = "published"

\* Whoever has begun to play a published pack through the instance factory can go on:
\* every later turn finds session, instance, world and version bound to each other,
\* also when worlds are edited and other worlds bound meanwhile (read_content_binding).
BoundSessionsStayReadable ==
  \A s \in Requests : PlayOf(s) # Null => Readable(s)

-----------------------------------------------------------------------------
(* The refinement.  An entry shows the whole row of the version's world.   *)
Published(v) == versions[v].status = "published" /\ versions[v].content # Null
Listed(k) == {v \in Holders(k) : Published(v)}

EntryOf(v) == [version |-> v, content |-> versions[v].content,
               shown |-> worlds[versions[v].world]]

ShelfOf(k) == IF Listed(k) = {} THEN Null ELSE EntryOf(CHOOSE v \in Listed(k) : TRUE)

Shelves == [k \in Keys |-> ShelfOf(k)]
Plays == [s \in Requests |-> PlayOf(s)]

Catalog == INSTANCE ContentCatalog WITH
  Players <- Requests, Entries <- EntryType, catalog <- Shelves, plays <- Plays

\* Publication in the code keeps the promise of the catalog: a version appears with its
\* world in one step, neither changes from then on, and a play is tied to what was
\* published when it began (publish_content_pack_version, create_content_v1_instance
\* and the guards of the administration's endpoints).
ImplementsCatalog == Catalog!Spec
=============================================================================
