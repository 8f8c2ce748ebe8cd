--------------------------- MODULE KnowledgeFacts ---------------------------
(***************************************************************************)
(* The governed knowledge base: GovernedKnowledgeRuntime                   *)
(* (agent/knowledge/runtime.py) over its fact store (repository.py), with  *)
(* the lexical index (agent/retrieval/lexical.py) and the Markdown files   *)
(* that are derived from it.                                               *)
(*                                                                         *)
(* A change is one transaction of the fact store, which also registers a   *)
(* job; a second transaction brings files and index to the latest version  *)
(* and removes the job.  The file system and the index commit on their     *)
(* own, so a failure leaves them anywhere between two versions, with the   *)
(* job in place.  Every agent and the Web console construct a runtime of   *)
(* their own over the same files; a construction rebuilds everything.      *)
(*                                                                         *)
(* Abstractions.                                                           *)
(*  - One tenant and one user, who may manage every document.              *)
(*  - A document's source is its path, which is how every ingress builds   *)
(*    it.  "shared" stands for shared and not restricted: only those have  *)
(*    a file.  Categories, citations and the audit log are left out.       *)
(*  - Idempotency keys are those the tools and the console derive from     *)
(*    what a request says.                                                 *)
(***************************************************************************)
EXTENDS Integers, Sequences, FiniteSets, SequencesExt

CONSTANTS
    Runtimes,
    Paths,
    Commands,     \* [doc, path, shared, content]; doc = 0: no document named
    Batches,      \* sequences of commands of one import or category move
    Fresh,        \* commands without a path, for a batch into an empty base
    MaxDocs, MaxVersions, MaxFailures,
    NoOne, NoFile, NoPath

DocIds == 1..MaxDocs

ASSUME CommandsAssumption ==
    /\ \A c \in Commands \cup Fresh :
          DOMAIN c = {"doc", "path", "shared", "content"} /\ c.shared \in BOOLEAN
    /\ \A c \in Commands : c.doc \in 0..MaxDocs /\ c.path \in Paths
    /\ \A c \in Fresh : c.doc = 0 /\ c.path = NoPath
    /\ Batches \subseteq Seq(Commands)
    /\ NoPath \notin Paths /\ NoOne \notin Runtimes /\ NoFile \notin DocIds \X Nat

ASSUME BoundsAssumption == MaxDocs \in Nat /\ MaxVersions \in Nat \ {0} /\ MaxFailures \in Nat

VARIABLES
    docs,     \* [DocIds -> sequence of versions]
    keys,     \* the idempotency keys saved
    jobs,     \* [DocIds -> 0..MaxVersions], the derivative job of a document
    ids,      \* number of document ids generated
    files,    \* [Paths -> <<document, version>> written there, or NoFile]
    index,    \* set of <<document, version>> with evidence in the index
    lock,     \* the runtime in a write transaction of the fact store
    up,       \* [Runtimes -> BOOLEAN], constructed and not crashed
    pc,       \* [Runtimes -> what it is doing]
    target,   \* [Runtimes -> 0..MaxDocs], the document whose job it drains
    failures

facts == <<docs, keys, jobs, ids>>
derived == <<files, index>>
control == <<lock, up, pc, target, failures>>
vars == <<facts, derived, control>>

Steps == {"idle", "drain", "files", "unindex", "add", "commit",
          "rebuild", "allFiles", "allIndex", "allCommit", "fresh"}

InTransaction == Steps \ {"idle", "drain", "rebuild"}

WriteKey(c) == <<"write", c>>
RevokeKey(d) == <<"revoke", d>>
RollbackKey(d, v) == <<"rollback", d, v>>

Keys ==
    {WriteKey(c) : c \in Commands \cup Fresh}
    \cup {RevokeKey(d) : d \in DocIds}
    \cup {RollbackKey(d, v) : d \in DocIds, v \in 1..MaxVersions}

Versions == [path : Paths \cup {NoPath}, shared : BOOLEAN,
             status : {"active", "superseded", "revoked"}, key : Keys]

TypeOK ==
    /\ docs \in [DocIds -> Seq(Versions)]
    /\ \A d \in DocIds : Len(docs[d]) <= MaxVersions
    /\ keys \subseteq Keys /\ ids \in 0..MaxDocs
    /\ jobs \in [DocIds -> 0..MaxVersions]
    /\ index \subseteq DocIds \X (1..MaxVersions)
    /\ files \in [Paths -> (DocIds \X (1..MaxVersions)) \cup {NoFile}]
    /\ lock \in Runtimes \cup {NoOne} /\ up \in [Runtimes -> BOOLEAN]
    /\ pc \in [Runtimes -> Steps] /\ target \in [Runtimes -> 0..MaxDocs]
    /\ \A r \in Runtimes : lock = r <=> pc[r] \in InTransaction
    /\ failures \in 0..MaxFailures

Init ==
    /\ docs = [d \in DocIds |-> <<>>] /\ keys = {} /\ jobs = [d \in DocIds |-> 0]
    /\ ids = 0
    /\ files = [p \in Paths |-> NoFile] /\ index = {}
    /\ lock = NoOne /\ up = [r \in Runtimes |-> FALSE]
    /\ pc = [r \in Runtimes |-> "idle"] /\ target = [r \in Runtimes |-> 0]
    /\ failures = 0

----------------------------------------------------------------------------
(* Documents and versions                                                  *)

\* get_latest()
Latest(d) == Last(docs[d])
Exists(d) == docs[d] # <<>>
Active(d) == Exists(d) /\ Latest(d).status = "active"
Current(d) == <<d, Len(docs[d])>>

\* is_compatibility_projection() of what is active
Projects(d) == Active(d) /\ Latest(d).shared /\ Latest(d).path # NoPath

\* get_active_by_projection()
Owners(p) == {d \in DocIds : Projects(d) /\ Latest(d).path = p}

\* list_projection_paths_in_transaction()
PathsOf(d) == {docs[d][v].path : v \in DOMAIN docs[d]} \ {NoPath}

\* supersede_active() and insert_document()
NewVersion(versions, path, shared, status, key) ==
    Append([v \in DOMAIN versions |->
              IF versions[v].status = "active"
              THEN [versions[v] EXCEPT !.status = "superseded"] ELSE versions[v]],
           [path |-> path, shared |-> shared, status |-> status, key |-> key])

\* get_active_by_logical_path(): a path has one owner among the shared
\* documents, and one among those of the user.
HeldBy(world, path, shared) ==
    {d \in DocIds : /\ world[d] # <<>> /\ Last(world[d]).status = "active"
                    /\ Last(world[d]).path = path /\ Last(world[d]).shared = shared}

\* enqueue_derivative_job() keeps the larger target.
Enqueued(registered, d, version) ==
    [registered EXCEPT ![d] = IF version >= @ THEN version ELSE @]

----------------------------------------------------------------------------
(* _write_in_transaction(), for one command and for the commands of a batch *)

World == [docs |-> docs, keys |-> keys, jobs |-> jobs, ids |-> ids]

Goal(w, c) ==
    LET holder == HeldBy(w.docs, c.path, c.shared) IN
    IF c.doc # 0 THEN c.doc
    ELSE IF holder # {} THEN CHOOSE d \in holder : TRUE ELSE w.ids + 1

\* A document that is named must exist, and a path must not be another's.
MayWrite(w, c) ==
    LET d == Goal(w, c) IN
    \/ WriteKey(c) \in w.keys
    \/ /\ d \in DocIds /\ (c.doc # 0 => w.docs[d] # <<>>)
       /\ HeldBy(w.docs, c.path, c.shared) \subseteq {d}
       /\ Len(w.docs[d]) < MaxVersions

\* find_idempotent_result(): the document a key has been used for
UsedIn(w, key) == CHOOSE d \in DocIds : \E v \in DOMAIN w.docs[d] : w.docs[d][v].key = key

\* A repeated request changes no fact and registers the latest version again.
Replayed(w, c) ==
    LET d == UsedIn(w, WriteKey(c)) IN
    [w EXCEPT !.jobs = Enqueued(@, d, Len(w.docs[d]))]

\* Mutant: the key of a change is not saved with it.
Written_NoKey(w, c) ==
    LET d == Goal(w, c) IN
    [docs |-> [w.docs EXCEPT ![d] = NewVersion(@, c.path, c.shared, "active", WriteKey(c))],
     keys |-> w.keys,
     jobs |-> Enqueued(w.jobs, d, Len(w.docs[d]) + 1),
     ids |-> IF d > w.ids THEN d ELSE w.ids]

Written(w, c) ==
    LET d == Goal(w, c) IN
    [docs |-> [w.docs EXCEPT ![d] = NewVersion(@, c.path, c.shared, "active", WriteKey(c))],
     keys |-> w.keys \cup {WriteKey(c)},
     jobs |-> Enqueued(w.jobs, d, Len(w.docs[d]) + 1),
     ids |-> IF d > w.ids THEN d ELSE w.ids]

After(w, c) == IF WriteKey(c) \in w.keys THEN Replayed(w, c) ELSE Written(w, c)

Becomes(w) == docs' = w.docs /\ keys' = w.keys /\ jobs' = w.jobs /\ ids' = w.ids

Ready(r) == up[r] /\ pc[r] = "idle" /\ lock = NoOne

At(r, step, d) == pc' = [pc EXCEPT ![r] = step] /\ target' = [target EXCEPT ![r] = d]

\* An operation goes on, or returns.
Goes(r, step) == At(r, step, target[r])
Returns(r) == At(r, "idle", 0)

\* write(): the job is drained in a transaction of its own.
Write(r, c) ==
    /\ Ready(r) /\ MayWrite(World, c)
    /\ Becomes(After(World, c))
    /\ At(r, "drain",
          IF WriteKey(c) \in keys THEN UsedIn(World, WriteKey(c)) ELSE Goal(World, c))
    /\ UNCHANGED <<derived, lock, up, failures>>

\* The facts after each command of a batch
Worlds(batch) ==
    LET world[n \in 0..Len(batch)] ==
          IF n = 0 THEN World ELSE After(world[n - 1], batch[n])
    IN world

\* write_batch() of an import or a category move, which then rebuilds
WriteBatch(r, batch) ==
    /\ Ready(r)
    /\ LET world == Worlds(batch)
       IN /\ \A n \in DOMAIN batch : MayWrite(world[n - 1], batch[n])
          /\ Becomes(world[Len(batch)])
    /\ At(r, "rebuild", 0)
    /\ UNCHANGED <<derived, lock, up, failures>>

----------------------------------------------------------------------------
(* revoke() and rollback()                                                 *)

Change(d, path, shared, status, key) ==
    /\ docs' = [docs EXCEPT ![d] = NewVersion(@, path, shared, status, key)]
    /\ keys' = keys \cup {key}
    /\ jobs' = Enqueued(jobs, d, Len(docs[d]) + 1)

Replay(d) == jobs' = Enqueued(jobs, d, Len(docs[d])) /\ UNCHANGED <<docs, keys>>

Revoke(r, d) ==
    LET key == RevokeKey(d) IN
    /\ Ready(r)
    /\ \/ key \in keys /\ Replay(d)
       \/ /\ key \notin keys /\ Active(d) /\ Len(docs[d]) < MaxVersions
          /\ Change(d, Latest(d).path, Latest(d).shared, "revoked", key)
    /\ At(r, "drain", d)
    /\ UNCHANGED <<ids, derived, lock, up, failures>>

\* A revoked document comes back too, if its path is not another's.
Rollback(r, d, v) ==
    LET key == RollbackKey(d, v) IN
    /\ Ready(r) /\ v \in DOMAIN docs[d]
    /\ \/ key \in keys /\ Replay(d)
       \/ /\ key \notin keys /\ Len(docs[d]) < MaxVersions
          /\ docs[d][v].path # NoPath =>
               HeldBy(docs, docs[d][v].path, docs[d][v].shared) \subseteq {d}
          /\ Change(d, docs[d][v].path, docs[d][v].shared, "active", key)
    /\ At(r, "drain", d)
    /\ UNCHANGED <<ids, derived, lock, up, failures>>

----------------------------------------------------------------------------
(* A batch of new documents without paths, into a base with no active      *)
(* document: a thread replaces the index before the facts are committed.   *)

FreshIndex(r, c) ==
    /\ Ready(r) /\ ids < MaxDocs /\ WriteKey(c) \notin keys
    /\ \A d \in DocIds : ~Active(d)
    /\ ids' = ids + 1
    /\ index' = {<<ids + 1, 1>>}
    /\ lock' = r /\ At(r, "fresh", ids + 1)
    /\ UNCHANGED <<docs, keys, jobs, files, up, failures>>

FreshCommit(r, c) ==
    /\ pc[r] = "fresh" /\ WriteKey(c) \notin keys
    /\ docs' = [docs EXCEPT ![target[r]] =
                  NewVersion(<<>>, NoPath, c.shared, "active", WriteKey(c))]
    /\ keys' = keys \cup {WriteKey(c)}
    /\ lock' = NoOne /\ Returns(r)
    /\ UNCHANGED <<jobs, ids, derived, up, failures>>

----------------------------------------------------------------------------
(* _drain_derivative_job(), inside a write transaction                     *)

Drain(r) ==
    /\ pc[r] = "drain" /\ lock = NoOne
    /\ \/ /\ jobs[target[r]] = 0            \* another runtime has done it
          /\ Returns(r) /\ UNCHANGED lock
       \/ /\ jobs[target[r]] = Len(docs[target[r]])
          /\ lock' = r /\ Goes(r, "files")
    /\ UNCHANGED <<facts, derived, up, failures>>

\* Mutant: every path the document ever had but its present one is cleared.
Stale_OwnHistory(d) == PathsOf(d) \ (IF Projects(d) THEN {Latest(d).path} ELSE {})

\* Paths of a document's history that no document's file belongs to
Stale(d) == {p \in PathsOf(d) : Owners(p) = {}}

RemoveFile(r) ==
    /\ pc[r] = "files"
    /\ \E p \in Stale(target[r]) :
          files[p] # NoFile /\ files' = [files EXCEPT ![p] = NoFile]
    /\ UNCHANGED <<facts, index, control>>

\* _write_projection(): a temporary file, renamed
WriteFile(r) ==
    LET d == target[r] IN
    /\ pc[r] = "files" /\ \A p \in Stale(d) : files[p] = NoFile
    /\ files' = IF Projects(d) THEN [files EXCEPT ![Latest(d).path] = Current(d)] ELSE files
    /\ Goes(r, "unindex")
    /\ UNCHANGED <<facts, index, lock, up, failures>>

\* Evidence of every version of the document is deleted, piece by piece.
RemoveEvidence(r) ==
    /\ pc[r] = "unindex"
    /\ \E e \in index : e[1] = target[r] /\ index' = index \ {e}
    /\ UNCHANGED <<facts, files, control>>

AddEvidence(r) ==
    LET d == target[r] IN
    /\ pc[r] = "unindex" /\ \A e \in index : e[1] # d
    /\ index' = index \cup (IF Active(d) THEN {Current(d)} ELSE {})
    /\ Goes(r, "commit")
    /\ UNCHANGED <<facts, files, lock, up, failures>>

DrainCommit(r) ==
    /\ pc[r] = "commit"
    /\ jobs' = [jobs EXCEPT ![target[r]] = 0]
    /\ lock' = NoOne /\ Returns(r)
    /\ UNCHANGED <<docs, keys, ids, derived, up, failures>>

----------------------------------------------------------------------------
(* rebuild_derivatives(), at construction and after a batch                *)

Start(r) ==
    /\ ~up[r] /\ pc[r] = "idle"
    /\ Goes(r, "rebuild")
    /\ UNCHANGED <<facts, derived, lock, up, failures>>

Rebuild(r) ==
    /\ pc[r] = "rebuild" /\ lock = NoOne
    /\ lock' = r /\ Goes(r, "allFiles")
    /\ UNCHANGED <<facts, derived, up, failures>>

\* list_stale_projection_paths_in_transaction()
AllStale == UNION {Stale(d) : d \in DocIds}

Unwritten == {d \in DocIds : Projects(d) /\ files[Latest(d).path] # Current(d)}

RebuildFile(r) ==
    /\ pc[r] = "allFiles"
    /\ \/ \E p \in AllStale : files[p] # NoFile /\ files' = [files EXCEPT ![p] = NoFile]
       \/ /\ \A p \in AllStale : files[p] = NoFile
          /\ \E d \in Unwritten : files' = [files EXCEPT ![Latest(d).path] = Current(d)]
    /\ UNCHANGED <<facts, index, control>>

\* replace_tenant(), one transaction of the index
RebuildIndex(r) ==
    /\ pc[r] = "allFiles"
    /\ Unwritten = {} /\ \A p \in AllStale : files[p] = NoFile
    /\ index' = {Current(d) : d \in {x \in DocIds : Active(x)}}
    /\ Goes(r, "allCommit")
    /\ UNCHANGED <<facts, files, lock, up, failures>>

\* Mutant: the jobs stay.
RebuildCommit_KeepsJobs(r) ==
    /\ pc[r] = "allCommit"
    /\ up' = [up EXCEPT ![r] = TRUE]
    /\ lock' = NoOne /\ Returns(r)
    /\ UNCHANGED <<facts, derived, failures>>

\* clear_derivative_jobs(); a runtime under construction is ready.
RebuildCommit(r) ==
    /\ pc[r] = "allCommit"
    /\ jobs' = [d \in DocIds |-> 0]
    /\ up' = [up EXCEPT ![r] = TRUE]
    /\ lock' = NoOne /\ Returns(r)
    /\ UNCHANGED <<docs, keys, ids, derived, failures>>

----------------------------------------------------------------------------
(* An exception (disk, busy database, failed verification) ends the        *)
(* operation; a crash ends the runtime.  The open transaction is undone,   *)
(* files and index stay as they are.                                       *)

Interrupted(r) ==
    /\ failures < MaxFailures /\ failures' = failures + 1
    /\ pc[r] # "idle"
    /\ lock' = IF lock = r THEN NoOne ELSE lock
    /\ Returns(r)
    /\ UNCHANGED <<facts, derived>>

Fail(r) == Interrupted(r) /\ UNCHANGED up
Crash(r) == Interrupted(r) /\ up[r] /\ up' = [up EXCEPT ![r] = FALSE]

----------------------------------------------------------------------------
Step(r) ==
    \/ Start(r) \/ Drain(r) \/ RemoveFile(r) \/ WriteFile(r) \/ RemoveEvidence(r)
    \/ AddEvidence(r) \/ DrainCommit(r)
    \/ Rebuild(r) \/ RebuildFile(r) \/ RebuildIndex(r) \/ RebuildCommit(r)
    \/ \E c \in Fresh : FreshCommit(r, c)

Request(r) ==
    \/ \E d \in DocIds : Revoke(r, d)
    \/ \E d \in DocIds, v \in 1..MaxVersions : Rollback(r, d, v)
    \/ \E c \in Commands \cup Fresh : Write(r, c)
    \/ \E batch \in Batches : WriteBatch(r, batch)
    \/ \E c \in Fresh : FreshIndex(r, c)

Next == \E r \in Runtimes : Step(r) \/ Request(r) \/ Fail(r) \/ Crash(r)

Spec == Init /\ [][Next]_vars

\* A runtime that can go on: in a transaction, or in need of the lock for one
CanGoOn(r) ==
    \/ ~up[r] /\ pc[r] = "idle"
    \/ pc[r] \in {"drain", "rebuild"} /\ lock = NoOne
    \/ pc[r] \in InTransaction

\* What a runtime has begun goes on; the write lock of the database comes to
\* everyone who keeps asking for it.  (CanGoOn(r) is ENABLED Step(r): this is
\* SF_vars(Step(r)), in a form that spares TLC the evaluation of ENABLED.)
FairSpec ==
    Spec /\ \A r \in Runtimes : <>[]~CanGoOn(r) \/ []<><<Step(r)>>_vars

----------------------------------------------------------------------------
\* Nobody writes, and no job is left.
Settled == lock = NoOne /\ \A d \in DocIds : jobs[d] = 0

\* Whatever failed or ran between the two transactions of whom: when no job is
\* left, a path holds the current version of the document it belongs to, and
\* nothing otherwise - never a document that was revoked, moved or made private.
\* A job is for the latest version: _drain_derivative_job() never raises on it.
FilesFollowFacts ==
    /\ \A d \in DocIds : jobs[d] \in {0, Len(docs[d])}
    /\ Settled => \A p \in Paths :
          files[p] = IF Owners(p) = {} THEN NoFile ELSE Current(CHOOSE d \in Owners(p) : TRUE)

\* The same of both derivatives: when no job is left every active document can
\* also be found in its current version (what else is in the index search()
\* filters out by the facts).  (With it, the types of the variables.)
DerivativesFollowFacts ==
    /\ TypeOK /\ FilesFollowFacts
    /\ Settled => \A d \in DocIds : Active(d) => Current(d) \in index

\* A request repeated after a failure, by the same runtime or another, makes no
\* second version, whatever came between.
EffectOnce ==
    \A d, e \in DocIds : \A v \in DOMAIN docs[d], w \in DOMAIN docs[e] :
        docs[d][v].key = docs[e][w].key => d = e /\ v = w

\* What failures left undone is done, all of it at once, when a runtime that
\* is down comes up again, however often that fails as well.
RestartFinishesJobs ==
    ((\E d \in DocIds : jobs[d] # 0) /\ \E r \in Runtimes : ~up[r])
        ~> (\A d \in DocIds : jobs[d] = 0)

\* knowledge_tools.py:414 says of knowledge_revoke: "Revoke an active governed
\* knowledge document".  A revocation that succeeds leaves it inactive.
RevokeRevokes == [][\A r \in Runtimes, d \in DocIds : Revoke(r, d) => ~Active(d)']_vars

=============================================================================
