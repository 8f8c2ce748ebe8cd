-------------------------- MODULE SkillGovernance --------------------------
(***************************************************************************)
(* Governed skills (agent/skills/governance) and the console and the tools *)
(* that share the skills directory with them (agent/skills/service.py,     *)
(* manager.py, agent/tools/utils/governed_memory.py).                      *)
(*                                                                         *)
(* The facts (versions, their states, evaluations, receipts of requests)   *)
(* are in SQLite; what agents load is a file, SKILL.md, in a directory     *)
(* that users and tools write to as well.  Publishing changes both: inside *)
(* the lock of the skills directory and one database transaction it writes *)
(* a journal, replaces the file, commits, and drops the journal.           *)
(*                                                                         *)
(* A step is one transaction, one replacement of a file, or one rename.    *)
(* The lock has one holder, in any process, so the model keeps the program *)
(* counter and the locals of the holder (section) and not of processes.    *)
(* Left out: the audit trail, tenants, the arithmetic of the evaluation    *)
(* gate, models, paths and links.                                          *)
(***************************************************************************)
EXTENDS Naturals, Sequences, FiniteSets

CONSTANTS
    Names,        \* the names of skills
    Proposers,    \* the identities with the role skill:propose,
    Validators,   \* skill:validate,
    Publishers,   \* and skill:publish
    MaxVersions,  \* bound: versions in the database, of all names together
    MaxProposals, \* bound: those of them that were proposed
    MaxEvaluations, \* bound: evaluations that run or are recorded
    MaxSuites,    \* bound: states of the file with the evaluation suite
    MaxContents,  \* bound: contents that the console and the tools bring, or may bring
    NoFile,       \* no SKILL.md
    NoJournal     \* no projection journal

ASSUME SkillBounds ==
    /\ MaxVersions \in Nat /\ MaxProposals \in Nat /\ MaxEvaluations \in Nat
    /\ MaxSuites \in Nat /\ MaxContents \in Nat

Evaluation == [name: Names, version: Nat, validator: Validators, suite: Nat, passed: BOOLEAN]

\* What SKILL.md can be: a rendering of a version, or what others have written.
Rendered == [version: Nat, body: Nat]
Written == [by: {"console", "tool"}, id: Nat]
Content == Rendered \cup Written \cup {NoFile}

\* A version; from is the version it restores, or 0; takes is the skill it may replace.
Version == [body: Nat, owner: Proposers, by: Proposers \cup Publishers,
            status: {"candidate", "rejected", "active", "superseded"},
            evidence: SUBSET Evaluation, from: Nat, takes: Content]

\* What may hold the lock
Publication == [op: {"publish"}, name: Names, version: Nat,
                evaluation: Evaluation, who: Publishers]
Reversion == [op: {"rollback"}, name: Names, version: Nat, who: Publishers]
Opening == [op: {"open"}]
Change == [op: {"install", "delete"}, name: Names]
Stages == {"recover", "forget", "journal", "project", "commit", "tidy", "restore",
           "swap", "refresh"}
Holder == [stage: Stages, job: Publication \cup Reversion \cup Opening \cup Change,
           previous: Content]

Journal == [name: Names, version: Nat, body: Nat, previous: Content]

ASSUME NothingIsThere ==
    /\ NoFile \notin Rendered \cup Written
    /\ NoJournal \notin Journal

VARIABLES
    versions,     \* governed_skill_versions with the latest state of each
    evaluations,  \* governed_skill_evaluations
    receipts,     \* governed_skill_idempotency: the requests carried out
    suite,        \* the content of the suite file
    running,      \* evaluations that run, outside any transaction
    file,         \* SKILL.md of each name
    journal,      \* projection-<tenant>.journal.json
    section,      \* the holder of the lock of the skills directory
    writing,      \* names that a write or edit tool has found free to write
    drawn         \* contents drawn so far

factVars == <<versions, evaluations, receipts>>
vars == <<factVars, suite, running, file, journal, section, writing, drawn>>

Free == [stage |-> "free"]
Init ==
    /\ versions = [n \in Names |-> <<>>]
    /\ evaluations = {} /\ receipts = {} /\ running = {} /\ writing = {}
    /\ suite = 1 /\ drawn = 0
    /\ file = [n \in Names |-> NoFile]
    /\ journal = NoJournal
    /\ section = Free

----------------------------------------------------------------------------
(* What the database and the directory say.                                *)

VersionsOf(n) == 1..Len(versions[n])
ActiveOf(n) == {v \in VersionsOf(n) : versions[n][v].status = "active"}
Recorded == UNION {{<<n, v>> : v \in VersionsOf(n)} : n \in Names}
Proposed == {nv \in Recorded : versions[nv[1]][nv[2]].from = 0}

\* render_projection(): the front matter names the version, the rest its body.
Rendering(v, body) == [version |-> v, body |-> body]
Projection(n) == {Rendering(v, versions[n][v].body) : v \in ActiveOf(n)}

\* _has_governed_frontmatter()
Governed(content) == content # NoFile /\ "version" \in DOMAIN content

\* is_governed_skill_directory() is false
Mutable(n) == ~Governed(file[n]) /\ ActiveOf(n) = {}

\* Transactions begin with BEGIN IMMEDIATE: no other one is open.
NoTransaction ==
    section.stage \notin {"recover", "forget", "journal", "project", "commit"}

----------------------------------------------------------------------------
(* Proposals, evaluations, rejections: each one transaction.  The database *)
(* is the lock; the lock of the directory is not taken.                    *)

Fits == Cardinality(Recorded) < MaxVersions

\* propose(), with a key of its own (a repeated one changes nothing); takes is
\* the content of an existing skill, given as evidence.
Propose(n, who, takes) ==
    /\ NoTransaction /\ Fits
    /\ Cardinality(Proposed) < MaxProposals
    /\ versions' = [versions EXCEPT ![n] = Append(@,
           [body |-> Len(@) + 1, owner |-> who, by |-> who, status |-> "candidate",
            evidence |-> {}, from |-> 0, takes |-> takes])]
    /\ UNCHANGED <<evaluations, receipts, suite, running, file, journal, section, writing, drawn>>

\* evaluate(), up to the run: the version and the suite are read.
StartEvaluation(n, v, who) ==
    /\ versions[n][v].status = "candidate" /\ versions[n][v].owner # who
    /\ Cardinality(running) + Cardinality(evaluations) < MaxEvaluations
    /\ running' = running \cup {[name |-> n, version |-> v, validator |-> who, suite |-> suite]}
    /\ UNCHANGED <<factVars, suite, file, journal, section, writing, drawn>>

\* evaluate(), after the run: nothing is recorded if the suite has changed or
\* the version is no longer a candidate.
FinishEvaluation(e, passed) ==
    /\ e \in running /\ running' = running \ {e}
    /\ NoTransaction
    /\ evaluations' =
          IF e.suite = suite /\ versions[e.name][e.version].status = "candidate"
          THEN evaluations \cup {[name |-> e.name, version |-> e.version,
                                  validator |-> e.validator, suite |-> e.suite,
                                  passed |-> passed]}
          ELSE evaluations
    /\ UNCHANGED <<versions, receipts, suite, file, journal, section, writing, drawn>>

Reject(n, v, who) ==
    /\ NoTransaction
    /\ versions[n][v].status = "candidate" /\ versions[n][v].owner # who
    /\ versions' = [versions EXCEPT ![n][v].status = "rejected"]
    /\ UNCHANGED <<evaluations, receipts, suite, running, file, journal, section, writing, drawn>>

\* Someone edits the suite.
EditSuite ==
    /\ suite < MaxSuites /\ suite' = suite + 1
    /\ UNCHANGED <<factVars, running, file, journal, section, writing, drawn>>

----------------------------------------------------------------------------
(* Publish, roll back, and open a service: the lock, a transaction, and    *)
(* first of all the recovery of what an earlier holder left.               *)

Leaves == section' = Free
GoesTo(stage) == section' = [section EXCEPT !.stage = stage]
At(stage) == section # Free /\ section.stage = stage

\* Mutant: an evaluation of another version of the skill will do.
Passes_AnyVersion(n, v, who, e) ==
    /\ e.name = n /\ e.validator # who /\ e.passed /\ e.suite = suite

\* _assert_publishable()
Passes(n, v, who, e) ==
    /\ e.name = n /\ e.version = v
    /\ e.validator # who /\ e.passed /\ e.suite = suite

MayPublish(job) ==
    LET version == versions[job.name][job.version]
    IN /\ version.status = "candidate" /\ version.owner # job.who
       /\ Passes(job.name, job.version, job.who, job.evaluation)

\* The version was published once, its evaluation is of the same body, and it
\* would still pass.
MayRollBack(job) ==
    LET version == versions[job.name][job.version]
    IN /\ version.owner # job.who /\ ActiveOf(job.name) # {} /\ Fits
       /\ \E e \in version.evidence :
             /\ versions[job.name][e.version].body = version.body
             /\ Passes(job.name, e.version, job.who, e)

\* _snapshot_projection(): the file is what the facts say it is, or there is
\* none, or it is the skill that the candidate takes over.
SnapshotHolds(job) ==
    IF ActiveOf(job.name) # {} THEN file[job.name] \in Projection(job.name)
    ELSE file[job.name] \in {NoFile, versions[job.name][job.version].takes}

\* Mutant: requests leave no receipt.
Replayed_Never(job) == FALSE

Replayed(job) == job \in receipts

MayGoOn(job) ==
    /\ ~Replayed(job)
    /\ \/ job.op = "publish" /\ MayPublish(job)
       \/ job.op = "rollback" /\ MayRollBack(job)
    /\ SnapshotHolds(job)

\* Behind the recovery, the checks of _publish_locked() and _rollback_locked().
Gated(job) ==
    IF MayGoOn(job) THEN [stage |-> "journal", job |-> job, previous |-> file[job.name]]
    ELSE Free

\* Enter the lock and the transaction.
Enter(job) ==
    /\ section = Free
    /\ section' = IF journal # NoJournal
                  THEN [stage |-> "recover", job |-> job, previous |-> NoFile]
                  ELSE Gated(job)
    /\ UNCHANGED <<factVars, suite, running, file, journal, writing, drawn>>

\* GovernedSkillService(): a constructor does nothing but recover.
Open ==
    /\ section = Free /\ journal # NoJournal
    /\ section' = [stage |-> "recover", job |-> [op |-> "open"], previous |-> NoFile]
    /\ UNCHANGED <<factVars, suite, running, file, journal, writing, drawn>>

\* Mutant: the version of the journal is taken to be what was published.
Desired_Target ==
    {Rendering(journal.version, journal.body)}

\* What the journal's file should be, by the facts; nothing: as it was before.
Desired ==
    LET n == journal.name
        target == {journal.version} \cap ActiveOf(n)
    IN IF target # {} THEN {Rendering(v, versions[n][v].body) : v \in target}
       ELSE Projection(n)

\* _recover_projection_journal(), its two effects on files; an active target
\* whose rendering the journal does not know raises.
RecoverFile ==
    /\ At("recover")
    /\ IF \E v \in ActiveOf(journal.name) :
             v = journal.version /\ versions[journal.name][v].body # journal.body
       THEN Leaves /\ UNCHANGED file
       ELSE /\ \E content \in (IF Desired # {} THEN Desired ELSE {journal.previous}) :
                  file' = [file EXCEPT ![journal.name] = content]
            /\ GoesTo("forget")
    /\ UNCHANGED <<factVars, suite, running, journal, writing, drawn>>

RecoverForget ==
    /\ At("forget")
    /\ journal' = NoJournal
    /\ CASE section.job.op \in {"publish", "rollback"} -> section' = Gated(section.job)
         [] section.job.op = "open" -> Leaves
         [] OTHER -> GoesTo("refresh")
    /\ UNCHANGED <<factVars, suite, running, file, writing, drawn>>

\* The number and the body of the version that becomes active.
NewNumber(job) == IF job.op = "publish" THEN job.version ELSE Len(versions[job.name]) + 1
NewBody(job) == versions[job.name][job.version].body

WriteJournal ==
    /\ At("journal")
    /\ LET job == section.job
       IN journal' = [name |-> job.name, version |-> NewNumber(job),
                      body |-> NewBody(job), previous |-> section.previous]
    /\ GoesTo("project")
    /\ UNCHANGED <<factVars, suite, running, file, writing, drawn>>

\* _project_record()
Project ==
    /\ At("project")
    /\ LET job == section.job
       IN file' = [file EXCEPT ![job.name] = Rendering(NewNumber(job), NewBody(job))]
    /\ GoesTo("commit")
    /\ UNCHANGED <<factVars, suite, running, journal, writing, drawn>>

\* The states that the transaction has appended.
Superseded(n) ==
    [v \in VersionsOf(n) |-> IF v \in ActiveOf(n)
                             THEN [versions[n][v] EXCEPT !.status = "superseded"]
                             ELSE versions[n][v]]
Published(job) ==
    [Superseded(job.name) EXCEPT ![job.version] =
        [@ EXCEPT !.status = "active", !.by = job.who, !.evidence = {job.evaluation}]]

RolledBack(job) ==
    Append(Superseded(job.name), [versions[job.name][job.version] EXCEPT
              !.status = "active", !.by = job.who, !.from = job.version])

Commit ==
    /\ At("commit")
    /\ LET job == section.job
       IN /\ versions' = [versions EXCEPT ![job.name] =
                IF job.op = "publish" THEN Published(job) ELSE RolledBack(job)]
          /\ receipts' = receipts \cup {job}
    /\ GoesTo("tidy")
    /\ UNCHANGED <<evaluations, suite, running, file, journal, writing, drawn>>

\* _clear_projection_journal()
Tidy ==
    /\ At("tidy")
    /\ journal' = NoJournal
    /\ Leaves
    /\ UNCHANGED <<factVars, suite, running, file, writing, drawn>>

\* An exception once the projection was attempted: the transaction is rolled
\* back, then the file is restored.
Undo ==
    /\ At("project") \/ At("commit")
    /\ GoesTo("restore")
    /\ UNCHANGED <<factVars, suite, running, file, journal, writing, drawn>>

Restore ==
    /\ At("restore")
    /\ file' = [file EXCEPT ![section.job.name] = section.previous]
    /\ GoesTo("tidy")
    /\ UNCHANGED <<factVars, suite, running, journal, writing, drawn>>

\* The holder is gone, or has left with an exception that nothing handles: an
\* open transaction is rolled back, the lock is free, the files stay.
Stop ==
    /\ section # Free
    /\ Leaves
    /\ UNCHANGED <<factVars, suite, running, file, journal, writing, drawn>>

----------------------------------------------------------------------------
(* The console, under the lock, and the tools, without it.                 *)

\* delete(), and the first half of _finalize_install(): the old directory is
\* renamed away.
PutAside(op, n) ==
    /\ section = Free /\ Mutable(n)
    /\ section' = [stage |-> IF op = "install" THEN "swap" ELSE "refresh",
                   job |-> [op |-> op, name |-> n], previous |-> file[n]]
    /\ file' = [file EXCEPT ![n] = NoFile]
    /\ UNCHANGED <<factVars, suite, running, journal, writing, drawn>>

\* The staged directory is renamed in.
SwapIn ==
    /\ At("swap")
    /\ drawn < MaxContents /\ drawn' = drawn + 1
    /\ file' = [file EXCEPT ![section.job.name] = [by |-> "console", id |-> drawn + 1]]
    /\ GoesTo("refresh")
    /\ UNCHANGED <<factVars, suite, running, journal, writing>>

\* refresh_skills(): the first one of a process opens a service and so recovers.
Refresh ==
    /\ At("refresh")
    /\ \/ Leaves
       \/ journal # NoJournal /\ GoesTo("recover")
    /\ UNCHANGED <<factVars, suite, running, file, journal, writing, drawn>>

\* An exception: the old directory is put back.
PutBack ==
    /\ At("swap") \/ At("refresh")
    /\ file' = [file EXCEPT ![section.job.name] = section.previous]
    /\ Leaves
    /\ UNCHANGED <<factVars, suite, running, journal, writing, drawn>>

\* write and edit: the path is looked at, and later written.
FindWritable(n) ==
    /\ n \notin writing /\ Mutable(n)
    /\ Cardinality(writing) + drawn < MaxContents
    /\ writing' = writing \cup {n}
    /\ UNCHANGED <<factVars, suite, running, file, journal, section, drawn>>

ToolWrite(n) ==
    /\ n \in writing /\ writing' = writing \ {n}
    /\ drawn < MaxContents /\ drawn' = drawn + 1
    /\ file' = [file EXCEPT ![n] = [by |-> "tool", id |-> drawn + 1]]
    /\ UNCHANGED <<factVars, suite, running, journal, section>>

----------------------------------------------------------------------------
Section ==
    \/ RecoverFile \/ RecoverForget \/ WriteJournal \/ Project \/ Commit \/ Tidy
    \/ Undo \/ Restore \/ Stop \/ SwapIn \/ Refresh \/ PutBack

Publish(n, v, who) ==
    \E e \in evaluations :
        /\ e.name = n
        /\ Enter([op |-> "publish", name |-> n, version |-> v, evaluation |-> e, who |-> who])

\* A request is what it says, key included: to roll back to the same version once
\* more, deliberately and with another key, is left out.
Rollback(n, v, who) ==
    Enter([op |-> "rollback", name |-> n, version |-> v, who |-> who])

Lifecycle(n) ==
    \/ \E who \in Proposers, takes \in {NoFile, file[n]} :
          ~Governed(takes) /\ Propose(n, who, takes)
    \/ \E v \in VersionsOf(n) :
          \/ \E who \in Validators : StartEvaluation(n, v, who) \/ Reject(n, v, who)
          \/ \E who \in Publishers : Publish(n, v, who) \/ Rollback(n, v, who)

Directory(n) ==
    \/ \E op \in {"install", "delete"} : PutAside(op, n)
    \/ FindWritable(n) \/ ToolWrite(n)

Next ==
    \/ Section \/ Open \/ EditSuite
    \/ \E e \in running, passed \in BOOLEAN : FinishEvaluation(e, passed)
    \/ \E n \in Names : Lifecycle(n) \/ Directory(n)

Spec == Init /\ [][Next]_vars

----------------------------------------------------------------------------
(* Properties.                                                             *)

TypeOK ==
    /\ versions \in [Names -> Seq(Version)]
    /\ evaluations \subseteq Evaluation
    /\ receipts \subseteq Publication \cup Reversion
    /\ running \subseteq [name: Names, version: Nat, validator: Validators, suite: Nat]
    /\ writing \subseteq Names
    /\ suite \in Nat /\ drawn \in Nat
    /\ file \in [Names -> Content]
    /\ journal \in Journal \cup {NoJournal}
    /\ section \in Holder \cup {Free}

\* A skill that is active has one active version, and nobody has published it
\* who proposed it, or who validated the body it has.  The evaluation may be
\* of an earlier version, the body may not be another one (service.py:807 and
\* 683-715).  The types of the variables are part of ActiveIsGated.
IndependentlyGated(n, v) ==
    LET version == versions[n][v]
    IN /\ version.owner # version.by
       /\ \E e \in evaluations :
             /\ e \in version.evidence /\ e.passed
             /\ versions[n][e.version].body = version.body
             /\ e.validator \notin {version.owner, version.by}

ActiveIsGated ==
    /\ TypeOK
    /\ \A n \in Names :
          /\ Cardinality(ActiveOf(n)) <= 1
          /\ \A v \in ActiveOf(n) : IndependentlyGated(n, v)

\* When nobody is at work and no journal is left, the directory shows what the
\* facts say, whatever was interrupted before: the rendering of the active
\* version, and of no other (service.py:1214).  Only a tool whose look at the
\* path is older than the publication may have written over it.
FactsAreProjected ==
    section = Free /\ journal = NoJournal =>
        \A n \in Names :
            IF ActiveOf(n) = {} THEN ~Governed(file[n])
            ELSE \/ file[n] \in Projection(n)
                 \/ file[n] # NoFile /\ ~Governed(file[n]) /\ file[n].by = "tool"

\* A rollback that is repeated, because its answer was lost or its journal could
\* not be removed, makes one new version (service.py:668).
RollbackOnce ==
    \A n \in Names : \A v, w \in VersionsOf(n) :
        /\ versions[n][v].from # 0
        /\ versions[n][v].from = versions[n][w].from
        /\ versions[n][v].by = versions[n][w].by
        => v = w

=============================================================================
