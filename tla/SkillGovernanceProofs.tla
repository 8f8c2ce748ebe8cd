----------------------- MODULE SkillGovernanceProofs -----------------------
(***************************************************************************)
(* What is active was gated, a repeated rollback makes one version, and    *)
(* the directory shows what the facts say: for any number of skills,       *)
(* identities, versions and interruptions.                                 *)
(***************************************************************************)
EXTENDS SkillGovernance, SequenceTheorems, FiniteSetTheorems, TLAPS

----------------------------------------------------------------------------
(* How the facts change.                                                   *)

\* Nothing is lost, and who wrote what never changes.
Grows ==
    /\ evaluations \subseteq evaluations' /\ receipts \subseteq receipts'
    /\ \A n \in Names : \A v \in VersionsOf(n) :
          /\ v \in VersionsOf(n)'
          /\ versions'[n][v].body = versions[n][v].body
          /\ versions'[n][v].owner = versions[n][v].owner

\* What a publication makes of the version that was active, and of its own.
Retired(version) ==
    IF version.status = "active" THEN [version EXCEPT !.status = "superseded"] ELSE version

Activated(version, job) ==
    IF job \in Publication
    THEN [version EXCEPT !.status = "active", !.by = job.who, !.evidence = {job.evaluation}]
    ELSE [version EXCEPT !.status = "active", !.by = job.who, !.from = job.version]

LEMMA RetiredFields ==
    ASSUME NEW version \in Version
    PROVE  LET old == Retired(version)
           IN /\ old \in Version /\ old.body = version.body /\ old.owner = version.owner
              /\ old.by = version.by /\ old.evidence = version.evidence
              /\ old.from = version.from /\ old.takes = version.takes
              /\ old.status # "active"
              /\ old.status = "candidate" => version.status = "candidate"
              /\ version.status # "active" => old = version
  BY DEF Retired, Version

LEMMA ActivatedFields ==
    ASSUME NEW version \in Version, NEW job \in Publication \cup Reversion
    PROVE  LET new == Activated(version, job)
           IN /\ new \in Version /\ new.body = version.body /\ new.owner = version.owner
              /\ new.by = job.who /\ new.status = "active"
              /\ job \in Publication => new.evidence = {job.evaluation} /\ new.from = version.from
              /\ job \notin Publication => new.evidence = version.evidence /\ new.from = job.version
  BY DEF Activated, Version, Publication, Reversion

LEMMA VersionType ==
    ASSUME TypeOK, NEW n \in Names
    PROVE  /\ Len(versions[n]) \in Nat
           /\ \A v \in 1..Len(versions[n]) : versions[n][v] \in Version
  <1>1. versions[n] \in Seq(Version)
    BY DEF TypeOK
  <1>2. QED
    BY <1>1, LenProperties, ElementOfSeq

\* A proposal appends a candidate.
LEMMA ProposeFacts ==
    ASSUME TypeOK, NEW n \in Names, NEW who \in Proposers, NEW takes \in Content,
           Propose(n, who, takes)
    PROVE  /\ versions' \in [Names -> Seq(Version)]
           /\ \A m \in Names \ {n} : versions'[m] = versions[m]
           /\ Len(versions'[n]) = Len(versions[n]) + 1
           /\ \A v \in 1..Len(versions[n]) : versions'[n][v] = versions[n][v]
           /\ LET new == versions'[n][Len(versions[n]) + 1]
              IN new.status = "candidate" /\ new.from = 0 /\ new.evidence = {}
  <1> DEFINE new == [body |-> Len(versions[n]) + 1, owner |-> who, by |-> who,
                     status |-> "candidate", evidence |-> {}, from |-> 0, takes |-> takes]
  <1>1. versions[n] \in Seq(Version) /\ Len(versions[n]) \in Nat
    BY VersionType DEF TypeOK
  <1>2. new \in Version
    BY <1>1 DEF Version
  <1>3. versions' = [versions EXCEPT ![n] = Append(versions[n], new)]
    BY DEF Propose
  <1>4. /\ Append(versions[n], new) \in Seq(Version)
        /\ Len(Append(versions[n], new)) = Len(versions[n]) + 1
        /\ \A v \in 1..Len(versions[n]) : Append(versions[n], new)[v] = versions[n][v]
        /\ Append(versions[n], new)[Len(versions[n]) + 1] = new
    BY <1>1, <1>2, AppendProperties
  <1> HIDE DEF new
  <1>5. /\ versions' \in [Names -> Seq(Version)]
        /\ versions'[n] = Append(versions[n], new)
        /\ \A m \in Names \ {n} : versions'[m] = versions[m]
    BY <1>3, <1>4 DEF TypeOK
  <1>6. new.status = "candidate" /\ new.from = 0 /\ new.evidence = {}
    BY DEF new
  <1>7. QED
    BY <1>4, <1>5, <1>6

\* A rejection changes the state of a candidate.
LEMMA RejectFacts ==
    ASSUME TypeOK, NEW n \in Names, NEW v \in VersionsOf(n), NEW who, Reject(n, v, who)
    PROVE  /\ versions' \in [Names -> Seq(Version)]
           /\ \A m \in Names \ {n} : versions'[m] = versions[m]
           /\ Len(versions'[n]) = Len(versions[n])
           /\ versions[n][v].status = "candidate"
           /\ \A w \in VersionsOf(n) :
                 versions'[n][w] = IF w = v THEN [versions[n][v] EXCEPT !.status = "rejected"]
                                   ELSE versions[n][w]
  <1> DEFINE new == [versions[n][v] EXCEPT !.status = "rejected"]
             changed == [versions[n] EXCEPT ![v] = new]
  <1>1. versions[n] \in Seq(Version) /\ v \in 1..Len(versions[n])
    BY DEF TypeOK, VersionsOf
  <1>2. new \in Version
    BY <1>1, VersionType DEF Version
  <1>3. versions' = [versions EXCEPT ![n] = changed]
    BY DEF Reject
  <1>4. /\ changed \in Seq(Version)
        /\ Len(changed) = Len(versions[n])
        /\ \A w \in 1..Len(versions[n]) : changed[w] = IF w = v THEN new ELSE versions[n][w]
    <2> HIDE DEF new
    <2>1. QED
      BY <1>1, <1>2, ExceptSeq
  <1> HIDE DEF changed
  <1>5. /\ versions' \in [Names -> Seq(Version)]
        /\ versions'[n] = changed
        /\ \A m \in Names \ {n} : versions'[m] = versions[m]
    BY <1>3, <1>4 DEF TypeOK
  <1>6. QED
    BY <1>4, <1>5 DEF Reject, VersionsOf

\* Superseding retires what is active.
LEMMA SupersededFacts ==
    ASSUME TypeOK, NEW n \in Names
    PROVE  /\ Superseded(n) \in Seq(Version)
           /\ Len(Superseded(n)) = Len(versions[n])
           /\ \A v \in VersionsOf(n) : Superseded(n)[v] = Retired(versions[n][v])
  <1>1. Len(versions[n]) \in Nat /\ \A v \in VersionsOf(n) : versions[n][v] \in Version
    BY VersionType DEF VersionsOf
  <1>2. Superseded(n) = [v \in 1..Len(versions[n]) |-> Retired(versions[n][v])]
    BY DEF Superseded, ActiveOf, VersionsOf, Retired
  <1>3. Superseded(n) \in [1..Len(versions[n]) -> Version]
    BY <1>1, <1>2, RetiredFields DEF VersionsOf
  <1>4. Superseded(n) \in Seq(Version)
    BY <1>1, <1>3, SeqDef
  <1>5. Len(Superseded(n)) = Len(versions[n])
    BY <1>1, <1>3, <1>4, LenProperties
  <1>6. QED
    BY <1>2, <1>4, <1>5 DEF VersionsOf

\* What a publication makes of the versions of a name.
LEMMA PublishedFacts ==
    ASSUME TypeOK, NEW job \in Publication, job.version \in VersionsOf(job.name),
           versions[job.name][job.version].status # "active"
    PROVE  /\ Published(job) \in Seq(Version)
           /\ Len(Published(job)) = Len(versions[job.name])
           /\ \A v \in VersionsOf(job.name) :
                 Published(job)[v] = IF v = job.version THEN Activated(versions[job.name][v], job)
                                     ELSE Retired(versions[job.name][v])
  <1> DEFINE n == job.name
             old == versions[n][job.version]
             new == Activated(old, job)
  <1>1. /\ n \in Names /\ job.version \in 1..Len(versions[n]) /\ old \in Version
    BY VersionType DEF Publication, VersionsOf
  <1>2. /\ Superseded(n) \in Seq(Version) /\ Len(Superseded(n)) = Len(versions[n])
        /\ \A v \in 1..Len(versions[n]) : Superseded(n)[v] = Retired(versions[n][v])
    BY <1>1, SupersededFacts DEF VersionsOf
  <1>3. Superseded(n)[job.version] = old
    BY <1>1, <1>2, RetiredFields
  <1>4. new \in Version
    BY <1>1, ActivatedFields
  <1>5. Published(job) = [Superseded(n) EXCEPT ![job.version] = new]
    BY <1>3 DEF Published, Activated
  <1> HIDE DEF new
  <1>6. /\ Published(job) \in Seq(Version)
        /\ Len(Published(job)) = Len(versions[n])
        /\ \A v \in 1..Len(versions[n]) :
              Published(job)[v] = IF v = job.version THEN new ELSE Superseded(n)[v]
    BY <1>1, <1>2, <1>4, <1>5, ExceptSeq
  <1>7. QED
    BY <1>2, <1>6 DEF new, VersionsOf

\* A rollback appends a copy of the version it restores.
LEMMA RolledBackFacts ==
    ASSUME TypeOK, NEW job \in Reversion, job.version \in VersionsOf(job.name)
    PROVE  /\ RolledBack(job) \in Seq(Version)
           /\ Len(RolledBack(job)) = Len(versions[job.name]) + 1
           /\ \A v \in VersionsOf(job.name) :
                 RolledBack(job)[v] = Retired(versions[job.name][v])
           /\ RolledBack(job)[Len(versions[job.name]) + 1] =
                 Activated(versions[job.name][job.version], job)
  <1> DEFINE n == job.name
             new == Activated(versions[n][job.version], job)
  <1>1. n \in Names /\ versions[n][job.version] \in Version
    BY VersionType DEF Reversion, VersionsOf
  <1>2. /\ Superseded(n) \in Seq(Version) /\ Len(Superseded(n)) = Len(versions[n])
        /\ \A v \in 1..Len(versions[n]) : Superseded(n)[v] = Retired(versions[n][v])
    BY <1>1, SupersededFacts DEF VersionsOf
  <1>3. new \in Version
    BY <1>1, ActivatedFields
  <1>4. RolledBack(job) = Append(Superseded(n), new)
    BY DEF RolledBack, Activated, Publication, Reversion
  <1> HIDE DEF new
  <1>5. /\ RolledBack(job) \in Seq(Version)
        /\ Len(RolledBack(job)) = Len(versions[n]) + 1
        /\ \A v \in 1..Len(versions[n]) : RolledBack(job)[v] = Superseded(n)[v]
        /\ RolledBack(job)[Len(versions[n]) + 1] = new
    BY <1>2, <1>3, <1>4, AppendProperties
  <1>6. QED
    BY <1>2, <1>5 DEF new, VersionsOf

----------------------------------------------------------------------------
(* The invariant of the facts.                                             *)

\* An evaluation of the same body, by somebody else than the author
Backs(e, n, version) ==
    /\ e \in evaluations /\ e.passed
    /\ e.version \in VersionsOf(n) /\ versions[n][e.version].body = version.body
    /\ e.validator # version.owner

Receipt(n, version) ==
    [op |-> "rollback", name |-> n, version |-> version.from, who |-> version.by]

Sound(n, version) ==
    /\ \A e \in version.evidence : Backs(e, n, version)
    /\ version.status = "candidate" => version.from = 0
    /\ version.from # 0 => Receipt(n, version) \in receipts
    /\ version.status = "active" =>
          /\ version.owner # version.by
          /\ \E e \in version.evidence : e.validator # version.by

FactsInv ==
    /\ \A e \in evaluations \cup running :
          /\ e.version \in VersionsOf(e.name)
          /\ e.validator # versions[e.name][e.version].owner
    /\ \A n \in Names : \A v \in VersionsOf(n) : Sound(n, versions[n][v])
    /\ \A n \in Names : \A v, w \in ActiveOf(n) : v = w
    /\ RollbackOnce

\* What Gated() has checked, as far as it stands until the commit
Checked(job) ==
    LET version == versions[job.name][job.version]
    IN /\ version.owner # job.who /\ job \notin receipts
       /\ job \in Publication =>
             /\ version.status = "candidate"
             /\ job.evaluation.name = job.name /\ job.evaluation.version = job.version
             /\ job.evaluation.passed /\ job.evaluation.validator # job.who
       /\ job \in Reversion =>
             /\ ActiveOf(job.name) # {}
             /\ \E e \in version.evidence : e.validator # job.who

HolderInv ==
    section # Free =>
        /\ section.job \in Publication \cup Reversion =>
              section.job.version \in VersionsOf(section.job.name)
        /\ section.job \in Publication => section.job.evaluation \in evaluations
        /\ section.stage \in {"journal", "project", "commit"} =>
              /\ section.job \in Publication \cup Reversion
              /\ Checked(section.job)

----------------------------------------------------------------------------
(* The invariant of the directory.                                         *)

ToolWritten(content) == content # NoFile /\ ~Governed(content) /\ content.by = "tool"

\* SKILL.md is what the facts say, or what a tool has made of it.
Shown(n) ==
    IF ActiveOf(n) = {} THEN ~Governed(file[n])
    ELSE file[n] \in Projection(n) \/ ToolWritten(file[n])

\* Content that may stand while nothing is committed
Restorable(n, content) ==
    IF ActiveOf(n) = {} THEN ~Governed(content) ELSE content \in Projection(n)

\* The journal tells how to undo a first publication.
Undoable ==
    journal # NoJournal /\ ActiveOf(journal.name) = {} => ~Governed(journal.previous)

\* The name of the journal, until its file is as it should be
InDoubt(n) ==
    journal # NoJournal /\ n = journal.name /\ section.stage \notin {"forget", "tidy"}

AllShown == \A n \in Names : ~InDoubt(n) => Shown(n)

\* What the holder of the lock relies on, at each stage
Placed ==
    section # Free =>
        LET job == section.job
        IN /\ section.stage = "journal" => journal = NoJournal
           /\ section.stage \in {"recover", "forget"} => journal # NoJournal
           /\ section.stage \in {"project", "commit", "restore"} =>
                 journal # NoJournal /\ journal.name = job.name
           /\ section.stage \in {"journal", "project", "commit", "restore"} =>
                 /\ job \in Publication \cup Reversion
                 /\ Restorable(job.name, section.previous)
           /\ section.stage = "commit" =>
                 \/ file[job.name] = Rendering(NewNumber(job), NewBody(job))
                 \/ ToolWritten(file[job.name])
           /\ section.stage \in {"swap", "refresh"} => job \in Change
           /\ job \in Change => ActiveOf(job.name) = {} /\ ~Governed(section.previous)

DirectoryInv == Undoable /\ AllShown /\ Placed

----------------------------------------------------------------------------
(* Types.                                                                  *)

LEMMA HolderType ==
    ASSUME TypeOK, section # Free
    PROVE  section \in Holder
  BY DEF TypeOK

LEMMA GoesToType ==
    ASSUME TypeOK, section # Free, NEW stage \in Stages, GoesTo(stage)
    PROVE  /\ section' \in Holder /\ section' # Free
           /\ section'.stage = stage /\ section'.job = section.job
           /\ section'.previous = section.previous
  BY HolderType DEF GoesTo, Holder, Stages, Free

LEMMA GatedType ==
    ASSUME TypeOK, NEW job \in Publication \cup Reversion
    PROVE  /\ Gated(job) \in Holder \cup {Free}
           /\ Gated(job) # Free => /\ Gated(job).stage = "journal" /\ Gated(job).job = job
                                   /\ Gated(job).previous = file[job.name]
                                   /\ MayGoOn(job)
  <1>1. job.name \in Names
    BY DEF Publication, Reversion
  <1>2. QED
    BY <1>1 DEF Gated, Holder, Stages, TypeOK

\* What the holder of the lock is about to write
LEMMA NewType ==
    ASSUME TypeOK, HolderInv, section # Free, section.job \in Publication \cup Reversion
    PROVE  /\ section.job.name \in Names
           /\ section.job.version \in VersionsOf(section.job.name)
           /\ NewNumber(section.job) \in Nat /\ NewBody(section.job) \in Nat
           /\ Rendering(NewNumber(section.job), NewBody(section.job)) \in Rendered
  <1> DEFINE job == section.job
  <1>1. job.name \in Names /\ job.version \in Nat
    BY DEF Publication, Reversion
  <1>2. job.version \in VersionsOf(job.name)
    BY DEF HolderInv
  <1>3. Len(versions[job.name]) \in Nat /\ versions[job.name][job.version] \in Version
    BY <1>1, <1>2, VersionType DEF VersionsOf
  <1>4. NewNumber(job) \in Nat /\ NewBody(job) \in Nat
    <2>1. versions[job.name][job.version].body \in Nat
      BY <1>3 DEF Version
    <2>2. QED
      BY <1>1, <1>3, <2>1 DEF NewNumber, NewBody
  <1>5. QED
    BY <1>1, <1>2, <1>4 DEF Rendering, Rendered

\* The facts after a commit
LEMMA CommitFacts ==
    ASSUME TypeOK, HolderInv, Commit
    PROVE  /\ section # Free /\ section.stage = "commit"
           /\ section.job \in Publication \cup Reversion /\ Checked(section.job)
           /\ section.job.name \in Names
           /\ section.job.version \in VersionsOf(section.job.name)
           /\ versions' \in [Names -> Seq(Version)]
           /\ \A n \in Names \ {section.job.name} : versions'[n] = versions[n]
           /\ versions'[section.job.name] = IF section.job \in Publication
                                            THEN Published(section.job)
                                            ELSE RolledBack(section.job)
           /\ receipts' = receipts \cup {section.job}
  <1> DEFINE job == section.job
  <1>1. /\ section # Free /\ section.stage = "commit" /\ section \in Holder
        /\ job \in Publication \cup Reversion /\ Checked(job)
    BY HolderType DEF Commit, At, HolderInv
  <1>2. job.name \in Names /\ job.version \in VersionsOf(job.name)
    BY <1>1, NewType
  <1>3. job \in Publication <=> job.op = "publish"
    BY <1>1 DEF Publication, Reversion
  <1>4. versions' = [versions EXCEPT ![job.name] =
                        IF job \in Publication THEN Published(job) ELSE RolledBack(job)]
    BY <1>3 DEF Commit
  <1>5. (IF job \in Publication THEN Published(job) ELSE RolledBack(job)) \in Seq(Version)
    <2>1. job \in Publication => versions[job.name][job.version].status # "active"
      BY <1>1 DEF Checked
    <2>2. QED
      BY <1>1, <1>2, <2>1, PublishedFacts, RolledBackFacts
  <1>6. QED
    BY <1>1, <1>2, <1>4, <1>5 DEF TypeOK, Commit

\* A job that Enter is called with
LEMMA JobType ==
    ASSUME TypeOK, NEW n \in Names, NEW v \in VersionsOf(n), NEW who \in Publishers,
           NEW job
    PROVE  /\ job = [op |-> "rollback", name |-> n, version |-> v, who |-> who]
                 => job \in Reversion /\ job \notin Publication
           /\ \A e \in evaluations :
                 job = [op |-> "publish", name |-> n, version |-> v,
                        evaluation |-> e, who |-> who]
                 => job \in Publication /\ job \notin Reversion
  <1>1. v \in Nat
    BY VersionType DEF VersionsOf
  <1>2. QED
    BY <1>1 DEF Publication, Reversion, TypeOK

\* The lock is entered with a job.
LEMMA EnterTypes ==
    ASSUME TypeOK, NEW job \in Publication \cup Reversion, Enter(job)
    PROVE  TypeOK'
  <1>1. Gated(job) \in Holder \cup {Free}
    BY GatedType
  <1>2. [stage |-> "recover", job |-> job, previous |-> NoFile] \in Holder
    BY DEF Holder, Stages, Content
  <1>3. QED
    BY <1>1, <1>2 DEF Enter, TypeOK, factVars

\* The steps that concern one name
LEMMA NamedTypes ==
    ASSUME TypeOK, NEW n \in Names, Lifecycle(n) \/ Directory(n)
    PROVE  TypeOK'
  <1>1. ASSUME NEW who \in Proposers, NEW takes \in {NoFile, file[n]}, Propose(n, who, takes)
        PROVE  TypeOK'
    <2>1. takes \in Content
      BY DEF TypeOK, Content
    <2>2. versions' \in [Names -> Seq(Version)]
      BY <1>1, <2>1, ProposeFacts
    <2>3. QED
      BY <1>1, <2>2 DEF Propose, TypeOK
  <1>2. ASSUME NEW v \in VersionsOf(n), NEW who \in Validators, StartEvaluation(n, v, who)
        PROVE  TypeOK'
    <2>1. v \in Nat
      BY VersionType DEF VersionsOf
    <2>2. [name |-> n, version |-> v, validator |-> who, suite |-> suite]
            \in [name: Names, version: Nat, validator: Validators, suite: Nat]
      BY <2>1 DEF TypeOK
    <2>3. QED
      BY <1>2, <2>2 DEF StartEvaluation, TypeOK, factVars
  <1>3. ASSUME NEW v \in VersionsOf(n), NEW who \in Validators, Reject(n, v, who)
        PROVE  TypeOK'
    <2>1. versions' \in [Names -> Seq(Version)]
      BY <1>3, RejectFacts
    <2>2. QED
      BY <1>3, <2>1 DEF Reject, TypeOK
  <1>4. ASSUME NEW op \in {"install", "delete"}, PutAside(op, n)
        PROVE  TypeOK'
    <2>1. file' \in [Names -> Content]
      BY <1>4 DEF PutAside, TypeOK, Content
    <2>2. section' \in Holder
      BY <1>4 DEF PutAside, TypeOK, Holder, Stages, Change
    <2>3. QED
      BY <1>4, <2>1, <2>2 DEF PutAside, TypeOK, factVars
  <1>5. CASE FindWritable(n)
    BY <1>5 DEF FindWritable, TypeOK, factVars
  <1>6. CASE ToolWrite(n)
    <2>1. [by |-> "tool", id |-> drawn + 1] \in Content /\ drawn + 1 \in Nat
      BY DEF TypeOK, Content, Written
    <2>2. QED
      BY <1>6, <2>1 DEF ToolWrite, TypeOK, factVars
  <1>7. ASSUME NEW v \in VersionsOf(n), NEW who \in Publishers, Publish(n, v, who)
        PROVE  TypeOK'
    <2>1. PICK e \in evaluations :
             Enter([op |-> "publish", name |-> n, version |-> v, evaluation |-> e, who |-> who])
      BY <1>7 DEF Publish
    <2>2. QED
      BY <2>1, JobType, EnterTypes
  <1>8. ASSUME NEW v \in VersionsOf(n), NEW who \in Publishers, Rollback(n, v, who)
        PROVE  TypeOK'
    BY <1>8, JobType, EnterTypes DEF Rollback
  <1>9. QED
    BY <1>1, <1>2, <1>3, <1>4, <1>5, <1>6, <1>7, <1>8 DEF Lifecycle, Directory

\* The steps of the holder of the lock
LEMMA SectionTypes ==
    ASSUME TypeOK, HolderInv, DirectoryInv, Section
    PROVE  TypeOK'
  <1>1. ASSUME RecoverFile
        PROVE  TypeOK'
    <2>1. section # Free /\ section.stage = "recover" /\ journal \in Journal
      BY <1>1 DEF RecoverFile, At, DirectoryInv, Placed, TypeOK
    <2>2. journal.name \in Names /\ journal.previous \in Content
      BY <2>1 DEF Journal
    <2>3. Projection(journal.name) \subseteq Content /\ Desired \subseteq Content
      <3>1. \A v \in VersionsOf(journal.name) :
               v \in Nat /\ versions[journal.name][v].body \in Nat
        BY <2>2, VersionType DEF VersionsOf, Version
      <3>2. \A v \in ActiveOf(journal.name) :
               Rendering(v, versions[journal.name][v].body) \in Content
        BY <3>1 DEF ActiveOf, Rendering, Rendered, Content
      <3>3. QED
        BY <3>2 DEF Projection, Desired
    <2>4. file' \in [Names -> Content]
      BY <1>1, <2>2, <2>3 DEF RecoverFile, TypeOK
    <2>5. section' \in Holder \cup {Free}
      BY <1>1, <2>1, GoesToType DEF RecoverFile, Leaves, Stages
    <2>6. QED
      BY <1>1, <2>4, <2>5 DEF RecoverFile, TypeOK, factVars
  <1>2. ASSUME RecoverForget
        PROVE  TypeOK'
    <2>1. section \in Holder /\ section # Free
      BY <1>2, HolderType DEF RecoverForget, At
    <2>2. section.job.op \in {"publish", "rollback"} => section.job \in Publication \cup Reversion
      BY <2>1 DEF Holder, Opening, Change
    <2>3. section' \in Holder \cup {Free}
      BY <1>2, <2>1, <2>2, GatedType, GoesToType DEF RecoverForget, Leaves, Stages
    <2>4. QED
      BY <1>2, <2>3 DEF RecoverForget, TypeOK, factVars
  <1>3. ASSUME WriteJournal
        PROVE  TypeOK'
    <2>1. /\ section \in Holder /\ section # Free
          /\ section.job \in Publication \cup Reversion
      BY <1>3, HolderType DEF WriteJournal, At, HolderInv
    <2>2. journal' \in Journal
      BY <1>3, <2>1, NewType DEF WriteJournal, Journal, Holder
    <2>3. section' \in Holder
      BY <1>3, <2>1, GoesToType DEF WriteJournal, Stages
    <2>4. QED
      BY <1>3, <2>2, <2>3 DEF WriteJournal, TypeOK, factVars
  <1>4. ASSUME Project
        PROVE  TypeOK'
    <2>1. /\ section \in Holder /\ section # Free
          /\ section.job \in Publication \cup Reversion
      BY <1>4, HolderType DEF Project, At, HolderInv
    <2>2. file' \in [Names -> Content]
      BY <1>4, <2>1, NewType DEF Project, TypeOK, Content
    <2>3. section' \in Holder
      BY <1>4, <2>1, GoesToType DEF Project, Stages
    <2>4. QED
      BY <1>4, <2>2, <2>3 DEF Project, TypeOK, factVars
  <1>5. ASSUME Commit
        PROVE  TypeOK'
    <2>1. /\ section # Free /\ section.job \in Publication \cup Reversion
          /\ versions' \in [Names -> Seq(Version)]
          /\ receipts' = receipts \cup {section.job}
      BY <1>5, CommitFacts
    <2>2. section' \in Holder
      BY <1>5, <2>1, GoesToType DEF Commit, Stages
    <2>3. QED
      BY <1>5, <2>1, <2>2 DEF Commit, TypeOK
  <1>6. ASSUME Tidy \/ Stop
        PROVE  TypeOK'
    BY <1>6 DEF Tidy, Stop, Leaves, TypeOK, factVars
  <1>7. ASSUME Undo
        PROVE  TypeOK'
    <2>1. section' \in Holder
      BY <1>7, GoesToType DEF Undo, At, Stages
    <2>2. QED
      BY <1>7, <2>1 DEF Undo, TypeOK, factVars
  <1>8. ASSUME Restore \/ SwapIn \/ PutBack
        PROVE  TypeOK'
    <2>1. section \in Holder /\ section # Free /\ section.previous \in Content
      BY <1>8, HolderType DEF Restore, SwapIn, PutBack, At, Holder
    <2>2. [by |-> "console", id |-> drawn + 1] \in Content /\ drawn + 1 \in Nat
      BY DEF TypeOK, Content, Written
    <2>3. file' \in [Names -> Content]
      BY <1>8, <2>1, <2>2 DEF Restore, SwapIn, PutBack, TypeOK
    <2>4. section' \in Holder \cup {Free}
      BY <1>8, <2>1, GoesToType DEF Restore, SwapIn, PutBack, Leaves, Stages
    <2>5. drawn' \in Nat
      BY <1>8, <2>2 DEF Restore, SwapIn, PutBack, TypeOK
    <2>6. QED
      BY <1>8, <2>3, <2>4, <2>5 DEF Restore, SwapIn, PutBack, TypeOK, factVars
  <1>9. ASSUME Refresh
        PROVE  TypeOK'
    <2>1. section' \in Holder \cup {Free}
      BY <1>9, GoesToType DEF Refresh, At, Leaves, Stages
    <2>2. QED
      BY <1>9, <2>1 DEF Refresh, TypeOK, factVars
  <1>10. QED
    BY <1>1, <1>2, <1>3, <1>4, <1>5, <1>6, <1>7, <1>8, <1>9 DEF Section

\* Every step keeps the types.
LEMMA TypeStep ==
    ASSUME TypeOK, HolderInv, DirectoryInv, [Next]_vars
    PROVE  TypeOK'
  <1>1. CASE Section
    BY <1>1, SectionTypes
  <1>2. CASE Open
    <2>1. [stage |-> "recover", job |-> [op |-> "open"], previous |-> NoFile] \in Holder
      BY DEF Holder, Stages, Opening, Content
    <2>2. QED
      BY <1>2, <2>1 DEF Open, TypeOK, factVars
  <1>3. CASE EditSuite
    BY <1>3 DEF EditSuite, TypeOK, factVars
  <1>4. ASSUME NEW e \in running, NEW passed \in BOOLEAN, FinishEvaluation(e, passed)
        PROVE  TypeOK'
    <2>1. [name |-> e.name, version |-> e.version, validator |-> e.validator,
           suite |-> e.suite, passed |-> passed] \in Evaluation
      BY DEF TypeOK, Evaluation
    <2>2. evaluations' \subseteq Evaluation
      BY <1>4, <2>1 DEF FinishEvaluation, TypeOK
    <2>3. QED
      BY <1>4, <2>2 DEF FinishEvaluation, TypeOK
  <1>5. ASSUME NEW n \in Names, Lifecycle(n) \/ Directory(n)
        PROVE  TypeOK'
    BY <1>5, NamedTypes
  <1>6. CASE UNCHANGED vars
    BY <1>6 DEF vars, factVars, TypeOK
  <1>7. QED
    BY <1>1, <1>2, <1>3, <1>4, <1>5, <1>6 DEF Next

----------------------------------------------------------------------------
(* The facts.                                                              *)

\* What a version claims stays true when at most its state has changed.
LEMMA SoundStays ==
    ASSUME Grows, NEW n \in Names, NEW version, Sound(n, version), NEW later,
           later.body = version.body, later.owner = version.owner, later.by = version.by,
           later.evidence = version.evidence, later.from = version.from,
           later.status = "candidate" => version.status = "candidate",
           later.status = "active" => version.status = "active"
    PROVE  Sound(n, later)'
  <1>1. \A e \in later.evidence : Backs(e, n, later)'
    <2>1. \A e \in version.evidence : Backs(e, n, version)
      BY DEF Sound
    <2>2. QED
      BY <2>1 DEF Backs, Grows
  <1>2. later.from # 0 => Receipt(n, later) \in receipts'
    BY DEF Sound, Receipt, Grows
  <1>3. QED
    BY <1>1, <1>2 DEF Sound, Receipt

\* An evaluation stays one of somebody else's version.
LEMMA EvaluationsStay ==
    ASSUME TypeOK, FactsInv, Grows, evaluations' = evaluations, running' = running
    PROVE  \A e \in (evaluations \cup running)' :
              /\ e.version \in VersionsOf(e.name)'
              /\ e.validator # versions'[e.name][e.version].owner
  <1>1. \A e \in evaluations \cup running : e.name \in Names
    BY DEF TypeOK, Evaluation
  <1>2. QED
    BY <1>1 DEF FactsInv, Grows

\* A step that at most moves candidates: those that were there are as they were,
\* up to a rejection, and what is new is a candidate.
Kept(old, new) ==
    /\ new.body = old.body /\ new.owner = old.owner /\ new.by = old.by
    /\ new.evidence = old.evidence /\ new.from = old.from
    /\ new.status = old.status \/ (new.status = "rejected" /\ old.status = "candidate")

Fresh(new) == new.status = "candidate" /\ new.from = 0 /\ new.evidence = {}

Moves ==
    /\ UNCHANGED <<evaluations, running, receipts>>
    /\ \A n \in Names :
          /\ VersionsOf(n) \subseteq VersionsOf(n)'
          /\ \A v \in VersionsOf(n)' :
                IF v \in VersionsOf(n) THEN Kept(versions[n][v], versions'[n][v])
                ELSE Fresh(versions'[n][v])

LEMMA MovesStep ==
    ASSUME TypeOK, FactsInv, Moves
    PROVE  /\ FactsInv' /\ Grows
           /\ \A n \in Names : ActiveOf(n)' = ActiveOf(n) /\ Projection(n)' = Projection(n)
  <1>1. Grows
    BY DEF Grows, Moves, Kept
  <1>2. \A n \in Names : \A v \in VersionsOf(n)' : Sound(n, versions[n][v])'
    <2> SUFFICES ASSUME NEW n \in Names, NEW v \in VersionsOf(n)'
                 PROVE  Sound(n, versions[n][v])'
      OBVIOUS
    <2>1. CASE v \in VersionsOf(n)
      <3>1. Sound(n, versions[n][v])
        BY <2>1 DEF FactsInv
      <3>2. QED
        BY <1>1, <2>1, <3>1, SoundStays DEF Moves, Kept
    <2>2. CASE v \notin VersionsOf(n)
      BY <2>2 DEF Moves, Fresh, Sound
    <2>3. QED
      BY <2>1, <2>2
  <1>3. \A n \in Names : ActiveOf(n)' = ActiveOf(n)
    BY DEF Moves, Kept, Fresh, ActiveOf
  <1>4. \A n \in Names : Projection(n)' = Projection(n)
    BY <1>1, <1>3 DEF Projection, ActiveOf, Grows
  <1>5. RollbackOnce'
    <2> SUFFICES ASSUME NEW n \in Names, NEW v \in VersionsOf(n)', NEW w \in VersionsOf(n)',
                        versions'[n][v].from # 0,
                        versions'[n][v].from = versions'[n][w].from,
                        versions'[n][v].by = versions'[n][w].by
                 PROVE  v = w
      BY DEF RollbackOnce
    <2>1. /\ v \in VersionsOf(n) /\ w \in VersionsOf(n)
          /\ versions[n][v].from = versions'[n][v].from
          /\ versions[n][w].from = versions'[n][w].from
          /\ versions[n][v].by = versions'[n][v].by
          /\ versions[n][w].by = versions'[n][w].by
      BY DEF Moves, Kept, Fresh
    <2>2. QED
      BY <2>1 DEF FactsInv, RollbackOnce
  <1>6. QED
    BY <1>1, <1>2, <1>3, <1>4, <1>5, EvaluationsStay DEF FactsInv, Moves

LEMMA ProposeMoves ==
    ASSUME TypeOK, NEW n \in Names, NEW who \in Proposers, NEW takes \in Content,
           Propose(n, who, takes)
    PROVE  Moves
  <1> DEFINE k == Len(versions[n]) + 1
  <1>1. /\ Len(versions[n]) \in Nat
        /\ \A m \in Names \ {n} : versions'[m] = versions[m]
        /\ Len(versions'[n]) = k
        /\ \A v \in VersionsOf(n) : versions'[n][v] = versions[n][v]
        /\ versions'[n][k].status = "candidate" /\ versions'[n][k].from = 0
        /\ versions'[n][k].evidence = {}
    BY ProposeFacts, VersionType DEF VersionsOf
  <1>2. VersionsOf(n)' = VersionsOf(n) \cup {k} /\ k \notin VersionsOf(n)
    BY <1>1 DEF VersionsOf
  <1>3. \A m \in Names \ {n} : VersionsOf(m)' = VersionsOf(m)
    BY <1>1 DEF VersionsOf
  <1> HIDE DEF k
  <1>4. \A m \in Names : \A v \in VersionsOf(m)' :
           IF v \in VersionsOf(m) THEN versions'[m][v] = versions[m][v]
           ELSE Fresh(versions'[m][v])
    BY <1>1, <1>2, <1>3 DEF Fresh
  <1>5. \A m \in Names : VersionsOf(m) \subseteq VersionsOf(m)'
    BY <1>2, <1>3
  <1>6. \A version : Kept(version, version)
    BY DEF Kept
  <1>7. UNCHANGED <<evaluations, running, receipts>>
    BY DEF Propose
  <1>8. QED
    BY <1>4, <1>5, <1>6, <1>7 DEF Moves

LEMMA RejectMoves ==
    ASSUME TypeOK, NEW n \in Names, NEW v \in VersionsOf(n), NEW who, Reject(n, v, who)
    PROVE  Moves
  <1>1. /\ \A m \in Names \ {n} : versions'[m] = versions[m]
        /\ Len(versions'[n]) = Len(versions[n])
        /\ versions[n][v].status = "candidate"
        /\ \A w \in VersionsOf(n) :
              versions'[n][w] = IF w = v THEN [versions[n][v] EXCEPT !.status = "rejected"]
                                ELSE versions[n][w]
    BY RejectFacts
  <1>2. \A m \in Names : VersionsOf(m)' = VersionsOf(m)
    BY <1>1 DEF VersionsOf
  <1>3. versions[n][v] \in Version
    BY VersionType DEF VersionsOf
  <1>4. Kept(versions[n][v], [versions[n][v] EXCEPT !.status = "rejected"])
    BY <1>1, <1>3 DEF Version, Kept
  <1>5. \A m \in Names : \A w \in VersionsOf(m) : Kept(versions[m][w], versions'[m][w])
    <2> SUFFICES ASSUME NEW m \in Names, NEW w \in VersionsOf(m)
                 PROVE  Kept(versions[m][w], versions'[m][w])
      OBVIOUS
    <2>1. CASE m = n /\ w = v
      <3>1. versions'[n][v] = [versions[n][v] EXCEPT !.status = "rejected"]
        BY <1>1
      <3>2. QED
        BY <1>4, <2>1, <3>1
    <2>2. CASE ~(m = n /\ w = v)
      <3>1. versions'[m][w] = versions[m][w]
        BY <1>1, <2>2
      <3>2. QED
        BY <3>1 DEF Kept
    <2>3. QED
      BY <2>1, <2>2
  <1>6. QED
    BY <1>2, <1>5 DEF Reject, Moves

\* Steps that leave the versions alone; an evaluation may start or finish.
LEMMA EvaluationStep ==
    ASSUME TypeOK, FactsInv, UNCHANGED <<versions, receipts>>,
           evaluations \subseteq evaluations',
           \A e \in (evaluations \cup running)' :
              /\ e.version \in VersionsOf(e.name)
              /\ e.validator # versions[e.name][e.version].owner
    PROVE  /\ FactsInv' /\ Grows
           /\ \A n \in Names : ActiveOf(n)' = ActiveOf(n) /\ Projection(n)' = Projection(n)
  <1>1. \A n \in Names : VersionsOf(n)' = VersionsOf(n) /\ ActiveOf(n)' = ActiveOf(n)
    BY DEF VersionsOf, ActiveOf
  <1>2. Grows
    BY <1>1 DEF Grows
  <1>3. \A n \in Names : \A v \in VersionsOf(n)' : Sound(n, versions[n][v])'
    <2> SUFFICES ASSUME NEW n \in Names, NEW v \in VersionsOf(n)
                 PROVE  Sound(n, versions[n][v])'
      BY <1>1
    <2>1. Sound(n, versions[n][v])
      BY DEF FactsInv
    <2>2. QED
      BY <1>2, <2>1, SoundStays
  <1>4. RollbackOnce'
    BY <1>1 DEF FactsInv, RollbackOnce
  <1>5. \A e \in (evaluations \cup running)' :
           /\ e.version \in VersionsOf(e.name)'
           /\ e.validator # versions'[e.name][e.version].owner
    BY DEF VersionsOf
  <1>6. \A n \in Names : Projection(n)' = Projection(n)
    BY <1>1 DEF Projection
  <1>7. QED
    BY <1>1, <1>2, <1>3, <1>4, <1>5, <1>6 DEF FactsInv


\* What a commit makes of its name: the version k is new or has become active,
\* the others are at most superseded.
Committed(job, n, k) ==
    /\ job = section.job /\ n = job.name /\ k = NewNumber(job)
    /\ job \in Publication \cup Reversion /\ Checked(job)
    /\ job \in Publication => k = job.version /\ job.evaluation \in evaluations
    /\ job \notin Publication => job \in Reversion /\ k \notin VersionsOf(n)
    /\ n \in Names /\ job.version \in VersionsOf(n)
    /\ VersionsOf(n)' = VersionsOf(n) \cup {k}
    /\ \A v \in VersionsOf(n) \ {k} : versions'[n][v] = Retired(versions[n][v])
    /\ versions'[n][k] = Activated(versions[n][job.version], job)
    /\ \A m \in Names \ {n} : versions'[m] = versions[m] /\ VersionsOf(m)' = VersionsOf(m)
    /\ UNCHANGED <<evaluations, running>> /\ receipts' = receipts \cup {job}

LEMMA CommitEffect ==
    ASSUME TypeOK, HolderInv, Commit
    PROVE  \E job, n, k : Committed(job, n, k)
  <1> SUFFICES ASSUME NEW job, job = section.job, NEW n, n = job.name,
                      NEW k, k = NewNumber(job)
               PROVE  Committed(job, n, k)
    OBVIOUS
  <1>1. /\ n \in Names /\ job.version \in VersionsOf(n)
        /\ job \in Publication \cup Reversion /\ Checked(job)
        /\ versions'[n] = IF job \in Publication THEN Published(job) ELSE RolledBack(job)
        /\ \A m \in Names \ {n} : versions'[m] = versions[m]
        /\ receipts' = receipts \cup {job}
    BY CommitFacts
  <1>2. \A m \in Names \ {n} : VersionsOf(m)' = VersionsOf(m)
    BY <1>1 DEF VersionsOf
  <1>3. /\ UNCHANGED <<evaluations, running>>
        /\ job \in Publication => job.evaluation \in evaluations
    BY DEF Commit, HolderInv, At
  <1>4. Len(versions[n]) \in Nat
    BY <1>1, VersionType
  <1>5. CASE job \in Publication
    <2>1. k = job.version /\ versions[n][job.version].status # "active"
      BY <1>1, <1>5 DEF NewNumber, Publication, Checked
    <2>2. /\ Len(Published(job)) = Len(versions[n])
          /\ \A v \in VersionsOf(n) :
                Published(job)[v] = IF v = job.version THEN Activated(versions[n][v], job)
                                    ELSE Retired(versions[n][v])
      BY <1>1, <1>5, <2>1, PublishedFacts
    <2>3. versions'[n] = Published(job)
      BY <1>1, <1>5
    <2>4. VersionsOf(n)' = VersionsOf(n) \cup {k}
      BY <1>1, <2>1, <2>2, <2>3 DEF VersionsOf
    <2>5. /\ \A v \in VersionsOf(n) \ {k} : versions'[n][v] = Retired(versions[n][v])
          /\ versions'[n][k] = Activated(versions[n][job.version], job)
      BY <1>1, <2>1, <2>2, <2>3
    <2>6. QED
      BY <1>1, <1>2, <1>3, <1>5, <2>1, <2>4, <2>5 DEF Committed
  <1>6. CASE job \notin Publication
    <2>1. job \in Reversion /\ k = Len(versions[n]) + 1
      BY <1>1, <1>6 DEF NewNumber, Reversion
    <2>2. /\ Len(RolledBack(job)) = Len(versions[n]) + 1
          /\ \A v \in VersionsOf(n) : RolledBack(job)[v] = Retired(versions[n][v])
          /\ RolledBack(job)[k] = Activated(versions[n][job.version], job)
      BY <1>1, <2>1, RolledBackFacts
    <2>3. versions'[n] = RolledBack(job)
      BY <1>1, <1>6
    <2>4. VersionsOf(n)' = VersionsOf(n) \cup {k} /\ k \notin VersionsOf(n)
      BY <1>4, <2>1, <2>2, <2>3 DEF VersionsOf
    <2>5. QED
      BY <1>1, <1>2, <1>3, <1>6, <2>1, <2>2, <2>3, <2>4 DEF Committed
  <1>7. QED
    BY <1>5, <1>6

\* What it makes of each version, field by field
LEMMA CommittedFields ==
    ASSUME TypeOK, NEW job, NEW n, NEW k, Committed(job, n, k)
    PROVE  /\ \A v \in VersionsOf(n) : versions[n][v] \in Version
           /\ \A v \in VersionsOf(n) \ {k} :
                 LET old == versions[n][v]
                     new == versions'[n][v]
                 IN /\ new.body = old.body /\ new.owner = old.owner /\ new.by = old.by
                    /\ new.evidence = old.evidence /\ new.from = old.from
                    /\ new.status # "active"
                    /\ new.status = "candidate" => old.status = "candidate"
           /\ LET old == versions[n][job.version]
                  new == versions'[n][k]
              IN /\ new.body = old.body /\ new.owner = old.owner /\ new.by = job.who
                 /\ new.status = "active"
                 /\ job \in Publication => new.evidence = {job.evaluation} /\ new.from = old.from
                 /\ job \notin Publication => new.evidence = old.evidence /\ new.from = job.version
  <1>1. \A v \in VersionsOf(n) : versions[n][v] \in Version
    BY VersionType DEF VersionsOf, Committed
  <1>2. \A v \in VersionsOf(n) \ {k} : versions'[n][v] = Retired(versions[n][v])
    BY DEF Committed
  <1>3. /\ versions'[n][k] = Activated(versions[n][job.version], job)
        /\ job.version \in VersionsOf(n) /\ job \in Publication \cup Reversion
    BY DEF Committed
  <1>4. QED
    BY <1>1, <1>2, <1>3, RetiredFields, ActivatedFields

\* Exactly one version of the name is active, the new one; nothing is lost.
LEMMA CommittedActive ==
    ASSUME TypeOK, NEW job, NEW n, NEW k, Committed(job, n, k)
    PROVE  /\ ActiveOf(n)' = {k} /\ Grows
           /\ \A m \in Names \ {n} : ActiveOf(m)' = ActiveOf(m) /\ Projection(m)' = Projection(m)
  <1>1. /\ \A v \in VersionsOf(n) \ {k} : versions'[n][v].status # "active"
        /\ versions'[n][k].status = "active"
    BY CommittedFields
  <1>2. ActiveOf(n)' = {k}
    BY <1>1 DEF ActiveOf, Committed
  <1>3. \A m \in Names \ {n} : ActiveOf(m)' = ActiveOf(m) /\ Projection(m)' = Projection(m)
    BY DEF ActiveOf, Projection, Committed
  <1>4. \A v \in VersionsOf(n) : /\ versions'[n][v].body = versions[n][v].body
                                 /\ versions'[n][v].owner = versions[n][v].owner
    <2>1. k \in VersionsOf(n) => k = job.version
      BY DEF Committed
    <2>2. QED
      BY <2>1, CommittedFields
  <1>5. QED
    BY <1>2, <1>3, <1>4 DEF Grows, Committed

\* The new active version is one that others have evaluated.
LEMMA CommittedSound ==
    ASSUME TypeOK, FactsInv, NEW job, NEW n, NEW k, Committed(job, n, k)
    PROVE  Sound(n, versions[n][k])'
  <1> DEFINE old == versions[n][job.version]
             new == versions'[n][k]
  <1>1. /\ n \in Names /\ job.version \in VersionsOf(n)
        /\ job \in Publication \cup Reversion
        /\ receipts' = receipts \cup {job} /\ evaluations' = evaluations
    BY DEF Committed
  <1>2. Sound(n, old)
    BY <1>1 DEF FactsInv
  <1>3. /\ new.body = old.body /\ new.owner = old.owner /\ new.by = job.who
        /\ new.status = "active"
        /\ job \in Publication => new.evidence = {job.evaluation} /\ new.from = old.from
        /\ job \notin Publication => new.evidence = old.evidence /\ new.from = job.version
    BY CommittedFields
  <1>4. old.owner # job.who
    BY DEF Committed, Checked
  <1>5. \A e : Backs(e, n, old) =>
           /\ e \in evaluations' /\ e.passed /\ e.version \in VersionsOf(n)'
           /\ versions'[n][e.version].body = new.body /\ e.validator # new.owner
    BY <1>1, <1>3, CommittedActive DEF Backs, Grows
  <1> HIDE DEF new
  <1>6. CASE job \in Publication
    <2>1. /\ job.evaluation \in evaluations
          /\ job.evaluation.version = job.version /\ job.evaluation.passed
          /\ job.evaluation.validator # job.who /\ old.status = "candidate"
          /\ job.evaluation.name = n
      BY <1>6 DEF Checked, Committed
    <2>2. Backs(job.evaluation, n, old)
      BY <1>1, <2>1 DEF Backs, FactsInv
    <2>3. new.from = 0 /\ new.evidence = {job.evaluation}
      BY <1>2, <1>3, <1>6, <2>1 DEF Sound
    <2>4. QED
      BY <1>3, <1>4, <1>5, <2>1, <2>2, <2>3 DEF Sound, Backs, new
  <1>7. CASE job \notin Publication
    <2>1. \A e \in new.evidence : Backs(e, n, old)
      BY <1>2, <1>3, <1>7 DEF Sound
    <2>2. job \in Reversion /\ \E e \in new.evidence : e.validator # job.who
      BY <1>1, <1>3, <1>7 DEF Checked, Committed
    <2>3. job = [op |-> "rollback", name |-> n, version |-> new.from, who |-> new.by]
      BY <1>3, <1>7, <2>2 DEF Reversion, Committed
    <2>4. QED
      BY <1>1, <1>3, <1>4, <1>5, <2>1, <2>2, <2>3 DEF Sound, Backs, Receipt, new
  <1>8. QED
    BY <1>6, <1>7


\* A rollback that commits has left no version before.
LEMMA CommittedOnce ==
    ASSUME TypeOK, FactsInv, NEW job, NEW n, NEW k, Committed(job, n, k)
    PROVE  RollbackOnce'
  <1>1. /\ n \in Names /\ job.version \in VersionsOf(n)
        /\ VersionsOf(n)' = VersionsOf(n) \cup {k}
        /\ \A m \in Names \ {n} : versions'[m] = versions[m] /\ VersionsOf(m)' = VersionsOf(m)
        /\ job \in Publication \cup Reversion /\ n = job.name
        /\ job \in Publication => k = job.version
        /\ job \notin Publication => job \in Reversion
        /\ job \notin receipts
    BY DEF Committed, Checked
  <1>2. \A v \in VersionsOf(n) \ {k} : /\ versions'[n][v].from = versions[n][v].from
                                       /\ versions'[n][v].by = versions[n][v].by
    BY CommittedFields
  <1>3. \A v \in VersionsOf(n) \ {k} :
           versions'[n][k].from # 0 => /\ versions'[n][v].from # versions'[n][k].from
                                          \/ versions'[n][v].by # versions'[n][k].by
    <2> SUFFICES ASSUME NEW v \in VersionsOf(n) \ {k}, versions'[n][k].from # 0,
                        versions[n][v].from = versions'[n][k].from,
                        versions[n][v].by = versions'[n][k].by
                 PROVE  FALSE
      BY <1>2
    <2>1. Sound(n, versions[n][v]) /\ Sound(n, versions[n][job.version])
      BY <1>1 DEF FactsInv
    <2>2. CASE job \in Publication
      <3>1. versions'[n][k].from = versions[n][job.version].from
        BY <2>2, CommittedFields
      <3>2. versions[n][job.version].status = "candidate"
        BY <2>2 DEF Committed, Checked
      <3>3. QED
        BY <2>1, <3>1, <3>2 DEF Sound
    <2>3. CASE job \notin Publication
      <3>1. versions'[n][k].from = job.version /\ versions'[n][k].by = job.who
        BY <2>3, CommittedFields
      <3>2. Receipt(n, versions[n][v]) = job
        BY <1>1, <2>3, <3>1 DEF Receipt, Reversion
      <3>3. QED
        BY <1>1, <2>1, <3>2 DEF Sound
    <2>4. QED
      BY <2>2, <2>3
  <1>4. SUFFICES ASSUME NEW m \in Names, NEW v \in VersionsOf(m)', NEW w \in VersionsOf(m)',
                        versions'[m][v].from # 0,
                        versions'[m][v].from = versions'[m][w].from,
                        versions'[m][v].by = versions'[m][w].by
                 PROVE  v = w
    BY DEF RollbackOnce
  <1>5. CASE m # n
    BY <1>1, <1>4, <1>5 DEF FactsInv, RollbackOnce
  <1>6. CASE m = n
    <2>1. CASE v = k \/ w = k
      BY <1>1, <1>3, <1>4, <1>6, <2>1
    <2>2. CASE v # k /\ w # k
      BY <1>1, <1>2, <1>4, <1>6, <2>2 DEF FactsInv, RollbackOnce
    <2>3. QED
      BY <2>1, <2>2
  <1>7. QED
    BY <1>5, <1>6

LEMMA CommittedFacts ==
    ASSUME TypeOK, FactsInv, NEW job, NEW n, NEW k, Committed(job, n, k)
    PROVE  FactsInv'
  <1>1. /\ n \in Names /\ VersionsOf(n)' = VersionsOf(n) \cup {k}
        /\ \A m \in Names \ {n} : versions'[m] = versions[m] /\ VersionsOf(m)' = VersionsOf(m)
        /\ evaluations' = evaluations /\ running' = running
    BY DEF Committed
  <1>2. Grows /\ ActiveOf(n)' = {k} /\ \A m \in Names \ {n} : ActiveOf(m)' = ActiveOf(m)
    BY CommittedActive
  <1>3. \A m \in Names : \A v \in VersionsOf(m)' : Sound(m, versions[m][v])'
    <2> SUFFICES ASSUME NEW m \in Names, NEW v \in VersionsOf(m)'
                 PROVE  Sound(m, versions[m][v])'
      OBVIOUS
    <2>1. CASE m = n /\ v = k
      BY <2>1, CommittedSound
    <2>2. CASE m = n /\ v # k
      <3>1. v \in VersionsOf(n) \ {k} /\ Sound(m, versions[m][v])
        BY <1>1, <2>2 DEF FactsInv
      <3>2. LET old == versions[m][v]
                new == versions'[m][v]
            IN /\ new.body = old.body /\ new.owner = old.owner /\ new.by = old.by
               /\ new.evidence = old.evidence /\ new.from = old.from
               /\ new.status # "active"
               /\ new.status = "candidate" => old.status = "candidate"
        BY <2>2, <3>1, CommittedFields
      <3>3. QED
        BY <1>2, <3>1, <3>2, SoundStays
    <2>3. CASE m # n
      <3>1. Sound(m, versions[m][v]) /\ versions'[m][v] = versions[m][v]
        BY <1>1, <2>3 DEF FactsInv
      <3>2. QED
        BY <1>2, <3>1, SoundStays
    <2>4. QED
      BY <2>1, <2>2, <2>3
  <1>4. \A m \in Names : \A v, w \in ActiveOf(m)' : v = w
    BY <1>2 DEF FactsInv
  <1>5. QED
    BY <1>1, <1>2, <1>3, <1>4, CommittedOnce, EvaluationsStay DEF FactsInv

\* What is active, and its renderings, stay as they are.
Quiet == \A n \in Names : ActiveOf(n)' = ActiveOf(n) /\ Projection(n)' = Projection(n)

\* Every step keeps the facts in order; only a commit changes what is active.
LEMMA FactsStep ==
    ASSUME TypeOK, FactsInv, HolderInv, [Next]_vars
    PROVE  FactsInv' /\ Grows /\ (Quiet \/ Commit)
  <1>1. ASSUME UNCHANGED <<factVars, running>>
        PROVE  FactsInv' /\ Grows /\ Quiet
    <2>1. UNCHANGED <<versions, receipts, evaluations, running>>
      BY <1>1 DEF factVars
    <2>2. \A e \in (evaluations \cup running)' :
             /\ e.version \in VersionsOf(e.name)
             /\ e.validator # versions[e.name][e.version].owner
      BY <2>1 DEF FactsInv
    <2>3. QED
      BY <2>1, <2>2, EvaluationStep DEF Quiet
  <1>2. CASE Commit
    <2>1. PICK job, n, k : Committed(job, n, k)
      BY <1>2, CommitEffect
    <2>2. QED
      BY <1>2, <2>1, CommittedFacts, CommittedActive
  <1>3. ASSUME NEW e \in running, NEW passed \in BOOLEAN, FinishEvaluation(e, passed)
        PROVE  FactsInv' /\ Grows /\ Quiet
    <2>1. UNCHANGED <<versions, receipts>> /\ evaluations \subseteq evaluations'
      BY <1>3 DEF FinishEvaluation
    <2>2. \A f \in (evaluations \cup running)' :
             /\ f.version \in VersionsOf(f.name)
             /\ f.validator # versions[f.name][f.version].owner
      <3>1. \A f \in evaluations \cup running :
               /\ f.version \in VersionsOf(f.name)
               /\ f.validator # versions[f.name][f.version].owner
        BY DEF FactsInv
      <3>2. \A f \in (evaluations \cup running)' :
               \/ f \in evaluations \cup running
               \/ f = [name |-> e.name, version |-> e.version, validator |-> e.validator,
                       suite |-> e.suite, passed |-> passed]
        BY <1>3 DEF FinishEvaluation
      <3>3. QED
        BY <3>1, <3>2
    <2>3. QED
      BY <2>1, <2>2, EvaluationStep DEF Quiet
  <1>4. ASSUME NEW n \in Names, Lifecycle(n)
        PROVE  FactsInv' /\ Grows /\ Quiet
    <2>1. ASSUME NEW who \in Proposers, NEW takes \in {NoFile, file[n]}, Propose(n, who, takes)
          PROVE  Moves
      <3>1. takes \in Content
        BY DEF TypeOK, Content
      <3>2. QED
        BY <2>1, <3>1, ProposeMoves
    <2>2. ASSUME NEW v \in VersionsOf(n), NEW who \in Validators, Reject(n, v, who)
          PROVE  Moves
      BY <2>2, RejectMoves
    <2>3. ASSUME NEW v \in VersionsOf(n), NEW who \in Validators, StartEvaluation(n, v, who)
          PROVE  FactsInv' /\ Grows /\ Quiet
      <3>1. /\ UNCHANGED <<versions, receipts, evaluations>>
            /\ versions[n][v].owner # who
            /\ running' = running \cup {[name |-> n, version |-> v, validator |-> who,
                                         suite |-> suite]}
        BY <2>3 DEF StartEvaluation, factVars
      <3>2. \A f \in (evaluations \cup running)' :
               /\ f.version \in VersionsOf(f.name)
               /\ f.validator # versions[f.name][f.version].owner
        BY <3>1 DEF FactsInv
      <3>3. QED
        BY <3>1, <3>2, EvaluationStep DEF Quiet
    <2>4. ASSUME NEW v \in VersionsOf(n), NEW who \in Publishers,
                 Publish(n, v, who) \/ Rollback(n, v, who)
          PROVE  UNCHANGED <<factVars, running>>
      BY <2>4 DEF Publish, Rollback, Enter
    <2>5. Moves => FactsInv' /\ Grows /\ Quiet
      BY MovesStep DEF Quiet
    <2>6. UNCHANGED <<factVars, running>> => FactsInv' /\ Grows /\ Quiet
      BY <1>1
    <2>7. QED
      BY <1>4, <2>1, <2>2, <2>3, <2>4, <2>5, <2>6 DEF Lifecycle
  <1>5. ASSUME Section \/ Open \/ EditSuite \/ \E n \in Names : Directory(n)
        PROVE  UNCHANGED <<factVars, running>> \/ Commit
    BY <1>5 DEF Section, RecoverFile, RecoverForget, WriteJournal, Project, Tidy, Undo, Restore,
                Stop, SwapIn, Refresh, PutBack, Open, EditSuite, Directory, PutAside,
                FindWritable, ToolWrite
  <1>6. CASE UNCHANGED vars
    BY <1>1, <1>6 DEF vars
  <1>7. QED
    BY <1>1, <1>2, <1>3, <1>4, <1>5, <1>6 DEF Next

----------------------------------------------------------------------------
(* The holder of the lock.                                                 *)

\* What the gate has seen
LEMMA GateChecks ==
    ASSUME TypeOK, NEW job \in Publication \cup Reversion, MayGoOn(job)
    PROVE  Checked(job)
  <1>1. /\ job \in Publication => job.op = "publish"
        /\ job \in Reversion => job.op = "rollback"
    BY DEF Publication, Reversion
  <1>2. CASE job \in Publication
    BY <1>1, <1>2 DEF MayGoOn, Replayed, MayPublish, Passes, Checked, Reversion
  <1>3. CASE job \in Reversion
    BY <1>1, <1>3 DEF MayGoOn, Replayed, MayRollBack, Passes, Checked, Publication
  <1>4. QED
    BY <1>2, <1>3

\* Behind the gate, or gone
LEMMA GatedHolder ==
    ASSUME TypeOK, NEW job \in Publication \cup Reversion,
           job.version \in VersionsOf(job.name),
           job \in Publication => job.evaluation \in evaluations,
           UNCHANGED factVars, section' = Gated(job)
    PROVE  HolderInv'
  <1>1. CASE section' = Free
    BY <1>1 DEF HolderInv
  <1>2. CASE section' # Free
    <2>1. section'.job = job /\ MayGoOn(job)
      BY <1>2, GatedType
    <2>2. Checked(job)
      BY <2>1, GateChecks
    <2>3. Checked(job)' /\ job.version \in VersionsOf(job.name)' /\ evaluations' = evaluations
      BY <2>2 DEF factVars, Checked, ActiveOf, VersionsOf
    <2>4. QED
      BY <2>1, <2>3 DEF HolderInv
  <1>3. QED
    BY <1>1, <1>2

\* The lock is kept, outside the transaction, by the same holder.
LEMMA OutsideHolder ==
    ASSUME TypeOK, HolderInv, Grows, section # Free, section'.job = section.job,
           section'.stage \notin {"journal", "project", "commit"}
    PROVE  HolderInv'
  <1> DEFINE job == section.job
  <1>1. /\ job \in Publication \cup Reversion => job.version \in VersionsOf(job.name)
        /\ job \in Publication => job.evaluation \in evaluations
    BY DEF HolderInv
  <1>2. job \in Publication \cup Reversion => job.name \in Names
    BY DEF Publication, Reversion
  <1>3. /\ job \in Publication \cup Reversion => job.version \in VersionsOf(job.name)'
        /\ job \in Publication => job.evaluation \in evaluations'
    BY <1>1, <1>2 DEF Grows
  <1>4. QED
    BY <1>3 DEF HolderInv

\* Nothing that the invariant of the holder is about changes.
LEMMA SameHolder ==
    ASSUME HolderInv, UNCHANGED <<factVars, section>>
    PROVE  HolderInv'
  BY DEF HolderInv, factVars, Checked, ActiveOf, VersionsOf

\* The transaction goes on.
LEMMA InsideHolder ==
    ASSUME HolderInv, UNCHANGED factVars, section # Free, section'.job = section.job,
           section.stage \in {"journal", "project", "commit"}
    PROVE  HolderInv'
  <1> DEFINE job == section.job
  <1>1. /\ job \in Publication \cup Reversion /\ Checked(job)
        /\ job.version \in VersionsOf(job.name)
        /\ job \in Publication => job.evaluation \in evaluations
    BY DEF HolderInv
  <1>2. Checked(job)' /\ (job.version \in VersionsOf(job.name))' /\ evaluations' = evaluations
    <2> SUFFICES ASSUME NEW j, j = job
                 PROVE  Checked(j)' /\ j.version \in VersionsOf(j.name)'
                        /\ evaluations' = evaluations
      BY DEF Checked, VersionsOf
    <2>1. QED
      BY <1>1 DEF factVars, Checked, ActiveOf, VersionsOf
  <1>3. QED
    BY <1>1, <1>2 DEF HolderInv

LEMMA EnterHolder ==
    ASSUME TypeOK, NEW job \in Publication \cup Reversion, Enter(job),
           job.version \in VersionsOf(job.name),
           job \in Publication => job.evaluation \in evaluations
    PROVE  HolderInv'
  <1>1. UNCHANGED factVars
    BY DEF Enter
  <1>2. CASE section' = Gated(job)
    BY <1>1, <1>2, GatedHolder
  <1>3. CASE section' = [stage |-> "recover", job |-> job, previous |-> NoFile]
    <2>1. section'.job = job /\ section'.stage = "recover"
      BY <1>3
    <2>2. job.version \in VersionsOf(job.name)' /\ evaluations' = evaluations
      BY <1>1 DEF factVars, VersionsOf
    <2>3. QED
      BY <2>1, <2>2 DEF HolderInv
  <1>4. QED
    BY <1>2, <1>3 DEF Enter

\* Every step keeps the promises of the holder.
LEMMA HolderStep ==
    ASSUME TypeOK, FactsInv, HolderInv, DirectoryInv, [Next]_vars
    PROVE  HolderInv'
  <1>1. Grows
    BY FactsStep
  <1>2. CASE section' = Free
    BY <1>2 DEF HolderInv
  <1>3. ASSUME UNCHANGED section, NoTransaction \/ UNCHANGED factVars
        PROVE  HolderInv'
    <2>1. CASE UNCHANGED factVars
      BY <1>3, <2>1, SameHolder
    <2>2. CASE NoTransaction /\ section # Free
      BY <1>1, <1>3, <2>2, OutsideHolder DEF NoTransaction
    <2>3. QED
      BY <1>2, <1>3, <2>1, <2>2
  <1>4. CASE Section
    <2>1. section # Free /\ section \in Holder
      BY <1>4, HolderType DEF Section, RecoverFile, RecoverForget, WriteJournal, Project, Commit,
                  Tidy, Undo, Restore, Stop, SwapIn, Refresh, PutBack, At
    <2>2. ASSUME NEW stage \in Stages, GoesTo(stage),
                 stage \notin {"journal", "project", "commit"}
          PROVE  HolderInv'
      BY <1>1, <2>1, <2>2, GoesToType, OutsideHolder
    <2>3. CASE WriteJournal \/ Project
      <3>1. section'.job = section.job /\ section.stage \in {"journal", "project"}
        BY <2>1, <2>3, GoesToType DEF WriteJournal, Project, At, Stages
      <3>2. QED
        BY <2>1, <2>3, <3>1, InsideHolder DEF WriteJournal, Project
    <2>4. CASE RecoverForget /\ section.job.op \in {"publish", "rollback"}
      <3>1. section.job \in Publication \cup Reversion
        BY <2>1, <2>4 DEF Holder, Opening, Change
      <3>2. section' = Gated(section.job) /\ UNCHANGED factVars
        BY <2>4 DEF RecoverForget
      <3>3. PICK job \in Publication \cup Reversion : job = section.job
        BY <3>1
      <3>4. /\ job.version \in VersionsOf(job.name)
            /\ job \in Publication => job.evaluation \in evaluations
        BY <2>1, <3>3 DEF HolderInv
      <3>5. QED
        BY <3>2, <3>3, <3>4, GatedHolder
    <2>5. CASE RecoverForget /\ section.job.op \notin {"publish", "rollback"}
      BY <1>2, <2>2, <2>5 DEF RecoverForget, Leaves, Stages
    <2>6. CASE RecoverFile \/ Commit \/ Tidy \/ Undo \/ Restore \/ Stop \/ SwapIn
               \/ Refresh \/ PutBack
      BY <1>2, <2>2, <2>6 DEF RecoverFile, Commit, Tidy, Undo, Restore, Stop, SwapIn, Refresh,
                              PutBack, Leaves, Stages
    <2>7. QED
      BY <1>4, <2>3, <2>4, <2>5, <2>6 DEF Section
  <1>5. CASE Open
    <2>1. section'.job \in Opening /\ section'.stage = "recover"
      BY <1>5 DEF Open, Opening
    <2>2. QED
      BY <2>1 DEF HolderInv, Opening, Publication, Reversion
  <1>6. ASSUME NEW n \in Names, NEW v \in VersionsOf(n), NEW who \in Publishers,
               Publish(n, v, who) \/ Rollback(n, v, who)
        PROVE  HolderInv'
    <2>1. CASE Publish(n, v, who)
      <3>1. PICK e \in evaluations :
               Enter([op |-> "publish", name |-> n, version |-> v, evaluation |-> e,
                      who |-> who])
        BY <2>1 DEF Publish
      <3>2. QED
        BY <3>1, JobType, EnterHolder
    <2>2. CASE Rollback(n, v, who)
      BY <2>2, JobType, EnterHolder DEF Rollback
    <2>3. QED
      BY <1>6, <2>1, <2>2
  <1>7. ASSUME NEW n \in Names, NEW op \in {"install", "delete"}, PutAside(op, n)
        PROVE  HolderInv'
    <2>1. section'.job \in Change /\ section'.stage \in {"swap", "refresh"}
      BY <1>7 DEF PutAside, Change
    <2>2. QED
      BY <2>1 DEF HolderInv, Change, Publication, Reversion
  <1>8. ASSUME NEW n \in Names, Lifecycle(n)
        PROVE  HolderInv'
    BY <1>3, <1>6, <1>8 DEF Lifecycle, Propose, StartEvaluation, Reject
  <1>9. ASSUME NEW n \in Names, Directory(n)
        PROVE  HolderInv'
    BY <1>3, <1>7, <1>9 DEF Directory, FindWritable, ToolWrite
  <1>10. CASE EditSuite \/ UNCHANGED vars
    BY <1>3, <1>10 DEF EditSuite, vars
  <1>11. ASSUME NEW e \in running, NEW passed \in BOOLEAN, FinishEvaluation(e, passed)
         PROVE  HolderInv'
    BY <1>3, <1>11 DEF FinishEvaluation
  <1>12. QED
    BY <1>4, <1>5, <1>8, <1>9, <1>10, <1>11 DEF Next

----------------------------------------------------------------------------
(* The directory.                                                          *)

\* What the facts and a file say of a name, when neither changes
LEMMA ShownSame ==
    ASSUME NEW n \in Names, ActiveOf(n)' = ActiveOf(n), Projection(n)' = Projection(n)
    PROVE  /\ file'[n] = file[n] => (Shown(n)' <=> Shown(n))
           /\ \A content : Restorable(n, content)' <=> Restorable(n, content)
  BY DEF Shown, Restorable, ToolWritten, Governed

LEMMA NamesOfJobs ==
    ASSUME TypeOK
    PROVE  /\ journal # NoJournal => journal.name \in Names
           /\ section # Free /\ section.job \in Publication \cup Reversion \cup Change
                 => section.job.name \in Names
  BY DEF TypeOK, Journal, Publication, Reversion, Change

\* Steps that touch neither a file, nor the journal, nor the lock
LEMMA QuietDirectory ==
    ASSUME TypeOK, DirectoryInv, Quiet, UNCHANGED <<file, journal, section>>,
           NoTransaction \/ UNCHANGED versions
    PROVE  DirectoryInv'
  <1>1. Undoable'
    BY NamesOfJobs DEF DirectoryInv, Undoable, Quiet, Governed
  <1>2. AllShown'
    BY ShownSame DEF DirectoryInv, AllShown, InDoubt, Quiet
  <1>3. Placed'
    <2> SUFFICES ASSUME section # Free, NEW job, job = section.job
                 PROVE  Placed'
      BY DEF Placed
    <2>1. job \in Publication \cup Reversion \cup Change => job.name \in Names
      BY NamesOfJobs
    <2>2. job \in Publication \cup Reversion =>
             (Restorable(job.name, section.previous)' <=> Restorable(job.name, section.previous))
      BY <2>1, ShownSame DEF Quiet
    <2>3. section.stage = "commit" =>
             NewNumber(job)' = NewNumber(job) /\ NewBody(job)' = NewBody(job)
      BY DEF NoTransaction, NewNumber, NewBody
    <2>4. job \in Change => ActiveOf(job.name)' = ActiveOf(job.name)
      BY <2>1 DEF Quiet
    <2>5. QED
      BY <2>2, <2>3, <2>4 DEF DirectoryInv, Placed, Governed, ToolWritten
  <1>4. QED
    BY <1>1, <1>2, <1>3 DEF DirectoryInv

\* Without a change of the facts, what is active stays.
LEMMA UnchangedIsQuiet ==
    ASSUME UNCHANGED factVars
    PROVE  Quiet /\ UNCHANGED versions
  BY DEF factVars, Quiet, ActiveOf, Projection, VersionsOf

\* What the journal does not name is shown.
LEMMA OthersShown ==
    ASSUME DirectoryInv, NEW n \in Names, journal # NoJournal => n # journal.name
    PROVE  Shown(n)
  BY DEF DirectoryInv, AllShown, InDoubt

\* Nobody holds the lock in the new state; the journal stays.
LEMMA LeavesDirectory ==
    ASSUME TypeOK, DirectoryInv, Quiet, UNCHANGED journal, Leaves,
           \A n \in Names : (journal # NoJournal => n # journal.name) => Shown(n)'
    PROVE  DirectoryInv'
  <1>1. Undoable'
    BY NamesOfJobs DEF DirectoryInv, Undoable, Quiet, Governed
  <1>2. AllShown'
    BY DEF DirectoryInv, AllShown, InDoubt, Leaves, Free
  <1>3. QED
    BY <1>1, <1>2 DEF DirectoryInv, Placed, Leaves

\* The recovery makes the file what the facts say.
LEMMA RecoverFileDirectory ==
    ASSUME TypeOK, DirectoryInv, RecoverFile
    PROVE  DirectoryInv'
  <1>1. /\ section # Free /\ section.stage = "recover" /\ journal # NoJournal
        /\ Quiet /\ UNCHANGED <<versions, journal>>
    BY UnchangedIsQuiet DEF RecoverFile, At, DirectoryInv, Placed
  <1>2. CASE Leaves /\ UNCHANGED file
    <2>1. \A n \in Names : (journal # NoJournal => n # journal.name) => Shown(n)'
      BY <1>1, <1>2, OthersShown, ShownSame DEF Quiet
    <2>2. QED
      BY <1>1, <1>2, <2>1, LeavesDirectory
  <1>3. CASE ~(Leaves /\ UNCHANGED file)
    <2> DEFINE n == journal.name
    <2>1. PICK content \in (IF Desired # {} THEN Desired ELSE {journal.previous}) :
             file' = [file EXCEPT ![n] = content]
      BY <1>3 DEF RecoverFile
    <2>2. /\ section' # Free /\ section'.stage = "forget" /\ section'.job = section.job
          /\ section'.previous = section.previous
      BY <1>1, <1>3, GoesToType DEF RecoverFile, Stages
    <2>3. n \in Names /\ file'[n] = content /\ \A m \in Names \ {n} : file'[m] = file[m]
      BY <1>1, <2>1, NamesOfJobs DEF TypeOK
    <2>4. IF ActiveOf(n) = {} THEN ~Governed(content) ELSE content \in Projection(n)
      <3>1. CASE ActiveOf(n) = {}
        <4>1. Desired = {}
          BY <3>1 DEF Desired, Projection
        <4>2. QED
          BY <1>1, <2>1, <3>1, <4>1 DEF DirectoryInv, Undoable
      <3>2. CASE ActiveOf(n) # {}
        <4>1. Desired # {} /\ Desired \subseteq Projection(n)
          BY <3>2 DEF Desired, Projection
        <4>2. QED
          BY <2>1, <3>2, <4>1
      <3>3. QED
        BY <3>1, <3>2
    <2>5. Shown(n)'
      <3>1. ActiveOf(n)' = ActiveOf(n) /\ Projection(n)' = Projection(n) /\ n' = n
        BY <1>1, <2>3 DEF Quiet
      <3>2. QED
        BY <2>3, <2>4, <3>1 DEF Shown, Governed
    <2>6. AllShown'
      <3>1. \A m \in Names \ {n} : Shown(m)'
        BY <1>1, <2>3, ShownSame DEF DirectoryInv, AllShown, InDoubt, Quiet
      <3>2. QED
        BY <1>1, <2>5, <3>1 DEF AllShown
    <2>7. Undoable'
      BY <1>1, <2>3 DEF DirectoryInv, Undoable, Quiet, Governed
    <2>8. Placed'
      <3>1. PICK job : job = section.job
        OBVIOUS
      <3>2. job \in Change => ActiveOf(job.name)' = ActiveOf(job.name)
        BY <1>1, <3>1, NamesOfJobs DEF Quiet
      <3>3. QED
        BY <1>1, <2>2, <3>1, <3>2 DEF DirectoryInv, Placed, Governed
    <2>9. QED
      BY <2>6, <2>7, <2>8 DEF DirectoryInv
  <1>4. QED
    BY <1>2, <1>3

\* Without a journal every name shows what the facts say of it.
LEMMA RecoverForgetDirectory ==
    ASSUME TypeOK, DirectoryInv, RecoverForget
    PROVE  DirectoryInv'
  <1>1. /\ section # Free /\ section.stage = "forget" /\ section \in Holder
        /\ journal' = NoJournal /\ Quiet /\ UNCHANGED <<versions, file>>
    BY UnchangedIsQuiet, HolderType DEF RecoverForget, At
  <1>2. \A n \in Names : Shown(n)
    BY <1>1 DEF DirectoryInv, AllShown, InDoubt
  <1>3. Undoable' /\ AllShown'
    BY <1>1, <1>2, ShownSame DEF Undoable, AllShown, Quiet
  <1>4. Placed'
    <2>1. CASE section' = Free
      BY <2>1 DEF Placed
    <2>2. CASE section' = Gated(section.job) /\ section' # Free
               /\ section.job.op \in {"publish", "rollback"}
      <3>1. PICK job \in Publication \cup Reversion : job = section.job
        BY <1>1, <2>2 DEF Holder, Opening, Change
      <3>2. /\ section'.stage = "journal" /\ section'.job = job
            /\ section'.previous = file[job.name] /\ MayGoOn(job)
        BY <2>2, <3>1, GatedType
      <3>3. job.name \in Names /\ job \notin Change
        BY <3>1 DEF Publication, Reversion, Change
      <3>4. Restorable(job.name, file[job.name])
        BY <1>2, <3>2, <3>3 DEF MayGoOn, SnapshotHolds, Restorable, Shown
      <3>5. Restorable(job.name, section.previous)'
        BY <1>1, <3>2, <3>3, <3>4 DEF Restorable, Quiet, Governed
      <3>6. QED
        BY <1>1, <3>1, <3>2, <3>3, <3>5 DEF Placed
    <2>3. CASE GoesTo("refresh") /\ section.job.op \notin {"publish", "rollback", "open"}
      <3>1. /\ section'.stage = "refresh" /\ section'.job = section.job
            /\ section'.previous = section.previous
        BY <1>1, <2>3, GoesToType DEF Stages
      <3>2. section.job \in Change /\ section.job.name \in Names
        BY <1>1, <2>3 DEF Holder, Opening, Change, Publication, Reversion
      <3>3. QED
        <4>1. PICK job : job = section.job
          OBVIOUS
        <4>2. ActiveOf(job.name)' = ActiveOf(job.name)
          BY <1>1, <3>2, <4>1 DEF Quiet
        <4>3. QED
          BY <1>1, <3>1, <3>2, <4>1, <4>2 DEF DirectoryInv, Placed, Governed
    <2>4. QED
      BY <2>1, <2>2, <2>3 DEF RecoverForget, Leaves
  <1>5. QED
    BY <1>3, <1>4 DEF DirectoryInv

\* The stages of a publication, up to its commit
LEMMA WriteJournalDirectory ==
    ASSUME TypeOK, HolderInv, DirectoryInv, WriteJournal
    PROVE  DirectoryInv'
  <1>1. PICK job : job = section.job
    OBVIOUS
  <1>2. /\ section # Free /\ section.stage = "journal" /\ journal = NoJournal
        /\ job \in Publication \cup Reversion /\ job.name \in Names
        /\ Restorable(job.name, section.previous)
        /\ Quiet /\ UNCHANGED <<versions, file>>
    BY <1>1, UnchangedIsQuiet, NamesOfJobs DEF WriteJournal, At, DirectoryInv, Placed
  <1>3. /\ section' # Free /\ section'.stage = "project" /\ section'.job = job
        /\ section'.previous = section.previous
    BY <1>1, <1>2, GoesToType DEF WriteJournal, Stages
  <1>4. /\ journal'.name = job.name /\ journal'.previous = section.previous
        /\ journal' # NoJournal
    <2>1. journal' \in Journal
      BY <1>1, <1>2, NewType, HolderType DEF WriteJournal, Journal, Holder
    <2>2. QED
      BY <1>1, <2>1, NothingIsThere DEF WriteJournal
  <1>5. Restorable(job.name, section.previous)'
    BY <1>2, <1>3 DEF Restorable, Quiet, Governed
  <1>6. Undoable'
    BY <1>2, <1>3, <1>4, <1>5 DEF Undoable, Restorable
  <1>7. AllShown'
    BY <1>2, <1>3, <1>4, OthersShown, ShownSame DEF AllShown, InDoubt, Quiet
  <1>8. Placed'
    BY <1>2, <1>3, <1>4, <1>5 DEF Placed, Publication, Reversion, Change
  <1>9. QED
    BY <1>6, <1>7, <1>8 DEF DirectoryInv

LEMMA ProjectDirectory ==
    ASSUME TypeOK, HolderInv, DirectoryInv, Project
    PROVE  DirectoryInv'
  <1>1. PICK job : job = section.job
    OBVIOUS
  <1>2. /\ section # Free /\ section.stage = "project"
        /\ journal # NoJournal /\ journal.name = job.name
        /\ job \in Publication \cup Reversion /\ job.name \in Names
        /\ Restorable(job.name, section.previous)
        /\ Quiet /\ UNCHANGED <<versions, journal>>
    BY <1>1, UnchangedIsQuiet, NamesOfJobs DEF Project, At, DirectoryInv, Placed
  <1>3. /\ section' # Free /\ section'.stage = "commit" /\ section'.job = job
        /\ section'.previous = section.previous
    BY <1>1, <1>2, GoesToType DEF Project, Stages
  <1>4. /\ file'[job.name] = Rendering(NewNumber(job), NewBody(job))
        /\ \A m \in Names \ {job.name} : file'[m] = file[m]
    BY <1>1, <1>2 DEF Project, TypeOK
  <1>5. Restorable(job.name, section.previous)'
    BY <1>2, <1>3 DEF Restorable, Quiet, Governed
  <1>6. Undoable'
    BY <1>2 DEF DirectoryInv, Undoable, Quiet, Governed
  <1>7. AllShown'
    BY <1>2, <1>3, <1>4, OthersShown, ShownSame DEF AllShown, InDoubt, Quiet
  <1>8. NewNumber(job)' = NewNumber(job) /\ NewBody(job)' = NewBody(job)
    BY <1>2 DEF NewNumber, NewBody
  <1>9. Placed'
    BY <1>2, <1>3, <1>4, <1>5, <1>8 DEF Placed, Publication, Reversion, Change
  <1>10. QED
    BY <1>6, <1>7, <1>9 DEF DirectoryInv

LEMMA CommitDirectory ==
    ASSUME TypeOK, HolderInv, DirectoryInv, Commit
    PROVE  DirectoryInv'
  <1>1. PICK job, n, k : Committed(job, n, k)
    BY CommitEffect
  <1>2. /\ n \in Names /\ job = section.job /\ n = job.name /\ k = NewNumber(job)
        /\ job \in Publication \cup Reversion
        /\ ActiveOf(n)' = {k} /\ versions'[n][k].body = NewBody(job)
        /\ \A m \in Names \ {n} : ActiveOf(m)' = ActiveOf(m) /\ Projection(m)' = Projection(m)
    BY <1>1, CommittedActive, CommittedFields DEF Committed, NewBody
  <1>3. /\ section # Free /\ section.stage = "commit"
        /\ journal # NoJournal /\ journal.name = n /\ UNCHANGED <<file, journal>>
        /\ file[n] = Rendering(k, NewBody(job)) \/ ToolWritten(file[n])
    BY <1>2 DEF Commit, At, DirectoryInv, Placed
  <1>4. section' # Free /\ section'.stage = "tidy" /\ section'.job = job
    BY <1>2, <1>3, GoesToType DEF Commit, Stages
  <1>5. Shown(n)'
    <2>1. Projection(n)' = {Rendering(k, NewBody(job))}
      BY <1>2 DEF Projection
    <2>2. QED
      BY <1>2, <1>3, <2>1 DEF Shown, ToolWritten, Governed
  <1>6. \A m \in Names \ {n} : Shown(m)'
    BY <1>2, <1>3, OthersShown, ShownSame
  <1>7. Undoable' /\ AllShown'
    BY <1>2, <1>3, <1>5, <1>6 DEF Undoable, AllShown
  <1>8. Placed'
    BY <1>2, <1>4 DEF Placed, Publication, Reversion, Change
  <1>9. QED
    BY <1>7, <1>8 DEF DirectoryInv

\* Behind a commit or a restored file nothing is in doubt.
LEMMA TidyDirectory ==
    ASSUME TypeOK, DirectoryInv, Tidy
    PROVE  DirectoryInv'
  <1>1. /\ section # Free /\ section.stage = "tidy" /\ journal' = NoJournal
        /\ section' = Free /\ Quiet /\ UNCHANGED file
    BY UnchangedIsQuiet DEF Tidy, At, Leaves
  <1>2. \A n \in Names : Shown(n)
    BY <1>1 DEF DirectoryInv, AllShown, InDoubt
  <1>3. QED
    BY <1>1, <1>2, ShownSame DEF DirectoryInv, Undoable, AllShown, Placed, Quiet

LEMMA UndoDirectory ==
    ASSUME TypeOK, DirectoryInv, Undo
    PROVE  DirectoryInv'
  <1>1. PICK job : job = section.job
    OBVIOUS
  <1>2. /\ section # Free /\ section.stage \in {"project", "commit"}
        /\ journal # NoJournal /\ journal.name = job.name
        /\ job \in Publication \cup Reversion /\ job.name \in Names
        /\ Restorable(job.name, section.previous)
        /\ Quiet /\ UNCHANGED <<versions, file, journal>>
    BY <1>1, UnchangedIsQuiet, NamesOfJobs DEF Undo, At, DirectoryInv, Placed
  <1>3. /\ section' # Free /\ section'.stage = "restore" /\ section'.job = job
        /\ section'.previous = section.previous
    BY <1>1, <1>2, GoesToType DEF Undo, Stages
  <1>4. Restorable(job.name, section.previous)'
    BY <1>2, <1>3 DEF Restorable, Quiet, Governed
  <1>5. Undoable' /\ AllShown'
    BY <1>2, <1>3, OthersShown, ShownSame
       DEF DirectoryInv, Undoable, AllShown, InDoubt, Quiet, Governed
  <1>6. Placed'
    BY <1>2, <1>3, <1>4 DEF Placed, Publication, Reversion, Change
  <1>7. QED
    BY <1>5, <1>6 DEF DirectoryInv

LEMMA RestoreDirectory ==
    ASSUME TypeOK, DirectoryInv, Restore
    PROVE  DirectoryInv'
  <1>1. PICK job : job = section.job
    OBVIOUS
  <1>2. /\ section # Free /\ section.stage = "restore"
        /\ journal # NoJournal /\ journal.name = job.name
        /\ job \in Publication \cup Reversion /\ job.name \in Names
        /\ Restorable(job.name, section.previous)
        /\ Quiet /\ UNCHANGED <<versions, journal>>
    BY <1>1, UnchangedIsQuiet, NamesOfJobs DEF Restore, At, DirectoryInv, Placed
  <1>3. section' # Free /\ section'.stage = "tidy" /\ section'.job = job
    BY <1>1, <1>2, GoesToType DEF Restore, Stages
  <1>4. /\ file'[job.name] = section.previous
        /\ \A m \in Names \ {job.name} : file'[m] = file[m]
    BY <1>1, <1>2 DEF Restore, TypeOK
  <1>5. Shown(job.name)'
    BY <1>2, <1>4 DEF Restorable, Shown, Quiet, Governed
  <1>6. \A m \in Names \ {job.name} : Shown(m)'
    BY <1>2, <1>4, OthersShown, ShownSame DEF Quiet
  <1>7. Undoable' /\ AllShown'
    BY <1>2, <1>5, <1>6 DEF DirectoryInv, Undoable, AllShown, Quiet, Governed
  <1>8. Placed'
    BY <1>2, <1>3 DEF Placed, Publication, Reversion, Change
  <1>9. QED
    BY <1>7, <1>8 DEF DirectoryInv

\* Whoever stops leaves the files as they are.
LEMMA StopDirectory ==
    ASSUME TypeOK, DirectoryInv, Stop
    PROVE  DirectoryInv'
  <1>1. Leaves /\ Quiet /\ UNCHANGED <<file, journal>>
    BY UnchangedIsQuiet DEF Stop
  <1>2. \A n \in Names : (journal # NoJournal => n # journal.name) => Shown(n)'
    BY <1>1, OthersShown, ShownSame DEF Quiet
  <1>3. QED
    BY <1>1, <1>2, LeavesDirectory

\* What the console writes is not governed, where nothing is active.
LEMMA ConsoleDirectory ==
    ASSUME TypeOK, DirectoryInv, SwapIn \/ Refresh \/ PutBack
    PROVE  DirectoryInv'
  <1>1. PICK job : job = section.job
    OBVIOUS
  <1>2. /\ section # Free /\ section.stage \in {"swap", "refresh"}
        /\ job \in Change /\ job.name \in Names
        /\ ActiveOf(job.name) = {} /\ ~Governed(section.previous)
        /\ Quiet /\ UNCHANGED <<versions, journal>>
    BY <1>1, UnchangedIsQuiet, NamesOfJobs
       DEF SwapIn, Refresh, PutBack, At, DirectoryInv, Placed
  <1>3. /\ ~Governed(file'[job.name]) \/ file'[job.name] = file[job.name]
        /\ \A m \in Names \ {job.name} : file'[m] = file[m]
    <2>1. ~Governed([by |-> "console", id |-> drawn + 1])
      BY DEF Governed
    <2>2. \/ file' = file
          \/ \E content : ~Governed(content) /\ file' = [file EXCEPT ![job.name] = content]
      BY <1>1, <1>2, <2>1 DEF SwapIn, Refresh, PutBack
    <2>3. QED
      BY <1>2, <2>2 DEF TypeOK
  <1>4. ActiveOf(job.name)' = {}
    BY <1>2 DEF Quiet
  <1>5. \A n \in Names : (journal # NoJournal => n # journal.name) => Shown(n)'
    <2> SUFFICES ASSUME NEW n \in Names, journal # NoJournal => n # journal.name
                 PROVE  Shown(n)'
      OBVIOUS
    <2>1. Shown(n)
      BY OthersShown
    <2>2. CASE file'[n] = file[n]
      BY <1>2, <2>1, <2>2, ShownSame DEF Quiet
    <2>3. CASE file'[n] # file[n]
      BY <1>3, <1>4, <2>3 DEF Shown, Governed
    <2>4. QED
      BY <2>2, <2>3
  <1>6. CASE Leaves
    BY <1>2, <1>5, <1>6, LeavesDirectory
  <1>7. ASSUME NEW stage \in {"refresh", "recover"}, GoesTo(stage),
               stage = "recover" => journal # NoJournal
        PROVE  DirectoryInv'
    <2>1. /\ section' # Free /\ section'.stage = stage /\ section'.job = job
          /\ section'.previous = section.previous
      BY <1>1, <1>2, <1>7, GoesToType DEF Stages
    <2>2. Undoable' /\ AllShown'
      BY <1>2, <1>5, <1>7, <2>1, NamesOfJobs
         DEF DirectoryInv, Undoable, AllShown, InDoubt, Quiet, Governed
    <2>3. Placed'
      BY <1>2, <1>4, <1>7, <2>1 DEF Placed, Governed
    <2>4. QED
      BY <2>2, <2>3 DEF DirectoryInv
  <1>8. QED
    BY <1>6, <1>7 DEF SwapIn, Refresh, PutBack

\* The console puts a directory aside that is nobody's but its own.
LEMMA PutAsideDirectory ==
    ASSUME TypeOK, DirectoryInv, NEW op \in {"install", "delete"}, NEW n \in Names,
           PutAside(op, n)
    PROVE  DirectoryInv'
  <1>1. /\ section = Free /\ ~Governed(file[n]) /\ ActiveOf(n) = {}
        /\ Quiet /\ UNCHANGED <<versions, journal>>
        /\ file'[n] = NoFile /\ \A m \in Names \ {n} : file'[m] = file[m]
    BY UnchangedIsQuiet DEF PutAside, Mutable, TypeOK
  <1>2. /\ section'.stage \in {"swap", "refresh"} /\ section'.previous = file[n]
        /\ section'.job \in Change /\ section'.job.name = n
    BY DEF PutAside, Change
  <1>3. ActiveOf(n)' = {}
    BY <1>1 DEF Quiet
  <1>4. \A m \in Names : (journal # NoJournal => m # journal.name) => Shown(m)'
    <2>1. Shown(n)'
      BY <1>1, <1>3 DEF Shown, Governed
    <2>2. \A m \in Names \ {n} : (journal # NoJournal => m # journal.name) => Shown(m)'
      BY <1>1, OthersShown, ShownSame DEF Quiet
    <2>3. QED
      BY <2>1, <2>2
  <1>5. Undoable' /\ AllShown'
    BY <1>1, <1>2, <1>4, NamesOfJobs
       DEF DirectoryInv, Undoable, AllShown, InDoubt, Quiet, Governed
  <1>6. Placed'
    <2> SUFFICES ASSUME NEW job, job = section'.job
                 PROVE  Placed'
      OBVIOUS
    <2>1. job \in Change /\ job.name = n
      BY <1>2
    <2>2. QED
      BY <1>1, <1>2, <1>3, <2>1 DEF Placed, Governed
  <1>7. QED
    BY <1>5, <1>6 DEF DirectoryInv

\* A tool writes.
LEMMA ToolWriteDirectory ==
    ASSUME TypeOK, DirectoryInv, NEW n \in Names, ToolWrite(n)
    PROVE  DirectoryInv'
  <1>1. /\ Quiet /\ UNCHANGED <<versions, journal, section>>
        /\ file'[n] = [by |-> "tool", id |-> drawn + 1]
        /\ \A m \in Names \ {n} : file'[m] = file[m]
    BY UnchangedIsQuiet DEF ToolWrite, TypeOK
  <1>2. ToolWritten(file'[n])
    <2>1. [by |-> "tool", id |-> drawn + 1] \in Written
      BY DEF TypeOK, Written
    <2>2. QED
      BY <1>1, <2>1, NothingIsThere DEF ToolWritten, Governed
  <1>3. Shown(n)'
    BY <1>2 DEF Shown, ToolWritten, Governed
  <1>4. Undoable' /\ AllShown'
    BY <1>1, <1>3, NamesOfJobs, ShownSame
       DEF DirectoryInv, Undoable, AllShown, InDoubt, Quiet, Governed
  <1>5. Placed'
    <2> SUFFICES ASSUME section # Free, NEW job, job = section.job
                 PROVE  Placed'
      BY <1>1 DEF Placed
    <2>1. job \in Publication \cup Reversion \cup Change => job.name \in Names
      BY NamesOfJobs
    <2>2. job \in Publication \cup Reversion =>
             (Restorable(job.name, section.previous)' <=> Restorable(job.name, section.previous))
      BY <1>1, <2>1, ShownSame DEF Quiet
    <2>3. NewNumber(job)' = NewNumber(job) /\ NewBody(job)' = NewBody(job)
      BY <1>1 DEF NewNumber, NewBody
    <2>4. job \in Change => ActiveOf(job.name)' = ActiveOf(job.name)
      BY <1>1, <2>1 DEF Quiet
    <2>5. section.stage = "commit" => file'[job.name] = file[job.name] \/ ToolWritten(file'[job.name])
      BY <1>1, <1>2, <2>1 DEF DirectoryInv, Placed
    <2>6. QED
      BY <1>1, <2>2, <2>3, <2>4, <2>5 DEF DirectoryInv, Placed, Governed, ToolWritten
  <1>6. QED
    BY <1>4, <1>5 DEF DirectoryInv

\* The lock is taken: to recover, or behind the gate.
LEMMA EnterDirectory ==
    ASSUME TypeOK, DirectoryInv, NEW job \in Publication \cup Reversion, Enter(job)
    PROVE  DirectoryInv'
  <1>1. /\ section = Free /\ Quiet /\ UNCHANGED <<versions, file, journal>>
        /\ job.name \in Names /\ job \notin Change
    BY UnchangedIsQuiet DEF Enter, Publication, Reversion, Change
  <1>2. /\ \A n \in Names : (journal # NoJournal => n # journal.name) => Shown(n)'
        /\ Undoable'
    BY <1>1, NamesOfJobs, OthersShown, ShownSame DEF DirectoryInv, Undoable, Quiet, Governed
  <1>3. section' # Free => section'.job = job /\ section'.stage \in {"recover", "journal"}
    BY GatedType DEF Enter
  <1>4. AllShown'
    BY <1>1, <1>2, <1>3 DEF AllShown, InDoubt, Free
  <1>5. Placed'
    <2>1. CASE journal # NoJournal
      BY <1>1, <2>1 DEF Enter, Placed
    <2>2. CASE journal = NoJournal /\ section' # Free
      <3>1. /\ section'.stage = "journal" /\ section'.job = job
            /\ section'.previous = file[job.name] /\ MayGoOn(job)
        BY <2>2, GatedType DEF Enter
      <3>2. Shown(job.name)
        BY <1>1, <2>2, OthersShown
      <3>3. Restorable(job.name, file[job.name])
        BY <3>1, <3>2 DEF MayGoOn, SnapshotHolds, Restorable, Shown
      <3>4. Restorable(job.name, section.previous)'
        BY <1>1, <3>1, <3>3 DEF Restorable, Quiet, Governed
      <3>5. QED
        BY <1>1, <2>2, <3>1, <3>4 DEF Placed
    <2>3. QED
      BY <2>1, <2>2 DEF Placed
  <1>6. QED
    BY <1>2, <1>4, <1>5 DEF DirectoryInv

\* A constructor takes the lock to recover.
LEMMA OpenDirectory ==
    ASSUME TypeOK, DirectoryInv, Open
    PROVE  DirectoryInv'
  <1>1. /\ section = Free /\ journal # NoJournal
        /\ Quiet /\ UNCHANGED <<versions, file, journal>>
        /\ section'.stage = "recover" /\ section'.job \in Opening
    BY UnchangedIsQuiet DEF Open, Opening
  <1>2. Undoable' /\ AllShown'
    BY <1>1, NamesOfJobs, OthersShown, ShownSame
       DEF DirectoryInv, Undoable, AllShown, InDoubt, Quiet, Governed
  <1>3. Placed'
    BY <1>1 DEF Placed, Opening, Change
  <1>4. QED
    BY <1>2, <1>3 DEF DirectoryInv

\* Every step keeps the directory in order.
LEMMA DirectoryStep ==
    ASSUME TypeOK, FactsInv, HolderInv, DirectoryInv, [Next]_vars
    PROVE  DirectoryInv'
  <1>1. CASE Section
    BY <1>1, RecoverFileDirectory, RecoverForgetDirectory, WriteJournalDirectory,
       ProjectDirectory, CommitDirectory, TidyDirectory, UndoDirectory, RestoreDirectory,
       StopDirectory, ConsoleDirectory DEF Section
  <1>2. CASE Open
    BY <1>2, OpenDirectory
  <1>3. ASSUME UNCHANGED <<file, journal, section>>, NoTransaction \/ UNCHANGED versions
        PROVE  DirectoryInv'
    <2>1. Quiet
      <3>1. CASE UNCHANGED versions
        BY <3>1 DEF Quiet, ActiveOf, VersionsOf, Projection
      <3>2. CASE NoTransaction
        BY <3>2, FactsStep DEF Commit, At, NoTransaction
      <3>3. QED
        BY <1>3, <3>1, <3>2
    <2>2. QED
      BY <1>3, <2>1, QuietDirectory
  <1>4. ASSUME NEW n \in Names, NEW v \in VersionsOf(n), NEW who \in Publishers,
               Publish(n, v, who) \/ Rollback(n, v, who)
        PROVE  DirectoryInv'
    <2>1. CASE Publish(n, v, who)
      <3>1. PICK e \in evaluations :
               Enter([op |-> "publish", name |-> n, version |-> v, evaluation |-> e,
                      who |-> who])
        BY <2>1 DEF Publish
      <3>2. QED
        BY <3>1, JobType, EnterDirectory
    <2>2. CASE Rollback(n, v, who)
      BY <2>2, JobType, EnterDirectory DEF Rollback
    <2>3. QED
      BY <1>4, <2>1, <2>2
  <1>5. ASSUME NEW n \in Names, Lifecycle(n)
        PROVE  DirectoryInv'
    BY <1>3, <1>4, <1>5 DEF Lifecycle, Propose, StartEvaluation, Reject, factVars
  <1>6. ASSUME NEW n \in Names, Directory(n)
        PROVE  DirectoryInv'
    BY <1>3, <1>6, PutAsideDirectory, ToolWriteDirectory
       DEF Directory, FindWritable, factVars
  <1>7. CASE EditSuite \/ UNCHANGED vars
    BY <1>3, <1>7 DEF EditSuite, vars, factVars
  <1>8. ASSUME NEW e \in running, NEW passed \in BOOLEAN, FinishEvaluation(e, passed)
        PROVE  DirectoryInv'
    BY <1>3, <1>8 DEF FinishEvaluation
  <1>9. QED
    BY <1>1, <1>2, <1>5, <1>6, <1>7, <1>8 DEF Next

----------------------------------------------------------------------------
(* The theorems.                                                           *)

IInv == TypeOK /\ FactsInv /\ HolderInv /\ DirectoryInv

LEMMA InitIInv ==
    ASSUME Init
    PROVE  IInv
  <1>1. TypeOK
    <2>1. <<>> \in Seq(Version)
      BY EmptySeq
    <2>2. QED
      BY <2>1 DEF Init, TypeOK, Content
  <1>2. \A n \in Names : VersionsOf(n) = {} /\ ActiveOf(n) = {}
    <2>1. \A n \in Names : versions[n] = <<>> /\ Len(<<>>) = 0
      BY EmptySeq DEF Init
    <2>2. QED
      BY <2>1 DEF VersionsOf, ActiveOf
  <1>3. FactsInv
    BY <1>2 DEF FactsInv, RollbackOnce, Init
  <1>4. HolderInv /\ Undoable /\ Placed
    BY DEF Init, HolderInv, Undoable, Placed
  <1>5. AllShown
    BY <1>2 DEF Init, AllShown, Shown, Governed
  <1>6. QED
    BY <1>1, <1>3, <1>4, <1>5 DEF IInv, DirectoryInv

LEMMA Invariance == Spec => []IInv
  <1>1. Init => IInv
    BY InitIInv
  <1>2. IInv /\ [Next]_vars => IInv'
    BY TypeStep, FactsStep, HolderStep, DirectoryStep DEF IInv
  <1>3. QED
    BY <1>1, <1>2, PTL DEF Spec

\* Whatever is interrupted, and whoever writes to the directory: what is active
\* was evaluated and published by others than its author, and by two of them.
THEOREM ActiveAlwaysGated == Spec => []ActiveIsGated
  <1>1. ASSUME IInv
        PROVE  ActiveIsGated
    <2>1. ASSUME NEW n \in Names
          PROVE  Cardinality(ActiveOf(n)) <= 1
      <3>1. CASE ActiveOf(n) = {}
        BY <3>1, FS_EmptySet
      <3>2. CASE ActiveOf(n) # {}
        <4>1. PICK v \in ActiveOf(n) : ActiveOf(n) = {v}
          BY <1>1, <3>2 DEF IInv, FactsInv
        <4>2. QED
          BY <4>1, FS_Singleton
      <3>3. QED
        BY <3>1, <3>2
    <2>2. ASSUME NEW n \in Names, NEW v \in ActiveOf(n)
          PROVE  IndependentlyGated(n, v)
      <3>1. Sound(n, versions[n][v]) /\ versions[n][v].status = "active"
        BY <1>1 DEF IInv, FactsInv, ActiveOf
      <3>2. QED
        BY <3>1 DEF Sound, Backs, IndependentlyGated
    <2>3. QED
      BY <1>1, <2>1, <2>2 DEF ActiveIsGated, IInv
  <1>2. QED
    BY <1>1, Invariance, PTL

\* A rollback that is repeated makes one version, however often, and whatever
\* happened to its answer or its journal.
THEOREM RollbackIsOnce == Spec => []RollbackOnce
  <1>1. IInv => RollbackOnce
    BY DEF IInv, FactsInv
  <1>2. QED
    BY <1>1, Invariance, PTL

\* At rest, and without a journal, the directory shows what the facts say.
THEOREM FactsAlwaysProjected == Spec => []FactsAreProjected
  <1>1. IInv => FactsAreProjected
    BY DEF IInv, DirectoryInv, AllShown, InDoubt, Shown, ToolWritten, FactsAreProjected
  <1>2. QED
    BY <1>1, Invariance, PTL

=============================================================================
