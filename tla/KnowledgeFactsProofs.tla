------------------------ MODULE KnowledgeFactsProofs ------------------------
(***************************************************************************)
(* Proofs about KnowledgeFacts: a request has one effect, and files and    *)
(* index follow the facts.                                                 *)
(*                                                                         *)
(* The invariant has three parts.                                          *)
(*  - Recorded, of the fact store alone: the saved keys are those of the   *)
(*    versions, each of one version; a path has one owner; a job is for    *)
(*    the latest version; ids are drawn once.                              *)
(*  - Due: whatever of files and index is not as the facts say belongs to  *)
(*    a document with a job.  This is what lets a failure leave anything   *)
(*    behind, and what an interrupted operation keeps.                     *)
(*  - Working: how far the holder of the lock has come.  Nobody else       *)
(*    changes facts, files or index while it works.                        *)
(* The first two are stated of tables, not of variables, because a batch   *)
(* passes through the tables of each of its commands.                      *)
(***************************************************************************)
EXTENDS KnowledgeFacts, SequenceTheorems, FiniteSetTheorems, WellFoundedInduction, TLAPS

----------------------------------------------------------------------------
(* The operators of KnowledgeFacts, of any table of documents.             *)

ActiveIn(ds, d) == ds[d] # <<>> /\ Last(ds[d]).status = "active"
ProjectsIn(ds, d) == ActiveIn(ds, d) /\ Last(ds[d]).shared /\ Last(ds[d]).path # NoPath
PathsIn(ds, d) == {ds[d][v].path : v \in DOMAIN ds[d]} \ {NoPath}
Owned(ds, p) == \E d \in DocIds : ProjectsIn(ds, d) /\ Last(ds[d]).path = p

----------------------------------------------------------------------------
Tables(ds, ks, js, n) ==
    /\ ds \in [DocIds -> Seq(Versions)]
    /\ \A d \in DocIds : Len(ds[d]) <= MaxVersions
    /\ ks \subseteq Keys /\ n \in 0..MaxDocs
    /\ js \in [DocIds -> 0..MaxVersions]

\* A key is that of one version, and every version has one.
OneUse(ds, ks) ==
    /\ \A d \in DocIds : \A v \in DOMAIN ds[d] : ds[d][v].key \in ks
    /\ \A k \in ks : \E d \in DocIds : \E v \in DOMAIN ds[d] : ds[d][v].key = k
    /\ \A d, e \in DocIds : \A v \in DOMAIN ds[d], w \in DOMAIN ds[e] :
          ds[d][v].key = ds[e][w].key => d = e /\ v = w

OneOwner(ds) ==
    \A d, e \in DocIds :
        (ProjectsIn(ds, d) /\ ProjectsIn(ds, e) /\ Last(ds[d]).path = Last(ds[e]).path) => d = e

Recorded(ds, ks, js, n) ==
    /\ Tables(ds, ks, js, n)
    /\ OneUse(ds, ks)
    /\ OneOwner(ds)
    /\ \A d \in DocIds : js[d] \in {0, Len(ds[d])}
    /\ \A d \in DocIds : ds[d] # <<>> => d <= n

\* A file that belongs to nobody is in the history of a document with a job; a
\* file or an index that is behind its document has that document's job.
Due(ds, js, fs, ix) ==
    /\ \A p \in Paths : (~Owned(ds, p) /\ fs[p] # NoFile) =>
          \E d \in DocIds : js[d] # 0 /\ p \in PathsIn(ds, d)
    /\ \A d \in DocIds : js[d] = 0 =>
          /\ ProjectsIn(ds, d) => fs[Last(ds[d]).path] = <<d, Len(ds[d])>>
          /\ ActiveIn(ds, d) => <<d, Len(ds[d])>> \in ix

\* The files of a document's history are as the facts say.
Filed(d) ==
    /\ \A p \in PathsOf(d) : Owners(p) = {} => files[p] = NoFile
    /\ Projects(d) => files[Latest(d).path] = Current(d)

Working(r) ==
    /\ pc[r] \in {"drain", "files", "unindex", "commit", "fresh"} => target[r] \in DocIds
    /\ pc[r] \in {"files", "unindex", "commit"} => jobs[target[r]] = Len(docs[target[r]])
    /\ pc[r] \in {"unindex", "commit"} => Filed(target[r])
    /\ pc[r] = "commit" => (Active(target[r]) => Current(target[r]) \in index)
    /\ pc[r] = "allCommit" =>
          \A d \in DocIds : Filed(d) /\ (Active(d) => Current(d) \in index)
    /\ pc[r] = "fresh" =>
          /\ docs[target[r]] = <<>> /\ target[r] <= ids
          /\ <<target[r], 1>> \in index
          /\ \A d \in DocIds : ~Active(d)

IInv ==
    /\ TypeOK
    /\ Recorded(docs, keys, jobs, ids)
    /\ Due(docs, jobs, files, index)
    /\ \A r \in Runtimes : Working(r)

----------------------------------------------------------------------------
(* Batches.  The library's induction theorems take an operator as a        *)
(* parameter; this one takes a set, and follows from the well-founded      *)
(* order of finite sets by inclusion, applied to the intervals 1..n.       *)

\* A set with 0 and every successor has every natural number.
LEMMA SetInduction ==
  ASSUME NEW S, 0 \in S, \A n \in Nat : n \in S => n + 1 \in S
  PROVE  Nat \subseteq S
  <1> DEFINE T == {1..n : n \in Nat \ S}
             R == StrictSubsetOrdering(Nat)
  <1>1. SUFFICES ASSUME Nat \ S # {} PROVE FALSE
    OBVIOUS
  <1>2. \A n \in Nat : 1..n \in FiniteSubsetsOf(Nat)
    <2>1. \A n \in Nat : IsFiniteSet(1..n)
      BY FS_Interval
    <2>2. QED
      BY <2>1 DEF FiniteSubsetsOf
  <1>3. T \subseteq FiniteSubsetsOf(Nat) /\ T # {}
    BY <1>1, <1>2
  <1>4. PICK t \in T : \A y \in T : <<y, t>> \notin R
    <2> HIDE DEF T, R
    <2>1. IsWellFoundedOn(R, FiniteSubsetsOf(Nat))
      BY FS_StrictSubsetOrderingWellFounded DEF R
    <2>2. QED
      BY <1>3, <2>1, WFMin
  <1>5. PICK x \in Nat \ S : t = 1..x
    BY <1>4
  <1>6. x - 1 \in Nat
    BY <1>5
  <1>7. <<1..(x - 1), 1..x>> \in R
    BY <1>6 DEF StrictSubsetOrdering
  <1>8. x - 1 \in S
    BY <1>4, <1>5, <1>6, <1>7
  <1>9. (x - 1) + 1 \in S
    BY <1>6, <1>8
  <1>10. QED
    BY <1>5, <1>9

\* The facts after each command of a batch are those after the command before.
LEMMA WorldsRun ==
  ASSUME NEW batch \in Batches
  PROVE  /\ Worlds(batch)[0] = World
         /\ \A n \in DOMAIN batch : Worlds(batch)[n] = After(Worlds(batch)[n - 1], batch[n])
  <1> DEFINE Runs(n, f) ==
               f = [m \in 0..n |-> IF m = 0 THEN World ELSE After(f[m - 1], batch[m])]
             S == {n \in Nat : \E f : Runs(n, f)}
             L == Len(batch)
  <1>1. L \in Nat /\ DOMAIN batch = 1..L
    BY CommandsAssumption
  <1>2. 0 \in S
    <2>1. Runs(0, [m \in 0..0 |-> World])
      OBVIOUS
    <2>2. QED
      BY <2>1
  <1>3. \A n \in Nat : n \in S => n + 1 \in S
    <2>1. SUFFICES ASSUME NEW n \in Nat, NEW f, Runs(n, f)
                   PROVE  \E g : Runs(n + 1, g)
      OBVIOUS
    <2> DEFINE g == [m \in 0..(n + 1) |-> IF m <= n THEN f[m] ELSE After(f[n], batch[n + 1])]
    <2>2. \A m \in 0..n : f[m] = IF m = 0 THEN World ELSE After(f[m - 1], batch[m])
      BY <2>1
    <2>3. \A m \in 0..(n + 1) : g[m] = IF m = 0 THEN World ELSE After(g[m - 1], batch[m])
      <3>1. SUFFICES ASSUME NEW m \in 0..(n + 1)
                     PROVE  g[m] = IF m = 0 THEN World ELSE After(g[m - 1], batch[m])
        OBVIOUS
      <3>2. CASE m = 0
        BY <2>2, <3>2
      <3>3. CASE m \in 1..n
        <4>1. g[m] = f[m] /\ g[m - 1] = f[m - 1]
          BY <3>3
        <4>2. QED
          BY <2>2, <3>3, <4>1
      <3>4. CASE m = n + 1
        <4>1. g[m] = After(f[n], batch[m]) /\ g[m - 1] = f[n]
          BY <3>4
        <4>2. QED
          BY <3>4, <4>1
      <3>5. QED
        BY <3>2, <3>3, <3>4
    <2>4. Runs(n + 1, g)
      <3>1. g = [m \in 0..(n + 1) |-> g[m]]
        OBVIOUS
      <3> HIDE DEF g
      <3>2. QED
        BY <2>3, <3>1
    <2>5. QED
      BY <2>4
  <1>4. \E f : Runs(L, f)
    <2> HIDE DEF L
    <2>1. Nat \subseteq S
      <3> HIDE DEF S
      <3>1. QED
        BY <1>2, <1>3, SetInduction
    <2>2. QED
      BY <1>1, <2>1
  <1>5. Runs(L, Worlds(batch))
    BY <1>4 DEF Worlds
  <1>6. QED
    BY <1>1, <1>5

----------------------------------------------------------------------------
(* A new version.                                                          *)

\* What a new version changes: the others keep all but their status.
Grown(ds, es, d, new) ==
    /\ es \in [DocIds -> Seq(Versions)] /\ new \in Versions
    /\ \A e \in DocIds \ {d} : es[e] = ds[e]
    /\ Len(es[d]) = Len(ds[d]) + 1 /\ es[d][Len(ds[d]) + 1] = new
    /\ \A v \in DOMAIN ds[d] : es[d][v].path = ds[d][v].path /\ es[d][v].key = ds[d][v].key

\* NewVersion() appends one version and changes no path and no key.
LEMMA NewVersionGrows ==
  ASSUME NEW ds \in [DocIds -> Seq(Versions)], NEW d \in DocIds,
         NEW path \in Paths \cup {NoPath}, NEW shared \in BOOLEAN,
         NEW status \in {"active", "revoked"}, NEW key \in Keys
  PROVE  Grown(ds, [ds EXCEPT ![d] = NewVersion(@, path, shared, status, key)], d,
               [path |-> path, shared |-> shared, status |-> status, key |-> key])
  <1> DEFINE vs == ds[d]
             retired == [v \in DOMAIN vs |->
                           IF vs[v].status = "active"
                           THEN [vs[v] EXCEPT !.status = "superseded"] ELSE vs[v]]
             new == [path |-> path, shared |-> shared, status |-> status, key |-> key]
             nv == NewVersion(vs, path, shared, status, key)
  <1>1. vs \in Seq(Versions)
    OBVIOUS
  <1>2. new \in Versions
    BY DEF Versions
  <1>3. \A x \in Versions : /\ [x EXCEPT !.status = "superseded"] \in Versions
                            /\ [x EXCEPT !.status = "superseded"].path = x.path
                            /\ [x EXCEPT !.status = "superseded"].key = x.key
    BY DEF Versions
  <1>4. nv = Append(retired, new)
    BY DEF NewVersion
  <1> HIDE DEF vs, new, nv
  <1>5. /\ Len(vs) \in Nat /\ DOMAIN vs = 1..Len(vs)
        /\ \A v \in 1..Len(vs) : vs[v] \in Versions
    BY <1>1
  <1>6. \A v \in 1..Len(vs) : /\ retired[v] \in Versions
                              /\ retired[v].path = vs[v].path /\ retired[v].key = vs[v].key
    BY <1>3, <1>5
  <1>7. retired \in Seq(Versions) /\ Len(retired) = Len(vs)
    <2>1. retired = [v \in 1..Len(vs) |-> retired[v]]
      BY <1>5
    <2> HIDE DEF retired
    <2>2. QED
      BY <1>5, <1>6, <2>1, IsASeq, LenProperties
  <1>8. /\ nv \in Seq(Versions) /\ Len(nv) = Len(vs) + 1 /\ nv[Len(vs) + 1] = new
        /\ \A v \in 1..Len(vs) : nv[v] = retired[v]
    <2> HIDE DEF retired
    <2>1. QED
      BY <1>2, <1>4, <1>5, <1>7, AppendProperties
  <1>9. \A v \in DOMAIN vs : nv[v].path = vs[v].path /\ nv[v].key = vs[v].key
    <2> HIDE DEF retired
    <2>1. QED
      BY <1>5, <1>6, <1>8
  <1> DEFINE es == [ds EXCEPT ![d] = nv]
  <1>10. es[d] = nv /\ \A e \in DocIds \ {d} : es[e] = ds[e]
    OBVIOUS
  <1>11. es \in [DocIds -> Seq(Versions)]
    BY <1>8
  <1> HIDE DEF es
  <1>12. Grown(ds, es, d, new)
    BY <1>2, <1>8, <1>9, <1>10, <1>11 DEF Grown, vs
  <1>13. QED
    BY <1>12 DEF es, nv, new, vs

\* The last version of the grown document, and what follows for its owner.
LEMMA GrownLast ==
  ASSUME NEW ds \in [DocIds -> Seq(Versions)], NEW es, NEW d \in DocIds, NEW new,
         Grown(ds, es, d, new)
  PROVE  /\ es[d] # <<>> /\ Last(es[d]) = new
         /\ ActiveIn(es, d) <=> new.status = "active"
         /\ ProjectsIn(es, d) <=> (new.status = "active" /\ new.shared /\ new.path # NoPath)
         /\ PathsIn(ds, d) \subseteq PathsIn(es, d)
         /\ new.path # NoPath => new.path \in PathsIn(es, d)
         /\ \A e \in DocIds \ {d} :
               /\ ActiveIn(es, e) <=> ActiveIn(ds, e)
               /\ ProjectsIn(es, e) <=> ProjectsIn(ds, e)
               /\ PathsIn(es, e) = PathsIn(ds, e)
  <1>1. /\ Len(ds[d]) \in Nat /\ DOMAIN ds[d] = 1..Len(ds[d])
        /\ DOMAIN es[d] = 1..(Len(ds[d]) + 1) /\ Len(es[d]) = Len(ds[d]) + 1
    BY DEF Grown
  <1>2. es[d] # <<>> /\ Last(es[d]) = new
    BY <1>1 DEF Grown, Last
  <1>3. /\ PathsIn(ds, d) \subseteq PathsIn(es, d)
        /\ new.path # NoPath => new.path \in PathsIn(es, d)
    <2>1. \A v \in DOMAIN ds[d] : v \in DOMAIN es[d] /\ es[d][v].path = ds[d][v].path
      BY <1>1 DEF Grown
    <2>2. Len(ds[d]) + 1 \in DOMAIN es[d] /\ es[d][Len(ds[d]) + 1].path = new.path
      BY <1>1 DEF Grown
    <2>3. QED
      BY <2>1, <2>2 DEF PathsIn
  <1>4. /\ ActiveIn(es, d) <=> new.status = "active"
        /\ ProjectsIn(es, d) <=> (new.status = "active" /\ new.shared /\ new.path # NoPath)
    BY <1>2 DEF ActiveIn, ProjectsIn
  <1>5. ASSUME NEW e \in DocIds \ {d}
        PROVE  /\ ActiveIn(es, e) <=> ActiveIn(ds, e)
               /\ ProjectsIn(es, e) <=> ProjectsIn(ds, e)
               /\ PathsIn(es, e) = PathsIn(ds, e)
    <2>1. es[e] = ds[e]
      BY DEF Grown
    <2>2. QED
      BY <2>1 DEF ActiveIn, ProjectsIn, PathsIn
  <1>6. QED
    BY <1>2, <1>3, <1>4, <1>5

\* A new version under a new key, which takes no other document's path, leaves
\* the fact store in order, whether or not it registers a job.
LEMMA RecordedGrows ==
  ASSUME NEW ds, NEW ks, NEW js, NEW n, Recorded(ds, ks, js, n),
         NEW es, NEW d \in DocIds, NEW new, Grown(ds, es, d, new),
         Len(ds[d]) < MaxVersions, new.key \notin ks,
         NEW gs, gs \in [DocIds -> Nat], \A e \in DocIds \ {d} : gs[e] = js[e],
         gs[d] \in {0, Len(ds[d]) + 1},
         NEW m \in 0..MaxDocs, n <= m, d <= m,
         (new.status = "active" /\ new.shared /\ new.path # NoPath) =>
            \A e \in DocIds \ {d} : ~(ProjectsIn(ds, e) /\ Last(ds[e]).path = new.path)
  PROVE  Recorded(es, ks \cup {new.key}, gs, m)
  <1> DEFINE l == Len(ds[d])
  <1>1. /\ l \in Nat /\ DOMAIN ds[d] = 1..l /\ DOMAIN es[d] = 1..(l + 1)
        /\ Len(es[d]) = l + 1 /\ MaxVersions \in Nat
        /\ ds \in [DocIds -> Seq(Versions)] /\ es \in [DocIds -> Seq(Versions)]
    BY BoundsAssumption DEF Recorded, Tables, Grown
  <1>2. /\ \A e \in DocIds \ {d} : es[e] = ds[e]
        /\ \A v \in 1..l : es[d][v].key = ds[d][v].key
        /\ es[d][l + 1] = new /\ new.key \in Keys
    BY <1>1 DEF Grown, Versions
  <1>3. Tables(es, ks \cup {new.key}, gs, m)
    <2>1. \A e \in DocIds : Len(es[e]) <= MaxVersions
      BY <1>1, <1>2 DEF Recorded, Tables
    <2>2. gs \in [DocIds -> 0..MaxVersions]
      <3>1. ASSUME NEW e \in DocIds PROVE gs[e] \in 0..MaxVersions
        <4>1. CASE e = d
          BY <1>1, <4>1
        <4>2. CASE e # d
          BY <4>2 DEF Recorded, Tables
        <4>3. QED
          BY <4>1, <4>2
      <3>2. QED
        BY <3>1
    <2>3. QED
      BY <1>1, <1>2, <2>1, <2>2 DEF Recorded, Tables
  <1>4. OneUse(es, ks \cup {new.key})
    <2>1. OneUse(ds, ks)
      BY DEF Recorded
    <2>2. \A e \in DocIds : \A v \in DOMAIN es[e] :
             \/ v \in DOMAIN ds[e] /\ es[e][v].key = ds[e][v].key /\ es[e][v].key \in ks
             \/ e = d /\ v = l + 1 /\ es[e][v].key = new.key
      <3>1. SUFFICES ASSUME NEW e \in DocIds, NEW v \in DOMAIN es[e]
                     PROVE  \/ /\ v \in DOMAIN ds[e] /\ es[e][v].key = ds[e][v].key
                               /\ es[e][v].key \in ks
                            \/ e = d /\ v = l + 1 /\ es[e][v].key = new.key
        OBVIOUS
      <3>2. CASE e # d
        BY <1>2, <2>1, <3>2 DEF OneUse
      <3>3. CASE e = d /\ v \in 1..l
        BY <1>1, <1>2, <2>1, <3>3 DEF OneUse
      <3>4. CASE e = d /\ v = l + 1
        BY <1>2, <3>4
      <3>5. QED
        BY <1>1, <3>2, <3>3, <3>4
    <2>3. ASSUME NEW e \in DocIds, NEW v \in DOMAIN ds[e]
          PROVE  v \in DOMAIN es[e] /\ es[e][v].key = ds[e][v].key
      <3>1. CASE e # d
        BY <1>2, <3>1
      <3>2. CASE e = d
        BY <1>1, <1>2, <3>2
      <3>3. QED
        BY <3>1, <3>2
    <2>4. \A k \in ks \cup {new.key} :
             \E e \in DocIds : \E v \in DOMAIN es[e] : es[e][v].key = k
      <3>1. l + 1 \in DOMAIN es[d] /\ es[d][l + 1].key = new.key
        BY <1>1, <1>2
      <3>2. \A k \in ks : \E e \in DocIds : \E v \in DOMAIN ds[e] : ds[e][v].key = k
        BY <2>1 DEF OneUse
      <3>3. QED
        BY <2>3, <3>1, <3>2
    <2>5. ASSUME NEW a \in DocIds, NEW b \in DocIds, NEW v \in DOMAIN es[a],
                 NEW w \in DOMAIN es[b], es[a][v].key = es[b][w].key
          PROVE  a = b /\ v = w
      BY <2>1, <2>2, <2>5 DEF OneUse
    <2>6. QED
      BY <2>2, <2>4, <2>5 DEF OneUse
  <1>5. OneOwner(es)
    <2>1. SUFFICES ASSUME NEW a \in DocIds, NEW b \in DocIds, a # b,
                          ProjectsIn(es, a), ProjectsIn(es, b), Last(es[a]).path = Last(es[b]).path
                   PROVE  FALSE
      BY DEF OneOwner
    <2>2. ASSUME NEW e \in DocIds \ {d}, ProjectsIn(es, e)
          PROVE  ProjectsIn(ds, e) /\ Last(es[e]).path = Last(ds[e]).path
      <3>1. es[e] = ds[e]
        BY <1>2
      <3>2. QED
        BY <2>2, <3>1 DEF ProjectsIn, ActiveIn
    <2>3. ProjectsIn(es, d) =>
             /\ new.status = "active" /\ new.shared /\ new.path # NoPath
             /\ Last(es[d]).path = new.path
      <3>1. Last(es[d]) = new
        BY <1>1, <1>2 DEF Last
      <3>2. QED
        BY <3>1 DEF ProjectsIn, ActiveIn
    <2>4. OneOwner(ds)
      BY DEF Recorded
    <2>5. QED
      BY <2>1, <2>2, <2>3, <2>4 DEF OneOwner
  <1>6. /\ \A e \in DocIds : gs[e] \in {0, Len(es[e])}
        /\ \A e \in DocIds : es[e] # <<>> => e <= m
    <2>1. n \in Nat /\ m \in Nat /\ \A e \in DocIds : e \in Nat
      BY BoundsAssumption DEF Recorded, Tables, DocIds
    <2>2. ASSUME NEW e \in DocIds
          PROVE  gs[e] \in {0, Len(es[e])} /\ (es[e] # <<>> => e <= m)
      <3>1. CASE e = d
        BY <1>1, <3>1
      <3>2. CASE e # d
        <4>1. es[e] = ds[e] /\ gs[e] = js[e]
          BY <1>2, <3>2
        <4>2. QED
          BY <2>1, <4>1 DEF Recorded
      <3>3. QED
        BY <3>1, <3>2
    <2>3. QED
      BY <2>2
  <1>7. QED
    BY <1>3, <1>4, <1>5, <1>6 DEF Recorded

\* What files and index lack for a new version is due with its job.
LEMMA DueGrows ==
  ASSUME NEW ds \in [DocIds -> Seq(Versions)], NEW es, NEW d \in DocIds, NEW new,
         Grown(ds, es, d, new),
         NEW js, NEW gs, gs[d] = Len(ds[d]) + 1, \A e \in DocIds \ {d} : gs[e] = js[e],
         NEW fs, NEW ix, Due(ds, js, fs, ix)
  PROVE  Due(es, gs, fs, ix)
  <1>1. gs[d] # 0
    BY DEF Grown
  <1>2. \A e \in DocIds \ {d} : es[e] = ds[e]
    BY DEF Grown
  <1>3. ASSUME NEW p \in Paths, ~Owned(es, p), fs[p] # NoFile
        PROVE  \E e \in DocIds : gs[e] # 0 /\ p \in PathsIn(es, e)
    <2>1. CASE Owned(ds, p)
      <3>1. PICK e \in DocIds : ProjectsIn(ds, e) /\ Last(ds[e]).path = p
        BY <2>1 DEF Owned
      <3>2. e = d
        BY <1>2, <1>3, <3>1, GrownLast DEF Owned
      <3>3. p \in PathsIn(ds, d)
        <4>1. /\ ds[d] # <<>> /\ ds[d] \in Seq(Versions)
              /\ p = ds[d][Len(ds[d])].path /\ p # NoPath
          BY <3>1, <3>2 DEF ProjectsIn, ActiveIn, Last
        <4>2. Len(ds[d]) \in DOMAIN ds[d]
          BY <4>1
        <4>3. QED
          BY <4>1, <4>2 DEF PathsIn
      <3>4. QED
        BY <1>1, <3>3, GrownLast
    <2>2. CASE ~Owned(ds, p)
      <3>1. PICK e \in DocIds : js[e] # 0 /\ p \in PathsIn(ds, e)
        BY <1>3, <2>2 DEF Due
      <3>2. p \in PathsIn(es, e) /\ gs[e] # 0
        BY <1>1, <3>1, GrownLast
      <3>3. QED
        BY <3>2
    <2>3. QED
      BY <2>1, <2>2
  <1>4. ASSUME NEW e \in DocIds, gs[e] = 0
        PROVE  /\ ProjectsIn(es, e) => fs[Last(es[e]).path] = <<e, Len(es[e])>>
               /\ ActiveIn(es, e) => <<e, Len(es[e])>> \in ix
    <2>1. e # d /\ js[e] = 0 /\ es[e] = ds[e]
      BY <1>1, <1>2, <1>4
    <2>2. (ProjectsIn(es, e) <=> ProjectsIn(ds, e)) /\ (ActiveIn(es, e) <=> ActiveIn(ds, e))
      BY <2>1, GrownLast
    <2>3. QED
      BY <2>1, <2>2 DEF Due
  <1>5. QED
    BY <1>3, <1>4 DEF Due

----------------------------------------------------------------------------
(* Requests, on the tables.                                                *)

\* A repeated request registers the latest version again.
LEMMA ReplayKeeps ==
  ASSUME NEW ds, NEW ks, NEW js, NEW n, Recorded(ds, ks, js, n), NEW d \in DocIds,
         NEW fs, NEW ix, Due(ds, js, fs, ix)
  PROVE  /\ Recorded(ds, ks, Enqueued(js, d, Len(ds[d])), n)
         /\ Due(ds, Enqueued(js, d, Len(ds[d])), fs, ix)
  <1> DEFINE gs == Enqueued(js, d, Len(ds[d]))
  <1>1. /\ Len(ds[d]) \in 0..MaxVersions /\ js \in [DocIds -> 0..MaxVersions]
        /\ js[d] \in {0, Len(ds[d])}
    BY BoundsAssumption DEF Recorded, Tables
  <1>2. gs[d] = Len(ds[d]) /\ \A e \in DocIds \ {d} : gs[e] = js[e]
    BY <1>1 DEF Enqueued
  <1>3. gs \in [DocIds -> 0..MaxVersions]
    BY <1>1 DEF Enqueued
  <1> HIDE DEF gs
  <1>4. \A e \in DocIds : gs[e] \in {0, Len(ds[e])}
    BY <1>2 DEF Recorded
  <1>5. \A e \in DocIds : gs[e] = 0 => js[e] = 0
    BY <1>1, <1>2
  <1>6. Recorded(ds, ks, gs, n)
    BY <1>3, <1>4 DEF Recorded, Tables
  <1>7. Due(ds, gs, fs, ix)
    BY <1>5 DEF Due
  <1>8. QED
    BY <1>6, <1>7 DEF gs

Good(w, fs, ix) ==
    /\ w = [docs |-> w.docs, keys |-> w.keys, jobs |-> w.jobs, ids |-> w.ids]
    /\ Recorded(w.docs, w.keys, w.jobs, w.ids)
    /\ Due(w.docs, w.jobs, fs, ix)

\* The fields of a command, and its key
LEMMA CommandTypes ==
  ASSUME NEW c \in Commands \cup Fresh
  PROVE  /\ c.path \in Paths \cup {NoPath} /\ c.shared \in BOOLEAN /\ c.doc \in 0..MaxDocs
         /\ WriteKey(c) \in Keys
  BY CommandsAssumption, BoundsAssumption DEF Keys

\* The document of a saved key.
LEMMA UsedInDocument ==
  ASSUME NEW w, OneUse(w.docs, w.keys), NEW key \in w.keys
  PROVE  /\ UsedIn(w, key) \in DocIds
         /\ \E v \in DOMAIN w.docs[UsedIn(w, key)] : w.docs[UsedIn(w, key)][v].key = key
  BY DEF UsedIn, OneUse

\* A document that holds a shared path is among those that block it.
LEMMA Blocked ==
  ASSUME NEW ds, NEW d, NEW path, HeldBy(ds, path, TRUE) \subseteq {d}
  PROVE  \A e \in DocIds \ {d} : ~(ProjectsIn(ds, e) /\ Last(ds[e]).path = path)
  <1>1. SUFFICES ASSUME NEW e \in DocIds \ {d}, ProjectsIn(ds, e), Last(ds[e]).path = path,
                        Last(ds[e]).shared = TRUE
                 PROVE  FALSE
    BY DEF ProjectsIn
  <1>2. e \in HeldBy(ds, path, TRUE)
    BY <1>1 DEF HeldBy, ProjectsIn, ActiveIn
  <1>3. QED
    BY <1>2

\* One command leaves the tables in order.
LEMMA CommandKeeps ==
  ASSUME NEW w, NEW fs, NEW ix, Good(w, fs, ix),
         NEW c \in Commands \cup Fresh, MayWrite(w, c)
  PROVE  Good(After(w, c), fs, ix)
  <1>1. CASE WriteKey(c) \in w.keys
    <2> DEFINE d == UsedIn(w, WriteKey(c))
               js == Enqueued(w.jobs, d, Len(w.docs[d]))
    <2>1. d \in DocIds
      BY <1>1, UsedInDocument DEF Good, Recorded
    <2>2. After(w, c) = [docs |-> w.docs, keys |-> w.keys, jobs |-> js, ids |-> w.ids]
      <3> HIDE DEF d
      <3>1. After(w, c) = [w EXCEPT !.jobs = js]
        BY <1>1 DEF After, Replayed, d
      <3> HIDE DEF js
      <3>2. PICK a, b, e, f : w = [docs |-> a, keys |-> b, jobs |-> e, ids |-> f]
        BY DEF Good
      <3>3. QED
        BY <3>1, <3>2
    <2> HIDE DEF d
    <2>3. Recorded(w.docs, w.keys, js, w.ids) /\ Due(w.docs, js, fs, ix)
      BY <2>1, ReplayKeeps DEF Good
    <2> HIDE DEF js
    <2>4. QED
      BY <2>2, <2>3 DEF Good
  <1>2. CASE WriteKey(c) \notin w.keys
    <2> DEFINE d == Goal(w, c)
               ds == w.docs
               new == [path |-> c.path, shared |-> c.shared, status |-> "active",
                       key |-> WriteKey(c)]
               es == [ds EXCEPT ![d] = NewVersion(@, c.path, c.shared, "active", WriteKey(c))]
               gs == Enqueued(w.jobs, d, Len(ds[d]) + 1)
               m == IF d > w.ids THEN d ELSE w.ids
    <2>1. /\ d \in DocIds /\ HeldBy(ds, c.path, c.shared) \subseteq {d}
          /\ Len(ds[d]) < MaxVersions
      BY <1>2 DEF MayWrite
    <2>2. After(w, c) = [docs |-> es, keys |-> w.keys \cup {WriteKey(c)},
                         jobs |-> gs, ids |-> m]
      BY <1>2 DEF After, Written
    <2> HIDE DEF d
    <2>3. /\ Recorded(ds, w.keys, w.jobs, w.ids) /\ Due(ds, w.jobs, fs, ix)
          /\ ds \in [DocIds -> Seq(Versions)] /\ w.jobs \in [DocIds -> 0..MaxVersions]
          /\ w.ids \in 0..MaxDocs /\ MaxDocs \in Nat /\ MaxVersions \in Nat
          /\ w.jobs[d] \in {0, Len(ds[d])}
      BY <2>1, BoundsAssumption DEF Good, Recorded, Tables
    <2> HIDE DEF ds
    <2>4. Grown(ds, es, d, new)
      BY <2>1, <2>3, CommandTypes, NewVersionGrows
    <2>5. new.key = WriteKey(c) /\ new.path = c.path /\ new.shared = c.shared
      OBVIOUS
    <2>6. /\ gs[d] = Len(ds[d]) + 1 /\ \A e \in DocIds \ {d} : gs[e] = w.jobs[e]
          /\ gs \in [DocIds -> Nat]
      <3>1. Len(ds[d]) \in Nat
        BY <2>1, <2>3
      <3>2. QED
        BY <2>1, <2>3, <3>1 DEF Enqueued
    <2>7. m \in 0..MaxDocs /\ w.ids <= m /\ d <= m
      BY <2>1, <2>3 DEF DocIds
    <2>8. new.shared => \A e \in DocIds \ {d} : ~(ProjectsIn(ds, e) /\ Last(ds[e]).path = new.path)
      <3>1. c.shared => HeldBy(ds, c.path, TRUE) \subseteq {d}
        <4>1. c.shared => c.shared = TRUE
          BY CommandTypes
        <4>2. QED
          BY <2>1, <4>1
      <3>2. QED
        BY <2>5, <3>1, Blocked
    <2> HIDE DEF es, gs, m, new
    <2>9. Recorded(es, w.keys \cup {WriteKey(c)}, gs, m)
      <3>1. Recorded(es, w.keys \cup {new.key}, gs, m)
        BY <1>2, <2>1, <2>3, <2>4, <2>5, <2>6, <2>7, <2>8, RecordedGrows
      <3>2. QED
        BY <2>5, <3>1
    <2>10. Due(es, gs, fs, ix)
      BY <2>1, <2>3, <2>4, <2>6, DueGrows
    <2>11. QED
      BY <2>2, <2>9, <2>10 DEF Good
  <1>3. QED
    BY <1>1, <1>2

\* So does a batch, one command after the other.
LEMMA BatchKeeps ==
  ASSUME NEW batch \in Batches, Good(World, files, index),
         \A n \in DOMAIN batch : MayWrite(Worlds(batch)[n - 1], batch[n])
  PROVE  Good(Worlds(batch)[Len(batch)], files, index)
  <1> DEFINE S == {n \in Nat : n <= Len(batch) => Good(Worlds(batch)[n], files, index)}
  <1>1. batch \in Seq(Commands) /\ DOMAIN batch = 1..Len(batch) /\ Len(batch) \in Nat
    BY CommandsAssumption
  <1>2. 0 \in S
    BY WorldsRun
  <1>3. \A n \in Nat : n \in S => n + 1 \in S
    <2>1. SUFFICES ASSUME NEW n \in Nat, n + 1 <= Len(batch), Good(Worlds(batch)[n], files, index)
                   PROVE  Good(Worlds(batch)[n + 1], files, index)
      BY <1>1
    <2>2. n + 1 \in DOMAIN batch /\ (n + 1) - 1 = n /\ batch[n + 1] \in Commands
      BY <1>1, <2>1
    <2>3. /\ Worlds(batch)[n + 1] = After(Worlds(batch)[n], batch[n + 1])
          /\ MayWrite(Worlds(batch)[n], batch[n + 1])
      BY <2>2, WorldsRun
    <2>4. QED
      BY <2>1, <2>2, <2>3, CommandKeeps
  <1>4. Nat \subseteq S
    <2> HIDE DEF S
    <2>1. QED
      BY <1>2, <1>3, SetInduction
  <1>5. QED
    BY <1>1, <1>4

----------------------------------------------------------------------------
(* The steps of requests.                                                  *)

\* The operators of the module are those of the tables, taken of its variables.
LEMMA OfDocs ==
  ASSUME NEW d \in DocIds
  PROVE  /\ Active(d) <=> ActiveIn(docs, d)
         /\ Projects(d) <=> ProjectsIn(docs, d)
         /\ PathsOf(d) = PathsIn(docs, d)
         /\ Latest(d) = Last(docs[d]) /\ Current(d) = <<d, Len(docs[d])>>
  <1>1. /\ Active(d) <=> ActiveIn(docs, d)
        /\ Latest(d) = Last(docs[d]) /\ Current(d) = <<d, Len(docs[d])>>
    BY DEF Active, ActiveIn, Exists, Latest, Current
  <1>2. Projects(d) <=> ProjectsIn(docs, d)
    BY <1>1 DEF Projects, ProjectsIn
  <1>3. PathsOf(d) = PathsIn(docs, d)
    BY DEF PathsOf, PathsIn
  <1>4. QED
    BY <1>1, <1>2, <1>3

\* Owners() and Owned() are the same of the variables.
LEMMA OfPath ==
  ASSUME NEW p
  PROVE  Owners(p) = {} <=> ~Owned(docs, p)
  BY OfDocs DEF Owners, Owned

\* Nobody but its holder is inside a transaction.
LEMMA Others ==
  ASSUME IInv, NEW r \in Runtimes, lock \in {r, NoOne},
         \A q \in Runtimes \ {r} : pc'[q] = pc[q] /\ target'[q] = target[q]
  PROVE  \A q \in Runtimes \ {r} : Working(q)'
  <1>1. ASSUME NEW q \in Runtimes \ {r}
        PROVE  Working(q)'
    <2>1. pc[q] \in {"idle", "drain", "rebuild"}
      BY CommandsAssumption DEF IInv, TypeOK, Steps, InTransaction
    <2>2. pc'[q] \in {"idle", "drain", "rebuild"} /\ (pc'[q] = "drain" => target'[q] \in DocIds)
      BY <2>1 DEF IInv, Working
    <2>3. QED
      BY <2>2 DEF Working
  <1>2. QED
    BY <1>1

\* A request that leaves the fact store in order leaves everything in order.
LEMMA RequestKeeps ==
  ASSUME IInv, NEW r \in Runtimes, Ready(r),
         NEW step \in {"drain", "rebuild"}, NEW d \in 0..MaxDocs, At(r, step, d),
         step = "drain" => d \in DocIds,
         Recorded(docs', keys', jobs', ids'), Due(docs', jobs', files, index),
         UNCHANGED <<derived, lock, up, failures>>
  PROVE  IInv'
  <1>1. /\ pc' = [pc EXCEPT ![r] = step] /\ target' = [target EXCEPT ![r] = d]
        /\ pc \in [Runtimes -> Steps] /\ target \in [Runtimes -> 0..MaxDocs]
    BY DEF At, IInv, TypeOK
  <1>2. /\ pc'[r] = step /\ target'[r] = d
        /\ \A q \in Runtimes \ {r} : pc'[q] = pc[q] /\ target'[q] = target[q]
    BY <1>1
  <1>3. pc' \in [Runtimes -> Steps] /\ target' \in [Runtimes -> 0..MaxDocs]
    BY <1>1 DEF Steps
  <1>4. \A q \in Runtimes : lock' = q <=> pc'[q] \in InTransaction
    BY <1>2 DEF IInv, TypeOK, Ready, Steps, InTransaction
  <1>5. TypeOK'
    BY <1>3, <1>4 DEF IInv, TypeOK, Recorded, Tables, derived
  <1>6. Working(r)'
    BY <1>2 DEF Working
  <1>7. \A q \in Runtimes \ {r} : Working(q)'
    BY <1>2, Others DEF Ready
  <1>8. QED
    BY <1>5, <1>6, <1>7 DEF IInv, derived

\* The tables as they are are in order.
LEMMA WorldGood ==
  ASSUME IInv
  PROVE  Good(World, files, index)
  BY DEF IInv, Good, World

\* Tables in order that are committed are the variables of the next state.
LEMMA BecomesGood ==
  ASSUME NEW w, Good(w, files, index), Becomes(w)
  PROVE  Recorded(docs', keys', jobs', ids') /\ Due(docs', jobs', files, index)
  BY DEF Good, Becomes

\* write()
LEMMA WriteKeeps ==
  ASSUME IInv, NEW r \in Runtimes, NEW c \in Commands \cup Fresh, Write(r, c)
  PROVE  IInv'
  <1> DEFINE d == IF WriteKey(c) \in keys THEN UsedIn(World, WriteKey(c)) ELSE Goal(World, c)
  <1>1. Recorded(docs', keys', jobs', ids') /\ Due(docs', jobs', files, index)
    BY WorldGood, CommandKeeps, BecomesGood DEF Write
  <1>2. d \in DocIds
    <2>1. World.keys = keys /\ World.docs = docs
      BY DEF World
    <2>2. CASE WriteKey(c) \in keys
      <3>1. OneUse(World.docs, World.keys)
        BY <2>1 DEF IInv, Recorded
      <3>2. QED
        BY <2>1, <2>2, <3>1, UsedInDocument
    <2>3. CASE WriteKey(c) \notin keys
      BY <2>1, <2>3 DEF Write, MayWrite
    <2>4. QED
      BY <2>2, <2>3
  <1>3. d \in 0..MaxDocs
    BY <1>2 DEF DocIds
  <1>4. Ready(r) /\ At(r, "drain", d) /\ UNCHANGED <<derived, lock, up, failures>>
    BY DEF Write
  <1> HIDE DEF d
  <1>5. QED
    BY <1>1, <1>2, <1>3, <1>4, RequestKeeps

\* write_batch() of an import or a move
LEMMA WriteBatchKeeps ==
  ASSUME IInv, NEW r \in Runtimes, NEW batch \in Batches, WriteBatch(r, batch)
  PROVE  IInv'
  <1>1. Good(Worlds(batch)[Len(batch)], files, index)
    BY WorldGood, BatchKeeps DEF WriteBatch
  <1>2. Recorded(docs', keys', jobs', ids') /\ Due(docs', jobs', files, index)
    BY <1>1, BecomesGood DEF WriteBatch
  <1>3. 0 \in 0..MaxDocs
    BY BoundsAssumption
  <1>4. Ready(r) /\ At(r, "rebuild", 0) /\ UNCHANGED <<derived, lock, up, failures>>
    BY DEF WriteBatch
  <1>5. QED
    BY <1>2, <1>3, <1>4, RequestKeeps

\* One more version of a document, as revoke() and rollback() make it
LEMMA ChangeKeeps ==
  ASSUME IInv, NEW d \in DocIds, docs[d] # <<>>, Len(docs[d]) < MaxVersions,
         NEW path \in Paths \cup {NoPath}, NEW shared \in BOOLEAN,
         NEW status \in {"active", "revoked"}, NEW key \in Keys, key \notin keys,
         (status = "active" /\ path # NoPath) => HeldBy(docs, path, shared) \subseteq {d},
         Change(d, path, shared, status, key), UNCHANGED ids
  PROVE  Recorded(docs', keys', jobs', ids') /\ Due(docs', jobs', files, index)
  <1> DEFINE new == [path |-> path, shared |-> shared, status |-> status, key |-> key]
  <1>1. /\ Recorded(docs, keys, jobs, ids) /\ Due(docs, jobs, files, index)
        /\ docs \in [DocIds -> Seq(Versions)] /\ jobs \in [DocIds -> 0..MaxVersions]
        /\ ids \in 0..MaxDocs /\ d <= ids /\ jobs[d] \in {0, Len(docs[d])}
    BY DEF IInv, Recorded, Tables
  <1>2. Grown(docs, docs', d, new)
    BY <1>1, NewVersionGrows DEF Change
  <1>3. /\ new.key = key /\ new.path = path /\ new.shared = shared /\ new.status = status
    OBVIOUS
  <1>4. /\ jobs'[d] = Len(docs[d]) + 1 /\ \A e \in DocIds \ {d} : jobs'[e] = jobs[e]
        /\ jobs' \in [DocIds -> Nat]
    <2>1. Len(docs[d]) \in Nat /\ MaxVersions \in Nat
      BY <1>1, BoundsAssumption
    <2>2. QED
      BY <1>1, <2>1 DEF Enqueued, Change
  <1>5. (new.status = "active" /\ new.shared /\ new.path # NoPath) =>
           \A e \in DocIds \ {d} : ~(ProjectsIn(docs, e) /\ Last(docs[e]).path = new.path)
    <2>1. shared => shared = TRUE
      OBVIOUS
    <2>2. QED
      BY <1>3, <2>1, Blocked
  <1> HIDE DEF new
  <1>6. Recorded(docs', keys \cup {new.key}, jobs', ids)
    <2>1. ids <= ids /\ new.key \notin keys /\ jobs'[d] \in {0, Len(docs[d]) + 1}
      BY <1>1, <1>3, <1>4
    <2>2. PICK es, gs, ks : es = docs' /\ gs = jobs' /\ ks = keys
      OBVIOUS
    <2>3. /\ Recorded(docs, ks, jobs, ids) /\ Grown(docs, es, d, new)
          /\ new.key \notin ks /\ gs \in [DocIds -> Nat]
          /\ \A e \in DocIds \ {d} : gs[e] = jobs[e]
          /\ gs[d] \in {0, Len(docs[d]) + 1} /\ Len(docs[d]) < MaxVersions
      BY <1>1, <1>2, <1>4, <2>1, <2>2
    <2>4. Recorded(es, ks \cup {new.key}, gs, ids)
      BY <1>1, <1>5, <2>1, <2>3, RecordedGrows
    <2>5. QED
      BY <2>2, <2>4
  <1>7. Due(docs', jobs', files, index)
    BY <1>1, <1>2, <1>4, DueGrows
  <1>8. QED
    BY <1>3, <1>6, <1>7 DEF Change

\* revoke()
LEMMA RevokeKeeps ==
  ASSUME IInv, NEW r \in Runtimes, NEW d \in DocIds, Revoke(r, d)
  PROVE  IInv'
  <1>1. Recorded(docs', keys', jobs', ids') /\ Due(docs', jobs', files, index)
    <2>1. CASE RevokeKey(d) \in keys /\ Replay(d)
      <3>1. jobs' = Enqueued(jobs, d, Len(docs[d])) /\ UNCHANGED <<docs, keys, ids>>
        BY <2>1 DEF Replay, Revoke
      <3>2. QED
        BY <3>1, ReplayKeeps DEF IInv
    <2>2. CASE /\ RevokeKey(d) \notin keys /\ Active(d) /\ Len(docs[d]) < MaxVersions
               /\ Change(d, Latest(d).path, Latest(d).shared, "revoked", RevokeKey(d))
      <3>1. docs[d] # <<>> /\ docs[d] \in Seq(Versions)
        BY <2>2 DEF Active, Exists, IInv, TypeOK
      <3>2. Latest(d) \in Versions
        BY <3>1 DEF Latest, Last
      <3>3. Latest(d).path \in Paths \cup {NoPath} /\ Latest(d).shared \in BOOLEAN
        BY <3>2 DEF Versions
      <3>4. RevokeKey(d) \in Keys /\ UNCHANGED ids
        BY DEF Keys, Revoke
      <3>5. QED
        BY <2>2, <3>1, <3>3, <3>4, ChangeKeeps
    <2>3. QED
      BY <2>1, <2>2 DEF Revoke
  <1>2. d \in 0..MaxDocs
    BY DEF DocIds
  <1>3. Ready(r) /\ At(r, "drain", d) /\ UNCHANGED <<derived, lock, up, failures>>
    BY DEF Revoke
  <1>4. QED
    BY <1>1, <1>2, <1>3, RequestKeeps

\* rollback()
LEMMA RollbackKeeps ==
  ASSUME IInv, NEW r \in Runtimes, NEW d \in DocIds, NEW v \in 1..MaxVersions, Rollback(r, d, v)
  PROVE  IInv'
  <1>1. Recorded(docs', keys', jobs', ids') /\ Due(docs', jobs', files, index)
    <2>1. CASE RollbackKey(d, v) \in keys /\ Replay(d)
      <3>1. jobs' = Enqueued(jobs, d, Len(docs[d])) /\ UNCHANGED <<docs, keys, ids>>
        BY <2>1 DEF Replay, Rollback
      <3>2. QED
        BY <3>1, ReplayKeeps DEF IInv
    <2>2. CASE /\ RollbackKey(d, v) \notin keys /\ Len(docs[d]) < MaxVersions
               /\ docs[d][v].path # NoPath =>
                    HeldBy(docs, docs[d][v].path, docs[d][v].shared) \subseteq {d}
               /\ Change(d, docs[d][v].path, docs[d][v].shared, "active", RollbackKey(d, v))
      <3>1. docs[d] \in Seq(Versions) /\ v \in DOMAIN docs[d]
        BY DEF Rollback, IInv, TypeOK
      <3>2. docs[d] # <<>> /\ docs[d][v] \in Versions
        BY <3>1
      <3>3. docs[d][v].path \in Paths \cup {NoPath} /\ docs[d][v].shared \in BOOLEAN
        BY <3>2 DEF Versions
      <3>4. RollbackKey(d, v) \in Keys /\ UNCHANGED ids
        BY DEF Keys, Rollback
      <3>5. QED
        BY <2>2, <3>2, <3>3, <3>4, ChangeKeeps
    <2>3. QED
      BY <2>1, <2>2 DEF Rollback
  <1>2. d \in 0..MaxDocs
    BY DEF DocIds
  <1>3. Ready(r) /\ At(r, "drain", d) /\ UNCHANGED <<derived, lock, up, failures>>
    BY DEF Rollback
  <1>4. QED
    BY <1>1, <1>2, <1>3, RequestKeeps

----------------------------------------------------------------------------
(* The steps of whoever holds the lock, takes it or gives it back.         *)

\* Types of what a document's current version has in files and index
LEMMA CurrentTypes ==
  ASSUME IInv, NEW d \in DocIds
  PROVE  /\ PathsOf(d) \subseteq Paths
         /\ Len(docs[d]) \in 0..MaxVersions
         /\ Active(d) => Current(d) \in DocIds \X (1..MaxVersions)
         /\ Projects(d) => /\ Active(d) /\ Latest(d).path \in Paths
                           /\ Owners(Latest(d).path) # {}
         /\ \A e \in DocIds : (Projects(d) /\ Projects(e) /\ Latest(d).path = Latest(e).path)
                              => d = e
  <1>1. docs[d] \in Seq(Versions) /\ Len(docs[d]) \in 0..MaxVersions
    BY BoundsAssumption DEF IInv, TypeOK
  <1>2. \A v \in DOMAIN docs[d] : docs[d][v].path \in Paths \cup {NoPath}
    <2>1. \A v \in DOMAIN docs[d] : docs[d][v] \in Versions
      BY <1>1
    <2>2. QED
      BY <2>1 DEF Versions
  <1>3. PathsOf(d) \subseteq Paths
    BY <1>2 DEF PathsOf
  <1>4. docs[d] # <<>> => /\ Len(docs[d]) \in DOMAIN docs[d]
                          /\ Len(docs[d]) \in 1..MaxVersions
    BY <1>1
  <1>5. Active(d) => Current(d) \in DocIds \X (1..MaxVersions)
    BY <1>4 DEF Active, Exists, Current
  <1>6. Projects(d) => Active(d) /\ Latest(d).path \in Paths /\ Owners(Latest(d).path) # {}
    BY <1>2, <1>4 DEF Projects, Active, Exists, Latest, Last, Owners
  <1>7. \A e \in DocIds : (Projects(d) /\ Projects(e) /\ Latest(d).path = Latest(e).path)
                         => d = e
    BY OfDocs DEF IInv, Recorded, OneOwner
  <1>8. QED
    BY <1>1, <1>3, <1>5, <1>6, <1>7

\* Files and index that have come closer to the facts leave nothing else due.
LEMMA DueShrinks ==
  ASSUME IInv, NEW fs, NEW ix,
         \A p \in Paths : \/ fs[p] = files[p]
                          \/ Owners(p) = {} /\ fs[p] = NoFile
                          \/ \E d \in DocIds : /\ Projects(d) /\ Latest(d).path = p
                                               /\ fs[p] = Current(d),
         \A d \in DocIds : (jobs[d] = 0 /\ Active(d) /\ Current(d) \in index)
                          => Current(d) \in ix
  PROVE  Due(docs, jobs, fs, ix)
  <1>1. Due(docs, jobs, files, index)
    BY DEF IInv
  <1>2. ASSUME NEW p \in Paths, ~Owned(docs, p), fs[p] # NoFile
        PROVE  \E d \in DocIds : jobs[d] # 0 /\ p \in PathsIn(docs, d)
    <2>1. Owners(p) = {}
      BY <1>2, OfPath
    <2>2. \A d \in DocIds : ~(Projects(d) /\ Latest(d).path = p)
      BY <2>1 DEF Owners
    <2>3. fs[p] = files[p]
      BY <1>2, <2>2
    <2>4. QED
      BY <1>1, <1>2, <2>3 DEF Due
  <1>3. ASSUME NEW d \in DocIds, jobs[d] = 0
        PROVE  /\ ProjectsIn(docs, d) => fs[Last(docs[d]).path] = <<d, Len(docs[d])>>
               /\ ActiveIn(docs, d) => <<d, Len(docs[d])>> \in ix
    <2>1. ASSUME Projects(d)
          PROVE  fs[Latest(d).path] = Current(d)
      <3>1. /\ Latest(d).path \in Paths /\ Owners(Latest(d).path) # {}
            /\ files[Latest(d).path] = Current(d)
        BY <1>1, <1>3, <2>1, CurrentTypes, OfDocs DEF Due
      <3>2. CASE fs[Latest(d).path] = files[Latest(d).path]
        BY <3>1, <3>2
      <3>3. CASE \E e \in DocIds : /\ Projects(e) /\ Latest(e).path = Latest(d).path
                                  /\ fs[Latest(d).path] = Current(e)
        BY <2>1, <3>3, CurrentTypes
      <3>4. QED
        BY <3>1, <3>2, <3>3
    <2>2. Active(d) => Current(d) \in ix
      BY <1>1, <1>3, OfDocs DEF Due
    <2>3. QED
      BY <2>1, <2>2, OfDocs
  <1>4. QED
    BY <1>2, <1>3 DEF Due

\* A step of one runtime that reads or writes files and index in its
\* transaction, and neither facts nor anything of the others
LEMMA InsideKeeps ==
  ASSUME IInv, NEW r \in Runtimes, lock = r, UNCHANGED <<facts, lock, up, failures>>,
         NEW step \in InTransaction, pc' = [pc EXCEPT ![r] = step], UNCHANGED target,
         Due(docs, jobs, files', index'),
         files' \in [Paths -> (DocIds \X (1..MaxVersions)) \cup {NoFile}],
         index' \subseteq DocIds \X (1..MaxVersions),
         Working(r)'
  PROVE  IInv'
  <1>1. /\ pc \in [Runtimes -> Steps] /\ step \in Steps
        /\ pc'[r] = step /\ \A q \in Runtimes \ {r} : pc'[q] = pc[q]
    BY DEF IInv, TypeOK, InTransaction
  <1>2. pc' \in [Runtimes -> Steps]
    BY <1>1
  <1>3. \A q \in Runtimes : lock' = q <=> pc'[q] \in InTransaction
    BY <1>1 DEF IInv, TypeOK
  <1>4. TypeOK'
    BY <1>2, <1>3 DEF IInv, TypeOK, facts
  <1>5. \A q \in Runtimes \ {r} : Working(q)'
    BY <1>1, Others
  <1>6. QED
    BY <1>4, <1>5 DEF IInv, facts

\* What Filed() says after a step that changes no fact
LEMMA FiledNext ==
  ASSUME NEW d \in DocIds, UNCHANGED docs,
         \A p \in PathsOf(d) : Owners(p) = {} => files'[p] = NoFile,
         Projects(d) => files'[Latest(d).path] = Current(d)
  PROVE  Filed(d)'
  <1>1. (Projects(d) => files[Latest(d).path] = Current(d))'
    BY DEF Projects, Active, Exists, Latest, Current
  <1>2. PathsOf(d)' = PathsOf(d)
    BY DEF PathsOf
  <1>3. \A p : Owners(p)' = Owners(p)
    BY DEF Owners, Projects, Active, Exists, Latest
  <1>4. QED
    BY <1>1, <1>2, <1>3 DEF Filed

\* Inside its transaction a runtime holds the lock.
LEMMA Inside ==
  ASSUME IInv, NEW r \in Runtimes, pc[r] \in InTransaction
  PROVE  /\ lock = r /\ Working(r)
         /\ pc = [pc EXCEPT ![r] = pc[r]]
         /\ \A step : Goes(r, step) => pc' = [pc EXCEPT ![r] = step] /\ UNCHANGED target
  BY DEF IInv, TypeOK, Goes, At

\* The drain removes a file that belongs to nobody.
LEMMA RemoveFileKeeps ==
  ASSUME IInv, NEW r \in Runtimes, RemoveFile(r)
  PROVE  IInv'
  <1>1. pc[r] = "files" /\ pc[r] \in InTransaction
    BY DEF RemoveFile, Steps, InTransaction
  <1>2. lock = r /\ Working(r) /\ target[r] \in DocIds
    BY <1>1, Inside DEF Working
  <1>3. PICK p \in Stale(target[r]) : files' = [files EXCEPT ![p] = NoFile]
    BY DEF RemoveFile
  <1>4. p \in Paths /\ Owners(p) = {}
    BY <1>2, <1>3, CurrentTypes DEF Stale
  <1>5. files \in [Paths -> (DocIds \X (1..MaxVersions)) \cup {NoFile}]
    BY DEF IInv, TypeOK
  <1>6. UNCHANGED <<facts, index, lock, up, failures, target, pc>>
    BY DEF RemoveFile, control
  <1>7. Due(docs, jobs, files', index')
    BY <1>3, <1>4, <1>5, <1>6, DueShrinks
  <1>8. files' \in [Paths -> (DocIds \X (1..MaxVersions)) \cup {NoFile}]
    BY <1>3, <1>5
  <1>9. index' \subseteq DocIds \X (1..MaxVersions) /\ pc' = [pc EXCEPT ![r] = "files"]
    BY <1>1, <1>6, Inside DEF IInv, TypeOK
  <1>10. Working(r)'
    BY <1>1, <1>2, <1>6 DEF Working, facts
  <1>11. QED
    BY <1>1, <1>2, <1>6, <1>7, <1>8, <1>9, <1>10, InsideKeeps

\* The drain has removed what was stale, and writes the file of its document.
LEMMA WriteFileKeeps ==
  ASSUME IInv, NEW r \in Runtimes, WriteFile(r)
  PROVE  IInv'
  <1> DEFINE d == target[r]
  <1>1. pc[r] = "files" /\ pc[r] \in InTransaction /\ "unindex" \in InTransaction
    BY DEF WriteFile, Steps, InTransaction
  <1>2. /\ lock = r /\ Working(r) /\ d \in DocIds
        /\ pc' = [pc EXCEPT ![r] = "unindex"] /\ UNCHANGED target
    BY <1>1, Inside DEF Working, WriteFile
  <1>3. /\ \A p \in Stale(d) : files[p] = NoFile
        /\ files' = IF Projects(d) THEN [files EXCEPT ![Latest(d).path] = Current(d)] ELSE files
    BY DEF WriteFile
  <1>4. UNCHANGED <<facts, index, lock, up, failures>>
    BY DEF WriteFile
  <1>5. /\ files \in [Paths -> (DocIds \X (1..MaxVersions)) \cup {NoFile}]
        /\ index \subseteq DocIds \X (1..MaxVersions) /\ pc \in [Runtimes -> Steps]
    BY DEF IInv, TypeOK
  <1> HIDE DEF d
  <1>6. Due(docs, jobs, files', index')
    BY <1>2, <1>3, <1>4, <1>5, DueShrinks
  <1>7. files' \in [Paths -> (DocIds \X (1..MaxVersions)) \cup {NoFile}]
    BY <1>2, <1>3, <1>5, CurrentTypes
  <1>8. /\ \A p \in PathsOf(d) : Owners(p) = {} => files'[p] = NoFile
        /\ Projects(d) => files'[Latest(d).path] = Current(d)
    <2>1. ASSUME NEW p \in PathsOf(d), Owners(p) = {}
          PROVE  files'[p] = NoFile
      <3>1. p \in Stale(d) /\ (Projects(d) => p # Latest(d).path)
        BY <1>2, <2>1, CurrentTypes DEF Stale
      <3>2. QED
        BY <1>3, <1>5, <3>1
    <2>2. Projects(d) => files'[Latest(d).path] = Current(d)
      BY <1>2, <1>3, <1>5, CurrentTypes
    <2>3. QED
      BY <2>1, <2>2
  <1>9. (Filed(d))'
    <2>1. PICK e \in DocIds : e = d
      BY <1>2
    <2>2. Filed(e)'
      BY <1>4, <1>8, <2>1, FiledNext DEF facts
    <2>3. QED
      BY <1>2, <2>1, <2>2 DEF d
  <1>10. Working(r)'
    BY <1>1, <1>2, <1>4, <1>5, <1>9 DEF Working, facts, d
  <1>11. index' \subseteq DocIds \X (1..MaxVersions)
    BY <1>4, <1>5
  <1>12. QED
    BY <1>1, <1>2, <1>4, <1>6, <1>7, <1>10, <1>11, InsideKeeps

\* Evidence may go, because the job of its document stays.
LEMMA RemoveEvidenceKeeps ==
  ASSUME IInv, NEW r \in Runtimes, RemoveEvidence(r)
  PROVE  IInv'
  <1>1. pc[r] = "unindex" /\ pc[r] \in InTransaction
    BY DEF RemoveEvidence, Steps, InTransaction
  <1>2. /\ lock = r /\ Working(r) /\ target[r] \in DocIds
        /\ jobs[target[r]] = Len(docs[target[r]])
    BY <1>1, Inside DEF Working
  <1>3. PICK e \in index : e[1] = target[r] /\ index' = index \ {e}
    BY DEF RemoveEvidence
  <1>4. UNCHANGED <<facts, files, lock, up, failures, target, pc>>
    BY DEF RemoveEvidence, control
  <1>5. ASSUME NEW d \in DocIds, jobs[d] = 0, Active(d), Current(d) \in index
        PROVE  Current(d) \in index'
    <2>1. d # target[r]
      <3>1. docs[d] \in Seq(Versions) /\ docs[d] # <<>>
        BY <1>5 DEF Active, Exists, IInv, TypeOK
      <3>2. Len(docs[d]) # 0
        BY <3>1
      <3>3. QED
        BY <1>2, <1>5, <3>2
    <2>2. Current(d) # e
      BY <1>3, <2>1 DEF Current
    <2>3. QED
      BY <1>3, <1>5, <2>2
  <1>6. Due(docs, jobs, files', index')
    BY <1>4, <1>5, DueShrinks
  <1>7. /\ files' \in [Paths -> (DocIds \X (1..MaxVersions)) \cup {NoFile}]
        /\ index' \subseteq DocIds \X (1..MaxVersions) /\ pc' = [pc EXCEPT ![r] = "unindex"]
    BY <1>1, <1>3, <1>4, Inside DEF IInv, TypeOK
  <1>8. (Filed(target[r]))'
    <2>1. Filed(target[r])
      BY <1>1, <1>2 DEF Working
    <2>2. QED
      BY <1>4, <2>1 DEF Filed, facts, PathsOf, Owners, Projects, Active, Exists, Latest, Current
  <1>9. Working(r)'
    BY <1>1, <1>2, <1>4, <1>8 DEF Working, facts
  <1>10. QED
    BY <1>1, <1>2, <1>4, <1>6, <1>7, <1>9, InsideKeeps

\* The evidence of the current version is added.
LEMMA AddEvidenceKeeps ==
  ASSUME IInv, NEW r \in Runtimes, AddEvidence(r)
  PROVE  IInv'
  <1> DEFINE d == target[r]
  <1>1. pc[r] = "unindex" /\ pc[r] \in InTransaction /\ "commit" \in InTransaction
    BY DEF AddEvidence, Steps, InTransaction
  <1>2. /\ lock = r /\ Working(r) /\ d \in DocIds /\ Filed(d)
        /\ pc' = [pc EXCEPT ![r] = "commit"] /\ UNCHANGED target
    BY <1>1, Inside DEF Working, AddEvidence
  <1>3. index' = index \cup (IF Active(d) THEN {Current(d)} ELSE {})
    BY DEF AddEvidence
  <1>4. UNCHANGED <<facts, files, lock, up, failures>>
    BY DEF AddEvidence
  <1>5. /\ files \in [Paths -> (DocIds \X (1..MaxVersions)) \cup {NoFile}]
        /\ index \subseteq DocIds \X (1..MaxVersions) /\ pc \in [Runtimes -> Steps]
    BY DEF IInv, TypeOK
  <1>6. Due(docs, jobs, files', index')
    BY <1>3, <1>4, DueShrinks
  <1>7. /\ files' \in [Paths -> (DocIds \X (1..MaxVersions)) \cup {NoFile}]
        /\ index' \subseteq DocIds \X (1..MaxVersions)
    BY <1>2, <1>3, <1>4, <1>5, CurrentTypes
  <1>8. (Filed(d))'
    BY <1>2, <1>4 DEF Filed, facts, PathsOf, Owners, Projects, Active, Exists, Latest, Current
  <1>9. (Active(d) => Current(d) \in index)'
    BY <1>2, <1>3, <1>4 DEF facts, Active, Exists, Latest, Current
  <1>10. Working(r)'
    BY <1>1, <1>2, <1>4, <1>5, <1>8, <1>9 DEF Working, facts
  <1>11. QED
    BY <1>1, <1>2, <1>4, <1>6, <1>7, <1>10, InsideKeeps

\* A rebuild removes or writes one file.
LEMMA RebuildFileKeeps ==
  ASSUME IInv, NEW r \in Runtimes, RebuildFile(r)
  PROVE  IInv'
  <1>1. pc[r] = "allFiles" /\ pc[r] \in InTransaction
    BY DEF RebuildFile, Steps, InTransaction
  <1>2. lock = r
    BY <1>1, Inside
  <1>3. UNCHANGED <<facts, index, lock, up, failures, target, pc>>
    BY DEF RebuildFile, control
  <1>4. /\ files \in [Paths -> (DocIds \X (1..MaxVersions)) \cup {NoFile}]
        /\ index \subseteq DocIds \X (1..MaxVersions)
    BY DEF IInv, TypeOK
  <1>5. PICK p \in Paths, x \in (DocIds \X (1..MaxVersions)) \cup {NoFile} :
           /\ files' = [files EXCEPT ![p] = x]
           /\ \/ Owners(p) = {} /\ x = NoFile
              \/ \E d \in DocIds : Projects(d) /\ Latest(d).path = p /\ x = Current(d)
    <2>1. CASE \E p \in AllStale : files' = [files EXCEPT ![p] = NoFile]
      <3>1. PICK d \in DocIds : \E p \in Stale(d) : files' = [files EXCEPT ![p] = NoFile]
        BY <2>1 DEF AllStale
      <3>2. \A p \in Stale(d) : p \in Paths /\ Owners(p) = {}
        BY <3>1, CurrentTypes DEF Stale
      <3>3. QED
        BY <3>1, <3>2
    <2>2. CASE \E d \in Unwritten : files' = [files EXCEPT ![Latest(d).path] = Current(d)]
      <3>1. PICK d \in DocIds : /\ Projects(d)
                                /\ files' = [files EXCEPT ![Latest(d).path] = Current(d)]
        BY <2>2 DEF Unwritten
      <3>2. Latest(d).path \in Paths /\ Current(d) \in DocIds \X (1..MaxVersions)
        BY <3>1, CurrentTypes
      <3>3. QED
        BY <3>1, <3>2
    <2>3. QED
      BY <2>1, <2>2 DEF RebuildFile
  <1>6. Due(docs, jobs, files', index')
    <2>1. \A q \in Paths : files'[q] = IF q = p THEN x ELSE files[q]
      BY <1>4, <1>5
    <2>2. QED
      BY <1>3, <1>5, <2>1, DueShrinks
  <1>7. /\ files' \in [Paths -> (DocIds \X (1..MaxVersions)) \cup {NoFile}]
        /\ index' \subseteq DocIds \X (1..MaxVersions) /\ pc' = [pc EXCEPT ![r] = "allFiles"]
    BY <1>1, <1>3, <1>4, <1>5, Inside
  <1>8. Working(r)'
    BY <1>1, <1>3 DEF Working
  <1>9. QED
    BY <1>1, <1>2, <1>3, <1>6, <1>7, <1>8, InsideKeeps

\* A rebuild replaces the index when every file is right.
LEMMA RebuildIndexKeeps ==
  ASSUME IInv, NEW r \in Runtimes, RebuildIndex(r)
  PROVE  IInv'
  <1>1. pc[r] = "allFiles" /\ pc[r] \in InTransaction /\ "allCommit" \in InTransaction
    BY DEF RebuildIndex, Steps, InTransaction
  <1>2. /\ lock = r
        /\ pc' = [pc EXCEPT ![r] = "allCommit"] /\ UNCHANGED target
    BY <1>1, Inside DEF RebuildIndex
  <1>3. /\ Unwritten = {} /\ \A p \in AllStale : files[p] = NoFile
        /\ index' = {Current(d) : d \in {x \in DocIds : Active(x)}}
        /\ UNCHANGED <<facts, files, lock, up, failures>>
    BY DEF RebuildIndex
  <1>4. /\ files \in [Paths -> (DocIds \X (1..MaxVersions)) \cup {NoFile}]
        /\ pc \in [Runtimes -> Steps]
    BY DEF IInv, TypeOK
  <1>5. \A d \in DocIds : Active(d) => Current(d) \in index'
    BY <1>3
  <1>6. Due(docs, jobs, files', index')
    BY <1>3, <1>5, DueShrinks
  <1>7. index' \subseteq DocIds \X (1..MaxVersions)
    BY <1>3, CurrentTypes
  <1>8. ASSUME NEW d \in DocIds
        PROVE  Filed(d)' /\ (Active(d) => Current(d) \in index)'
    <2>1. \A p \in PathsOf(d) : Owners(p) = {} => files'[p] = NoFile
      BY <1>3 DEF AllStale, Stale
    <2>2. Projects(d) => files'[Latest(d).path] = Current(d)
      BY <1>3 DEF Unwritten
    <2>3. Filed(d)'
      BY <1>3, <2>1, <2>2, FiledNext DEF facts
    <2>4. (Active(d) => Current(d) \in index)'
      BY <1>3, <1>5 DEF facts, Active, Exists, Latest, Current
    <2>5. QED
      BY <2>3, <2>4
  <1>9. Working(r)'
    BY <1>2, <1>4, <1>8 DEF Working
  <1>10. QED
    BY <1>1, <1>2, <1>3, <1>4, <1>6, <1>7, <1>9, InsideKeeps

\* Where nothing has changed a runtime is as far as before.
LEMMA WorkStays ==
  ASSUME NEW q \in Runtimes, Working(q), UNCHANGED <<facts, derived>>,
         pc'[q] = pc[q], target'[q] = target[q]
  PROVE  Working(q)'
  <1>1. \A d \in DocIds : /\ Filed(d)' <=> Filed(d)
                          /\ (Active(d) => Current(d) \in index)' <=>
                               (Active(d) => Current(d) \in index)
                          /\ Active(d)' <=> Active(d)
    BY DEF facts, derived, Filed, PathsOf, Owners, Projects, Active, Exists, Latest, Current
  <1>2. QED
    BY <1>1 DEF Working, facts, derived

\* A step that touches neither facts nor files nor index
LEMMA QuietKeeps ==
  ASSUME IInv, NEW r \in Runtimes, UNCHANGED <<facts, derived>>,
         NEW step \in Steps, NEW d \in 0..MaxDocs, At(r, step, d),
         lock' \in Runtimes \cup {NoOne},
         \A q \in Runtimes : lock' = q <=> pc'[q] \in InTransaction,
         up' \in [Runtimes -> BOOLEAN], failures' \in 0..MaxFailures,
         Working(r)'
  PROVE  IInv'
  <1>1. /\ pc' \in [Runtimes -> Steps] /\ target' \in [Runtimes -> 0..MaxDocs]
        /\ \A q \in Runtimes \ {r} : pc'[q] = pc[q] /\ target'[q] = target[q]
    BY DEF At, IInv, TypeOK
  <1>2. TypeOK'
    BY <1>1 DEF IInv, TypeOK, facts, derived
  <1>3. \A q \in Runtimes \ {r} : Working(q)'
    BY <1>1, WorkStays DEF IInv
  <1>4. QED
    BY <1>2, <1>3 DEF IInv, facts, derived

\* The construction of a runtime begins.
LEMMA StartKeeps ==
  ASSUME IInv, NEW r \in Runtimes, Start(r)
  PROVE  IInv'
  <1>1. /\ At(r, "rebuild", target[r]) /\ pc[r] = "idle"
        /\ UNCHANGED <<facts, derived, lock, up, failures>>
    BY DEF Start, Goes
  <1>2. /\ target[r] \in 0..MaxDocs /\ pc \in [Runtimes -> Steps]
        /\ lock \in Runtimes \cup {NoOne} /\ up \in [Runtimes -> BOOLEAN]
        /\ failures \in 0..MaxFailures
        /\ \A q \in Runtimes : lock = q <=> pc[q] \in InTransaction
    BY DEF IInv, TypeOK
  <1>3. pc'[r] = "rebuild" /\ \A q \in Runtimes \ {r} : pc'[q] = pc[q]
    BY <1>1, <1>2 DEF At
  <1>4. \A q \in Runtimes : lock' = q <=> pc'[q] \in InTransaction
    BY <1>1, <1>2, <1>3 DEF InTransaction, Steps
  <1>5. Working(r)' /\ "rebuild" \in Steps
    BY <1>3 DEF Working, Steps
  <1>6. QED
    BY <1>1, <1>2, <1>4, <1>5, QuietKeeps

\* A failure or a crash gives the lock back and leaves everything else.
LEMMA InterruptedKeeps ==
  ASSUME IInv, NEW r \in Runtimes, Interrupted(r), up' \in [Runtimes -> BOOLEAN]
  PROVE  IInv'
  <1>1. /\ At(r, "idle", 0) /\ lock' = IF lock = r THEN NoOne ELSE lock
        /\ UNCHANGED <<facts, derived>> /\ failures' \in 0..MaxFailures
    BY BoundsAssumption DEF Interrupted, Returns, IInv, TypeOK
  <1>2. /\ 0 \in 0..MaxDocs /\ pc \in [Runtimes -> Steps] /\ lock \in Runtimes \cup {NoOne}
        /\ \A q \in Runtimes : lock = q <=> pc[q] \in InTransaction
    BY BoundsAssumption DEF IInv, TypeOK
  <1>3. pc'[r] = "idle" /\ \A q \in Runtimes \ {r} : pc'[q] = pc[q]
    BY <1>1, <1>2 DEF At
  <1>4. \A q \in Runtimes : lock' = q <=> pc'[q] \in InTransaction
    BY <1>1, <1>2, <1>3, CommandsAssumption DEF InTransaction, Steps
  <1>5. Working(r)' /\ "idle" \in Steps
    BY <1>3 DEF Working, Steps
  <1>6. QED
    BY <1>1, <1>2, <1>4, <1>5, QuietKeeps

\* The drain finds its job done by another, or takes the lock.
LEMMA DrainKeeps ==
  ASSUME IInv, NEW r \in Runtimes, Drain(r)
  PROVE  IInv'
  <1>1. pc[r] = "drain" /\ lock = NoOne /\ UNCHANGED <<facts, derived, up, failures>>
    BY DEF Drain
  <1>2. /\ pc \in [Runtimes -> Steps] /\ target \in [Runtimes -> 0..MaxDocs]
        /\ 0 \in 0..MaxDocs /\ up \in [Runtimes -> BOOLEAN] /\ failures \in 0..MaxFailures
        /\ \A q \in Runtimes : lock = q <=> pc[q] \in InTransaction
    BY BoundsAssumption DEF IInv, TypeOK
  <1>3. target[r] \in DocIds
    BY <1>1 DEF IInv, Working
  <1>4. CASE Returns(r) /\ UNCHANGED lock
    <2>1. pc'[r] = "idle" /\ \A q \in Runtimes \ {r} : pc'[q] = pc[q]
      BY <1>2, <1>4 DEF Returns, At
    <2>2. \A q \in Runtimes : lock' = q <=> pc'[q] \in InTransaction
      BY <1>1, <1>2, <1>4, <2>1 DEF InTransaction, Steps
    <2>3. Working(r)' /\ "idle" \in Steps /\ lock' \in Runtimes \cup {NoOne}
      BY <1>1, <1>4, <2>1 DEF Working, Steps
    <2>4. QED
      BY <1>1, <1>2, <1>4, <2>2, <2>3, QuietKeeps DEF Returns
  <1>5. CASE /\ jobs[target[r]] = Len(docs[target[r]])
             /\ lock' = r /\ Goes(r, "files")
    <2>1. /\ pc'[r] = "files" /\ target'[r] = target[r]
          /\ \A q \in Runtimes \ {r} : pc'[q] = pc[q]
      BY <1>2, <1>5 DEF Goes, At
    <2>2. \A q \in Runtimes : lock' = q <=> pc'[q] \in InTransaction
      BY <1>1, <1>2, <1>5, <2>1, CommandsAssumption DEF InTransaction, Steps
    <2>3. Working(r)' /\ "files" \in Steps
      BY <1>1, <1>2, <1>3, <1>5, <2>1 DEF Working, Steps, facts
    <2>4. QED
      BY <1>1, <1>2, <1>5, <2>2, <2>3, QuietKeeps DEF Goes
  <1>6. QED
    BY <1>4, <1>5 DEF Drain

\* A rebuild takes the lock.
LEMMA RebuildKeeps ==
  ASSUME IInv, NEW r \in Runtimes, Rebuild(r)
  PROVE  IInv'
  <1>1. /\ pc[r] = "rebuild" /\ lock = NoOne /\ lock' = r /\ At(r, "allFiles", target[r])
        /\ UNCHANGED <<facts, derived, up, failures>>
    BY DEF Rebuild, Goes
  <1>2. /\ pc \in [Runtimes -> Steps] /\ target[r] \in 0..MaxDocs
        /\ up \in [Runtimes -> BOOLEAN] /\ failures \in 0..MaxFailures
        /\ \A q \in Runtimes : lock = q <=> pc[q] \in InTransaction
    BY DEF IInv, TypeOK
  <1>3. pc'[r] = "allFiles" /\ \A q \in Runtimes \ {r} : pc'[q] = pc[q]
    BY <1>1, <1>2 DEF At
  <1>4. \A q \in Runtimes : lock' = q <=> pc'[q] \in InTransaction
    BY <1>1, <1>2, <1>3, CommandsAssumption DEF InTransaction, Steps
  <1>5. Working(r)' /\ "allFiles" \in Steps
    BY <1>3 DEF Working, Steps
  <1>6. QED
    BY <1>1, <1>2, <1>4, <1>5, QuietKeeps

\* A step that changes facts, or ends a transaction
LEMMA CommitKeeps ==
  ASSUME IInv, NEW r \in Runtimes, lock \in {r, NoOne},
         NEW step \in Steps, NEW d \in 0..MaxDocs, At(r, step, d),
         lock' = IF step \in InTransaction THEN r ELSE NoOne,
         Recorded(docs', keys', jobs', ids'), Due(docs', jobs', files', index'), UNCHANGED files,
         index' \subseteq DocIds \X (1..MaxVersions),
         up' \in [Runtimes -> BOOLEAN], UNCHANGED failures,
         Working(r)'
  PROVE  IInv'
  <1>1. /\ pc' \in [Runtimes -> Steps] /\ target' \in [Runtimes -> 0..MaxDocs] /\ pc'[r] = step
        /\ \A q \in Runtimes \ {r} : pc'[q] = pc[q] /\ target'[q] = target[q]
    BY DEF At, IInv, TypeOK
  <1>2. \A q \in Runtimes : lock' = q <=> pc'[q] \in InTransaction
    BY <1>1, CommandsAssumption DEF IInv, TypeOK
  <1>3. TypeOK'
    BY <1>1, <1>2 DEF IInv, TypeOK, Recorded, Tables
  <1>4. \A q \in Runtimes \ {r} : Working(q)'
    BY <1>1, Others
  <1>5. QED
    BY <1>3, <1>4 DEF IInv

\* The job goes: what was due for it is done.
LEMMA DrainCommitKeeps ==
  ASSUME IInv, NEW r \in Runtimes, DrainCommit(r)
  PROVE  IInv'
  <1> DEFINE d == target[r]
  <1>1. pc[r] = "commit" /\ pc[r] \in InTransaction
    BY DEF DrainCommit, Steps, InTransaction
  <1>2. lock = r /\ Working(r)
    BY <1>1, Inside
  <1>3. d \in DocIds /\ Filed(d) /\ (Active(d) => Current(d) \in index)
    BY <1>1, <1>2 DEF Working
  <1>4. /\ jobs' = [jobs EXCEPT ![d] = 0] /\ lock' = NoOne /\ At(r, "idle", 0)
        /\ UNCHANGED <<docs, keys, ids, derived, up, failures>>
    BY DEF DrainCommit, Returns
  <1>5. /\ Recorded(docs, keys, jobs, ids) /\ Due(docs, jobs, files, index)
        /\ jobs \in [DocIds -> 0..MaxVersions] /\ pc \in [Runtimes -> Steps]
        /\ index \subseteq DocIds \X (1..MaxVersions) /\ up \in [Runtimes -> BOOLEAN]
    BY DEF IInv, TypeOK
  <1> HIDE DEF d
  <1>6. /\ jobs' \in [DocIds -> 0..MaxVersions]
        /\ \A e \in DocIds : jobs'[e] = IF e = d THEN 0 ELSE jobs[e]
    <2>1. 0 \in 0..MaxVersions
      BY BoundsAssumption
    <2>2. QED
      BY <1>4, <1>5, <2>1
  <1>7. Recorded(docs, keys, jobs', ids)
    BY <1>5, <1>6 DEF Recorded, Tables
  <1>8. Due(docs, jobs', files, index)
    <2>1. ASSUME NEW p \in Paths, ~Owned(docs, p), files[p] # NoFile
          PROVE  \E e \in DocIds : jobs'[e] # 0 /\ p \in PathsIn(docs, e)
      <3>1. PICK e \in DocIds : jobs[e] # 0 /\ p \in PathsIn(docs, e)
        BY <1>5, <2>1 DEF Due
      <3>2. e # d
        BY <1>3, <2>1, <3>1, OfDocs, OfPath DEF Filed
      <3>3. QED
        BY <1>6, <3>1, <3>2
    <2>2. ASSUME NEW e \in DocIds, jobs'[e] = 0
          PROVE  /\ ProjectsIn(docs, e) => files[Last(docs[e]).path] = <<e, Len(docs[e])>>
                 /\ ActiveIn(docs, e) => <<e, Len(docs[e])>> \in index
      <3>1. CASE e = d
        BY <1>3, <3>1, OfDocs DEF Filed
      <3>2. CASE e # d
        BY <1>5, <1>6, <2>2, <3>2 DEF Due
      <3>3. QED
        BY <3>1, <3>2
    <2>3. QED
      BY <2>1, <2>2 DEF Due
  <1>9. Working(r)'
    <2>1. pc'[r] = "idle"
      BY <1>4, <1>5 DEF At
    <2>2. QED
      BY <2>1 DEF Working
  <1>10. "idle" \in Steps /\ "idle" \notin InTransaction /\ 0 \in 0..MaxDocs
    BY BoundsAssumption DEF Steps, InTransaction
  <1>11. QED
    BY <1>2, <1>4, <1>5, <1>7, <1>8, <1>9, <1>10, CommitKeeps DEF derived

\* All jobs go: nothing is due any more.
LEMMA RebuildCommitKeeps ==
  ASSUME IInv, NEW r \in Runtimes, RebuildCommit(r)
  PROVE  IInv'
  <1>1. pc[r] = "allCommit" /\ pc[r] \in InTransaction
    BY DEF RebuildCommit, Steps, InTransaction
  <1>2. lock = r /\ Working(r)
    BY <1>1, Inside
  <1>3. \A d \in DocIds : Filed(d) /\ (Active(d) => Current(d) \in index)
    BY <1>1, <1>2 DEF Working
  <1>4. /\ jobs' = [d \in DocIds |-> 0] /\ lock' = NoOne /\ At(r, "idle", 0)
        /\ up' = [up EXCEPT ![r] = TRUE]
        /\ UNCHANGED <<docs, keys, ids, derived, failures>>
    BY DEF RebuildCommit, Returns
  <1>5. /\ Recorded(docs, keys, jobs, ids) /\ Due(docs, jobs, files, index)
        /\ pc \in [Runtimes -> Steps]
        /\ index \subseteq DocIds \X (1..MaxVersions) /\ up \in [Runtimes -> BOOLEAN]
    BY DEF IInv, TypeOK
  <1>6. Recorded(docs, keys, jobs', ids)
    BY <1>4, <1>5, BoundsAssumption DEF Recorded, Tables
  <1>7. Due(docs, jobs', files, index)
    <2>1. ASSUME NEW p \in Paths, ~Owned(docs, p)
          PROVE  files[p] = NoFile
      <3>1. SUFFICES ASSUME files[p] # NoFile PROVE FALSE
        OBVIOUS
      <3>2. PICK e \in DocIds : p \in PathsIn(docs, e)
        BY <1>5, <2>1, <3>1 DEF Due
      <3>3. QED
        BY <1>3, <2>1, <3>1, <3>2, OfDocs, OfPath DEF Filed
    <2>2. \A e \in DocIds :
             /\ ProjectsIn(docs, e) => files[Last(docs[e]).path] = <<e, Len(docs[e])>>
             /\ ActiveIn(docs, e) => <<e, Len(docs[e])>> \in index
      BY <1>3, OfDocs DEF Filed
    <2>3. QED
      BY <2>1, <2>2 DEF Due
  <1>8. Working(r)'
    <2>1. pc'[r] = "idle"
      BY <1>4, <1>5 DEF At
    <2>2. QED
      BY <2>1 DEF Working
  <1>9. /\ "idle" \in Steps /\ "idle" \notin InTransaction /\ 0 \in 0..MaxDocs
        /\ up' \in [Runtimes -> BOOLEAN]
    BY <1>4, <1>5, BoundsAssumption DEF Steps, InTransaction
  <1>10. QED
    BY <1>2, <1>4, <1>5, <1>6, <1>7, <1>8, <1>9, CommitKeeps DEF derived

\* The index is replaced before the facts are committed: nothing was active.
LEMMA FreshIndexKeeps ==
  ASSUME IInv, NEW r \in Runtimes, NEW c \in Fresh, FreshIndex(r, c)
  PROVE  IInv'
  <1> DEFINE d == ids + 1
  <1>1. /\ lock = NoOne /\ lock' = r /\ At(r, "fresh", d)
        /\ ids < MaxDocs /\ ids' = d /\ index' = {<<d, 1>>}
        /\ \A e \in DocIds : ~Active(e)
        /\ UNCHANGED <<docs, keys, jobs, files, up, failures>>
    BY DEF FreshIndex, Ready
  <1>2. /\ Recorded(docs, keys, jobs, ids) /\ Due(docs, jobs, files, index)
        /\ pc \in [Runtimes -> Steps] /\ target \in [Runtimes -> 0..MaxDocs]
        /\ up \in [Runtimes -> BOOLEAN] /\ ids \in 0..MaxDocs
    BY DEF IInv, TypeOK
  <1>3. d \in DocIds /\ d \in 0..MaxDocs /\ 1 \in 1..MaxVersions
    BY <1>1, <1>2, BoundsAssumption DEF DocIds
  <1>4. \A e \in DocIds : docs[e] # <<>> => e <= ids
    BY <1>2 DEF Recorded
  <1>5. docs[d] = <<>>
    BY <1>2, <1>3, <1>4
  <1>6. Recorded(docs, keys, jobs, d)
    <2>1. \A e \in DocIds : docs[e] # <<>> => e <= d
      BY <1>2, <1>4 DEF DocIds
    <2>2. QED
      BY <1>2, <1>3, <2>1 DEF Recorded, Tables
  <1> HIDE DEF d
  <1>7. Due(docs, jobs, files, index')
    BY <1>1, DueShrinks DEF Projects
  <1>8. Working(r)'
    <2>1. pc'[r] = "fresh" /\ target'[r] = d
      BY <1>1, <1>2 DEF At
    <2>2. \A e \in DocIds : ~Active(e)'
      BY <1>1 DEF Active, Exists, Latest
    <2>3. d <= ids'
      BY <1>1, <1>3
    <2>4. QED
      BY <1>1, <1>3, <1>5, <2>1, <2>2, <2>3 DEF Working
  <1>9. /\ "fresh" \in Steps /\ "fresh" \in InTransaction
        /\ index' \subseteq DocIds \X (1..MaxVersions)
    BY <1>1, <1>3 DEF Steps, InTransaction
  <1>10. QED
    BY <1>1, <1>2, <1>3, <1>6, <1>7, <1>8, <1>9, CommitKeeps

\* The new document needs no job: it has no file, and its evidence is there.
LEMMA FreshCommitKeeps ==
  ASSUME IInv, NEW r \in Runtimes, NEW c \in Fresh, FreshCommit(r, c)
  PROVE  IInv'
  <1> DEFINE d == target[r]
             new == [path |-> NoPath, shared |-> c.shared, status |-> "active",
                     key |-> WriteKey(c)]
  <1>1. pc[r] = "fresh" /\ pc[r] \in InTransaction
    BY DEF FreshCommit, Steps, InTransaction
  <1>2. lock = r /\ Working(r)
    BY <1>1, Inside
  <1>3. /\ d \in DocIds /\ docs[d] = <<>> /\ d <= ids /\ <<d, 1>> \in index
        /\ \A e \in DocIds : ~Active(e)
    BY <1>1, <1>2 DEF Working
  <1>4. /\ docs' = [docs EXCEPT ![d] = NewVersion(<<>>, NoPath, c.shared, "active", WriteKey(c))]
        /\ WriteKey(c) \notin keys /\ keys' = keys \cup {WriteKey(c)}
        /\ lock' = NoOne /\ At(r, "idle", 0)
        /\ UNCHANGED <<jobs, ids, derived, up, failures>>
    BY DEF FreshCommit, Returns
  <1>5. /\ Recorded(docs, keys, jobs, ids) /\ Due(docs, jobs, files, index)
        /\ docs \in [DocIds -> Seq(Versions)] /\ jobs \in [DocIds -> 0..MaxVersions]
        /\ ids \in 0..MaxDocs /\ pc \in [Runtimes -> Steps]
        /\ index \subseteq DocIds \X (1..MaxVersions) /\ up \in [Runtimes -> BOOLEAN]
    BY DEF IInv, TypeOK
  <1>6. /\ new.key = WriteKey(c) /\ new.path = NoPath
    OBVIOUS
  <1> HIDE DEF d
  <1>7. Grown(docs, docs', d, new)
    <2>1. docs' = [docs EXCEPT ![d] = NewVersion(@, NoPath, c.shared, "active", WriteKey(c))]
      BY <1>3, <1>4
    <2>2. QED
      BY <1>3, <1>5, <2>1, CommandTypes, NewVersionGrows
  <1> HIDE DEF new
  <1>8. jobs[d] = 0 /\ Len(docs[d]) = 0
    BY <1>3, <1>5 DEF Recorded
  <1>9. Recorded(docs', keys \cup {new.key}, jobs, ids)
    <2>1. PICK es : es = docs'
      OBVIOUS
    <2>2. /\ Grown(docs, es, d, new) /\ new.key \notin keys /\ jobs \in [DocIds -> Nat]
          /\ jobs[d] \in {0, Len(docs[d]) + 1} /\ Len(docs[d]) < MaxVersions /\ ids <= ids
          /\ \A e \in DocIds \ {d} : jobs[e] = jobs[e]
      BY <1>4, <1>5, <1>6, <1>7, <1>8, <2>1, BoundsAssumption
    <2>3. Recorded(es, keys \cup {new.key}, jobs, ids)
      BY <1>3, <1>5, <1>6, <2>2, RecordedGrows
    <2>4. QED
      BY <2>1, <2>3
  <1>10. Due(docs', jobs, files, index)
    <2>1. /\ ActiveIn(docs', d) => <<d, Len(docs'[d])>> \in index
          /\ ~ProjectsIn(docs', d)
      <3>1. Len(docs'[d]) = 1
        BY <1>7, <1>8 DEF Grown
      <3>2. PICK es : es = docs'
        OBVIOUS
      <3>3. Grown(docs, es, d, new)
        BY <1>7, <3>2
      <3>4. ~ProjectsIn(es, d)
        BY <1>3, <1>5, <1>6, <3>3, GrownLast
      <3>5. QED
        BY <1>3, <3>1, <3>2, <3>4
    <2>2. ASSUME NEW e \in DocIds \ {d}
          PROVE  /\ ~ActiveIn(docs', e) /\ ~ProjectsIn(docs', e)
                 /\ PathsIn(docs', e) = PathsIn(docs, e)
      <3>1. ~ActiveIn(docs, e)
        BY <1>3, OfDocs
      <3>2. docs'[e] = docs[e]
        BY <1>4, <1>5
      <3>3. QED
        BY <3>1, <3>2 DEF ActiveIn, ProjectsIn, PathsIn
    <2>3. \A p : ~Owned(docs, p)
      BY <1>3, OfDocs DEF Owned, ProjectsIn
    <2>4. \A e \in DocIds : PathsIn(docs, e) \subseteq PathsIn(docs', e)
      BY <1>3, <1>5, <1>7, <2>2, GrownLast
    <2>5. QED
      BY <1>5, <2>1, <2>2, <2>3, <2>4 DEF Due
  <1>11. Working(r)'
    <2>1. pc'[r] = "idle"
      BY <1>4, <1>5 DEF At
    <2>2. QED
      BY <2>1 DEF Working
  <1>12. "idle" \in Steps /\ "idle" \notin InTransaction /\ 0 \in 0..MaxDocs
    BY BoundsAssumption DEF Steps, InTransaction
  <1>13. QED
    BY <1>2, <1>4, <1>5, <1>6, <1>9, <1>10, <1>11, <1>12, CommitKeeps DEF derived

----------------------------------------------------------------------------
\* An empty knowledge base is in order.
LEMMA InitSound == Init => IInv
  <1> SUFFICES ASSUME Init PROVE IInv
    OBVIOUS
  <1>1. /\ 0 \in 0..MaxDocs /\ 0 \in 0..MaxVersions /\ 0 \in 0..MaxFailures
        /\ Len(<<>>) = 0
    BY BoundsAssumption
  <1>2. \A d \in DocIds : docs[d] = <<>> /\ jobs[d] = 0
    BY DEF Init
  <1>3. \A r \in Runtimes : pc[r] = "idle"
    BY DEF Init
  <1>4. TypeOK
    <2>1. docs \in [DocIds -> Seq(Versions)] /\ \A d \in DocIds : Len(docs[d]) <= MaxVersions
      BY <1>1, BoundsAssumption DEF Init
    <2>2. \A r \in Runtimes : lock = r <=> pc[r] \in InTransaction
      BY <1>3, CommandsAssumption DEF Init, InTransaction
    <2>3. QED
      BY <1>1, <2>1, <2>2 DEF Init, TypeOK, Steps
  <1>5. Recorded(docs, keys, jobs, ids)
    <2>1. \A d \in DocIds : ~ProjectsIn(docs, d) /\ DOMAIN docs[d] = {}
      BY <1>2 DEF ProjectsIn, ActiveIn
    <2>2. OneUse(docs, keys) /\ OneOwner(docs)
      BY <2>1 DEF OneUse, OneOwner, Init
    <2>3. QED
      BY <1>1, <1>2, <1>4, <2>2 DEF Recorded, Tables, TypeOK
  <1>6. Due(docs, jobs, files, index)
    <2>1. \A d \in DocIds : ~ProjectsIn(docs, d) /\ ~ActiveIn(docs, d)
      BY <1>2 DEF ProjectsIn, ActiveIn
    <2>2. QED
      BY <2>1 DEF Due, Init
  <1>7. QED
    BY <1>3, <1>4, <1>5, <1>6 DEF IInv, Working

\* Every step leaves the invariant.
LEMMA NextSound == IInv /\ [Next]_vars => IInv'
  <1> SUFFICES ASSUME IInv, [Next]_vars PROVE IInv'
    OBVIOUS
  <1>1. CASE UNCHANGED vars
    <2>1. UNCHANGED <<docs, keys, jobs, ids, files, index, lock, up, pc, target, failures>>
      BY <1>1 DEF vars, facts, derived, control
    <2>2. TypeOK'
      BY <2>1 DEF IInv, TypeOK
    <2>3. (\A r \in Runtimes : Working(r))'
      BY <2>1, WorkStays DEF IInv, facts, derived
    <2>4. QED
      BY <2>1, <2>2, <2>3 DEF IInv
  <1>2. ASSUME NEW r \in Runtimes, Step(r) PROVE IInv'
    BY <1>2, StartKeeps, DrainKeeps, RemoveFileKeeps, WriteFileKeeps, RemoveEvidenceKeeps,
       AddEvidenceKeeps, DrainCommitKeeps, RebuildKeeps, RebuildFileKeeps, RebuildIndexKeeps,
       RebuildCommitKeeps, FreshCommitKeeps DEF Step
  <1>3. ASSUME NEW r \in Runtimes, Request(r) PROVE IInv'
    BY <1>3, RevokeKeeps, RollbackKeeps, WriteKeeps, WriteBatchKeeps, FreshIndexKeeps DEF Request
  <1>4. ASSUME NEW r \in Runtimes, Fail(r) \/ Crash(r) PROVE IInv'
    <2>1. Interrupted(r) /\ up' \in [Runtimes -> BOOLEAN]
      BY <1>4 DEF Fail, Crash, IInv, TypeOK
    <2>2. QED
      BY <2>1, InterruptedKeeps
  <1>5. QED
    BY <1>1, <1>2, <1>3, <1>4 DEF Next

\* The invariant holds in every reachable state.
LEMMA Safety == Spec => []IInv
  BY InitSound, NextSound, PTL DEF Spec

\* EffectOnce, for every value of the constants: a request that is repeated,
\* by whichever runtime, after whatever failure, in a batch or alone, makes no
\* second version (GovernedKnowledgeRuntime._write_in_transaction, revoke and
\* rollback over find_idempotent_result and save_idempotent_result).
THEOREM RequestsTakeEffectOnce == Spec => []EffectOnce
  <1>1. IInv => EffectOnce
    BY DEF IInv, Recorded, OneUse, EffectOnce
  <1>2. QED
    BY <1>1, Safety, PTL

\* DerivativesFollowFacts, for every value of the constants: when no job is
\* left and nobody writes, files and index are what the facts say, whatever
\* has failed or crashed between a fact and its derivatives
\* (_drain_derivative_job and rebuild_derivatives over the derivative jobs).
THEOREM DerivativesAlwaysFollow == Spec => []DerivativesFollowFacts
  <1>1. ASSUME IInv PROVE DerivativesFollowFacts
    <2>1. TypeOK /\ Recorded(docs, keys, jobs, ids) /\ Due(docs, jobs, files, index)
      BY <1>1 DEF IInv
    <2>2. \A d \in DocIds : jobs[d] \in {0, Len(docs[d])}
      BY <2>1 DEF Recorded
    <2>3. ASSUME Settled, NEW p \in Paths
          PROVE  files[p] = IF Owners(p) = {} THEN NoFile
                            ELSE Current(CHOOSE d \in Owners(p) : TRUE)
      <3>1. CASE Owners(p) = {}
        BY <2>1, <2>3, <3>1, OfPath DEF Settled, Due
      <3>2. CASE Owners(p) # {}
        <4>1. PICK d : d \in Owners(p) /\ d = CHOOSE e \in Owners(p) : TRUE
          BY <3>2
        <4>2. d \in DocIds /\ ProjectsIn(docs, d) /\ Last(docs[d]).path = p /\ jobs[d] = 0
          BY <2>3, <4>1, OfDocs DEF Owners, Settled
        <4>3. files[p] = Current(d)
          BY <2>1, <4>2, OfDocs DEF Due
        <4>4. QED
          BY <3>2, <4>1, <4>3
      <3>3. QED
        BY <3>1, <3>2
    <2>4. ASSUME Settled, NEW d \in DocIds, Active(d)
          PROVE  Current(d) \in index
      BY <2>1, <2>4, OfDocs DEF Settled, Due
    <2>5. FilesFollowFacts
      BY <2>2, <2>3 DEF FilesFollowFacts
    <2>6. QED
      BY <2>1, <2>4, <2>5 DEF DerivativesFollowFacts
  <1>2. QED
    BY <1>1, Safety, PTL

=============================================================================
