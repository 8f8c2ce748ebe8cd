-------------------------- MODULE AgentTurnProofs --------------------------
(***************************************************************************)
(* The safety properties of the agent loop, for every number of turns,     *)
(* calls, retries and runs, every trimming limit and every inbox size.     *)
(*                                                                         *)
(* NothingToRepair, ResultsTellTheTruth and AcceptedSteeringIsShown are    *)
(* not inductive: what the next message has to answer depends on the stage *)
(* of the loop, and so does the turn up to which the history is told.  Inv *)
(* says what every stage keeps.  Its parts: the history is unbroken and    *)
(* owes exactly the calls of the last answer (Kept), the results that are  *)
(* being gathered are those of the calls up to the current one             *)
(* (Gathering), they are real exactly if the tool ran (Truthful), an       *)
(* accepted instruction waits, is about to be told or is told, in one      *)
(* place only (Noticed), a prompt is the last message while its answer is  *)
(* awaited, or nothing can be mistaken for it (Prompted), and a cancelled  *)
(* run hands over what begins with its query (Orderly).                    *)
(*                                                                         *)
(* The lemmas before it are about the sanitizer and the trimming, which    *)
(* fold over sequences of any length: FlattenSeq is unfolded into its      *)
(* partial results, and these are followed by induction over the numbers   *)
(* (SetInduction, from the well-foundedness of the finite sets).           *)
(***************************************************************************)
EXTENDS AgentTurn, SequenceTheorems, FiniteSetTheorems, WellFoundedInduction, TLAPS

----------------------------------------------------------------------------
(* Histories, and the calls in them.                                       *)

\* A result answers a call of the message before it.
Answerable(ms) ==
    \A i \in DOMAIN ms :
        DOMAIN ms[i].results # {} => i > 1 /\ DOMAIN ms[i].results \subseteq ms[i - 1].uses

\* Every call but those of the last message is answered by the next.
Unbroken(ms) ==
    Answerable(ms) /\ \A i \in 1..(Len(ms) - 1) : ms[i].uses \subseteq DOMAIN ms[i + 1].results

\* The calls of a message, made or answered
Ids(m) == m.uses \cup DOMAIN m.results

----------------------------------------------------------------------------
(* Messages.                                                               *)

Results == UNION {[D -> Hows] : D \in SUBSET CallIds}

\* Calls are the assistant's, results the user's.
Message ==
    {m \in [role : {"user", "assistant"}, texts : SUBSET (Tags \cup Steers),
            uses : SUBSET CallIds, results : Results] :
        /\ m.role = "user" => m.uses = {}
        /\ m.role = "assistant" => DOMAIN m.results = {}}

\* A message without results
LEMMA NoneType == None \in Results /\ DOMAIN None = {}
  <1>1. None \in [{} -> Hows]
    BY DEF None, Hows
  <1>2. {} \in SUBSET CallIds
    OBVIOUS
  <1>3. QED
    BY <1>1, <1>2 DEF Results

\* The same result for some calls
LEMMA AllType ==
    ASSUME NEW calls \in SUBSET CallIds, NEW how \in Hows
    PROVE  All(calls, how) \in Results /\ DOMAIN All(calls, how) = calls
  <1>1. All(calls, how) \in [calls -> Hows]
    BY DEF All
  <1>2. QED
    BY <1>1 DEF Results

\* What User(), Assistant() and WithResults() make.
LEMMA UserFields ==
    ASSUME NEW texts \in SUBSET (Tags \cup Steers)
    PROVE  LET m == User(texts)
           IN /\ m \in Message /\ m.role = "user" /\ m.texts = texts
              /\ m.uses = {} /\ m.results = None /\ DOMAIN m.results = {}
  BY NoneType DEF User, Message

\* The same for a message of the assistant
LEMMA AssistantFields ==
    ASSUME NEW texts \in SUBSET (Tags \cup Steers), NEW calls \in SUBSET CallIds
    PROVE  LET m == Assistant(texts, calls)
           IN /\ m \in Message /\ m.role = "assistant" /\ m.texts = texts
              /\ m.uses = calls /\ DOMAIN m.results = {}
  BY NoneType DEF Assistant, Message

\* A call that has a result keeps it.
LEMMA WithResultsFields ==
    ASSUME NEW m \in Message, m.role = "user", NEW more \in Results
    PROVE  LET n == WithResults(m, more)
           IN /\ n \in Message /\ n.role = "user" /\ n.texts = m.texts /\ n.uses = {}
              /\ DOMAIN n.results = DOMAIN m.results \cup DOMAIN more
              /\ \A c \in DOMAIN n.results :
                   n.results[c] = IF c \in DOMAIN m.results THEN m.results[c] ELSE more[c]
  <1> DEFINE D == DOMAIN m.results \cup DOMAIN more
             f == [c \in D |-> IF c \in DOMAIN m.results THEN m.results[c] ELSE more[c]]
  <1>1. m.results \in Results /\ m.uses = {}
    BY DEF Message
  <1>2. PICK D1 \in SUBSET CallIds : m.results \in [D1 -> Hows]
    BY <1>1 DEF Results
  <1>3. PICK D2 \in SUBSET CallIds : more \in [D2 -> Hows]
    BY DEF Results
  <1>4. f \in [D -> Hows] /\ D \in SUBSET CallIds
    BY <1>2, <1>3
  <1>5. f \in Results
    BY <1>4 DEF Results
  <1>6. WithResults(m, more) = [m EXCEPT !.results = f]
    BY DEF WithResults
  <1>7. DOMAIN f = D
    OBVIOUS
  <1> HIDE DEF f, D
  <1>8. QED
    BY <1>1, <1>5, <1>6, <1>7 DEF Message, f, D

\* A result that is there is not replaced.
LEMMA WithResultsSame ==
    ASSUME NEW m \in Message, NEW more, DOMAIN more \subseteq DOMAIN m.results
    PROVE  WithResults(m, more) = m
  <1>1. m.results \in Results
    BY DEF Message
  <1>2. PICK D \in SUBSET CallIds : m.results \in [D -> Hows]
    BY <1>1 DEF Results
  <1>3. DOMAIN m.results \cup DOMAIN more = DOMAIN m.results
    OBVIOUS
  <1>4. [c \in DOMAIN m.results \cup DOMAIN more |->
            IF c \in DOMAIN m.results THEN m.results[c] ELSE more[c]] = m.results
    BY <1>2, <1>3
  <1>5. QED
    BY <1>4 DEF WithResults, Message

\* Induction over the numbers, from that over their finite sets: a set with 0
\* and the successors of its members holds every number.
LEMMA SetInduction ==
  ASSUME NEW S, 0 \in S, \A n \in Nat : n \in S => n + 1 \in S
  PROVE  Nat \subseteq S
  <1> DEFINE T == {1..n : n \in Nat \ S}
             R == StrictSubsetOrdering(Nat)
  <1>1. SUFFICES ASSUME Nat \ S # {} PROVE FALSE
    OBVIOUS
  <1>2. \A n \in Nat : 1..n \in FiniteSubsetsOf(Nat)
    <2>1. \A n \in Nat : IsFiniteSet(1..n)
      BY FS_Interval
    <2>2. QED
      BY <2>1 DEF FiniteSubsetsOf
  <1>3. T \subseteq FiniteSubsetsOf(Nat) /\ T # {}
    BY <1>1, <1>2
  <1>4. PICK t \in T : \A y \in T : <<y, t>> \notin R
    <2> HIDE DEF T, R
    <2>1. IsWellFoundedOn(R, FiniteSubsetsOf(Nat))
      BY FS_StrictSubsetOrderingWellFounded DEF R
    <2>2. QED
      BY <1>3, <2>1, WFMin
  <1>5. PICK x \in Nat \ S : t = 1..x
    BY <1>4
  <1>6. x - 1 \in Nat
    BY <1>5
  <1>7. <<1..(x - 1), 1..x>> \in R
    BY <1>6 DEF StrictSubsetOrdering
  <1>8. x - 1 \in S
    BY <1>4, <1>5, <1>6, <1>7
  <1>9. (x - 1) + 1 \in S
    BY <1>6, <1>8
  <1>10. QED
    BY <1>5, <1>9

\* ... and one with 1 and the successors of its numbers below n has n.
LEMMA UpTo ==
    ASSUME NEW n \in Nat \ {0}, NEW S, 1 \in S, \A i \in 1..(n - 1) : i \in S => i + 1 \in S
    PROVE  \A i \in 1..n : i \in S
  <1> DEFINE T == {i \in Nat : i \in 1..n => i \in S}
  <1>1. 0 \in T /\ \A i \in Nat : i \in T => i + 1 \in T
    <2>1. 0 \in T
      OBVIOUS
    <2>2. ASSUME NEW i \in Nat, i \in T, i + 1 \in 1..n
          PROVE  i + 1 \in S
      <3>1. CASE i = 0
        BY <3>1
      <3>2. CASE i # 0
        <4>1. i \in 1..(n - 1)
          BY <2>2, <3>2
        <4>2. i \in S
          BY <2>2, <4>1
        <4>3. QED
          BY <4>1, <4>2
      <3>3. QED
        BY <3>1, <3>2
    <2>3. QED
      BY <2>1, <2>2
  <1>2. Nat \subseteq T
    <2> HIDE DEF T
    <2>1. QED
      BY <1>1, SetInduction
  <1>3. QED
    BY <1>2

----------------------------------------------------------------------------
(* FlattenSeq.                                                             *)

\* It is the last of the sequences that are made by adding one part at a time.
LEMMA Flattening ==
    ASSUME NEW S, NEW ss \in Seq(Seq(S)), ss # <<>>
    PROVE  \E f \in [1..Len(ss) -> Seq(S)] :
              /\ f[1] = ss[1] /\ f[Len(ss)] = FlattenSeq(ss)
              /\ \A i \in 1..(Len(ss) - 1) : f[i + 1] = f[i] \o ss[i + 1]
  <1> DEFINE L == Len(ss)
             Runs(n, f) == f = [i \in 1..n |-> IF i = 1 THEN ss[i] ELSE f[i - 1] \o ss[i]]
             T == {n \in Nat : \E f : Runs(n, f)}
  <1>1. L \in Nat \ {0} /\ DOMAIN ss = 1..L /\ \A i \in 1..L : ss[i] \in Seq(S)
    OBVIOUS
  <1>2. 1 \in T
    <2> DEFINE g == [i \in 1..1 |-> ss[i]]
    <2>1. \A i \in 1..1 : g[i] = IF i = 1 THEN ss[i] ELSE g[i - 1] \o ss[i]
      OBVIOUS
    <2>2. g = [i \in 1..1 |-> g[i]]
      OBVIOUS
    <2> HIDE DEF g
    <2>3. Runs(1, g)
      BY <2>1, <2>2
    <2>4. QED
      BY <2>3
  <1>3. ASSUME NEW n \in 1..(L - 1), n \in T
        PROVE  n + 1 \in T
    <2>1. PICK f : Runs(n, f)
      BY <1>3
    <2> DEFINE g == [i \in 1..(n + 1) |-> IF i <= n THEN f[i] ELSE f[n] \o ss[n + 1]]
    <2>2. \A i \in 1..n : f[i] = IF i = 1 THEN ss[i] ELSE f[i - 1] \o ss[i]
      BY <2>1
    <2>3. /\ \A i \in 1..(n + 1) : g[i] = IF i <= n THEN f[i] ELSE f[n] \o ss[n + 1]
          /\ g = [i \in 1..(n + 1) |-> g[i]]
      OBVIOUS
    <2>4. n \in Nat \ {0} /\ n + 1 # 1 /\ (n + 1) - 1 = n /\ ~(n + 1 <= n)
          /\ n \in 1..(n + 1) /\ n + 1 \in 1..(n + 1) /\ n <= n
      BY <1>1
    <2> HIDE DEF g
    <2>5. ASSUME NEW i \in 1..(n + 1)
          PROVE  g[i] = IF i = 1 THEN ss[i] ELSE g[i - 1] \o ss[i]
      <3>1. CASE i \in 1..n
        <4>1. i \in 1..(n + 1) /\ i <= n
              /\ (i # 1 => i - 1 \in 1..(n + 1) /\ i - 1 <= n)
          BY <2>4, <3>1
        <4>2. g[i] = f[i] /\ (i # 1 => g[i - 1] = f[i - 1])
          BY <2>3, <4>1
        <4>3. QED
          BY <2>2, <3>1, <4>2
      <3>2. CASE i = n + 1
        <4>1. g[n + 1] = f[n] \o ss[n + 1] /\ g[n] = f[n]
          BY <2>3, <2>4
        <4>2. QED
          BY <2>4, <3>2, <4>1
      <3>3. QED
        BY <2>4, <3>1, <3>2
    <2>6. Runs(n + 1, g)
      BY <2>3, <2>5
    <2> HIDE DEF Runs
    <2>7. n + 1 \in Nat /\ \E h : Runs(n + 1, h)
      BY <2>4, <2>6
    <2>8. QED
      BY <2>7
  <1>4. L \in T
    <2> HIDE DEF T, L
    <2>1. \A i \in 1..(L - 1) : i \in T => i + 1 \in T
      BY <1>3
    <2>2. \A i \in 1..L : i \in T
      BY <1>1, <1>2, <2>1, UpTo
    <2>3. QED
      BY <1>1, <2>2
  <1> DEFINE flat == CHOOSE f : Runs(L, f)
  <1>5. Runs(L, flat)
    BY <1>4
  <1>6. FlattenSeq(ss) = flat[L]
    BY <1>1 DEF FlattenSeq
  <1>7. \A i \in 1..L : flat[i] = IF i = 1 THEN ss[i] ELSE flat[i - 1] \o ss[i]
    BY <1>5
  <1>8. \A i \in 1..(L - 1) : flat[i + 1] = flat[i] \o ss[i + 1]
    <2>1. SUFFICES ASSUME NEW i \in 1..(L - 1)
                   PROVE  flat[i + 1] = flat[i] \o ss[i + 1]
      OBVIOUS
    <2>2. i + 1 \in 1..L /\ i + 1 # 1 /\ (i + 1) - 1 = i
      BY <1>1
    <2> HIDE DEF flat, L
    <2>3. QED
      BY <1>7, <2>2
  <1>9. \A i \in 1..L : flat[i] \in Seq(S)
    <2> DEFINE U == {i \in 1..L : flat[i] \in Seq(S)}
    <2> HIDE DEF flat, L
    <2>1. 1 \in U
      BY <1>1, <1>7
    <2>2. \A i \in 1..(L - 1) : i \in U => i + 1 \in U
      <3>1. SUFFICES ASSUME NEW i \in 1..(L - 1), flat[i] \in Seq(S)
                     PROVE  i + 1 \in 1..L /\ flat[i + 1] \in Seq(S)
        OBVIOUS
      <3>2. i + 1 \in 1..L /\ ss[i + 1] \in Seq(S)
        BY <1>1
      <3>3. flat[i] \o ss[i + 1] \in Seq(S)
        BY <3>1, <3>2, ConcatProperties
      <3>4. QED
        BY <1>8, <3>2, <3>3
    <2> HIDE DEF U
    <2>3. \A i \in 1..L : i \in U
      <3>1. L \in Nat \ {0}
        BY <1>1
      <3>2. QED
        BY <2>1, <2>2, <3>1, UpTo
    <2>4. QED
      BY <2>3 DEF U
  <1>10. DOMAIN flat = 1..L
    BY <1>5
  <1>11. flat = [i \in 1..L |-> flat[i]]
    <2> DEFINE Part(i) == IF i = 1 THEN ss[i] ELSE flat[i - 1] \o ss[i]
    <2>1. flat = [i \in 1..L |-> Part(i)]
      BY <1>5
    <2> HIDE DEF flat, L, Part
    <2>2. QED
      BY <2>1
  <1>12. flat \in [1..L -> Seq(S)] /\ flat[1] = ss[1]
    <2> HIDE DEF flat, L
    <2>1. flat \in [1..L -> Seq(S)]
      BY <1>9, <1>11
    <2>2. 1 \in 1..L
      BY <1>1
    <2>3. QED
      BY <1>7, <2>1, <2>2
  <1> HIDE DEF flat
  <1>13. QED
    BY <1>6, <1>8, <1>12

\* A history of parts that have one message each is that of the messages.
LEMMA FlattenOnes ==
    ASSUME NEW S, NEW ms \in Seq(S)
    PROVE  FlattenSeq([i \in DOMAIN ms |-> <<ms[i]>>]) = ms
  <1> DEFINE ss == [i \in DOMAIN ms |-> <<ms[i]>>]
  <1>1. /\ ss \in Seq(Seq(S)) /\ Len(ss) = Len(ms) /\ Len(ms) \in Nat
        /\ \A i \in 1..Len(ms) : ss[i] = <<ms[i]>>
    <2>1. Len(ms) \in Nat /\ DOMAIN ms = 1..Len(ms) /\ \A i \in 1..Len(ms) : ms[i] \in S
      OBVIOUS
    <2>2. \A i \in 1..Len(ms) : ss[i] = <<ms[i]>> /\ ss[i] \in Seq(S)
      BY <2>1
    <2>3. ss = [i \in 1..Len(ms) |-> ss[i]]
      BY <2>1
    <2> HIDE DEF ss
    <2>4. QED
      BY <2>1, <2>2, <2>3
  <1>2. CASE ms = <<>>
    <2>1. ss = <<>>
      BY <1>2
    <2> HIDE DEF ss
    <2>2. FlattenSeq(ss) = ss
      BY <2>1 DEF FlattenSeq
    <2>3. QED
      BY <1>2, <2>1, <2>2 DEF ss
  <1>3. CASE ms # <<>>
    <2>1. Len(ms) \in Nat \ {0} /\ ss # <<>>
      BY <1>1, <1>3
    <2> HIDE DEF ss
    <2>2. PICK f \in [1..Len(ss) -> Seq(S)] :
             /\ f[1] = ss[1] /\ f[Len(ss)] = FlattenSeq(ss)
             /\ \A i \in 1..(Len(ss) - 1) : f[i + 1] = f[i] \o ss[i + 1]
      <3>1. QED
        BY <1>1, <2>1, Flattening
    <2> DEFINE T == {i \in 1..Len(ms) : f[i] = SubSeq(ms, 1, i)}
    <2>3. 1 \in T
      <3>1. 1 \in 1..Len(ms) /\ ms[1] \in S
        BY <2>1
      <3>2. SubSeq(ms, 1, 1) \in Seq(S) /\ Len(SubSeq(ms, 1, 1)) = 1
            /\ SubSeq(ms, 1, 1)[1] = ms[1]
        BY <3>1, SubSeqProperties
      <3>3. <<ms[1]>> \in Seq(S) /\ Len(<<ms[1]>>) = 1 /\ <<ms[1]>>[1] = ms[1]
        BY <3>1
      <3>4. SubSeq(ms, 1, 1) = <<ms[1]>>
        <4> DEFINE p == SubSeq(ms, 1, 1)
                   q == <<ms[1]>>
        <4>1. \A i \in 1..Len(p) : p[i] = q[i]
          BY <3>2, <3>3
        <4> HIDE DEF p, q
        <4>2. p = q
          BY <3>2, <3>3, <4>1, SeqEqual DEF p, q
        <4>3. QED
          BY <4>2 DEF p, q
      <3>5. QED
        BY <1>1, <2>2, <3>1, <3>4
    <2>4. \A i \in 1..(Len(ms) - 1) : i \in T => i + 1 \in T
      <3>1. SUFFICES ASSUME NEW i \in 1..(Len(ms) - 1), f[i] = SubSeq(ms, 1, i)
                     PROVE  i + 1 \in 1..Len(ms) /\ f[i + 1] = SubSeq(ms, 1, i + 1)
        OBVIOUS
      <3>2. i + 1 \in 1..Len(ms) /\ 1 \in 1..Len(ms) /\ (i + 1) - 1 = i
        BY <1>1
      <3>3. SubSeq(ms, 1, i + 1) = SubSeq(ms, 1, i) \o <<ms[i + 1]>>
        BY <3>2, SubSeqRecursiveSecond
      <3>4. QED
        BY <1>1, <2>2, <3>1, <3>2, <3>3
    <2> HIDE DEF T
    <2>5. \A i \in 1..Len(ms) : i \in T
      BY <2>1, <2>3, <2>4, UpTo
    <2>6. f[Len(ms)] = SubSeq(ms, 1, Len(ms))
      BY <2>1, <2>5 DEF T
    <2>7. QED
      BY <1>1, <2>2, <2>6, SubSeqFull DEF ss
  <1>4. QED
    BY <1>2, <1>3

\* To pick every message is to pick the history.
LEMMA PickAll ==
    ASSUME NEW S, NEW ms \in Seq(S)
    PROVE  Pick(ms, DOMAIN ms) = ms
  <1>1. [i \in DOMAIN ms |-> IF i \in DOMAIN ms THEN <<ms[i]>> ELSE <<>>]
          = [i \in DOMAIN ms |-> <<ms[i]>>]
    OBVIOUS
  <1>2. QED
    BY <1>1, FlattenOnes DEF Pick

\* Whatever is picked was there, and the last message stays the last one.
LEMMA PickSome ==
    ASSUME NEW S, NEW ms \in Seq(S), ms # <<>>, NEW indices, Len(ms) \in indices
    PROVE  LET ps == Pick(ms, indices)
           IN /\ ps \in Seq({ms[i] : i \in DOMAIN ms \cap indices})
              /\ ps # <<>> /\ ps[Len(ps)] = ms[Len(ms)]
  <1> DEFINE ss == [i \in DOMAIN ms |-> IF i \in indices THEN <<ms[i]>> ELSE <<>>]
             L == Len(ms)
             Kept == {ms[i] : i \in DOMAIN ms \cap indices}
  <1>1. L \in Nat \ {0} /\ DOMAIN ms = 1..L
    OBVIOUS
  <1>2. /\ \A i \in 1..L : ss[i] \in Seq(Kept)
        /\ ss = [i \in 1..L |-> ss[i]]
        /\ ss[L] = <<ms[L]>> /\ ms[L] \in Kept
    <2>1. ASSUME NEW i \in 1..L PROVE ss[i] \in Seq(Kept)
      <3>1. CASE i \in indices
        <4>1. ms[i] \in Kept /\ ss[i] = <<ms[i]>>
          BY <1>1, <3>1
        <4> HIDE DEF Kept, ss
        <4>2. QED
          BY <4>1
      <3>2. CASE i \notin indices
        <4>1. ss[i] = <<>>
          BY <1>1, <3>2
        <4> HIDE DEF Kept, ss
        <4>2. QED
          BY <4>1
      <3>3. QED
        BY <3>1, <3>2
    <2>2. QED
      BY <1>1, <2>1
  <1> HIDE DEF ss, Kept
  <1>3. ss \in Seq(Seq(Kept)) /\ Len(ss) = L /\ ss # <<>>
    BY <1>1, <1>2
  <1>4. PICK f \in [1..Len(ss) -> Seq(Kept)] :
           /\ f[1] = ss[1] /\ f[Len(ss)] = FlattenSeq(ss)
           /\ \A i \in 1..(Len(ss) - 1) : f[i + 1] = f[i] \o ss[i + 1]
    BY <1>3, Flattening
  <1>5. f[L] \in Seq(Kept) /\ f[L] # <<>> /\ f[L][Len(f[L])] = ms[L]
    <2>1. CASE L = 1
      BY <1>1, <1>2, <1>3, <1>4, <2>1
    <2>2. CASE L # 1
      <3>1. PICK j \in 1..(L - 1) : j + 1 = L
        <4>1. L - 1 \in 1..(L - 1) /\ (L - 1) + 1 = L
          BY <1>1, <2>2
        <4>2. QED
          BY <4>1
      <3>2. f[j + 1] = f[j] \o ss[j + 1] /\ f[j] \in Seq(Kept)
        <4> HIDE DEF L
        <4>1. j \in 1..(Len(ss) - 1) /\ j \in 1..Len(ss)
          BY <1>1, <1>3
        <4>2. QED
          BY <1>4, <4>1
      <3>3. f[L] = f[j] \o <<ms[L]>>
        <4> HIDE DEF L
        <4>1. QED
          BY <1>2, <3>1, <3>2
      <3>4. QED
        BY <1>2, <3>2, <3>3
    <2>3. QED
      BY <2>1, <2>2
  <1>6. Pick(ms, indices) = f[L]
    BY <1>3, <1>4 DEF Pick, ss
  <1>7. QED
    BY <1>5, <1>6 DEF Kept

----------------------------------------------------------------------------
(* Histories.                                                              *)

\* The calls that the next message has to answer
Owes(h) == IF h = <<>> THEN {} ELSE h[Len(h)].uses

\* The messages about some calls only
MessageOf(ids) == {m \in Message : Ids(m) \subseteq ids}

\* A message may answer calls of the one before it.
LEMMA AppendAnswerable ==
    ASSUME NEW h \in Seq(Message), NEW m \in Message,
           Answerable(h), DOMAIN m.results \subseteq Owes(h)
    PROVE  Answerable(Append(h, m))
  <1> DEFINE g == Append(h, m)
             L == Len(h)
  <1>1. /\ L \in Nat /\ DOMAIN h = 1..L /\ DOMAIN g = 1..(L + 1)
        /\ \A i \in 1..L : g[i] = h[i]
        /\ g[L + 1] = m
    OBVIOUS
  <1>2. ASSUME NEW i \in 1..(L + 1), DOMAIN g[i].results # {}
        PROVE  i > 1 /\ DOMAIN g[i].results \subseteq g[i - 1].uses
    <2> HIDE DEF g
    <2>1. CASE i \in 1..L
      <3>1. DOMAIN h[i].results # {} /\ i \in DOMAIN h
        BY <1>1, <1>2, <2>1
      <3>2. i > 1 /\ DOMAIN h[i].results \subseteq h[i - 1].uses
        BY <3>1 DEF Answerable
      <3>3. i - 1 \in 1..L
        BY <1>1, <2>1, <3>2
      <3>4. QED
        BY <1>1, <2>1, <3>2, <3>3
    <2>2. CASE i = L + 1
      <3>1. DOMAIN m.results # {} /\ h # <<>> /\ DOMAIN m.results \subseteq h[L].uses
        BY <1>1, <1>2, <2>2 DEF Owes
      <3>2. L \in 1..L /\ (L + 1) - 1 = L /\ L + 1 > 1
        BY <1>1, <3>1
      <3>3. QED
        BY <1>1, <2>2, <3>1, <3>2
    <2>3. QED
      BY <1>1, <2>1, <2>2
  <1>3. QED
    BY <1>1, <1>2 DEF Answerable

\* A history stays unbroken if what is appended answers all that is owed.
LEMMA AppendUnbroken ==
    ASSUME NEW h \in Seq(Message), NEW m \in Message,
           Unbroken(h), DOMAIN m.results = Owes(h)
    PROVE  /\ Unbroken(Append(h, m)) /\ Owes(Append(h, m)) = m.uses
           /\ Append(h, m) \in Seq(Message) /\ Append(h, m) # <<>>
  <1> DEFINE g == Append(h, m)
             L == Len(h)
  <1>1. /\ L \in Nat /\ Len(g) = L + 1 /\ g \in Seq(Message) /\ g # <<>>
        /\ \A i \in 1..L : g[i] = h[i]
        /\ g[L + 1] = m
    OBVIOUS
  <1>2. Answerable(g)
    BY AppendAnswerable DEF Unbroken
  <1> HIDE DEF g
  <1>3. ASSUME NEW i \in 1..L
        PROVE  g[i].uses \subseteq DOMAIN g[i + 1].results
    <2>1. CASE i \in 1..(L - 1)
      <3>1. i + 1 \in 1..L
        BY <1>1, <2>1
      <3>2. h[i].uses \subseteq DOMAIN h[i + 1].results
        BY <2>1 DEF Unbroken
      <3>3. QED
        BY <1>1, <3>1, <3>2
    <2>2. CASE i = L
      <3>1. h # <<>> /\ DOMAIN m.results = h[L].uses
        BY <1>1, <2>2 DEF Owes
      <3>2. QED
        BY <1>1, <2>2, <3>1
    <2>3. QED
      BY <1>1, <2>1, <2>2
  <1>4. Unbroken(g)
    <2>1. Len(g) - 1 = L
      BY <1>1
    <2>2. QED
      BY <1>2, <1>3, <2>1 DEF Unbroken
  <1>5. Owes(g) = m.uses
    BY <1>1 DEF Owes
  <1>6. QED
    BY <1>1, <1>4, <1>5 DEF g

\* The empty history
LEMMA EmptyUnbroken == Unbroken(<<>>) /\ Owes(<<>>) = {}
  BY DEF Unbroken, Answerable, Owes

\* A history is paired if it is unbroken and owes nothing.
LEMMA PairedUnbroken ==
    ASSUME NEW h \in Seq(Message)
    PROVE  Paired(h) <=> Unbroken(h) /\ Owes(h) = {}
  <1> DEFINE L == Len(h)
  <1>1. L \in Nat /\ DOMAIN h = 1..L /\ (h # <<>> => L \in 1..L)
    OBVIOUS
  <1>2. ASSUME Paired(h) PROVE Unbroken(h) /\ Owes(h) = {}
    <2>1. \A i \in 1..L :
            /\ h[i].uses # {} => i < L /\ h[i].uses \subseteq DOMAIN h[i + 1].results
            /\ DOMAIN h[i].results # {} => i > 1 /\ DOMAIN h[i].results \subseteq h[i - 1].uses
      BY <1>1, <1>2 DEF Paired
    <2>2. Answerable(h)
      BY <1>1, <2>1 DEF Answerable
    <2>3. \A i \in 1..(L - 1) : h[i].uses \subseteq DOMAIN h[i + 1].results
      BY <1>1, <2>1
    <2>4. Owes(h) = {}
      BY <1>1, <2>1 DEF Owes
    <2>5. QED
      BY <2>2, <2>3, <2>4 DEF Unbroken
  <1>3. ASSUME Unbroken(h), Owes(h) = {} PROVE Paired(h)
    <2>1. \A i \in 1..(L - 1) : h[i].uses \subseteq DOMAIN h[i + 1].results
      BY <1>3 DEF Unbroken
    <2>2. h # <<>> => h[L].uses = {}
      BY <1>3 DEF Owes
    <2>3. \A i \in 1..L : h[i].uses # {} =>
            i < L /\ h[i].uses \subseteq DOMAIN h[i + 1].results
      BY <1>1, <2>1, <2>2
    <2>4. QED
      BY <1>1, <1>3, <2>3 DEF Paired, Unbroken, Answerable
  <1>4. QED
    BY <1>2, <1>3

\* Nothing is torn apart by a cut before a message that answers nothing.
LEMMA SuffixKeeps ==
    ASSUME NEW h \in Seq(Message), NEW from \in 1..Len(h),
           from = 1 \/ DOMAIN h[from].results = {}, Answerable(h)
    PROVE  LET g == SubSeq(h, from, Len(h))
           IN /\ g \in Seq(Message) /\ g # <<>> /\ Len(g) = Len(h) - from + 1
              /\ \A i \in 1..Len(g) : g[i] = h[i + from - 1]
              /\ g[Len(g)] = h[Len(h)] /\ Owes(g) = Owes(h)
              /\ Answerable(g) /\ (Unbroken(h) => Unbroken(g))
  <1> DEFINE g == SubSeq(h, from, Len(h))
             L == Len(h)
             K == Len(g)
  <1>1. L \in Nat \ {0} /\ from \in Nat \ {0} /\ from <= L /\ DOMAIN h = 1..L
    OBVIOUS
  <1>2. /\ g \in Seq(Message) /\ K = L - from + 1 /\ DOMAIN g = 1..K
        /\ \A i \in 1..K : g[i] = h[i + from - 1]
    BY <1>1, SubSeqProperties
  <1> HIDE DEF g, K
  <1>3. K \in Nat \ {0} /\ K + from - 1 = L
    BY <1>1, <1>2
  <1>4. g # <<>> /\ g[K] = h[L]
    BY <1>2, <1>3 DEF K
  <1>5. Owes(g) = Owes(h)
    BY <1>1, <1>4 DEF Owes, K
  <1>6. Answerable(g)
    <2>1. ASSUME NEW i \in 1..K, DOMAIN g[i].results # {}
          PROVE  i > 1 /\ DOMAIN g[i].results \subseteq g[i - 1].uses
      <3> DEFINE j == i + from - 1
      <3>1. j \in 1..L /\ g[i] = h[j]
        BY <1>1, <1>2, <1>3
      <3>2. j > 1 /\ DOMAIN h[j].results \subseteq h[j - 1].uses
        BY <1>1, <2>1, <3>1 DEF Answerable
      <3>3. i > 1
        <4>1. CASE i = 1
          <5>1. j = from
            BY <1>1, <4>1
          <5>2. QED
            BY <2>1, <3>1, <3>2, <5>1
        <4>2. QED
          BY <1>3, <4>1
      <3>4. i - 1 \in 1..K /\ (i - 1) + from - 1 = j - 1
        BY <1>1, <1>3, <3>3
      <3>5. g[i - 1] = h[j - 1]
        BY <1>2, <3>4
      <3>6. QED
        BY <3>1, <3>2, <3>3, <3>5
    <2>2. QED
      BY <1>2, <2>1 DEF Answerable
  <1>7. Unbroken(h) => Unbroken(g)
    <2>1. ASSUME Unbroken(h), NEW i \in 1..(K - 1)
          PROVE  g[i].uses \subseteq DOMAIN g[i + 1].results
      <3> DEFINE j == i + from - 1
      <3>1. /\ j \in 1..(L - 1) /\ i \in 1..K /\ i + 1 \in 1..K
            /\ (i + 1) + from - 1 = j + 1
        BY <1>1, <1>3
      <3>2. g[i] = h[j] /\ g[i + 1] = h[j + 1]
        BY <1>2, <3>1
      <3>3. QED
        BY <2>1, <3>1, <3>2 DEF Unbroken
    <2>2. QED
      BY <1>6, <2>1 DEF Unbroken, K
  <1>8. QED
    BY <1>2, <1>3, <1>4, <1>5, <1>6, <1>7 DEF g, K

----------------------------------------------------------------------------
(* Sanitize.                                                               *)

\* Repair() answers every call and keeps what the last message of a user says.
LEMMA RepairPairs ==
    ASSUME NEW ids, NEW ms \in Seq(MessageOf(ids)), ms # <<>>, Answerable(ms),
           ms[Len(ms)].role = "user"
    PROVE  LET rs == Repair(ms)
           IN /\ rs \in Seq(MessageOf(ids)) /\ rs # <<>> /\ Unbroken(rs)
              /\ rs[Len(rs)].role = "user" /\ Owes(rs) = {}
              /\ rs[Len(rs)].texts = ms[Len(ms)].texts
  <1> DEFINE L == Len(ms)
             owed(i) == IF i > 1 /\ ms[i].role = "user" THEN ms[i - 1].uses ELSE {}
             stranded(i) == i = L \/ ms[i + 1].role # "user"
             W(i) == WithResults(ms[i], All(owed(i), "repaired"))
             E(i) == [User({}) EXCEPT !.results = All(ms[i].uses, "repaired")]
             More(i) == ms[i].uses # {} /\ stranded(i)
             Block(i) == <<W(i)>> \o IF More(i) THEN <<E(i)>> ELSE <<>>
             ss == [i \in DOMAIN ms |-> Block(i)]
  <1>1. /\ L \in Nat \ {0} /\ DOMAIN ms = 1..L /\ ms \in Seq(Message)
        /\ \A i \in 1..L : ms[i] \in Message /\ Ids(ms[i]) \subseteq ids
    <2>1. MessageOf(ids) \subseteq Message
      BY DEF MessageOf
    <2>2. L \in Nat \ {0} /\ DOMAIN ms = 1..L /\ \A i \in 1..L : ms[i] \in MessageOf(ids)
      OBVIOUS
    <2>3. ms \in Seq(Message)
      BY <2>1, <2>2
    <2>4. QED
      BY <2>2, <2>3 DEF MessageOf
  <1>2. ASSUME NEW i \in 1..L
        PROVE  /\ ms[i].role \in {"user", "assistant"}
               /\ ms[i].uses \in SUBSET CallIds /\ ms[i].uses \subseteq ids
               /\ DOMAIN ms[i].results \subseteq ids
               /\ ms[i].role = "user" => ms[i].uses = {}
               /\ ms[i].role = "assistant" => DOMAIN ms[i].results = {}
    <2>1. ms[i] \in Message /\ Ids(ms[i]) \subseteq ids
      BY <1>1
    <2>2. QED
      BY <2>1 DEF Message, Ids
  <1>3. ASSUME NEW i \in 1..L
        PROVE  /\ owed(i) \in SUBSET CallIds /\ owed(i) \subseteq ids
               /\ DOMAIN ms[i].results \subseteq owed(i)
               /\ ms[i].role = "assistant" => owed(i) = {}
    <2>1. CASE i > 1 /\ ms[i].role = "user"
      <3>1. i - 1 \in 1..L
        BY <1>1, <2>1
      <3>2. ms[i - 1].uses \in SUBSET CallIds /\ ms[i - 1].uses \subseteq ids
        BY <1>2, <3>1
      <3>3. DOMAIN ms[i].results \subseteq ms[i - 1].uses
        BY <1>1 DEF Answerable
      <3>4. QED
        BY <2>1, <3>2, <3>3
    <2>2. CASE ~(i > 1 /\ ms[i].role = "user")
      <3>1. DOMAIN ms[i].results = {}
        BY <1>1, <1>2, <2>2 DEF Answerable
      <3>2. QED
        BY <2>2, <3>1
    <2>3. QED
      BY <2>1, <2>2
  <1> HIDE DEF owed
  <1>4. ASSUME NEW i \in 1..L
        PROVE  /\ W(i) \in MessageOf(ids) /\ W(i).role = ms[i].role
               /\ W(i).texts = ms[i].texts /\ W(i).uses = ms[i].uses
               /\ DOMAIN W(i).results = owed(i)
    <2> DEFINE more == All(owed(i), "repaired")
    <2>1. more \in Results /\ DOMAIN more = owed(i)
      BY <1>3, AllType DEF Hows
    <2>2. ms[i] \in Message /\ Ids(ms[i]) \subseteq ids
      BY <1>1
    <2> HIDE DEF more
    <2>3. CASE ms[i].role = "user"
      <3>1. LET n == WithResults(ms[i], more)
            IN /\ n \in Message /\ n.role = "user" /\ n.texts = ms[i].texts /\ n.uses = {}
               /\ DOMAIN n.results = DOMAIN ms[i].results \cup DOMAIN more
        BY <2>1, <2>2, <2>3, WithResultsFields
      <3>2. DOMAIN ms[i].results \cup DOMAIN more = owed(i)
        BY <1>3, <2>1
      <3>3. QED
        BY <1>2, <1>3, <2>3, <3>1, <3>2 DEF MessageOf, Ids, more
    <2>4. CASE ms[i].role = "assistant"
      <3>1. owed(i) = {} /\ DOMAIN ms[i].results = {}
        BY <1>2, <1>3, <2>4
      <3>2. WithResults(ms[i], more) = ms[i]
        BY <2>1, <2>2, <3>1, WithResultsSame
      <3>3. QED
        BY <2>2, <3>1, <3>2 DEF MessageOf, more
    <2>5. QED
      BY <1>2, <2>3, <2>4
  <1>5. ASSUME NEW i \in 1..L
        PROVE  E(i) \in MessageOf(ids) /\ E(i).uses = {} /\ DOMAIN E(i).results = ms[i].uses
    <2>1. User({}) \in Message /\ User({}).role = "user" /\ User({}).uses = {}
      BY UserFields
    <2>2. All(ms[i].uses, "repaired") \in Results
          /\ DOMAIN All(ms[i].uses, "repaired") = ms[i].uses
      BY <1>2, AllType DEF Hows
    <2>3. ms[i].uses \subseteq ids
      BY <1>2
    <2>4. QED
      BY <2>1, <2>2, <2>3 DEF MessageOf, Message, Ids
  <1> HIDE DEF W, E
  <1> DEFINE Due(i) == IF More(i) THEN {} ELSE ms[i].uses
             Good(h, i) == /\ h \in Seq(MessageOf(ids)) /\ h \in Seq(Message) /\ h # <<>>
                           /\ Unbroken(h) /\ Owes(h) = Due(i)
                           /\ ms[i].uses = {} => h[Len(h)] = W(i)
  \* One more message, with its results, and with a message of results if the
  \* next one cannot hold them
  <1>6. ASSUME NEW h \in Seq(MessageOf(ids)), h \in Seq(Message), Unbroken(h),
               NEW i \in 1..L, Owes(h) = owed(i)
        PROVE  Good(h \o Block(i), i)
    <2>1. W(i) \in Message /\ E(i) \in Message /\ W(i) \in MessageOf(ids)
          /\ E(i) \in MessageOf(ids)
      BY <1>4, <1>5 DEF MessageOf
    <2> DEFINE g == Append(h, W(i))
    <2>2. Unbroken(g) /\ Owes(g) = ms[i].uses /\ g \in Seq(Message) /\ g # <<>>
      BY <1>4, <1>6, <2>1, AppendUnbroken
    <2>3. g \in Seq(MessageOf(ids)) /\ g[Len(g)] = W(i)
      BY <2>1
    <2>4. h \o <<W(i)>> = g
      OBVIOUS
    <2> HIDE DEF g
    <2>5. CASE More(i)
      <3> DEFINE k == Append(g, E(i))
      <3>1. Unbroken(k) /\ Owes(k) = {} /\ k \in Seq(Message) /\ k # <<>>
        BY <1>5, <2>1, <2>2, AppendUnbroken
      <3>2. k \in Seq(MessageOf(ids))
        BY <2>1, <2>3
      <3>3. h \o Block(i) = k
        <4>1. Block(i) = <<W(i)>> \o <<E(i)>>
          <5> HIDE DEF More
          <5>1. QED
            BY <2>5
        <4>2. h \o (<<W(i)>> \o <<E(i)>>) = Append(Append(h, W(i)), E(i))
          <5> HIDE DEF Block
          <5>1. QED
            BY <1>6, <2>1
        <4>3. QED
          BY <4>1, <4>2 DEF g
      <3> HIDE DEF k
      <3>4. QED
        BY <2>5, <3>1, <3>2, <3>3
    <2>6. CASE ~More(i)
      <3>1. h \o Block(i) = g
        <4>1. Block(i) = <<W(i)>> \o <<>>
          <5> HIDE DEF More
          <5>1. QED
            BY <2>6
        <4>2. h \o (<<W(i)>> \o <<>>) = h \o <<W(i)>>
          <5> HIDE DEF Block
          <5>1. QED
            BY <1>6, <2>1
        <4>3. QED
          BY <2>4, <4>1, <4>2
      <3>2. QED
        BY <2>2, <2>3, <2>6, <3>1
    <2>7. QED
      BY <2>5, <2>6
  <1>7. /\ Len(ss) = L /\ ss # <<>> /\ ss \in Seq(Seq(MessageOf(ids)))
        /\ \A i \in 1..L : ss[i] = Block(i)
    <2>1. ASSUME NEW i \in 1..L PROVE ss[i] = Block(i) /\ Block(i) \in Seq(MessageOf(ids))
      <3>1. W(i) \in MessageOf(ids) /\ E(i) \in MessageOf(ids)
        BY <1>4, <1>5
      <3>2. <<W(i)>> \in Seq(MessageOf(ids)) /\ <<E(i)>> \in Seq(MessageOf(ids))
            /\ <<>> \in Seq(MessageOf(ids))
        BY <3>1
      <3>3. QED
        BY <1>1, <3>2, ConcatProperties
    <2>2. ss = [i \in 1..L |-> ss[i]]
      BY <1>1
    <2> HIDE DEF ss, Block
    <2>3. QED
      BY <1>1, <2>1, <2>2
  <1>8. Repair(ms) = FlattenSeq(ss)
    BY DEF Repair, owed, W, E
  <1> HIDE DEF ss, Block
  <1>9. PICK f \in [1..L -> Seq(MessageOf(ids))] :
           /\ f[1] = ss[1] /\ f[L] = FlattenSeq(ss)
           /\ \A i \in 1..(L - 1) : f[i + 1] = f[i] \o ss[i + 1]
    <2> HIDE DEF L
    <2>1. QED
      BY <1>7, Flattening
  <1> DEFINE T == {i \in 1..L : Good(f[i], i)}
  <1>10. 1 \in T
    <2>1. owed(1) = {} /\ 1 \in 1..L
      BY <1>1 DEF owed
    <2>2. Good(<<>> \o Block(1), 1)
      <3> HIDE DEF Good
      <3>1. <<>> \in Seq(MessageOf(ids)) /\ <<>> \in Seq(Message)
        OBVIOUS
      <3>2. QED
        BY <1>6, <2>1, <3>1, EmptyUnbroken
    <2>3. ss[1] \in Seq(MessageOf(ids)) /\ ss[1] = Block(1)
      BY <1>7, <2>1
    <2>4. <<>> \o ss[1] = ss[1]
      BY <2>3
    <2> HIDE DEF Good
    <2>5. QED
      BY <1>9, <2>1, <2>2, <2>3, <2>4
  <1>11. \A i \in 1..(L - 1) : i \in T => i + 1 \in T
    <2>1. SUFFICES ASSUME NEW i \in 1..(L - 1), Good(f[i], i)
                   PROVE  i + 1 \in 1..L /\ Good(f[i + 1], i + 1)
      OBVIOUS
    <2>2. i + 1 \in 1..L /\ i \in 1..L /\ i + 1 > 1 /\ (i + 1) - 1 = i /\ i # L
      <3> HIDE DEF L, Good, T
      <3>1. QED
        BY <1>1
    <2>3. Due(i) = owed(i + 1)
      BY <1>2, <2>2 DEF owed
    <2>4. Good(f[i] \o Block(i + 1), i + 1)
      <3>1. f[i] \in Seq(MessageOf(ids)) /\ f[i] \in Seq(Message) /\ Unbroken(f[i])
            /\ Owes(f[i]) = owed(i + 1)
        BY <2>1, <2>3
      <3> HIDE DEF Good
      <3>2. QED
        BY <1>6, <2>2, <3>1
    <2> HIDE DEF Good
    <2>5. QED
      BY <1>7, <1>9, <2>2, <2>4
  <1>12. Good(f[L], L)
    <2> HIDE DEF T, L, Good
    <2>1. \A i \in 1..L : i \in T
      BY <1>1, <1>10, <1>11, UpTo
    <2>2. QED
      BY <1>1, <2>1 DEF T
  <1>13. ms[L].uses = {} /\ L \in 1..L
    BY <1>1, <1>2
  <1>14. f[L][Len(f[L])] = W(L) /\ W(L).role = "user" /\ W(L).texts = ms[L].texts
    BY <1>4, <1>12, <1>13
  <1>15. QED
    BY <1>8, <1>9, <1>12, <1>13, <1>14

\* What is answered is not repaired ...
LEMMA RepairNothing ==
    ASSUME NEW ms \in Seq(Message), Paired(ms)
    PROVE  Repair(ms) = ms
  <1> DEFINE L == Len(ms)
             owed(i) == IF i > 1 /\ ms[i].role = "user" THEN ms[i - 1].uses ELSE {}
             stranded(i) == i = L \/ ms[i + 1].role # "user"
             Block(i) == <<WithResults(ms[i], All(owed(i), "repaired"))>> \o
                IF ms[i].uses # {} /\ stranded(i)
                THEN <<[User({}) EXCEPT !.results = All(ms[i].uses, "repaired")]>> ELSE <<>>
  <1>1. L \in Nat /\ DOMAIN ms = 1..L /\ \A i \in 1..L : ms[i] \in Message
    OBVIOUS
  <1>2. ASSUME NEW i \in DOMAIN ms
        PROVE  Block(i) = <<ms[i]>>
    <2>1. DOMAIN All(owed(i), "repaired") \subseteq DOMAIN ms[i].results
      <3>1. CASE i > 1 /\ ms[i].role = "user"
        <4>1. i - 1 \in DOMAIN ms /\ (i - 1) + 1 = i
          BY <1>1, <3>1
        <4>2. ms[i - 1].uses \subseteq DOMAIN ms[i].results
          BY <4>1 DEF Paired
        <4>3. QED
          BY <3>1, <4>2 DEF All
      <3>2. CASE ~(i > 1 /\ ms[i].role = "user")
        BY <3>2 DEF All
      <3>3. QED
        BY <3>1, <3>2
    <2>2. WithResults(ms[i], All(owed(i), "repaired")) = ms[i]
      BY <1>1, <2>1, WithResultsSame
    <2>3. ~(ms[i].uses # {} /\ stranded(i))
      <3>1. SUFFICES ASSUME ms[i].uses # {} PROVE ~stranded(i)
        OBVIOUS
      <3>2. i < L /\ ms[i].uses \subseteq DOMAIN ms[i + 1].results
        BY <3>1 DEF Paired
      <3>3. i + 1 \in 1..L
        BY <1>1, <3>2
      <3>4. ms[i + 1].role = "user"
        BY <1>1, <3>1, <3>2, <3>3 DEF Message
      <3>5. QED
        BY <3>2, <3>4
    <2>4. <<ms[i]>> \o <<>> = <<ms[i]>>
      BY <1>1
    <2> HIDE DEF owed, stranded
    <2>5. QED
      BY <2>2, <2>3, <2>4
  <1>3. Repair(ms) = FlattenSeq([i \in DOMAIN ms |-> Block(i)])
    BY DEF Repair
  <1> HIDE DEF Block
  <1>4. [i \in DOMAIN ms |-> Block(i)] = [i \in DOMAIN ms |-> <<ms[i]>>]
    BY <1>2
  <1>5. QED
    BY <1>3, <1>4, FlattenOnes

\* ... and no result is dropped that has its call.
LEMMA NoOrphans ==
    ASSUME NEW ms \in Seq(Message), Answerable(ms)
    PROVE  DropOrphans(ms) = ms
  <1> DEFINE used == UNION {ms[i].uses : i \in DOMAIN ms}
             bad(m) == DOMAIN m.results \ used
             strip(m) == [m EXCEPT !.results = [c \in DOMAIN @ \cap used |-> @[c]]]
             kept == Pick(ms, {i \in DOMAIN ms : bad(ms[i]) = {} \/ ms[i].texts # {}})
  <1>1. ASSUME NEW i \in DOMAIN ms PROVE DOMAIN ms[i].results \subseteq used
    <2>1. CASE DOMAIN ms[i].results = {}
      BY <2>1
    <2>2. CASE DOMAIN ms[i].results # {}
      <3>1. i > 1 /\ DOMAIN ms[i].results \subseteq ms[i - 1].uses
        BY <2>2 DEF Answerable
      <3>2. i - 1 \in DOMAIN ms
        BY <3>1
      <3>3. QED
        BY <3>1, <3>2
    <2>3. QED
      BY <2>1, <2>2
  <1> HIDE DEF used
  <1>2. {i \in DOMAIN ms : bad(ms[i]) = {} \/ ms[i].texts # {}} = DOMAIN ms
    BY <1>1
  <1>3. kept = ms
    BY <1>2, PickAll
  <1>4. ASSUME NEW i \in DOMAIN ms PROVE strip(ms[i]) = ms[i]
    <2>1. ms[i] \in Message /\ DOMAIN ms[i].results \cap used = DOMAIN ms[i].results
      BY <1>1
    <2>2. ms[i].results \in Results
      BY <2>1 DEF Message
    <2>3. PICK D \in SUBSET CallIds : ms[i].results \in [D -> Hows]
      BY <2>2 DEF Results
    <2>4. [c \in DOMAIN ms[i].results |-> ms[i].results[c]] = ms[i].results
      BY <2>3
    <2>5. QED
      BY <2>1, <2>4 DEF Message
  <1>5. DropOrphans(ms) = [k \in DOMAIN kept |-> strip(kept[k])]
    BY DEF DropOrphans, used
  <1> HIDE DEF strip, kept
  <1>6. [k \in DOMAIN ms |-> strip(ms[k])] = [k \in DOMAIN ms |-> ms[k]]
    BY <1>4
  <1>7. [k \in DOMAIN ms |-> ms[k]] = ms
    OBVIOUS
  <1>8. QED
    BY <1>3, <1>5, <1>6, <1>7

\* What is paired is sent as it is.
THEOREM SanitizeNothing ==
    ASSUME NEW ms \in Seq(Message), Paired(ms)
    PROVE  Sanitize(ms) = ms
  <1>1. Repair(ms) = ms
    BY RepairNothing
  <1>2. DropOrphans(ms) = ms
    BY PairedUnbroken, NoOrphans DEF Unbroken
  <1>3. QED
    BY <1>1, <1>2 DEF Sanitize

\* A history whose results have their calls is paired, with its last message.
LEMMA SanitizePairs ==
    ASSUME NEW ids, NEW ms \in Seq(MessageOf(ids)), ms # <<>>, Answerable(ms),
           ms[Len(ms)].role = "user"
    PROVE  LET rs == Sanitize(ms)
           IN /\ rs \in Seq(MessageOf(ids)) /\ rs # <<>> /\ Unbroken(rs)
              /\ rs[Len(rs)].role = "user" /\ Owes(rs) = {}
              /\ rs[Len(rs)].texts = ms[Len(ms)].texts
  <1> DEFINE rs == Repair(ms)
  <1>1. /\ rs \in Seq(MessageOf(ids)) /\ rs # <<>> /\ Unbroken(rs)
        /\ rs[Len(rs)].role = "user" /\ Owes(rs) = {}
        /\ rs[Len(rs)].texts = ms[Len(ms)].texts
    BY RepairPairs
  <1> HIDE DEF rs
  <1>2. rs \in Seq(Message)
    BY <1>1 DEF MessageOf
  <1>3. DropOrphans(rs) = rs
    BY <1>1, <1>2, NoOrphans DEF Unbroken
  <1>4. Sanitize(ms) = rs
    BY <1>3 DEF Sanitize, rs
  <1>5. QED
    BY <1>1, <1>4

----------------------------------------------------------------------------
(* Trims.                                                                  *)

\* Among some indices there is one with k of them from it on.
LEMMA Ranked ==
    ASSUME NEW L \in Nat, NEW S \in SUBSET (1..L), NEW k \in 1..Cardinality(S)
    PROVE  \E i \in S : Cardinality({j \in S : j >= i}) = k
  <1> DEFINE Above(n) == {j \in S : j >= n}
             N(n) == Cardinality(Above(n))
             Found(i, c) == i \in S /\ N(i) = c
             T == {m \in Nat : m <= L => \A c \in 1..N(L + 1 - m) : \E i : Found(i, c)}
  <1>0. \A j \in S : j \in Nat /\ j >= 1 /\ j <= L
    OBVIOUS
  <1>1. \A n \in Nat : IsFiniteSet(Above(n)) /\ N(n) \in Nat
    <2>1. SUFFICES ASSUME NEW n \in Nat PROVE IsFiniteSet(Above(n))
      BY FS_CardinalityType
    <2>2. IsFiniteSet(1..L)
      BY FS_Interval
    <2>3. Above(n) \in SUBSET (1..L)
      OBVIOUS
    <2> HIDE DEF Above
    <2>4. QED
      BY <2>2, <2>3, FS_Subset
  <1>2. 0 \in T
    <2>1. Above(L + 1 - 0) = {}
      <3> HIDE DEF T
      <3>1. \A j \in S : ~(j >= L + 1 - 0)
        BY <1>0
      <3>2. QED
        BY <3>1
    <2> HIDE DEF Above, Found
    <2>2. N(L + 1 - 0) = 0
      BY <2>1, FS_EmptySet
    <2>3. QED
      BY <2>2
  <1>3. ASSUME NEW m \in Nat, m \in T, m + 1 <= L
        PROVE  \A c \in 1..N(L + 1 - (m + 1)) : \E i : Found(i, c)
    <2>1. PICK n \in Nat : n = L - m
      <3> HIDE DEF T
      <3>1. L - m \in Nat
        BY <1>3
      <3>2. QED
        BY <3>1
    <2>2. L + 1 - (m + 1) = n /\ L + 1 - m = n + 1 /\ n \in 1..L /\ m <= L
      BY <1>3, <2>1
    <2>3. \A c \in 1..N(n + 1) : \E i : Found(i, c)
      <3> HIDE DEF N, Found
      <3>1. QED
        BY <1>3, <2>2
    <2>4. CASE n \notin S
      <3>1. Above(n) = Above(n + 1)
        <4>1. \A j \in S : j >= n <=> j >= n + 1
          BY <1>0, <2>4
        <4>2. QED
          BY <4>1
      <3> HIDE DEF Above, Found
      <3>2. QED
        BY <2>2, <2>3, <3>1
    <2>5. CASE n \in S
      <3>1. Above(n + 1) = Above(n) \ {n} /\ n \in Above(n)
        <4>1. \A j \in S : j >= n + 1 <=> j >= n /\ j # n
          BY <1>0
        <4>2. n \in Above(n)
          BY <1>0, <2>5
        <4>3. Above(n + 1) = Above(n) \ {n}
          BY <4>1
        <4>4. QED
          BY <4>2, <4>3
      <3>2. IsFiniteSet(Above(n)) /\ N(n) \in Nat
        BY <1>1
      <3>3. N(n + 1) = N(n) - 1
        <4> HIDE DEF Above
        <4>1. QED
          BY <3>1, <3>2, FS_RemoveElement
      <3>4. Found(n, N(n))
        BY <2>5
      <3>5. SUFFICES ASSUME NEW c \in 1..N(n) PROVE \E i : Found(i, c)
        BY <2>2
      <3> HIDE DEF N, Found
      <3>6. CASE c = N(n)
        BY <3>4, <3>6
      <3>7. CASE c # N(n)
        <4>1. c \in 1..N(n + 1)
          BY <3>2, <3>3, <3>7
        <4>2. QED
          BY <2>3, <4>1
      <3>8. QED
        BY <3>6, <3>7
    <2>6. QED
      BY <2>4, <2>5
  <1>4. L \in T
    <2>1. \A m \in Nat : m \in T => m + 1 \in T
      <3>1. SUFFICES ASSUME NEW m \in Nat, m \in T PROVE m + 1 \in T
        OBVIOUS
      <3> HIDE DEF Found, N
      <3>2. QED
        BY <1>3, <3>1
    <2> HIDE DEF T
    <2>2. Nat \subseteq T
      BY <1>2, <2>1, SetInduction
    <2>3. QED
      BY <2>2
  <1>5. Above(1) = S
    BY <1>0
  <1>6. N(1) = Cardinality(S) /\ L + 1 - L = 1
    BY <1>5
  <1>7. \E i : Found(i, k)
    <2> HIDE DEF N, Found
    <2>1. QED
      BY <1>4, <1>6
  <1>8. QED
    BY <1>7

\* The query is the last message, and no result lacks its call.
Asks(ms, ids) ==
    /\ ms \in Seq(MessageOf(ids)) /\ ms # <<>> /\ Answerable(ms)
    /\ ms[Len(ms)] = User({"query"})

\* The query of a run starts a turn.
LEMMA QueryFields ==
    LET m == User({"query"})
    IN /\ m \in Message /\ m.role = "user" /\ m.texts = {"query"} /\ m.uses = {}
       /\ DOMAIN m.results = {} /\ IsQuery(m)
  <1>1. {"query"} \in SUBSET (Tags \cup Steers)
    BY DEF Tags
  <1> DEFINE m == User({"query"})
  <1>2. m \in Message /\ m.role = "user" /\ m.texts = {"query"} /\ m.uses = {}
        /\ DOMAIN m.results = {}
    BY <1>1, UserFields
  <1> HIDE DEF m
  <1>3. IsQuery(m)
    BY <1>2 DEF IsQuery
  <1>4. QED
    BY <1>2, <1>3 DEF m

\* A history about some calls is a history.
LEMMA MessagesOf ==
    ASSUME NEW ids, NEW ms \in Seq(MessageOf(ids))
    PROVE  ms \in Seq(Message)
  BY DEF MessageOf

\* The turns of a history are finitely many, and at least one.
LEMMA StartsCounted ==
    ASSUME NEW ms \in Seq(Message)
    PROVE  /\ TurnStarts(ms) \in SUBSET (1..Len(ms)) /\ Cardinality(TurnStarts(ms)) \in Nat
           /\ ms # <<>> => Cardinality(TurnStarts(ms)) >= 1
  <1> DEFINE starts == TurnStarts(ms)
  <1>1. Len(ms) \in Nat /\ DOMAIN ms = 1..Len(ms) /\ (ms # <<>> => 1 \in 1..Len(ms))
    OBVIOUS
  <1>2. starts \in SUBSET (1..Len(ms)) /\ (ms # <<>> => 1 \in starts)
    BY <1>1 DEF TurnStarts
  <1> HIDE DEF starts
  <1>3. IsFiniteSet(starts)
    <2>1. IsFiniteSet(1..Len(ms))
      BY <1>1, FS_Interval
    <2>2. QED
      BY <1>2, <2>1, FS_Subset
  <1>4. Cardinality(starts) \in Nat /\ (Cardinality(starts) = 0 <=> starts = {})
    BY <1>3, FS_CardinalityType, FS_EmptySet
  <1>5. QED
    BY <1>2, <1>4 DEF starts

\* The last k turns are what is left by a cut before a query.
LEMMA LastTurnsCut ==
    ASSUME NEW ms \in Seq(Message), ms # <<>>, NEW k \in 1..Cardinality(TurnStarts(ms))
    PROVE  \E from \in 1..Len(ms) :
              /\ LastTurns(ms, k) = SubSeq(ms, from, Len(ms))
              /\ from = 1 \/ DOMAIN ms[from].results = {}
  <1> DEFINE starts == TurnStarts(ms)
             from == CHOOSE i \in starts : Cardinality({j \in starts : j >= i}) = k
  <1>1. Len(ms) \in Nat /\ starts \in SUBSET (1..Len(ms))
    BY StartsCounted
  <1>2. \E i \in starts : Cardinality({j \in starts : j >= i}) = k
    <2> HIDE DEF starts
    <2>1. k \in 1..Cardinality(starts)
      BY DEF starts
    <2>2. QED
      BY <1>1, <2>1, Ranked
  <1>3. from \in starts
    <2> HIDE DEF starts
    <2>1. QED
      BY <1>2
  <1>4. LastTurns(ms, k) = SubSeq(ms, from, Len(ms))
    BY DEF LastTurns
  <1> HIDE DEF from
  <1>5. from = 1 \/ DOMAIN ms[from].results = {}
    BY <1>3 DEF TurnStarts, IsQuery
  <1>6. QED
    BY <1>1, <1>3, <1>4, <1>5

\* A cut at a turn keeps the query at the end,
LEMMA LastTurnsAsk ==
    ASSUME NEW ids, NEW ms, Asks(ms, ids), NEW k \in 1..Cardinality(TurnStarts(ms))
    PROVE  Asks(LastTurns(ms, k), ids)
  <1>1. ms \in Seq(Message) /\ ms \in Seq(MessageOf(ids)) /\ ms # <<>> /\ Answerable(ms)
        /\ ms[Len(ms)] = User({"query"})
    BY MessagesOf DEF Asks
  <1>2. PICK from \in 1..Len(ms) :
              /\ LastTurns(ms, k) = SubSeq(ms, from, Len(ms))
              /\ from = 1 \/ DOMAIN ms[from].results = {}
    BY <1>1, LastTurnsCut
  <1> DEFINE g == SubSeq(ms, from, Len(ms))
  <1>3. g # <<>> /\ g[Len(g)] = ms[Len(ms)] /\ Answerable(g)
    BY <1>1, <1>2, SuffixKeeps
  <1>4. g \in Seq(MessageOf(ids))
    <2>1. \A i \in from..Len(ms) : ms[i] \in MessageOf(ids)
      BY <1>1
    <2>2. from \in Int /\ Len(ms) \in Int
      BY <1>1
    <2>3. QED
      BY <2>1, <2>2, SubSeqProperties
  <1>5. QED
    BY <1>1, <1>2, <1>3, <1>4 DEF Asks

\* and so does the compression to texts, where no call is left.
LEMMA CompressAsks ==
    ASSUME NEW ids, NEW ms, Asks(ms, ids)
    PROVE  Asks(CompressTurns(ms), ids)
  <1> DEFINE says(i) == ms[i].role = "assistant" /\ ms[i].texts # {}
             closed(i, j) == \E q \in (i + 1)..j : IsQuery(ms[q])
             kept == {i \in DOMAIN ms : \/ IsQuery(ms[i])
                                        \/ says(i) /\ \A j \in (i + 1)..Len(ms) :
                                                         says(j) => closed(i, j)}
             plain(m) == [m EXCEPT !.uses = {}]
             texts == Pick(ms, kept)
             Kept == {ms[i] : i \in DOMAIN ms \cap kept}
             cs == [k \in DOMAIN texts |-> plain(texts[k])]
  <1>1. ms \in Seq(Message) /\ ms \in Seq(MessageOf(ids)) /\ ms # <<>>
        /\ ms[Len(ms)] = User({"query"}) /\ Len(ms) \in DOMAIN ms
    BY MessagesOf DEF Asks
  <1>2. CompressTurns(ms) = cs
    BY DEF CompressTurns
  <1>3. Len(ms) \in kept
    BY <1>1, QueryFields
  <1>4. ASSUME NEW i \in DOMAIN ms, i \in kept
        PROVE  ms[i] \in MessageOf(ids) /\ DOMAIN ms[i].results = {}
    <2>1. ms[i] \in MessageOf(ids) /\ ms[i] \in Message
      BY <1>1
    <2>2. IsQuery(ms[i]) \/ ms[i].role = "assistant"
      BY <1>4
    <2>3. QED
      BY <2>1, <2>2 DEF IsQuery, Message
  <1> HIDE DEF kept
  <1>5. texts \in Seq(Kept) /\ texts # <<>> /\ texts[Len(texts)] = ms[Len(ms)]
    BY <1>1, <1>3, PickSome
  <1>6. \A m \in Kept : m \in MessageOf(ids) /\ DOMAIN m.results = {}
    BY <1>4
  <1> HIDE DEF Kept, texts
  <1>7. ASSUME NEW m \in Kept
        PROVE  plain(m) \in MessageOf(ids) /\ DOMAIN plain(m).results = {}
    <2>1. m \in Message /\ Ids(m) \subseteq ids /\ DOMAIN m.results = {}
      BY <1>6 DEF MessageOf
    <2>2. plain(m) \in Message /\ plain(m).results = m.results /\ plain(m).uses = {}
      BY <2>1 DEF Message
    <2> HIDE DEF plain
    <2>3. Ids(plain(m)) = {}
      BY <2>1, <2>2 DEF Ids
    <2>4. QED
      BY <2>1, <2>2, <2>3 DEF MessageOf
  <1>8. \A k \in DOMAIN texts : texts[k] \in Kept
    BY <1>5
  <1>9. /\ cs \in Seq(MessageOf(ids)) /\ Len(cs) = Len(texts)
        /\ \A k \in DOMAIN cs : DOMAIN cs[k].results = {} /\ cs[k] = plain(texts[k])
    <2>1. Len(texts) \in Nat /\ DOMAIN texts = 1..Len(texts)
      BY <1>5
    <2> HIDE DEF plain
    <2>2. \A k \in 1..Len(texts) : plain(texts[k]) \in MessageOf(ids)
                                   /\ DOMAIN plain(texts[k]).results = {}
      BY <1>7, <1>8, <2>1
    <2>3. QED
      BY <2>1, <2>2
  <1>10. plain(User({"query"})) = User({"query"})
    BY QueryFields DEF Message
  <1> HIDE DEF cs, plain
  <1>11. cs # <<>> /\ cs[Len(cs)] = User({"query"})
    <2>1. Len(texts) \in Nat \ {0}
      BY <1>5
    <2>2. Len(cs) \in DOMAIN cs
      BY <1>9, <2>1
    <2>3. QED
      BY <1>1, <1>5, <1>9, <1>10, <2>1, <2>2
  <1>12. Answerable(cs)
    BY <1>9 DEF Answerable
  <1>13. QED
    BY <1>2, <1>9, <1>11, <1>12 DEF Asks

\* Whatever the trimming leaves ends with the query.
LEMMA TrimsAsk ==
    ASSUME NEW ids, NEW ms, Asks(ms, ids), NEW kept \in Trims(ms)
    PROVE  Asks(kept, ids)
  <1> DEFINE N(m) == Cardinality(TurnStarts(m))
             halved(m) == LastTurns(m, N(m) - N(m) \div 2)
             byTurns == IF N(ms) > MaxContextTurns THEN halved(ms) ELSE ms
             short == N(byTurns) < KeepTurns
  <1>1. ASSUME NEW m, Asks(m, ids) PROVE Asks(halved(m), ids)
    <2>1. m \in Seq(Message) /\ m # <<>>
      BY <1>1, MessagesOf DEF Asks
    <2>2. N(m) \in Nat /\ N(m) >= 1
      BY <2>1, StartsCounted
    <2> HIDE DEF N
    <2>3. N(m) - N(m) \div 2 \in 1..N(m)
      BY <2>2
    <2>4. QED
      BY <1>1, <2>3, LastTurnsAsk DEF N
  <1>2. kept = byTurns \/ kept = CompressTurns(byTurns) \/ kept = halved(byTurns)
    BY DEF Trims
  <1> HIDE DEF halved
  <1>3. Asks(byTurns, ids)
    BY <1>1
  <1> HIDE DEF byTurns
  <1>4. QED
    BY <1>1, <1>2, <1>3, CompressAsks

\* What a run starts with.
THEOREM StartPairs ==
    ASSUME NEW ids, NEW before \in Seq(MessageOf(ids)), Answerable(before),
           NEW kept \in Trims(Append(before, User({"query"})))
    PROVE  LET rs == Sanitize(kept)
           IN /\ rs \in Seq(MessageOf(ids)) /\ rs # <<>> /\ Unbroken(rs)
              /\ Owes(rs) = {} /\ rs[Len(rs)].texts = {"query"}
  <1> DEFINE ms == Append(before, User({"query"}))
  <1>1. User({"query"}) \in MessageOf(ids)
    BY QueryFields DEF MessageOf, Ids
  <1>2. ms \in Seq(MessageOf(ids)) /\ ms # <<>> /\ ms[Len(ms)] = User({"query"})
    BY <1>1
  <1>3. Answerable(ms)
    BY QueryFields, MessagesOf, AppendAnswerable
  <1>4. Asks(ms, ids)
    BY <1>2, <1>3 DEF Asks
  <1> HIDE DEF ms
  <1>5. Asks(kept, ids)
    BY <1>4, TrimsAsk DEF ms
  <1>6. kept[Len(kept)].role = "user" /\ kept[Len(kept)].texts = {"query"}
    BY <1>5, QueryFields DEF Asks
  <1>7. QED
    BY <1>5, <1>6, SanitizePairs DEF Asks

----------------------------------------------------------------------------
(* The invariant.                                                          *)

\* The calls of this run and of the runs before it
Known == {c \in CallIds : c[1] <= run}

\* The loop is between an answer and what becomes of its calls.
Acting == pc \in {"tools", "tool", "gather"}

\* An answer of this turn is awaited or being worked on.
Asking ==
    \/ pc \in {"answered", "tools", "tool", "gather"}
    \/ pc \in {"call", "stream"} /\ request.why # "summary"

\* The query of the run stands behind runStart, or was trimmed away.
QueryAt(h, start) ==
    /\ \A i \in (start + 2)..Len(h) : "query" \notin h[i].texts
    /\ "query" \in h[start + 1].texts \/ start = 0

\* The history of this run may become h: every call in it is answered, ...
Whole(h) ==
    /\ h \in Seq(MessageOf(Known)) /\ h # <<>> /\ Unbroken(h)
    /\ runStart < Len(h) /\ QueryAt(h, runStart)

\* (in a run that is ended, not all of them are), ...
Standing(h) ==
    /\ h \in Seq(MessageOf(Known)) /\ Answerable(h)
    /\ runStart < Len(h) /\ QueryAt(h, runStart)

\* ... truthfully, and before some turn, ...
Tells(h, bound) ==
    \A i \in DOMAIN h : \A c \in DOMAIN h[i].results :
        c[1] = run => (h[i].results[c] = "real") = (c \in ran) /\ c[2] < bound

\* ... and no instruction stands in it twice, or without having been accepted.
ToldIn(h, s) == {i \in (runStart + 1)..Len(h) : s \in h[i].texts}

Once(h) ==
    \A s \in Steers :
        /\ ToldIn(h, s) # {} => s \in inbox.keys
        /\ \A i, j \in ToldIn(h, s) : i = j

\* What the last answer still has to get, and the turns that are over
Due == IF pc = "answered" \/ Acting THEN Asked ELSE {}
Bound == IF Asking THEN turn ELSE turn + 1

Inboxes == [accepting : BOOLEAN, pending : Seq(Steers), keys : SUBSET Steers]

Types ==
    /\ run \in 0..MaxRuns /\ pc \in Stages /\ outcome \in Outcomes
    /\ origLen \in Nat /\ runStart \in Nat /\ promptAt \in Nat
    /\ turn \in 0..MaxTurns
    /\ request \in [why : Contexts, retryEmpty : BOOLEAN, retries : 0..MaxRetries,
                     overflowed : BOOLEAN, held : 0..MaxRetries]
    /\ answer \in [text : BOOLEAN, calls : 0..MaxCalls]
    /\ index \in 0..MaxCalls /\ failures \in Nat /\ cancelled \in BOOLEAN
    /\ inbox \in Inboxes /\ Len(inbox.pending) <= MaxPending
    /\ effort \in 0..MaxEffort
    /\ messages \in Seq(Message) /\ fresh \in Seq(Message) /\ history \in Seq(Message)
    /\ results \in Message /\ results.role = "user"
    /\ ran \subseteq CallIds /\ late \in 0..MaxCalls /\ shown \subseteq Steers

\* What the stages of the loop say of its variables
Progress ==
    /\ request.held <= request.retries
    /\ pc \in {"answered", "finish", "closing"} \/ Acting => request.why # "summary"
    /\ pc # "idle" => outcome = "none" /\ run # 0
    /\ pc = "idle" => history = <<>> /\ turn = 0 /\ request = NoRequest
    /\ pc \notin {"idle", "top"} => turn # 0
    /\ pc = "answered" => index = 1
    /\ Acting => index \in 1..answer.calls

\* The results that are being gathered, of the calls up to the current one
Gathering ==
    /\ pc \in {"tools", "tool"} =>
         results.texts = {} /\ DOMAIN results.results = Calls(index - 1)
    /\ pc = "gather" => DOMAIN results.results = Asked /\ results.texts \subseteq Steers
    /\ ~Acting => results = User({})

Sound == messages \in Seq(MessageOf(Known)) /\ Answerable(messages)

Kept ==
    pc # "idle" =>
        Whole(history) /\ Owes(history) = Due /\ Tells(history, Bound) /\ Once(history)

\* The calls whose tools have run, and where their results are
Truthful ==
    pc # "idle" =>
        /\ \A c \in ran : c[1] = run /\ c[2] <= turn
        /\ \A c \in ran : Asking /\ c[2] = turn => Acting /\ c \in DOMAIN results.results
        /\ \A c \in DOMAIN results.results : (results.results[c] = "real") = (c \in ran)

\* An accepted instruction waits, or is about to be told, or is told.
Noticed ==
    /\ Notes \subseteq inbox.keys
    /\ pc = "idle" => ~inbox.accepting
    /\ \A s \in Steers :
         /\ ToldIn(history, s) # {} => s \notin Notes
         /\ s \in results.texts => s \in inbox.keys /\ s \notin Notes /\ ToldIn(history, s) = {}
    /\ pc # "idle" => inbox.keys \subseteq Notes \cup shown \cup Texts(history) \cup results.texts
    /\ pc \in {"stream", "answered", "finish", "closing"} \/ Acting =>
         Steers \cap Texts(history) \subseteq shown
    /\ pc \in {"call", "stream"} /\ request.why = "summary" => Notes = {} /\ ~inbox.accepting
    /\ pc = "idle" /\ outcome = "completed" /\ ~cancelled => inbox.keys \subseteq shown

Orderly ==
    /\ late <= 1 /\ (late = 1 => cancelled) /\ (pc = "tool" => late = 0)
    /\ pc = "idle" /\ outcome = "cancelled" => RunIsPublished

\* The prompt is the last message while its answer is awaited; once the history
\* has been trimmed, nothing but an answer can stand where it was put.
Prompted ==
    pc \in {"call", "stream"} /\ request.why # "main" =>
        \/ promptAt >= Len(history)
        \/ /\ promptAt + 1 = Len(history) /\ runStart < promptAt
           /\ history[promptAt + 1] = User({"prompt"})

Inv ==
    /\ Types /\ Progress /\ Gathering /\ Sound /\ Kept /\ Truthful /\ Noticed
    /\ Orderly /\ Prompted

\* What a whole history is made of
LEMMA KnownHistory ==
    ASSUME NEW h, Whole(h)
    PROVE  /\ h \in Seq(MessageOf(Known)) /\ h \in Seq(Message) /\ h # <<>>
           /\ Len(h) \in Nat \ {0} /\ DOMAIN h = 1..Len(h)
           /\ \A i \in 1..Len(h) : h[i] \in Message /\ Ids(h[i]) \subseteq Known
  <1>1. h \in Seq(MessageOf(Known)) /\ h # <<>>
    BY DEF Whole
  <1>2. Len(h) \in Nat \ {0} /\ DOMAIN h = 1..Len(h)
        /\ \A i \in 1..Len(h) : h[i] \in MessageOf(Known)
    BY <1>1
  <1>3. h \in Seq(Message)
    BY <1>1, MessagesOf
  <1>4. QED
    BY <1>1, <1>2, <1>3 DEF MessageOf

\* The calls of an answer
LEMMA CallsKnown ==
    ASSUME Inv, pc \notin {"idle", "top", "limit"}, NEW n \in 0..MaxCalls
    PROVE  /\ Calls(n) \in SUBSET CallIds /\ Calls(n) \subseteq Known
           /\ \A c \in Calls(n) : c[1] = run /\ c[2] = turn
  <1>1. run \in 1..MaxRuns /\ turn \in 1..MaxTurns /\ request.why \in Contexts
    BY LimitsAssumption DEF Inv, Types, Progress
  <1>2. \A k \in 1..n : k \in 1..MaxCalls
    BY LimitsAssumption
  <1>3. \A k \in 1..n : <<run, turn, request.why, k>> \in CallIds
    BY <1>1, <1>2 DEF CallIds
  <1>4. Calls(n) \in SUBSET CallIds /\ \A c \in Calls(n) : c[1] = run /\ c[2] = turn
    BY <1>3 DEF Calls
  <1>5. QED
    BY <1>1, <1>4 DEF Known

\* The history with one more message
LEMMA WholeAppend ==
    ASSUME NEW h, Whole(h), runStart \in Nat, NEW m \in Message, Ids(m) \subseteq Known,
           DOMAIN m.results = Owes(h), "query" \notin m.texts
    PROVE  /\ Whole(Append(h, m)) /\ Owes(Append(h, m)) = m.uses
           /\ Append(h, m) \in Seq(Message)
  <1> DEFINE g == Append(h, m)
             L == Len(h)
  <1>1. /\ h \in Seq(MessageOf(Known)) /\ h \in Seq(Message) /\ h # <<>>
        /\ L \in Nat \ {0} /\ Unbroken(h) /\ runStart < L /\ QueryAt(h, runStart)
    BY KnownHistory DEF Whole
  <1>2. Unbroken(g) /\ Owes(g) = m.uses /\ g \in Seq(Message) /\ g # <<>>
    BY <1>1, AppendUnbroken
  <1>3. m \in MessageOf(Known)
    BY DEF MessageOf
  <1>4. g \in Seq(MessageOf(Known)) /\ Len(g) = L + 1 /\ g[L + 1] = m
        /\ \A i \in 1..L : g[i] = h[i]
    BY <1>1, <1>3
  <1> HIDE DEF g, L
  <1>5. QueryAt(g, runStart)
    <2>1. ASSUME NEW i \in (runStart + 2)..(L + 1) PROVE "query" \notin g[i].texts
      <3>1. CASE i = L + 1
        BY <1>4, <3>1
      <3>2. CASE i # L + 1
        <4>1. i \in (runStart + 2)..L /\ i \in 1..L
          BY <1>1, <3>2
        <4>2. QED
          BY <1>1, <1>4, <4>1 DEF QueryAt, L
      <3>3. QED
        BY <3>1, <3>2
    <2>2. runStart + 1 \in 1..L
      BY <1>1
    <2>3. QED
      BY <1>1, <1>4, <2>1, <2>2 DEF QueryAt
  <1>6. runStart < Len(g)
    BY <1>1, <1>4
  <1>7. QED
    BY <1>2, <1>4, <1>5, <1>6 DEF Whole, g

\* A run that is ended may leave a call without its result.
LEMMA WholeStands ==
    ASSUME NEW h, Whole(h)
    PROVE  Standing(h)
  BY DEF Whole, Standing, Unbroken

\* ... also when another message is appended.
LEMMA StandingAppend ==
    ASSUME NEW h, Standing(h), runStart \in Nat, NEW m \in Message, Ids(m) \subseteq Known,
           DOMAIN m.results \subseteq Owes(h), "query" \notin m.texts
    PROVE  Standing(Append(h, m)) /\ Owes(Append(h, m)) = m.uses
  <1> DEFINE g == Append(h, m)
             L == Len(h)
  <1>1. /\ h \in Seq(MessageOf(Known)) /\ h \in Seq(Message)
        /\ L \in Nat /\ Answerable(h) /\ runStart < L /\ QueryAt(h, runStart)
    BY MessagesOf DEF Standing
  <1>2. Answerable(g)
    BY <1>1, AppendAnswerable
  <1>3. m \in MessageOf(Known)
    BY DEF MessageOf
  <1>4. g \in Seq(MessageOf(Known)) /\ Len(g) = L + 1 /\ g[L + 1] = m
        /\ \A i \in 1..L : g[i] = h[i]
    BY <1>1, <1>3
  <1> HIDE DEF g, L
  <1>5. QueryAt(g, runStart)
    <2>1. ASSUME NEW i \in (runStart + 2)..(L + 1) PROVE "query" \notin g[i].texts
      <3>1. CASE i = L + 1
        BY <1>4, <3>1
      <3>2. CASE i # L + 1
        <4>1. i \in (runStart + 2)..L /\ i \in 1..L
          BY <1>1, <3>2
        <4>2. QED
          BY <1>1, <1>4, <4>1 DEF QueryAt, L
      <3>3. QED
        BY <3>1, <3>2
    <2>2. runStart + 1 \in 1..L
      BY <1>1
    <2>3. QED
      BY <1>1, <1>4, <2>1, <2>2 DEF QueryAt
  <1>6. runStart < Len(g) /\ Len(g) \in Nat /\ Len(g) # 0
    BY <1>1, <1>4
  <1>7. g # <<>> /\ Owes(g) = m.uses
    BY <1>4, <1>6 DEF Owes
  <1>8. QED
    BY <1>2, <1>4, <1>5, <1>6, <1>7 DEF Standing, g

\* One more message that tells the truth, of results of earlier turns
LEMMA TellsAppend ==
    ASSUME NEW h \in Seq(Message), NEW bound, Tells(h, bound), NEW m,
           \A c \in DOMAIN m.results :
               c[1] = run => (m.results[c] = "real") = (c \in ran) /\ c[2] < bound
    PROVE  Tells(Append(h, m), bound)
  <1> DEFINE g == Append(h, m)
             L == Len(h)
  <1>1. L \in Nat /\ DOMAIN h = 1..L /\ DOMAIN g = 1..(L + 1) /\ g[L + 1] = m
        /\ \A i \in 1..L : g[i] = h[i]
    OBVIOUS
  <1> HIDE DEF g, L
  <1>2. \A i \in 1..(L + 1) : i \in 1..L \/ i = L + 1
    BY <1>1
  <1>3. QED
    BY <1>1, <1>2 DEF Tells, g

\* The texts of a history with one more message
LEMMA TextsAppend ==
    ASSUME NEW h \in Seq(Message), NEW m
    PROVE  Texts(Append(h, m)) = Texts(h) \cup m.texts
  <1> DEFINE g == Append(h, m)
             L == Len(h)
  <1>1. L \in Nat /\ DOMAIN h = 1..L /\ DOMAIN g = 1..(L + 1) /\ g[L + 1] = m
        /\ \A i \in 1..L : g[i] = h[i]
    OBVIOUS
  <1> HIDE DEF g, L
  <1>2. 1..(L + 1) = 1..L \cup {L + 1}
    BY <1>1
  <1>3. QED
    BY <1>1, <1>2 DEF Texts, g

\* Where an instruction stands in it
LEMMA ToldAppend ==
    ASSUME NEW h \in Seq(Message), runStart \in Nat, runStart < Len(h), NEW m, NEW s
    PROVE  ToldIn(Append(h, m), s) =
             ToldIn(h, s) \cup (IF s \in m.texts THEN {Len(h) + 1} ELSE {})
  <1> DEFINE g == Append(h, m)
             L == Len(h)
  <1>1. L \in Nat /\ Len(g) = L + 1 /\ g[L + 1] = m
        /\ \A i \in 1..L : g[i] = h[i]
    OBVIOUS
  <1> HIDE DEF g, L
  <1>2. (runStart + 1)..(L + 1) = (runStart + 1)..L \cup {L + 1}
        /\ \A i \in (runStart + 1)..L : i \in 1..L
    BY <1>1 DEF L
  <1>3. QED
    BY <1>1, <1>2 DEF ToldIn, g, L

\* It may bring instructions that were accepted and not told before.
LEMMA OnceAppend ==
    ASSUME NEW h \in Seq(Message), runStart \in Nat, runStart < Len(h), Once(h), NEW m,
           \A s \in m.texts \cap Steers : s \in inbox.keys /\ ToldIn(h, s) = {}
    PROVE  Once(Append(h, m))
  <1>1. ASSUME NEW s \in Steers
        PROVE  /\ ToldIn(Append(h, m), s) # {} => s \in inbox.keys
               /\ \A i, j \in ToldIn(Append(h, m), s) : i = j
    <2>1. CASE s \in m.texts
      <3>1. ToldIn(Append(h, m), s) = {Len(h) + 1} /\ s \in inbox.keys
        BY <2>1, ToldAppend
      <3>2. QED
        BY <3>1
    <2>2. CASE s \notin m.texts
      <3>1. ToldIn(Append(h, m), s) = ToldIn(h, s) \cup {}
        BY <2>2, ToldAppend
      <3>2. ToldIn(Append(h, m), s) = ToldIn(h, s)
        BY <3>1
      <3>3. QED
        BY <3>2 DEF Once
    <2>3. QED
      BY <2>1, <2>2
  <1>2. QED
    BY <1>1 DEF Once

\* A step that puts such a history in place, of a run that keeps what has run
LEMMA KeptBy ==
    ASSUME NEW h, NEW b \in Nat, Whole(h), Tells(h, b), Once(h),
           history' = h, run' = run, runStart' = runStart, ran' = ran,
           inbox.keys \subseteq inbox'.keys, Bound' \in Nat, b <= Bound', Owes(h) = Due'
    PROVE  Kept'
  <1>1. Whole(history)'
    BY DEF Whole, Known
  <1>2. Once(history)'
    BY DEF Once, ToldIn
  <1>3. Tells(history, Bound)'
    <2>1. ASSUME NEW i \in DOMAIN h, NEW c \in DOMAIN h[i].results, c[1] = run
          PROVE  (h[i].results[c] = "real") = (c \in ran) /\ c[2] < Bound'
      <3>1. (h[i].results[c] = "real") = (c \in ran) /\ c[2] < b
        BY <2>1 DEF Tells
      <3>2. c[2] \in Nat
        <4>1. i \in 1..Len(h)
          BY <2>1, KnownHistory
        <4>2. Ids(h[i]) \subseteq Known
          BY <4>1, KnownHistory
        <4>3. c \in CallIds
          BY <2>1, <4>2 DEF Ids, Known
        <4>4. QED
          BY <4>3 DEF CallIds
      <3>3. QED
        BY <3>1, <3>2
    <2>2. QED
      BY <2>1 DEF Tells
  <1>4. Owes(history)' = Due'
    BY DEF Owes
  <1>5. QED
    BY <1>1, <1>2, <1>3, <1>4 DEF Kept

----------------------------------------------------------------------------
(* The ends of a run.                                                      *)

\* The invariant holds before the first run.
LEMMA InitInv == Init => Inv
  <1> SUFFICES ASSUME Init PROVE Inv
    OBVIOUS
  <1>1. User({}) \in Message /\ User({}).role = "user"
    BY UserFields
  <1>2. Types
    <2>1. <<>> \in Seq(Message) /\ NoInbox \in Inboxes /\ Len(NoInbox.pending) = 0
      BY DEF NoInbox, Inboxes
    <2>2. NoRequest \in [why : Contexts, retryEmpty : BOOLEAN, retries : 0..MaxRetries,
                     overflowed : BOOLEAN, held : 0..MaxRetries]
      BY LimitsAssumption DEF NoRequest, Contexts
    <2>3. NoAnswer \in [text : BOOLEAN, calls : 0..MaxCalls]
      BY LimitsAssumption DEF NoAnswer
    <2>4. /\ run \in 0..MaxRuns /\ pc \in Stages /\ outcome \in Outcomes
          /\ origLen \in Nat /\ runStart \in Nat /\ promptAt \in Nat
          /\ turn \in 0..MaxTurns /\ index \in 0..MaxCalls /\ failures \in Nat
          /\ cancelled \in BOOLEAN /\ effort \in 0..MaxEffort
          /\ ran \subseteq CallIds /\ late \in 0..MaxCalls /\ shown \subseteq Steers
      <3>1. /\ 0 \in 0..MaxRuns /\ 0 \in 0..MaxTurns /\ 0 \in 0..MaxCalls
            /\ 0 \in 0..MaxEffort
        BY LimitsAssumption
      <3>2. "idle" \in Stages /\ "none" \in Outcomes
        BY DEF Stages, Outcomes
      <3>3. QED
        BY <3>1, <3>2 DEF Init
    <2>5. inbox \in Inboxes /\ Len(inbox.pending) <= MaxPending
      BY <2>1, LimitsAssumption DEF Init
    <2>6. /\ messages \in Seq(Message) /\ fresh \in Seq(Message) /\ history \in Seq(Message)
          /\ results \in Message /\ results.role = "user"
      BY <1>1, <2>1 DEF Init
    <2>7. QED
      BY <2>2, <2>3, <2>4, <2>5, <2>6 DEF Init, Types
  <1>3. Progress /\ Gathering
    BY DEF Init, Progress, Gathering, Acting, NoRequest
  <1>4. Sound /\ Kept /\ Truthful /\ Orderly /\ Prompted
    BY DEF Init, Sound, Answerable, Kept, Truthful, Orderly, Prompted
  <1>5. Noticed
    <2>1. Notes = {} /\ inbox.keys = {} /\ ~inbox.accepting
      BY DEF Init, NoInbox, Notes, ToSet
    <2>2. results.texts = {} /\ pc = "idle" /\ outcome = "none"
      BY <1>1, UserFields DEF Init
    <2>3. QED
      BY <2>1, <2>2 DEF Noticed, Acting
  <1>6. QED
    BY <1>2, <1>3, <1>4, <1>5 DEF Inv

\* Cut at runStart, or from the start, the history begins with the query.
LEMMA Published ==
    ASSUME NEW h \in Seq(Message), NEW start \in Nat, start < Len(h), QueryAt(h, start)
    PROVE  LET queries == {i \in DOMAIN h : "query" \in h[i].texts}
               first == IF queries = {} THEN 1
                        ELSE CHOOSE i \in queries : \A j \in queries : j <= i
           IN first = start + 1
  <1> DEFINE queries == {i \in DOMAIN h : "query" \in h[i].texts}
             Latest(i) == i \in queries /\ \A j \in queries : j <= i
  <1>1. Len(h) \in Nat \ {0} /\ DOMAIN h = 1..Len(h) /\ start + 1 \in 1..Len(h)
    OBVIOUS
  <1>2. \A j \in queries : j \in Nat /\ j <= start + 1
    <2>1. SUFFICES ASSUME NEW j \in queries PROVE j \in Nat /\ j <= start + 1
      OBVIOUS
    <2>2. j \in 1..Len(h) /\ "query" \in h[j].texts
      BY <1>1
    <2>3. j \notin (start + 2)..Len(h)
      BY <2>2 DEF QueryAt
    <2> HIDE DEF queries
    <2>4. QED
      BY <1>1, <2>2, <2>3
  <1>3. CASE start + 1 \in queries
    <2> DEFINE i == CHOOSE i \in queries : \A j \in queries : j <= i
    <2> HIDE DEF queries
    <2>1. Latest(start + 1)
      BY <1>2, <1>3
    <2>2. i \in queries /\ \A j \in queries : j <= i
      BY <2>1
    <2> HIDE DEF i
    <2>3. i \in Nat /\ i <= start + 1 /\ start + 1 <= i
      BY <1>2, <1>3, <2>2
    <2>4. i = start + 1
      BY <2>3
    <2>5. QED
      BY <1>3, <2>4 DEF i, queries
  <1>4. CASE start + 1 \notin queries
    <2>1. start = 0
      BY <1>1, <1>4 DEF QueryAt
    <2>2. queries = {}
      <3>1. \A j \in queries : j >= 1
        BY <1>1
      <3> HIDE DEF queries
      <3>2. QED
        BY <1>2, <1>4, <2>1, <3>1
    <2>3. QED
      BY <2>1, <2>2
  <1>5. QED
    BY <1>3, <1>4

\* What a run hands over are messages.
LEMMA SuffixType ==
    ASSUME NEW h \in Seq(Message), NEW k \in Nat
    PROVE  SubSeq(h, k + 1, Len(h)) \in Seq(Message)
  <1>1. Len(h) \in Nat /\ \A i \in (k + 1)..Len(h) : h[i] \in Message
    OBVIOUS
  <1>2. QED
    BY <1>1, SubSeqProperties

\* A run may end with any history whose results have their calls; one that is
\* cancelled with its query in place, and one that completes with its mail shown.
LEMMA EndKeeps ==
    ASSUME Inv, NEW how \in {"completed", "critical", "cancelled", "failed"}, NEW h,
           pc # "idle", End(how, h), h \in Seq(MessageOf(Known)), Answerable(h),
           how = "cancelled" => Standing(h),
           how = "completed" /\ ~cancelled => inbox.keys \subseteq shown,
           UNCHANGED runGhosts, effort' \in 0..MaxEffort
    PROVE  Inv'
  <1>1. User({}) \in Message /\ User({}).role = "user" /\ User({}).texts = {}
    BY UserFields
  <1>2. h \in Seq(Message) /\ <<>> \in Seq(Message)
    BY MessagesOf
  <1>3. /\ pc' = "idle" /\ outcome' = how /\ history' = <<>> /\ turn' = 0 /\ request' = NoRequest
        /\ promptAt' = 0 /\ answer' = NoAnswer /\ index' = 0 /\ results' = User({})
        /\ failures' = 0 /\ runStart' = 0 /\ run' = run /\ origLen' = origLen
        /\ cancelled' = cancelled /\ inbox' = [inbox EXCEPT !.accepting = FALSE]
        /\ ran' = ran /\ late' = late /\ shown' = shown
    BY DEF End, runGhosts
  <1>4. /\ inbox \in Inboxes /\ inbox' \in Inboxes /\ ~inbox'.accepting
        /\ inbox'.keys = inbox.keys /\ inbox'.pending = inbox.pending
    <2>1. inbox \in Inboxes
      BY DEF Inv, Types
    <2>2. QED
      BY <1>3, <2>1 DEF Inboxes
  <1>5. messages' = h \/ messages' = messages
    BY DEF End
  <1>6. fresh' \in Seq(Message)
    <2>1. CASE how = "failed"
      BY <2>1 DEF End, Inv, Types
    <2>2. CASE how = "cancelled"
      <3>1. fresh' = SubSeq(h, runStart + 1, Len(h))
        BY <2>2 DEF End, CancelledMessages
      <3>2. runStart \in Nat
        BY DEF Inv, Types
      <3>3. QED
        BY <1>2, <3>1, <3>2, SuffixType
    <2>3. CASE how \notin {"failed", "cancelled"}
      <3>1. fresh' = ReturnedMessages(h)
        BY <2>3 DEF End
      <3> DEFINE k == IF origLen < Len(h) THEN origLen ELSE Len(h)
      <3>2. k \in Nat
        BY <1>2 DEF Inv, Types
      <3>3. fresh' = SubSeq(h, k + 1, Len(h))
        BY <3>1 DEF ReturnedMessages
      <3> HIDE DEF k
      <3>4. QED
        BY <1>2, <3>2, <3>3, SuffixType
    <2>4. QED
      BY <2>1, <2>2, <2>3
  <1>7. Types'
    <2>1. NoRequest \in [why : Contexts, retryEmpty : BOOLEAN, retries : 0..MaxRetries,
                     overflowed : BOOLEAN, held : 0..MaxRetries]
      BY LimitsAssumption DEF NoRequest, Contexts
    <2>2. NoAnswer \in [text : BOOLEAN, calls : 0..MaxCalls]
      BY LimitsAssumption DEF NoAnswer
    <2>3. /\ run \in 0..MaxRuns /\ origLen \in Nat /\ cancelled \in BOOLEAN
          /\ Len(inbox.pending) <= MaxPending /\ messages \in Seq(Message)
          /\ ran \subseteq CallIds /\ late \in 0..MaxCalls /\ shown \subseteq Steers
      BY DEF Inv, Types
    <2>4. messages' \in Seq(Message)
      BY <1>2, <1>5, <2>3
    <2>5. how \in Outcomes /\ "idle" \in Stages /\ 0 \in 0..MaxTurns /\ 0 \in 0..MaxCalls
      BY LimitsAssumption DEF Outcomes, Stages
    <2>6. history' \in Seq(Message) /\ results' \in Message /\ results'.role = "user"
      BY <1>1, <1>2, <1>3
    <2>7. QED
      BY <1>3, <1>4, <1>6, <2>1, <2>2, <2>3, <2>4, <2>5, <2>6 DEF Types
  <1>8. Progress' /\ Gathering' /\ Kept' /\ Truthful' /\ Prompted'
    BY <1>3 DEF Progress, Gathering, Kept, Truthful, Prompted, NoRequest, Acting
  <1>9. Sound'
    <2>1. Sound
      BY DEF Inv
    <2>2. messages' \in Seq(MessageOf(Known)) /\ Answerable(messages')
      BY <1>5, <2>1 DEF Sound
    <2>3. Known' = Known
      BY <1>3 DEF Known
    <2>4. MessageOf(Known)' = MessageOf(Known) /\ Answerable(messages)' = Answerable(messages')
      BY <2>3 DEF MessageOf, Answerable
    <2>5. QED
      BY <2>2, <2>4 DEF Sound
  <1>10. Noticed'
    <2>1. Notes' = Notes
      BY <1>4 DEF Notes
    <2>2. \A s : ToldIn(history, s)' = {}
      BY <1>3 DEF ToldIn
    <2>3. results'.texts = {}
      BY <1>1, <1>3
    <2>4. Notes \subseteq inbox.keys
      BY DEF Inv, Noticed
    <2>5. QED
      BY <1>3, <1>4, <2>1, <2>2, <2>3, <2>4 DEF Noticed, Acting
  <1>11. Orderly'
    <2>1. late <= 1 /\ (late = 1 => cancelled)
      BY DEF Inv, Orderly
    <2>2. ASSUME how = "cancelled" PROVE RunIsPublished'
      <3>1. messages' = h /\ fresh' = SubSeq(h, runStart + 1, Len(h))
        BY <2>2 DEF End, CancelledMessages
      <3>2. runStart \in Nat /\ runStart < Len(h) /\ QueryAt(h, runStart)
        BY <2>2 DEF Inv, Types, Standing
      <3>3. LET queries == {i \in DOMAIN h : "query" \in h[i].texts}
               first == IF queries = {} THEN 1
                        ELSE CHOOSE i \in queries : \A j \in queries : j <= i
            IN first = runStart + 1
        BY <1>2, <3>2, Published
      <3>4. QED
        BY <3>1, <3>3 DEF RunIsPublished
    <2>3. QED
      BY <1>3, <2>1, <2>2 DEF Orderly
  <1>12. QED
    BY <1>7, <1>8, <1>9, <1>10, <1>11 DEF Inv

----------------------------------------------------------------------------
(* The start of a run, cancels and instructions.                           *)

\* A run starts with a paired history that ends with its query.
LEMMA StartStep ==
    ASSUME Inv, NEW clear \in BOOLEAN, Start(clear)
    PROVE  Inv'
  <1> DEFINE before == IF clear THEN <<>> ELSE messages
  <1>1. PICK kept \in Trims(Append(before, User({"query"}))) :
           history' = Sanitize(kept) /\ runStart' = Len(Sanitize(kept)) - 1
    BY DEF Start
  <1> DEFINE h == Sanitize(kept)
  <1>2. /\ pc = "idle" /\ run < MaxRuns /\ messages' = before /\ origLen' = Len(before)
        /\ history' = h /\ runStart' = Len(h) - 1
        /\ run' = run + 1 /\ pc' = "top" /\ outcome' = "none"
        /\ cancelled' = FALSE /\ inbox' = NewInbox
        /\ ran' = {} /\ late' = 0 /\ shown' = {}
        /\ UNCHANGED <<fresh, turn, request, promptAt, answer, index, results,
                       failures, effort>>
    BY <1>1 DEF Start
  <1>3. before \in Seq(MessageOf(Known)) /\ Answerable(before) /\ before \in Seq(Message)
    <2>1. messages \in Seq(MessageOf(Known)) /\ Answerable(messages)
      BY DEF Inv, Sound
    <2>2. <<>> \in Seq(MessageOf(Known)) /\ Answerable(<<>>)
      BY DEF Answerable
    <2>3. before \in Seq(MessageOf(Known)) /\ Answerable(before)
      BY <2>1, <2>2
    <2> HIDE DEF before
    <2>4. QED
      BY <2>3, MessagesOf
  <1> HIDE DEF before
  <1>4. /\ h \in Seq(MessageOf(Known)) /\ h # <<>> /\ Unbroken(h)
        /\ Owes(h) = {} /\ h[Len(h)].texts = {"query"}
    BY <1>3, StartPairs
  <1> HIDE DEF h
  <1>5. h \in Seq(Message) /\ Len(h) \in Nat \ {0} /\ DOMAIN h = 1..Len(h)
    BY <1>4, MessagesOf
  <1>6. run \in Nat /\ run + 1 \in 0..MaxRuns /\ run + 1 # 0
    BY <1>2, LimitsAssumption DEF Inv, Types
  <1>7. /\ Notes' = {} /\ NewInbox \in Inboxes /\ Len(NewInbox.pending) <= MaxPending
        /\ inbox'.keys = {}
    BY <1>2, LimitsAssumption DEF NewInbox, Inboxes, Notes, ToSet
  <1>8. results = User({}) /\ results.texts = {} /\ results.results = None
        /\ results \in Message /\ results.role = "user"
    BY <1>2, UserFields DEF Inv, Gathering, Acting
  <1>9. turn = 0 /\ request = NoRequest
    BY <1>2 DEF Inv, Progress
  <1>10. Types'
    <2>1. /\ run' \in 0..MaxRuns /\ pc' \in Stages /\ outcome' \in Outcomes
          /\ origLen' \in Nat /\ runStart' \in Nat /\ cancelled' \in BOOLEAN
          /\ late' \in 0..MaxCalls
      <3>1. Len(before) \in Nat /\ Len(h) - 1 \in Nat /\ 0 \in 0..MaxCalls
        BY <1>3, <1>5, LimitsAssumption
      <3>2. "top" \in Stages /\ "none" \in Outcomes
        BY DEF Stages, Outcomes
      <3>3. QED
        BY <1>2, <1>6, <3>1, <3>2
    <2>2. /\ messages' \in Seq(Message) /\ history' \in Seq(Message)
      BY <1>2, <1>3, <1>5
    <2>3. QED
      BY <1>2, <1>7, <1>8, <2>1, <2>2 DEF Inv, Types
  <1>11. Progress' /\ Gathering' /\ Prompted'
    BY <1>2, <1>6, <1>8, <1>9 DEF Progress, Gathering, Prompted, Acting, NoRequest
  <1>12. MessageOf(Known) \subseteq MessageOf(Known')
    <2>1. Known \subseteq Known'
      <3>1. \A c \in CallIds : c[1] \in Nat
        BY DEF CallIds
      <3>2. QED
        BY <1>2, <1>6, <3>1 DEF Known
    <2>2. QED
      BY <2>1 DEF MessageOf
  <1>13. Sound'
    <2>1. messages' \in Seq(MessageOf(Known'))
      BY <1>2, <1>3, <1>12, SeqMonotonic
    <2>2. QED
      BY <1>2, <1>3, <2>1 DEF Sound
  <1>14. \A s \in Steers : ToldIn(history, s)' = {}
    <2>1. SUFFICES ASSUME NEW s \in Steers PROVE ToldIn(history, s)' = {}
      OBVIOUS
    <2>2. s \notin {"query"}
      BY SteersAssumption DEF Tags
    <2>3. ToldIn(history, s)' = {i \in ((Len(h) - 1) + 1)..Len(h) : s \in h[i].texts}
      BY <1>2 DEF ToldIn
    <2>4. \A n \in Nat : \A i \in ((n - 1) + 1)..n : i = n
      OBVIOUS
    <2>5. \A i \in ((Len(h) - 1) + 1)..Len(h) : s \notin h[i].texts
      BY <1>4, <1>5, <2>2, <2>4
    <2>6. QED
      BY <2>3, <2>5
  <1>15. Kept'
    <2>1. Whole(history)'
      <3>1. h \in Seq(MessageOf(Known'))
        BY <1>4, <1>12, SeqMonotonic
      <3>2. QueryAt(h, Len(h) - 1)
        <4>1. (Len(h) - 1) + 1 = Len(h) /\ ((Len(h) - 1) + 2)..Len(h) = {}
          BY <1>5
        <4>2. QED
          BY <1>4, <4>1 DEF QueryAt
      <3>3. Len(h) - 1 < Len(h)
        BY <1>5
      <3>4. QED
        BY <1>2, <1>4, <3>1, <3>2, <3>3 DEF Whole
    <2>2. Tells(history, Bound)'
      <3>1. ASSUME NEW i \in DOMAIN h, NEW c \in DOMAIN h[i].results PROVE c[1] # run + 1
        <4>1. h[i] \in MessageOf(Known)
          BY <1>4, <1>5, <3>1
        <4>2. c \in CallIds /\ c[1] <= run
          BY <4>1 DEF MessageOf, Ids, Known
        <4>3. c[1] \in Nat
          BY <4>2 DEF CallIds
        <4>4. QED
          BY <1>6, <4>2, <4>3
      <3>2. QED
        BY <1>2, <3>1 DEF Tells
    <2>3. Once(history)'
      BY <1>14 DEF Once
    <2>4. Owes(history)' = Due'
      BY <1>2, <1>4 DEF Owes, Due, Acting
    <2>5. QED
      BY <2>1, <2>2, <2>3, <2>4 DEF Kept
  <1>16. Truthful'
    BY <1>2, <1>8, NoneType DEF Truthful
  <1>17. Noticed'
    BY <1>2, <1>7, <1>8, <1>14 DEF Noticed, Acting
  <1>18. Orderly'
    BY <1>2 DEF Orderly
  <1>19. QED
    BY <1>10, <1>11, <1>13, <1>15, <1>16, <1>17, <1>18 DEF Inv

\* A cancel only raises its flag.
LEMMA CancelStep ==
    ASSUME Inv, Cancel
    PROVE  Inv'
  <1>1. /\ pc # "idle" /\ cancelled' = TRUE
        /\ UNCHANGED <<msgVars, pc, history, loopVars, inbox, ghosts>>
    BY DEF Cancel
  <1>2. Types'
    BY <1>1 DEF Inv, Types, msgVars, loopVars, ghosts, runGhosts
  <1>3. Progress' /\ Gathering' /\ Prompted'
    BY <1>1 DEF Inv, Progress, Gathering, Prompted, Acting, Calls, Asked, Calls,
                msgVars, loopVars, ghosts, runGhosts
  <1>4. Sound' /\ Truthful'
    BY <1>1 DEF Inv, Sound, Known, Truthful, Asking, Acting,
                msgVars, loopVars, ghosts, runGhosts
  <1>5. Kept'
    BY <1>1 DEF Inv, Kept, Whole, Known, Tells, Once, ToldIn, Due, Bound, Asking, Acting,
                Calls, Asked, msgVars, loopVars, ghosts, runGhosts
  <1>6. Noticed' /\ Orderly'
    BY <1>1 DEF Inv, Noticed, Notes, ToldIn, Acting, Orderly,
                msgVars, loopVars, ghosts, runGhosts
  <1>7. QED
    BY <1>2, <1>3, <1>4, <1>5, <1>6 DEF Inv

\* An accepted instruction is new to the run, and waits.
LEMMA SubmitStep ==
    ASSUME Inv, NEW s \in Steers, Submit(s)
    PROVE  Inv'
  <1>1. /\ inbox.accepting /\ s \notin inbox.keys /\ Len(inbox.pending) < MaxPending
        /\ inbox' = [inbox EXCEPT !.pending = Append(@, s), !.keys = @ \cup {s}]
        /\ UNCHANGED <<msgVars, pc, history, loopVars, cancelled, ghosts>>
    BY DEF Submit
  <1>2. inbox \in Inboxes /\ inbox.pending \in Seq(Steers)
    BY DEF Inv, Types, Inboxes
  <1>3. /\ inbox' \in Inboxes /\ inbox'.keys = inbox.keys \cup {s}
        /\ inbox'.pending = Append(inbox.pending, s) /\ inbox'.accepting = inbox.accepting
    <2>1. Append(inbox.pending, s) \in Seq(Steers)
      BY <1>2
    <2>2. QED
      BY <1>1, <1>2, <2>1 DEF Inboxes
  <1>4. Notes' = Notes \cup {s}
    <2> DEFINE p == inbox.pending
               q == Append(p, s)
    <2>1. Len(p) \in Nat /\ DOMAIN p = 1..Len(p) /\ DOMAIN q = 1..(Len(p) + 1)
          /\ q[Len(p) + 1] = s /\ \A i \in 1..Len(p) : q[i] = p[i]
      BY <1>2
    <2>2. 1..(Len(p) + 1) = 1..Len(p) \cup {Len(p) + 1}
      BY <2>1
    <2> HIDE DEF p, q
    <2>3. {q[i] : i \in DOMAIN q} = {p[i] : i \in DOMAIN p} \cup {s}
      BY <2>1, <2>2
    <2>4. QED
      BY <1>3, <2>3 DEF Notes, ToSet, p, q
  <1>5. pc # "idle" /\ ~(pc \in {"call", "stream"} /\ request.why = "summary")
    BY <1>1 DEF Inv, Noticed
  <1>6. Types'
    <2>1. Len(inbox'.pending) <= MaxPending
      BY <1>1, <1>2, <1>3, LimitsAssumption
    <2>2. QED
      BY <1>1, <1>3, <2>1 DEF Inv, Types, msgVars, loopVars, ghosts, runGhosts
  <1>7. Progress' /\ Gathering' /\ Prompted'
    BY <1>1 DEF Inv, Progress, Gathering, Prompted, Acting, Calls, Asked, Calls,
                msgVars, loopVars, ghosts, runGhosts
  <1>8. Sound' /\ Truthful'
    BY <1>1 DEF Inv, Sound, Known, Truthful, Asking, Acting,
                msgVars, loopVars, ghosts, runGhosts
  <1>9. Kept'
    BY <1>1, <1>3 DEF Inv, Kept, Whole, Known, Tells, Once, ToldIn, Due, Bound, Asking,
                Acting, Calls, Asked, msgVars, loopVars, ghosts, runGhosts
  <1>10. Noticed'
    <2>1. ToldIn(history, s) = {} /\ s \notin results.texts
      BY <1>1, <1>5 DEF Inv, Noticed, Kept, Once
    <2>2. \A t : ToldIn(history, t)' = ToldIn(history, t)
      BY <1>1 DEF ToldIn, loopVars
    <2>3. UNCHANGED <<pc, results, request, outcome, cancelled, shown, history>>
      BY <1>1 DEF msgVars, loopVars, ghosts, runGhosts
    <2>4. Noticed
      BY DEF Inv
    <2>5. QED
      BY <1>3, <1>4, <1>5, <2>1, <2>2, <2>3, <2>4 DEF Noticed, Acting
  <1>11. Orderly'
    BY <1>1, <1>5 DEF Inv, Orderly, msgVars, loopVars, ghosts, runGhosts
  <1>12. QED
    BY <1>6, <1>7, <1>8, <1>9, <1>10, <1>11 DEF Inv

----------------------------------------------------------------------------
(* What the history is left with when a run ends, or its prompt is answered. *)

PartialText == Assistant({"partial"}, {})

\* A text of the assistant without calls
LEMMA PlainReply ==
    ASSUME NEW text \in {"answer", "partial", "marker"}
    PROVE  LET m == Assistant({text}, {})
           IN /\ m \in Message /\ m.role = "assistant" /\ m.texts = {text} /\ m.uses = {}
              /\ DOMAIN m.results = {} /\ Ids(m) = {}
  <1>1. {text} \in SUBSET (Tags \cup Steers) /\ {} \in SUBSET CallIds
    BY DEF Tags
  <1>2. QED
    BY <1>1, AssistantFields DEF Ids

\* _handle_cancelled() answers what is owed.
LEMMA HandleCancelledWhole ==
    ASSUME NEW h, Whole(h), runStart \in Nat
    PROVE  Whole(HandleCancelled(h))
  <1> DEFINE owed == IF h # <<>> /\ Last(h).role = "assistant" THEN Last(h).uses ELSE {}
             filler == [User({}) EXCEPT !.results = All(owed, "cancelled")]
             marker == Assistant({"marker"}, {})
  <1>1. /\ h \in Seq(Message) /\ h # <<>> /\ Len(h) \in 1..Len(h)
        /\ h[Len(h)] \in Message /\ Ids(h[Len(h)]) \subseteq Known
    BY KnownHistory
  <1>2. owed = Owes(h) /\ owed \in SUBSET CallIds /\ owed \subseteq Known
    <2>1. Last(h) = h[Len(h)]
      BY DEF Last
    <2>2. QED
      BY <1>1, <2>1 DEF Owes, Message, Ids
  <1> HIDE DEF owed
  <1>3. /\ filler \in Message /\ filler.texts = {} /\ filler.uses = {}
        /\ DOMAIN filler.results = owed
    <2>1. /\ User({}) \in Message /\ User({}).role = "user" /\ User({}).uses = {}
          /\ User({}).texts = {}
      BY UserFields
    <2>2. All(owed, "cancelled") \in Results /\ DOMAIN All(owed, "cancelled") = owed
      BY <1>2, AllType DEF Hows
    <2>3. QED
      BY <2>1, <2>2 DEF Message
  <1>4. /\ marker \in Message /\ marker.texts = {"marker"} /\ marker.uses = {}
        /\ DOMAIN marker.results = {} /\ Ids(marker) = {}
    BY PlainReply
  <1>5. HandleCancelled(h) =
          h \o (IF owed = {} THEN <<>> ELSE <<filler>>) \o <<marker>>
    BY DEF HandleCancelled, owed
  <1> HIDE DEF filler, marker
  <1>6. CASE owed = {}
    <2>1. HandleCancelled(h) = Append(h, marker)
      BY <1>1, <1>4, <1>5, <1>6
    <2>2. QED
      BY <1>2, <1>4, <1>6, <2>1, WholeAppend
  <1>7. CASE owed # {}
    <2>1. HandleCancelled(h) = Append(Append(h, filler), marker)
      <3>1. HandleCancelled(h) = (h \o <<filler>>) \o <<marker>>
        BY <1>5, <1>7
      <3>2. h \o <<filler>> = Append(h, filler) /\ Append(h, filler) \in Seq(Message)
        BY <1>1, <1>3
      <3>3. \A b \in Seq(Message) : b \o <<marker>> = Append(b, marker)
        BY <1>4
      <3>4. QED
        BY <3>1, <3>2, <3>3
    <2>2. Whole(Append(h, filler)) /\ Owes(Append(h, filler)) = {}
      BY <1>2, <1>3, WholeAppend DEF Ids
    <2>3. QED
      BY <1>4, <2>1, <2>2, WholeAppend
  <1>8. QED
    BY <1>6, <1>7

\* Texts received before a failure join a history that owes nothing.
LEMMA PartialsWhole ==
    ASSUME NEW h, Whole(h), Owes(h) = {}, runStart \in Nat, NEW n \in Nat
    PROVE  LET g == h \o [k \in 1..n |-> PartialText] IN Whole(g) /\ Owes(g) = {}
  <1> DEFINE g(i) == h \o [k \in 1..i |-> PartialText]
             T == {i \in Nat : Whole(g(i)) /\ Owes(g(i)) = {}}
  <1>1. h \in Seq(Message)
    BY KnownHistory
  <1>2. /\ PartialText \in Message /\ PartialText.texts = {"partial"} /\ PartialText.uses = {}
        /\ DOMAIN PartialText.results = {} /\ Ids(PartialText) = {}
    BY PlainReply DEF PartialText
  <1>3. 0 \in T
    <2>1. [k \in 1..0 |-> PartialText] = <<>>
      OBVIOUS
    <2>2. g(0) = h
      BY <1>1, <2>1
    <2> HIDE DEF g
    <2>3. QED
      BY <2>2
  <1>4. \A i \in Nat : i \in T => i + 1 \in T
    <2>1. SUFFICES ASSUME NEW i \in Nat, Whole(g(i)), Owes(g(i)) = {}
                   PROVE  Whole(g(i + 1)) /\ Owes(g(i + 1)) = {}
      OBVIOUS
    <2>2. g(i + 1) = Append(g(i), PartialText)
      <3> DEFINE p == [k \in 1..i |-> PartialText]
                 q == [k \in 1..(i + 1) |-> PartialText]
      <3>1. p \in Seq(Message) /\ q \in Seq(Message) /\ Len(p) = i /\ Len(q) = i + 1
        BY <1>2
      <3>2. q = Append(p, PartialText)
        <4>1. Append(p, PartialText) \in Seq(Message) /\ Len(Append(p, PartialText)) = i + 1
          BY <1>2, <3>1
        <4>2. \A k \in 1..(i + 1) : q[k] = Append(p, PartialText)[k]
          BY <3>1
        <4> HIDE DEF p, q
        <4>3. QED
          BY <3>1, <4>1, <4>2, SeqEqual
      <3> HIDE DEF p, q
      <3>3. h \o q = Append(h \o p, PartialText)
        BY <1>1, <1>2, <3>1, <3>2
      <3>4. QED
        BY <3>3 DEF p, q
    <2> HIDE DEF g
    <2>3. QED
      BY <1>2, <2>1, <2>2, WholeAppend
  <1>5. n \in T
    <2> HIDE DEF T
    <2>1. Nat \subseteq T
      BY <1>3, <1>4, SetInduction
    <2>2. QED
      BY <2>1
  <1>6. QED
    BY <1>5

\* A prefix that holds the query is whole.
LEMMA PrefixWhole ==
    ASSUME NEW h, Whole(h), runStart \in Nat, NEW n \in 1..Len(h), runStart < n
    PROVE  LET g == SubSeq(h, 1, n)
           IN /\ Whole(g) /\ Len(g) = n /\ \A i \in 1..n : g[i] = h[i]
  <1> DEFINE g == SubSeq(h, 1, n)
  <1>1. /\ h \in Seq(MessageOf(Known)) /\ h \in Seq(Message) /\ Len(h) \in Nat \ {0}
        /\ Unbroken(h) /\ QueryAt(h, runStart) /\ DOMAIN h = 1..Len(h)
    BY KnownHistory DEF Whole
  <1>2. /\ g \in Seq(MessageOf(Known)) /\ Len(g) = n /\ DOMAIN g = 1..n
        /\ \A i \in 1..n : g[i] = h[i]
    <2>1. \A i \in 1..n : h[i] \in MessageOf(Known)
      BY <1>1
    <2>2. n \in Int /\ 1 <= n
      BY <1>1
    <2>3. g \in Seq(MessageOf(Known)) /\ Len(g) = n - 1 + 1
          /\ \A i \in 1..(n - 1 + 1) : g[i] = h[1 + i - 1]
      BY <2>1, <2>2, SubSeqProperties
    <2>4. QED
      BY <2>2, <2>3
  <1> HIDE DEF g
  <1>3. Unbroken(g)
    <2>1. ASSUME NEW i \in 1..n, DOMAIN g[i].results # {}
          PROVE  i > 1 /\ DOMAIN g[i].results \subseteq g[i - 1].uses
      <3>1. i \in DOMAIN h /\ g[i] = h[i]
        BY <1>1, <1>2
      <3>2. i > 1 /\ DOMAIN h[i].results \subseteq h[i - 1].uses
        BY <1>1, <2>1, <3>1 DEF Unbroken, Answerable
      <3>3. i - 1 \in 1..n
        BY <3>2
      <3>4. QED
        BY <1>2, <3>1, <3>2, <3>3
    <2>2. ASSUME NEW i \in 1..(n - 1)
          PROVE  g[i].uses \subseteq DOMAIN g[i + 1].results
      <3>1. i \in 1..(Len(h) - 1) /\ i \in 1..n /\ i + 1 \in 1..n
        BY <1>1
      <3>2. QED
        BY <1>1, <1>2, <3>1 DEF Unbroken
    <2>3. QED
      BY <1>2, <2>1, <2>2 DEF Unbroken, Answerable
  <1>4. QueryAt(g, runStart)
    <2>1. \A i \in (runStart + 2)..n : i \in 1..n /\ i \in (runStart + 2)..Len(h)
      BY <1>1
    <2>2. runStart + 1 \in 1..n
      OBVIOUS
    <2>3. QED
      BY <1>1, <1>2, <2>1, <2>2 DEF QueryAt
  <1>5. g # <<>>
    BY <1>2
  <1>6. QED
    BY <1>2, <1>3, <1>4, <1>5 DEF Whole, g

\* What was put behind the prompt stays when the prompt is taken out.
LEMMA WithoutPromptKeeps ==
    ASSUME Inv, pc \in {"call", "stream"}, request.why # "main", NEW q \in Seq(Message),
           \A i \in 1..Len(q) : q[i].role = "assistant"
    PROVE  \E base : /\ WithoutPrompt(history \o q) = base \o q
                     /\ Whole(base) /\ Owes(base) = {}
                     /\ base = history \/ history = Append(base, User({"prompt"}))
  <1> DEFINE h == history
             g == h \o q
             N == Len(h)
             K == Len(q)
             prompt == User({"prompt"})
  <1>1. Whole(h) /\ Owes(h) = {}
    BY DEF Inv, Kept, Due, Acting
  <1>2. /\ h \in Seq(MessageOf(Known)) /\ h \in Seq(Message) /\ N \in Nat \ {0}
        /\ Unbroken(h) /\ runStart < N /\ runStart \in Nat /\ promptAt \in Nat
    BY <1>1, KnownHistory DEF Whole, Inv, Types
  <1>3. /\ K \in Nat /\ g \in Seq(Message) /\ Len(g) = N + K
        /\ \A i \in 1..N : g[i] = h[i]
        /\ \A i \in 1..K : g[N + i] = q[i]
    <2>1. g \in Seq(Message) /\ Len(g) = N + K /\ K \in Nat
          /\ \A i \in 1..(N + K) : g[i] = IF i <= N THEN h[i] ELSE q[i - N]
      BY <1>2, ConcatProperties
    <2> HIDE DEF g
    <2>2. ASSUME NEW i \in 1..N PROVE g[i] = h[i]
      BY <1>2, <2>1
    <2>3. ASSUME NEW i \in 1..K PROVE g[N + i] = q[i]
      <3>1. N + i \in 1..(N + K) /\ ~(N + i <= N) /\ (N + i) - N = i
        BY <1>2, <2>1
      <3>2. QED
        BY <2>1, <3>1
    <2>4. QED
      BY <2>1, <2>2, <2>3 DEF g
  <1>4. CASE promptAt >= N
    <2>1. ~(promptAt < Len(g) /\ g[promptAt + 1].role = "user")
      <3>1. SUFFICES ASSUME promptAt < N + K PROVE g[promptAt + 1].role # "user"
        BY <1>3
      <3>2. PICK i \in 1..K : promptAt + 1 = N + i
        <4>1. promptAt + 1 - N \in 1..K /\ promptAt + 1 = N + (promptAt + 1 - N)
          BY <1>2, <1>3, <1>4, <3>1
        <4>2. QED
          BY <4>1
      <3> HIDE DEF g
      <3>3. QED
        BY <1>3, <3>2
    <2>2. WithoutPrompt(g) = g
      BY <2>1 DEF WithoutPrompt
    <2>3. QED
      BY <1>1, <2>2
  <1>5. CASE ~(promptAt >= N)
    <2>1. promptAt + 1 = N /\ runStart < promptAt /\ h[promptAt + 1] = prompt
      BY <1>5 DEF Inv, Prompted
    <2> DEFINE base == SubSeq(h, 1, promptAt)
               rest == SubSeq(g, (promptAt + 1) + 1, Len(g))
               front == SubSeq(g, 1, (promptAt + 1) - 1)
    <2>2. promptAt \in 1..N /\ N \in 1..N /\ (promptAt + 1) - 1 = promptAt
      BY <1>2, <2>1
    <2>3. Whole(base) /\ Len(base) = promptAt /\ \A i \in 1..promptAt : base[i] = h[i]
      BY <1>1, <1>2, <2>1, <2>2, PrefixWhole
    <2>4. prompt \in Message /\ prompt.role = "user" /\ DOMAIN prompt.results = {}
      <3>1. {"prompt"} \in SUBSET (Tags \cup Steers)
        BY DEF Tags
      <3>2. QED
        BY <3>1, UserFields
    <2> HIDE DEF base, prompt, g
    <2>5. base \in Seq(Message) /\ base # <<>>
      BY <2>3, KnownHistory
    <2>6. Owes(base) = {}
      <3>1. h[promptAt].uses \subseteq DOMAIN h[promptAt + 1].results
        <4>1. promptAt \in 1..(N - 1)
          BY <1>2, <2>1, <2>2
        <4>2. QED
          BY <1>2, <4>1 DEF Unbroken
      <3>2. QED
        BY <2>1, <2>2, <2>3, <2>4, <2>5, <3>1 DEF Owes
    <2>7. h = Append(base, prompt)
      <3> DEFINE a == Append(base, prompt)
      <3>1. a \in Seq(Message) /\ Len(a) = N /\ a[N] = prompt
            /\ \A i \in 1..promptAt : a[i] = base[i]
        BY <2>1, <2>3, <2>4, <2>5
      <3>2. \A i \in 1..N : i \in 1..promptAt \/ i = N
        BY <1>2, <2>1, <2>2
      <3> HIDE DEF a
      <3>3. \A i \in 1..N : h[i] = a[i]
        BY <2>1, <2>3, <3>1, <3>2
      <3> HIDE DEF h
      <3>4. h = a
        BY <1>2, <3>1, <3>3, SeqEqual
      <3>5. QED
        BY <3>4 DEF a
    <2>8. front = base
      <3>1. \A i \in 1..promptAt : g[i] \in Message /\ g[i] = base[i]
        <4>1. \A i \in 1..promptAt : i \in 1..N
          BY <1>2, <2>2
        <4>2. \A i \in 1..N : h[i] \in Message
          BY <1>2
        <4>3. QED
          BY <1>3, <2>3, <4>1, <4>2
      <3>2. /\ front \in Seq(Message) /\ Len(front) = promptAt
            /\ \A i \in 1..promptAt : front[i] = g[i]
        <4>1. \A i \in 1..((promptAt + 1) - 1) : g[i] \in Message
          BY <2>2, <3>1
        <4>2. (promptAt + 1) - 1 \in Int /\ 1 \in Int /\ 1 <= (promptAt + 1) - 1
          BY <1>2, <2>2
        <4>3. /\ front \in Seq(Message) /\ Len(front) = (promptAt + 1) - 1
              /\ \A i \in 1..((promptAt + 1) - 1) : front[i] = g[1 + i - 1]
          BY <4>1, <4>2, SubSeqProperties
        <4> HIDE DEF front
        <4>4. QED
          BY <1>2, <4>3
      <3> HIDE DEF front
      <3>3. QED
        BY <2>3, <2>5, <3>1, <3>2, SeqEqual
    <2>9. rest = q
      <3>1. (promptAt + 1) + 1 = N + 1
        BY <2>1
      <3>2. \A i \in (N + 1)..(N + K) : g[i] \in Message
        BY <1>2, <1>3
      <3>3. /\ rest \in Seq(Message)
            /\ Len(rest) = (IF N + 1 <= N + K THEN (N + K) - (N + 1) + 1 ELSE 0)
            /\ \A i \in 1..((N + K) - (N + 1) + 1) : rest[i] = g[(N + 1) + i - 1]
        <4>1. N + 1 \in Int /\ N + K \in Int
          BY <1>2, <1>3
        <4>2. rest = SubSeq(g, N + 1, N + K)
          BY <1>3, <3>1
        <4> HIDE DEF rest
        <4>3. QED
          BY <3>2, <4>1, <4>2, SubSeqProperties
      <3> HIDE DEF rest
      <3>4. Len(rest) = K /\ \A i \in 1..K : (N + 1) + i - 1 = N + i
        BY <1>2, <1>3, <3>3
      <3>5. (N + K) - (N + 1) + 1 = K
        BY <1>2, <1>3
      <3>6. \A i \in 1..K : rest[i] = q[i]
        BY <1>3, <3>3, <3>4, <3>5
      <3>7. QED
        BY <3>3, <3>4, <3>6, SeqEqual
    <2>10. WithoutPrompt(g) = front \o rest
      <3>1. promptAt < Len(g) /\ g[promptAt + 1].role = "user"
        BY <1>2, <1>3, <2>1, <2>2, <2>4
      <3>2. WithoutPrompt(g) = RemoveAt(g, promptAt + 1)
        BY <3>1 DEF WithoutPrompt
      <3>3. RemoveAt(g, promptAt + 1) = front \o rest
        BY DEF RemoveAt
      <3>4. QED
        BY <3>2, <3>3
    <2>11. QED
      BY <2>3, <2>6, <2>7, <2>8, <2>9, <2>10 DEF g, prompt
  <1>6. QED
    BY <1>4, <1>5

----------------------------------------------------------------------------
(* The model call.                                                         *)

\* What the frames of retried calls and a broken stream add
LEMMA Received ==
    ASSUME Inv, NEW partial \in {<<>>, <<PartialText>>}
    PROVE  \E n \in Nat : Held(history \o partial) = history \o [k \in 1..n |-> PartialText]
  <1> DEFINE p(n) == [k \in 1..n |-> PartialText]
             held == request.held
  <1>1. history \in Seq(Message) /\ held \in Nat /\ PartialText \in Message
    BY PlainReply, LimitsAssumption DEF Inv, Types, PartialText
  <1>2. Held(history \o partial) = (history \o partial) \o p(held)
    BY DEF Held, PartialText
  <1>3. \A n \in Nat : p(n) \in Seq(Message) /\ Len(p(n)) = n
                       /\ \A k \in 1..n : p(n)[k] = PartialText
    BY <1>1
  <1> HIDE DEF p, held
  <1>4. CASE partial = <<>>
    <2>1. history \o <<>> = history
      BY <1>1
    <2>2. Held(history \o partial) = history \o p(held)
      BY <1>2, <1>4, <2>1
    <2>3. \E n \in Nat : Held(history \o partial) = history \o p(n)
      BY <1>1, <2>2
    <2>4. QED
      BY <2>3 DEF p
  <1>5. CASE partial = <<PartialText>>
    <2> DEFINE q == <<PartialText>> \o p(held)
               r == p(held + 1)
    <2>1. <<PartialText>> \in Seq(Message) /\ p(held) \in Seq(Message)
          /\ Len(p(held)) = held /\ held + 1 \in Nat
      BY <1>1, <1>3
    <2>2. q \in Seq(Message) /\ Len(q) = held + 1 /\ r \in Seq(Message) /\ Len(r) = held + 1
      BY <1>1, <1>3, <2>1
    <2>3. \A k \in 1..(held + 1) : q[k] = PartialText /\ r[k] = PartialText
      <3>1. SUFFICES ASSUME NEW k \in 1..(held + 1) PROVE q[k] = PartialText /\ r[k] = PartialText
        OBVIOUS
      <3>2. r[k] = PartialText
        BY <1>3, <2>1
      <3>3. q[k] = IF k <= 1 THEN PartialText ELSE p(held)[k - 1]
        BY <1>1, <2>1
      <3>4. ~(k <= 1) => k - 1 \in 1..held
        BY <1>1
      <3>5. QED
        BY <1>1, <1>3, <3>2, <3>3, <3>4
    <2> HIDE DEF q, r
    <2>4. q = r
      BY <2>2, <2>3, SeqEqual
    <2>5. Held(history \o partial) = history \o q
      BY <1>1, <1>2, <1>5, <2>1, ConcatAssociative DEF q
    <2>6. QED
      BY <2>1, <2>4, <2>5 DEF r, p
  <1>6. QED
    BY <1>4, <1>5

\* The partial texts are messages of the assistant.
LEMMA PartialsTyped ==
    ASSUME NEW n \in Nat
    PROVE  LET q == [k \in 1..n |-> PartialText]
           IN q \in Seq(Message) /\ Len(q) = n /\ \A k \in 1..Len(q) : q[k].role = "assistant"
  <1>1. PartialText \in Message /\ PartialText.role = "assistant"
    BY PlainReply DEF PartialText
  <1>2. QED
    BY <1>1

\* The history during a model call: it owes nothing, and nothing is gathered.
LEMMA CallHistory ==
    ASSUME Inv, pc \in {"call", "stream"}
    PROVE  /\ Whole(history) /\ Owes(history) = {} /\ runStart \in Nat
           /\ history \in Seq(MessageOf(Known)) /\ history \in Seq(Message) /\ history # <<>>
           /\ Unbroken(history) /\ Answerable(history)
           /\ Tells(history, Bound) /\ Once(history) /\ Bound \in Nat /\ Due = {}
           /\ results = User({}) /\ results.texts = {} /\ DOMAIN results.results = {}
  <1>1. Whole(history) /\ Owes(history) = Due /\ Tells(history, Bound) /\ Once(history)
    BY DEF Inv, Kept
  <1>2. Due = {}
    BY DEF Due, Acting
  <1>3. runStart \in Nat /\ turn \in Nat
    BY LimitsAssumption DEF Inv, Types
  <1>4. results = User({})
    BY DEF Inv, Gathering, Acting
  <1>5. QED
    BY <1>1, <1>2, <1>3, <1>4, KnownHistory, UserFields DEF Whole, Unbroken, Bound

\* The model sees the last instruction with the request for the summary.
LEMMA SummaryShown ==
    ASSUME Inv, pc = "stream", request.why = "summary"
    PROVE  inbox.keys \subseteq shown
  <1>1. /\ inbox.keys \subseteq Notes \cup shown \cup Texts(history) \cup results.texts
        /\ Steers \cap Texts(history) \subseteq shown /\ Notes = {}
    BY DEF Inv, Noticed
  <1>2. inbox.keys \subseteq Steers
    BY DEF Inv, Types, Inboxes
  <1>3. QED
    BY <1>1, <1>2, CallHistory

\* A cancel during a model call ends the run in order.
LEMMA InterruptKeeps ==
    ASSUME Inv, pc \in {"call", "stream"}, cancelled, UNCHANGED ghosts,
           NEW partial \in {<<>>, <<PartialText>>}, Interrupt(Held(history \o partial))
    PROVE  Inv'
  <1>1. PICK n \in Nat : Held(history \o partial) = history \o [k \in 1..n |-> PartialText]
    BY Received
  <1> DEFINE q == [k \in 1..n |-> PartialText]
  <1>2. q \in Seq(Message) /\ \A k \in 1..Len(q) : q[k].role = "assistant"
    BY PartialsTyped
  <1>3. UNCHANGED runGhosts /\ effort' \in 0..MaxEffort /\ pc # "idle"
    BY DEF ghosts, Inv, Types
  <1>4. CASE request.why = "summary"
    <2>1. End("completed", WithoutPrompt(history \o q))
      BY <1>1, <1>4 DEF Interrupt
    <2> HIDE DEF q
    <2>2. PICK base : /\ WithoutPrompt(history \o q) = base \o q
                      /\ Whole(base) /\ Owes(base) = {}
      BY <1>2, <1>4, WithoutPromptKeeps
    <2>3. Whole(base \o q)
      BY <2>2, CallHistory, PartialsWhole DEF q
    <2>4. base \o q \in Seq(MessageOf(Known)) /\ Answerable(base \o q)
      BY <2>3 DEF Whole, Unbroken
    <2>5. QED
      BY <1>3, <2>1, <2>2, <2>4, EndKeeps
  <1>5. CASE request.why # "summary"
    <2> DEFINE h == HandleCancelled(history \o q)
    <2>1. End("cancelled", h)
      BY <1>1, <1>5 DEF Interrupt
    <2>2. Whole(history \o q)
      BY CallHistory, PartialsWhole
    <2> HIDE DEF q
    <2>3. Whole(h)
      BY <2>2, CallHistory, HandleCancelledWhole
    <2> HIDE DEF h
    <2>4. h \in Seq(MessageOf(Known)) /\ Answerable(h)
      BY <2>3 DEF Whole, Unbroken
    <2>5. Standing(h)
      BY <2>3, WholeStands
    <2>6. QED
      BY <1>3, <2>1, <2>4, <2>5, EndKeeps
  <1>6. QED
    BY <1>4, <1>5

\* An error during a model call leaves an answerable history.
LEMMA FailKeeps ==
    ASSUME Inv, pc = "stream", UNCHANGED runGhosts, effort' \in 0..MaxEffort,
           NEW h \in {<<>>, history}, Fail(h)
    PROVE  Inv'
  <1>1. <<>> \in Seq(MessageOf(Known)) /\ Answerable(<<>>) /\ <<>> \in Seq(Message)
    BY DEF Answerable
  <1>2. CASE request.why = "summary"
    <2>1. End("completed", WithoutPrompt(h))
      BY <1>2 DEF Fail
    <2>2. WithoutPrompt(h) \in Seq(MessageOf(Known)) /\ Answerable(WithoutPrompt(h))
      <3>1. CASE h = <<>>
        <4>1. promptAt \in Nat /\ Len(<<>>) = 0
          BY DEF Inv, Types
        <4>2. ~(promptAt < Len(<<>>))
          BY <4>1
        <4>3. WithoutPrompt(<<>>) = <<>>
          BY <4>2 DEF WithoutPrompt
        <4>4. QED
          BY <1>1, <3>1, <4>3
      <3>2. CASE h = history
        <4> DEFINE q == <<>>
        <4>1. q \in Seq(Message) /\ \A k \in 1..Len(q) : q[k].role = "assistant"
          BY <1>1
        <4>2. history \o q = history
          BY CallHistory
        <4>3. PICK base : WithoutPrompt(history \o q) = base \o q /\ Whole(base)
          <5> HIDE DEF q
          <5>1. QED
            BY <1>2, <4>1, WithoutPromptKeeps
        <4>4. base \o q = base
          BY <4>3, KnownHistory
        <4>5. WithoutPrompt(history) = base
          <5> HIDE DEF q
          <5>1. QED
            BY <4>2, <4>3, <4>4
        <4>6. QED
          BY <3>2, <4>3, <4>5 DEF Whole, Unbroken
      <3>3. QED
        BY <3>1, <3>2
    <2>3. inbox.keys \subseteq shown
      BY <1>2, SummaryShown
    <2>4. QED
      BY <2>1, <2>2, <2>3, EndKeeps
  <1>3. CASE request.why # "summary"
    <2>1. End("failed", h)
      BY <1>3 DEF Fail
    <2>2. h \in Seq(MessageOf(Known)) /\ Answerable(h)
      BY <1>1, CallHistory
    <2>3. QED
      BY <2>1, <2>2, EndKeeps
  <1>4. QED
    BY <1>2, <1>3

\* A call sends the history as it is: there is nothing to sanitize.
LEMMA RequestStep ==
    ASSUME Inv, Request
    PROVE  Inv'
  <1>1. pc = "call"
    BY DEF Request
  <1>2. CASE cancelled /\ Interrupt(Held(history)) /\ UNCHANGED ghosts
    <2>1. history \o <<>> = history
      BY <1>1, CallHistory
    <2>2. Interrupt(Held(history \o <<>>))
      BY <1>2, <2>1
    <2>3. QED
      BY <1>1, <1>2, <2>2, InterruptKeeps
  <1>3. CASE /\ ~cancelled
             /\ pc' = "stream" /\ history' = Sanitize(history)
             /\ shown' = shown \cup (Steers \cap Texts(Sanitize(history)))
             /\ UNCHANGED <<msgVars, loopVars, cancelled, inbox, ran, late, effort>>
    <2>1. Sanitize(history) = history
      <3>1. Paired(history)
        BY <1>1, CallHistory, PairedUnbroken
      <3>2. QED
        BY <1>1, <3>1, CallHistory, SanitizeNothing
    <2>2. /\ pc' = "stream" /\ history' = history
          /\ shown' = shown \cup (Steers \cap Texts(history))
          /\ UNCHANGED <<messages, fresh, run, outcome, origLen, runStart, turn, request,
                         promptAt, answer, index, results, failures, cancelled, inbox,
                         ran, late, effort>>
      BY <1>3, <2>1 DEF msgVars, loopVars
    <2>3. Types'
      <3>1. "stream" \in Stages
        BY DEF Stages
      <3>2. QED
        BY <2>2, <3>1 DEF Inv, Types
    <2>4. Progress' /\ Gathering' /\ Prompted' /\ Orderly'
      BY <1>1, <2>2 DEF Inv, Progress, Gathering, Prompted, Orderly, Acting
    <2>5. Sound' /\ Truthful'
      BY <1>1, <2>2 DEF Inv, Sound, Known, Truthful, Asking, Acting
    <2>6. Kept'
      <3>1. Bound' = Bound /\ Due' = {}
        BY <1>1, <2>2 DEF Bound, Asking, Due, Acting
      <3>2. QED
        BY <1>1, <2>2, <3>1, CallHistory, KeptBy
    <2>7. Noticed'
      <3>1. \A s : ToldIn(history, s)' = ToldIn(history, s)
        BY <2>2 DEF ToldIn
      <3>2. QED
        BY <1>1, <2>2, <3>1 DEF Inv, Noticed, Notes, Acting
    <2>8. QED
      BY <2>3, <2>4, <2>5, <2>6, <2>7 DEF Inv
  <1>4. QED
    BY <1>2, <1>3 DEF Request

\* A cancel is seen during a stream.
LEMMA StreamCancelledStep ==
    ASSUME Inv, StreamCancelled
    PROVE  Inv'
  <1>1. PICK partial \in {<<>>, <<PartialText>>} : Interrupt(Held(history \o partial))
    BY DEF StreamCancelled, PartialText
  <1>2. pc = "stream" /\ cancelled /\ UNCHANGED ghosts
    BY DEF StreamCancelled
  <1>3. QED
    BY <1>1, <1>2, InterruptKeeps

\* A fault of the provider leaves the history variables of the run alone.
LEMMA FaultCounts ==
    ASSUME Inv, Fault
    PROVE  pc = "stream" /\ ~cancelled /\ UNCHANGED runGhosts /\ effort' \in 0..MaxEffort
  BY LimitsAssumption DEF Inv, Types, Fault

\* An error that no retry can help ends the run.
LEMMA StreamFailsStep ==
    ASSUME Inv, StreamFails
    PROVE  Inv'
  <1>1. PICK h \in {<<>>, history} : Fail(h)
    BY DEF StreamFails
  <1>2. Fault
    BY DEF StreamFails
  <1>3. QED
    BY <1>1, <1>2, FaultCounts, FailKeeps

\* The call is made again with the same history.
LEMMA AgainKeeps ==
    ASSUME Inv, Fault, NEW changed, Again(changed), UNCHANGED <<history, runStart>>,
           changed \in [why : {request.why}, retryEmpty : BOOLEAN, retries : 0..MaxRetries,
                        overflowed : BOOLEAN, held : 0..MaxRetries],
           changed.held <= changed.retries
    PROVE  Inv'
  <1>1. pc = "stream" /\ effort' \in 0..MaxEffort
    BY FaultCounts
  <1>2. /\ pc' = "call" /\ request' = changed /\ request'.why = request.why
        /\ UNCHANGED <<messages, fresh, run, outcome, origLen, history, runStart, turn,
                       promptAt, answer, index, results, failures, cancelled, inbox,
                       ran, late, shown>>
    BY DEF Again, msgVars, Fault, runGhosts
  <1>3. Types'
    <2>1. "call" \in Stages
      BY DEF Stages
    <2>2. request' \in [why : Contexts, retryEmpty : BOOLEAN, retries : 0..MaxRetries,
                        overflowed : BOOLEAN, held : 0..MaxRetries]
      BY <1>2 DEF Inv, Types
    <2>3. QED
      BY <1>1, <1>2, <2>1, <2>2 DEF Inv, Types
  <1>4. Progress' /\ Gathering' /\ Prompted' /\ Orderly'
    BY <1>1, <1>2 DEF Inv, Progress, Gathering, Prompted, Orderly, Acting
  <1>5. Sound' /\ Truthful'
    BY <1>1, <1>2 DEF Inv, Sound, Known, Truthful, Asking, Acting
  <1>6. Kept'
    <2>1. Bound' = Bound /\ Due' = {}
      BY <1>1, <1>2 DEF Bound, Asking, Due, Acting
    <2>2. QED
      BY <1>1, <1>2, <2>1, CallHistory, KeptBy
  <1>7. Noticed'
    <2>1. \A s : ToldIn(history, s)' = ToldIn(history, s)
      BY <1>2 DEF ToldIn
    <2>2. QED
      BY <1>1, <1>2, <2>1 DEF Inv, Noticed, Notes, Acting
  <1>8. QED
    BY <1>3, <1>4, <1>5, <1>6, <1>7 DEF Inv

\* An attempt that failed, with the text it had received
LEMMA StreamRetriedStep ==
    ASSUME Inv, StreamRetried
    PROVE  Inv'
  <1>1. PICK text \in {0, 1} :
           Again([request EXCEPT !.retries = @ + 1, !.overflowed = FALSE,
                                 !.held = @ + text])
    BY DEF StreamRetried
  <1> DEFINE changed == [request EXCEPT !.retries = @ + 1, !.overflowed = FALSE,
                                        !.held = @ + text]
  <1>2. Fault /\ request.retries < MaxRetries /\ UNCHANGED <<history, runStart>>
    BY DEF StreamRetried
  <1>3. request \in [why : Contexts, retryEmpty : BOOLEAN, retries : 0..MaxRetries,
                     overflowed : BOOLEAN, held : 0..MaxRetries]
        /\ request.held <= request.retries
    BY DEF Inv, Types, Progress
  <1>4. /\ request.retries + 1 \in 0..MaxRetries /\ request.held + text \in 0..MaxRetries
        /\ request.held + text <= request.retries + 1
    BY <1>2, <1>3, LimitsAssumption
  <1>5. changed \in [why : {request.why}, retryEmpty : BOOLEAN, retries : 0..MaxRetries,
                     overflowed : BOOLEAN, held : 0..MaxRetries]
        /\ changed.held <= changed.retries
    BY <1>3, <1>4
  <1> HIDE DEF changed
  <1>6. Again(changed)
    BY <1>1 DEF changed
  <1>7. QED
    BY <1>2, <1>5, <1>6, AgainKeeps

\* An empty answer is asked for once more.
LEMMA EmptyAnswerStep ==
    ASSUME Inv, EmptyAnswer
    PROVE  Inv'
  <1> DEFINE changed == [request EXCEPT !.retryEmpty = FALSE, !.overflowed = FALSE]
  <1>1. Fault /\ Again(changed) /\ UNCHANGED <<history, runStart>>
    BY DEF EmptyAnswer
  <1>2. request \in [why : Contexts, retryEmpty : BOOLEAN, retries : 0..MaxRetries,
                     overflowed : BOOLEAN, held : 0..MaxRetries]
        /\ request.held <= request.retries
    BY DEF Inv, Types, Progress
  <1>3. changed \in [why : {request.why}, retryEmpty : BOOLEAN, retries : 0..MaxRetries,
                     overflowed : BOOLEAN, held : 0..MaxRetries]
        /\ changed.held <= changed.retries
    BY <1>2
  <1> HIDE DEF changed
  <1>4. QED
    BY <1>1, <1>3, AgainKeeps

\* The turns that are discarded take the earlier runs with them, or the start
\* of this one.
LEMMA OverflowTrims ==
    ASSUME Inv, Fault, Cardinality(TurnStarts(history)) > KeepTurns,
           history' = LastTurns(history, KeepTurns),
           LET cut == Len(history) - Len(LastTurns(history, KeepTurns))
           IN runStart' = IF cut < runStart THEN runStart - cut ELSE 0,
           Again([request EXCEPT !.overflowed = TRUE])
    PROVE  Inv'
  <1> DEFINE h == history
             L == Len(h)
             g == LastTurns(h, KeepTurns)
             K == Len(g)
  <1>1. /\ pc = "stream" /\ effort' \in 0..MaxEffort
        /\ pc' = "call" /\ request' = [request EXCEPT !.overflowed = TRUE]
        /\ UNCHANGED <<messages, fresh, run, outcome, origLen, turn, promptAt, answer,
                       index, results, failures, cancelled, inbox, ran, late, shown>>
    BY FaultCounts DEF Again, msgVars, Fault, runGhosts
  <1>2. /\ h \in Seq(Message) /\ h # <<>> /\ Whole(h) /\ Owes(h) = {} /\ Unbroken(h)
        /\ Answerable(h) /\ Tells(h, Bound) /\ Once(h) /\ h \in Seq(MessageOf(Known))
        /\ runStart \in Nat /\ runStart < L /\ QueryAt(h, runStart) /\ L \in Nat \ {0}
        /\ DOMAIN h = 1..L
    BY <1>1, CallHistory, KnownHistory DEF Whole
  <1>3. KeepTurns \in 1..Cardinality(TurnStarts(h))
    <2>1. Cardinality(TurnStarts(h)) \in Nat
      BY <1>2, StartsCounted
    <2>2. KeepTurns \in Nat \ {0} /\ KeepTurns < Cardinality(TurnStarts(h))
      BY <1>1, LimitsAssumption
    <2> HIDE DEF h
    <2>3. QED
      BY <2>1, <2>2
  <1>4. PICK from \in 1..L : /\ g = SubSeq(h, from, L)
                             /\ from = 1 \/ DOMAIN h[from].results = {}
    BY <1>2, <1>3, LastTurnsCut
  <1> HIDE DEF g
  <1>5. /\ g \in Seq(Message) /\ g # <<>> /\ K = L - from + 1
        /\ \A i \in 1..K : g[i] = h[i + from - 1]
        /\ g[K] = h[L] /\ Owes(g) = {} /\ Unbroken(g)
    BY <1>2, <1>4, SuffixKeeps
  <1>6. g \in Seq(MessageOf(Known))
    <2>1. \A i \in from..L : h[i] \in MessageOf(Known)
      BY <1>2
    <2>2. from \in Int /\ L \in Int
      BY <1>2
    <2>3. QED
      BY <1>4, <2>1, <2>2, SubSeqProperties
  <1> DEFINE start == IF L - K < runStart THEN runStart - (L - K) ELSE 0
  <1>7. history' = g /\ runStart' = start
    BY DEF g
  <1> HIDE DEF K, L
  <1>8. PICK cut \in Nat : cut = from - 1
    BY <1>2
  <1>9. /\ K = L - cut /\ cut < L /\ K \in Nat \ {0} /\ DOMAIN g = 1..K
        /\ start = IF cut < runStart THEN runStart - cut ELSE 0
    <2>1. K = L - cut /\ cut < L
      BY <1>2, <1>5, <1>8
    <2>2. DOMAIN g = 1..K
      BY <1>5 DEF K
    <2>3. QED
      BY <1>2, <2>1, <2>2
  <1>10. \A i \in 1..K : i + cut \in 1..L /\ g[i] = h[i + cut]
    <2>1. SUFFICES ASSUME NEW i \in 1..K PROVE i + cut \in 1..L /\ g[i] = h[i + cut]
      OBVIOUS
    <2>2. i + from - 1 = i + cut
      BY <1>8
    <2>3. i + cut \in 1..L
      BY <1>2, <1>9
    <2>4. g[i] = h[i + cut]
      BY <1>5, <2>2
    <2>5. QED
      BY <2>3, <2>4
  <1>11. start \in Nat /\ start < K /\ start + cut >= runStart /\ start <= runStart
    <2>1. runStart \in Nat /\ L \in Nat /\ runStart < L /\ cut \in Nat
      BY <1>2
    <2> HIDE DEF start
    <2>2. QED
      BY <1>9, <2>1
  <1> HIDE DEF start
  <1>12. QueryAt(g, start)
    <2>1. ASSUME NEW i \in (start + 2)..K PROVE "query" \notin g[i].texts
      <3>1. i \in 1..K /\ i + cut \in (runStart + 2)..L
        BY <1>2, <1>9, <1>11
      <3>2. QED
        BY <1>2, <1>10, <3>1 DEF QueryAt, L
    <2>2. "query" \in g[start + 1].texts \/ start = 0
      <3>1. SUFFICES ASSUME start # 0 PROVE "query" \in g[start + 1].texts
        OBVIOUS
      <3>2. start + 1 \in 1..K /\ (start + 1) + cut = runStart + 1 /\ runStart # 0
        <4>1. cut < runStart /\ start = runStart - cut
          BY <1>9, <3>1
        <4>2. runStart \in Nat /\ cut \in Nat
          BY <1>2
        <4>3. (start + 1) + cut = runStart + 1 /\ runStart # 0
          BY <4>1, <4>2
        <4>4. start + 1 \in 1..K
          BY <1>9, <1>11
        <4>5. QED
          BY <4>3, <4>4
      <3>3. QED
        BY <1>2, <1>10, <3>2 DEF QueryAt
    <2>3. QED
      BY <2>1, <2>2 DEF QueryAt, K
  \* What the run is told in what is left was told at its place before
  <1>13. ASSUME NEW s PROVE \A i \in ToldIn(history, s)' : i + cut \in ToldIn(h, s) /\ i \in Nat
    <2>1. SUFFICES ASSUME NEW i \in (start + 1)..K, s \in g[i].texts
                   PROVE  i + cut \in (runStart + 1)..L /\ s \in h[i + cut].texts /\ i \in Nat
      BY <1>7 DEF ToldIn, L, K
    <2>2. i \in 1..K /\ i + cut \in (runStart + 1)..L
      BY <1>2, <1>9, <1>11
    <2>3. QED
      BY <1>10, <2>1, <2>2
  <1>14. Types'
    <2>1. "call" \in Stages
      BY DEF Stages
    <2>2. request' \in [why : Contexts, retryEmpty : BOOLEAN, retries : 0..MaxRetries,
                        overflowed : BOOLEAN, held : 0..MaxRetries]
      BY <1>1 DEF Inv, Types
    <2>3. runStart' \in Nat /\ history' \in Seq(Message)
      BY <1>5, <1>7, <1>11
    <2>4. QED
      BY <1>1, <2>1, <2>2, <2>3 DEF Inv, Types
  <1>15. /\ request'.why = request.why /\ request'.held = request.held
         /\ request'.retries = request.retries
    BY <1>1 DEF Inv, Types
  <1>16. Progress' /\ Gathering' /\ Orderly'
    BY <1>1, <1>15 DEF Inv, Progress, Gathering, Orderly, Acting
  <1>17. Prompted'
    <2>1. CASE request.why = "main"
      BY <1>15, <2>1 DEF Prompted
    <2>2. CASE promptAt >= L
      <3>1. promptAt \in Nat
        BY DEF Inv, Types
      <3>2. promptAt >= K
        BY <1>2, <1>9, <2>2, <3>1
      <3>3. QED
        BY <1>1, <1>7, <3>2 DEF Prompted, K
    <2>3. CASE /\ promptAt + 1 = L /\ runStart < promptAt
               /\ h[promptAt + 1] = User({"prompt"})
      <3>1. promptAt \in Nat
        BY DEF Inv, Types
      <3>2. CASE cut = 0
        <4>1. promptAt + 1 = K /\ start < promptAt /\ g[promptAt + 1] = User({"prompt"})
          BY <1>2, <1>5, <1>9, <1>11, <2>3, <3>1, <3>2 DEF K, L
        <4>2. QED
          BY <1>1, <1>7, <4>1 DEF Prompted, K
      <3>3. CASE cut # 0
        <4>1. promptAt >= K
          BY <1>2, <1>9, <2>3, <3>1, <3>3
        <4>2. QED
          BY <1>1, <1>7, <4>1 DEF Prompted, K
      <3>4. QED
        BY <3>2, <3>3
    <2>4. QED
      BY <1>1, <2>1, <2>2, <2>3 DEF Inv, Prompted, L
  <1>18. Sound' /\ Truthful'
    BY <1>1, <1>15 DEF Inv, Sound, Known, Truthful, Asking, Acting
  <1>19. Kept'
    <2>1. Bound' = Bound /\ Due' = {}
      BY <1>1, <1>15 DEF Bound, Asking, Due, Acting
    <2>2. Whole(history)'
      BY <1>1, <1>5, <1>6, <1>7, <1>11, <1>12 DEF Whole, Known, K
    <2>3. Tells(history, Bound)'
      <3>1. \A i \in 1..K : i + cut \in DOMAIN h /\ g[i] = h[i + cut]
        BY <1>2, <1>10
      <3>2. Tells(g, Bound)
        BY <1>2, <1>9, <3>1 DEF Tells
      <3>3. QED
        BY <1>1, <1>7, <2>1, <3>2 DEF Tells
    <2>4. Once(history)'
      <3>1. ASSUME NEW s \in Steers
            PROVE  /\ ToldIn(history, s)' # {} => s \in inbox'.keys
                   /\ \A i, j \in ToldIn(history, s)' : i = j
        <4>1. /\ ToldIn(h, s) # {} => s \in inbox.keys
              /\ \A i, j \in ToldIn(h, s) : i = j
          BY <1>2 DEF Once
        <4>2. ASSUME NEW i \in ToldIn(history, s)', NEW j \in ToldIn(history, s)'
              PROVE  i = j
          <5>1. i + cut \in ToldIn(h, s) /\ j + cut \in ToldIn(h, s) /\ i \in Nat /\ j \in Nat
            BY <1>13
          <5>2. i + cut = j + cut
            BY <4>1, <5>1
          <5>3. QED
            BY <5>1, <5>2
        <4>3. QED
          BY <1>1, <1>13, <4>1, <4>2
      <3>2. QED
        BY <3>1 DEF Once
    <2>5. Owes(history)' = Due'
      BY <1>5, <1>7, <2>1 DEF Owes
    <2>6. QED
      BY <2>2, <2>3, <2>4, <2>5 DEF Kept
  <1>20. Noticed'
    <2>1. \A s \in Steers : ToldIn(history, s)' # {} => s \notin Notes
      BY <1>13 DEF Inv, Noticed
    <2>2. inbox.keys \subseteq Steers
      BY DEF Inv, Types, Inboxes
    <2>3. inbox.keys \subseteq Notes \cup shown \cup results.texts
      BY <1>1, <2>2 DEF Inv, Noticed
    <2>4. Notes' = Notes
      BY <1>1 DEF Notes
    <2>5. results.texts = {}
      BY <1>1, CallHistory
    <2>6. QED
      BY <1>1, <1>15, <2>1, <2>3, <2>4, <2>5 DEF Inv, Noticed, Acting
  <1>21. QED
    BY <1>14, <1>16, <1>17, <1>18, <1>19, <1>20 DEF Inv

\* A refused context: the history is trimmed, or the run ends.
LEMMA OverflowStep ==
    ASSUME Inv, Overflow
    PROVE  Inv'
  <1> DEFINE n == Cardinality(TurnStarts(history))
             changed == [request EXCEPT !.overflowed = TRUE]
  <1>1. Fault
    BY DEF Overflow
  <1>2. CASE /\ n > KeepTurns
             /\ history' = LastTurns(history, KeepTurns)
             /\ LET cut == Len(history) - Len(LastTurns(history, KeepTurns))
                IN runStart' = IF cut < runStart THEN runStart - cut ELSE 0
             /\ Again(changed)
    BY <1>1, <1>2, OverflowTrims
  <1>3. CASE Again(changed) /\ UNCHANGED <<history, runStart>>
    <2>1. changed \in [why : {request.why}, retryEmpty : BOOLEAN, retries : 0..MaxRetries,
                       overflowed : BOOLEAN, held : 0..MaxRetries]
          /\ changed.held <= changed.retries
      BY DEF Inv, Types, Progress
    <2> HIDE DEF changed
    <2>2. QED
      BY <1>1, <1>3, <2>1, AgainKeeps
  <1>4. CASE Fail(<<>>)
    BY <1>1, <1>4, FaultCounts, FailKeeps
  <1>5. QED
    BY <1>2, <1>3, <1>4 DEF Overflow

\* What an answer makes of a history
Said(text, n) == Assistant(IF text THEN {"answer"} ELSE {}, Calls(n))
Replied(h, text, n) == IF text \/ n > 0 THEN Append(h, Said(text, n)) ELSE h

\* The message of an answer
LEMMA SaidFields ==
    ASSUME Inv, pc = "stream", NEW text \in BOOLEAN, NEW n \in 0..MaxCalls
    PROVE  LET m == Said(text, n)
           IN /\ m \in Message /\ m.role = "assistant" /\ m.texts \subseteq {"answer"}
              /\ m.uses = Calls(n) /\ DOMAIN m.results = {} /\ Ids(m) \subseteq Known
  <1> DEFINE t == IF text THEN {"answer"} ELSE {}
  <1>1. t \in SUBSET (Tags \cup Steers) /\ t \subseteq {"answer"}
    BY DEF Tags
  <1>2. Calls(n) \in SUBSET CallIds /\ Calls(n) \subseteq Known
    BY CallsKnown
  <1>3. Said(text, n) = Assistant(t, Calls(n))
    BY DEF Said
  <1> HIDE DEF t
  <1> DEFINE m == Assistant(t, Calls(n))
  <1>4. /\ m \in Message /\ m.role = "assistant" /\ m.texts = t
        /\ m.uses = Calls(n) /\ DOMAIN m.results = {}
    BY <1>1, <1>2, AssistantFields
  <1> HIDE DEF m
  <1>5. Ids(m) \subseteq Known
    BY <1>2, <1>4 DEF Ids
  <1>6. QED
    BY <1>1, <1>3, <1>4, <1>5 DEF m

\* No text of the loop is an instruction.
LEMMA NotASteer == \A s \in Steers : s \notin {"query", "answer", "partial", "prompt", "hint"}
  BY SteersAssumption DEF Tags

\* An answer, with or without the prompt that asked for it, owes its calls.
LEMMA RepliedKeeps ==
    ASSUME Inv, pc = "stream", NEW text \in BOOLEAN, NEW n \in 0..MaxCalls,
           NEW base, Whole(base), Owes(base) = {},
           base = history \/ history = Append(base, User({"prompt"}))
    PROVE  LET r == Replied(base, text, n)
           IN /\ Whole(r) /\ Owes(r) = Calls(n) /\ Tells(r, Bound) /\ Once(r)
              /\ Steers \cap Texts(r) = Steers \cap Texts(history)
              /\ \A s \in Steers : ToldIn(r, s) = ToldIn(history, s)
  <1> DEFINE m == Said(text, n)
             prompt == User({"prompt"})
             r == Replied(base, text, n)
  <1>1. base \in Seq(Message) /\ runStart \in Nat /\ runStart < Len(base)
    BY KnownHistory DEF Whole, Inv, Types
  <1>2. /\ m \in Message /\ m.texts \subseteq {"answer"} /\ m.uses = Calls(n)
        /\ DOMAIN m.results = {} /\ Ids(m) \subseteq Known
    BY SaidFields
  <1>3. /\ prompt \in Message /\ prompt.texts = {"prompt"}
    <2>1. {"prompt"} \in SUBSET (Tags \cup Steers)
      BY DEF Tags
    <2>2. QED
      BY <2>1, UserFields
  <1>4. Tells(history, Bound) /\ Once(history)
    BY CallHistory
  <1>5. /\ \A s \in Steers : ToldIn(base, s) = ToldIn(history, s)
        /\ Steers \cap Texts(base) = Steers \cap Texts(history)
        /\ Tells(base, Bound)
    <2>1. CASE base = history
      BY <1>4, <2>1
    <2>2. CASE history = Append(base, prompt)
      <3>1. ASSUME NEW s \in Steers PROVE ToldIn(base, s) = ToldIn(history, s)
        <4>1. s \notin prompt.texts
          BY <1>3, NotASteer
        <4>2. ToldIn(history, s) = ToldIn(base, s) \cup {}
          BY <1>1, <2>2, <4>1, ToldAppend
        <4>3. QED
          BY <4>2
      <3>2. Texts(history) = Texts(base) \cup {"prompt"}
        BY <1>1, <1>3, <2>2, TextsAppend
      <3>3. DOMAIN base \subseteq DOMAIN history /\ \A i \in DOMAIN base : base[i] = history[i]
        <4> HIDE DEF prompt
        <4>1. QED
          BY <1>1, <1>3, <2>2
      <3>4. Tells(base, Bound)
        BY <1>4, <3>3 DEF Tells
      <3>5. QED
        BY <3>1, <3>2, <3>4, NotASteer
    <2>3. QED
      BY <2>1, <2>2
  <1>6. Once(base)
    BY <1>4, <1>5 DEF Once
  <1> HIDE DEF m
  <1>7. CASE text \/ n > 0
    <2>1. r = Append(base, m)
      BY <1>7 DEF Replied, m
    <2>2. Whole(r) /\ Owes(r) = Calls(n)
      BY <1>1, <1>2, <2>1, WholeAppend
    <2>3. Tells(r, Bound)
      BY <1>1, <1>2, <1>5, <2>1, TellsAppend
    <2>4. \A s \in Steers : s \notin m.texts
      BY <1>2, NotASteer
    <2>5. Once(r)
      BY <1>1, <1>6, <2>1, <2>4, OnceAppend
    <2>6. Texts(r) = Texts(base) \cup m.texts
      BY <1>1, <2>1, TextsAppend
    <2>7. ASSUME NEW s \in Steers PROVE ToldIn(r, s) = ToldIn(history, s)
      <3>1. ToldIn(r, s) = ToldIn(base, s) \cup {}
        BY <1>1, <2>1, <2>4, ToldAppend
      <3>2. QED
        BY <1>5, <3>1
    <2> HIDE DEF r
    <2>8. QED
      BY <1>5, <2>2, <2>3, <2>4, <2>5, <2>6, <2>7 DEF r
  <1>8. CASE ~(text \/ n > 0)
    <2>1. r = base /\ n = 0
      BY <1>8 DEF Replied
    <2>2. Calls(0) = {}
      BY DEF Calls
    <2>3. QED
      BY <1>5, <1>6, <2>1, <2>2
  <1>9. QED
    BY <1>7, <1>8

\* The prompt of an answer is out of the history again.
LEMMA RepliedWithoutPrompt ==
    ASSUME Inv, pc = "stream", request.why # "main", NEW text \in BOOLEAN, NEW n \in 0..MaxCalls
    PROVE  \E base : /\ WithoutPrompt(Replied(history, text, n)) = Replied(base, text, n)
                     /\ Whole(base) /\ Owes(base) = {}
                     /\ base = history \/ history = Append(base, User({"prompt"}))
  <1> DEFINE m == Said(text, n)
             q == IF text \/ n > 0 THEN <<m>> ELSE <<>>
  <1>1. m \in Message /\ m.role = "assistant"
    BY SaidFields
  <1>2. \A h \in Seq(Message) : Replied(h, text, n) = h \o q
    BY <1>1 DEF Replied
  <1> HIDE DEF m
  <1>3. q \in Seq(Message) /\ \A i \in 1..Len(q) : q[i].role = "assistant"
    BY <1>1
  <1> HIDE DEF q
  <1>4. PICK base : /\ WithoutPrompt(history \o q) = base \o q
                    /\ Whole(base) /\ Owes(base) = {}
                    /\ base = history \/ history = Append(base, User({"prompt"}))
    BY <1>3, WithoutPromptKeeps
  <1>5. base \in Seq(Message) /\ history \in Seq(Message)
    BY <1>4, KnownHistory, CallHistory
  <1>6. QED
    BY <1>2, <1>4, <1>5

\* The summary ends the run, with its prompt taken out.
LEMMA SummaryStep ==
    ASSUME Inv, NEW text \in BOOLEAN, NEW n \in 0..MaxCalls, Summary(text, n)
    PROVE  Inv'
  <1>1. /\ pc = "stream" /\ request.why = "summary" /\ UNCHANGED runGhosts
        /\ effort + n <= MaxEffort /\ effort' = effort + n
        /\ End("completed", WithoutPrompt(Replied(history, text, n)))
    BY DEF Summary, Replied, Said
  <1>2. effort' \in 0..MaxEffort
    BY <1>1, LimitsAssumption DEF Inv, Types
  <1>3. PICK base : /\ WithoutPrompt(Replied(history, text, n)) = Replied(base, text, n)
                    /\ Whole(base) /\ Owes(base) = {}
                    /\ base = history \/ history = Append(base, User({"prompt"}))
    BY <1>1, RepliedWithoutPrompt
  <1> DEFINE r == Replied(base, text, n)
  <1>4. Whole(r)
    BY <1>1, <1>3, RepliedKeeps
  <1> HIDE DEF r
  <1>5. r \in Seq(MessageOf(Known)) /\ Answerable(r)
    BY <1>4 DEF Whole, Unbroken
  <1>6. inbox.keys \subseteq shown
    BY <1>1, SummaryShown
  <1>7. End("completed", r)
    BY <1>1, <1>3 DEF r
  <1>8. QED
    BY <1>1, <1>2, <1>5, <1>6, <1>7, EndKeeps

\* An answer joins the history; its calls are due.
LEMMA AnswerStep ==
    ASSUME Inv, NEW text \in BOOLEAN, NEW n \in 0..MaxCalls, Answer(text, n)
    PROVE  Inv'
  <1>1. /\ pc = "stream" /\ ~cancelled /\ effort + n <= MaxEffort /\ effort' = effort + n
        /\ answer' = [text |-> text, calls |-> n] /\ index' = 1
        /\ UNCHANGED <<messages, fresh, run, outcome, origLen, runStart, turn, request,
                       promptAt, results, failures, cancelled, inbox, ran, late, shown>>
    BY DEF Answer, msgVars, runGhosts
  <1>2. \/ /\ request.why = "main" /\ pc' = "answered"
           /\ history' = Replied(history, text, n)
        \/ /\ request.why = "explicit" /\ pc' = (IF n > 0 THEN "tools" ELSE "finish")
           /\ history' = WithoutPrompt(Replied(history, text, n))
    BY DEF Answer, Replied, Said
  <1>3. PICK base : /\ history' = Replied(base, text, n)
                    /\ Whole(base) /\ Owes(base) = {}
                    /\ base = history \/ history = Append(base, User({"prompt"}))
    <2>1. CASE request.why = "main"
      BY <1>1, <1>2, <2>1, CallHistory
    <2>2. CASE request.why # "main"
      <3>1. history' = WithoutPrompt(Replied(history, text, n))
        BY <1>2, <2>2
      <3>2. QED
        BY <1>1, <2>2, <3>1, RepliedWithoutPrompt
    <2>3. QED
      BY <2>1, <2>2
  <1> DEFINE r == Replied(base, text, n)
  <1>4. /\ Whole(r) /\ Owes(r) = Calls(n) /\ Tells(r, Bound) /\ Once(r)
        /\ Steers \cap Texts(r) = Steers \cap Texts(history)
        /\ \A s \in Steers : ToldIn(r, s) = ToldIn(history, s)
    BY <1>1, <1>3, RepliedKeeps
  <1>5. history' = r /\ r \in Seq(Message)
    BY <1>3, <1>4, KnownHistory
  <1> HIDE DEF r
  <1>6. /\ request.why \in {"main", "explicit"} /\ pc' \in {"answered", "tools", "finish"}
        /\ pc' = "tools" => n > 0
        /\ pc' = "finish" => ~(n > 0)
    BY <1>2
  <1>7. /\ turn \in Nat /\ run \in Nat /\ turn # 0
    BY <1>1, LimitsAssumption DEF Inv, Types, Progress
  <1>8. Calls(0) = {} /\ Asked' = Calls(n) /\ (~(n > 0) => Calls(n) = {})
    BY <1>1 DEF Calls, Asked
  <1>9. /\ results = User({}) /\ results.texts = {} /\ DOMAIN results.results = {}
    BY <1>1, CallHistory
  <1>10. Types'
    <2>1. pc' \in Stages
      BY <1>6 DEF Stages
    <2>2. effort' \in 0..MaxEffort /\ index' \in 0..MaxCalls
      BY <1>1, LimitsAssumption DEF Inv, Types
    <2>3. answer' \in [text : BOOLEAN, calls : 0..MaxCalls]
      BY <1>1
    <2>4. QED
      BY <1>1, <1>5, <2>1, <2>2, <2>3 DEF Inv, Types
  <1>11. Progress'
    <2>1. Acting' => 1 \in 1..n
      BY <1>6 DEF Acting
    <2>2. answer'.calls = n
      BY <1>1
    <2>3. QED
      BY <1>1, <1>6, <1>7, <2>1, <2>2 DEF Inv, Progress
  <1>12. Gathering'
    <2>1. pc' = "tools" => DOMAIN results'.results = Calls(index - 1)'
      <3>1. index' - 1 = 0
        BY <1>1
      <3>2. Calls(index - 1)' = {<<run, turn, request.why, k>> : k \in 1..(index' - 1)}
        BY <1>1 DEF Calls
      <3>3. QED
        BY <1>1, <1>9, <3>1, <3>2
    <2>2. QED
      BY <1>1, <1>6, <1>9, <2>1 DEF Gathering, Acting
  <1>13. Prompted' /\ Orderly'
    BY <1>1, <1>6 DEF Inv, Prompted, Orderly
  <1>14. Sound'
    BY <1>1 DEF Inv, Sound, Known
  <1>15. Kept'
    <2>1. Bound = turn /\ Bound' \in Nat /\ turn <= Bound'
      BY <1>1, <1>6, <1>7 DEF Bound, Asking
    <2>2. Due' = Calls(n)
      BY <1>6, <1>8 DEF Due, Acting
    <2>3. QED
      BY <1>1, <1>4, <1>5, <1>7, <2>1, <2>2, KeptBy
  <1>16. Truthful'
    <2>1. \A c \in ran : c[1] = run /\ c[2] <= turn /\ c[2] # turn
      BY <1>1, <1>6 DEF Inv, Truthful, Asking, Acting
    <2>2. QED
      BY <1>1, <1>9, <2>1 DEF Truthful
  <1>17. Noticed'
    <2>1. \A s \in Steers : ToldIn(history, s)' = ToldIn(history, s)
      BY <1>1, <1>4, <1>5 DEF ToldIn
    <2>2. Steers \cap Texts(history)' = Steers \cap Texts(history)
      BY <1>4, <1>5 DEF Texts
    <2>3. inbox.keys \subseteq Steers
      BY DEF Inv, Types, Inboxes
    <2>4. Notes' = Notes
      BY <1>1 DEF Notes
    <2>5. QED
      BY <1>1, <1>6, <2>1, <2>2, <2>3, <2>4 DEF Inv, Noticed, Acting
  <1>18. QED
    BY <1>10, <1>11, <1>12, <1>13, <1>14, <1>15, <1>16, <1>17 DEF Inv

----------------------------------------------------------------------------
(* Between the model calls.                                                *)

\* drain() leaves the keys.
LEMMA EmptiedInbox ==
    ASSUME Inv, inbox' = Emptied
    PROVE  /\ inbox' \in Inboxes /\ Len(inbox'.pending) <= MaxPending /\ Notes' = {}
           /\ inbox'.keys = inbox.keys /\ inbox'.accepting = inbox.accepting
  <1>1. inbox \in Inboxes
    BY DEF Inv, Types
  <1>2. /\ inbox' \in Inboxes /\ inbox'.pending = <<>>
        /\ inbox'.keys = inbox.keys /\ inbox'.accepting = inbox.accepting
    <2>1. <<>> \in Seq(Steers)
      OBVIOUS
    <2>2. QED
      BY <1>1, <2>1 DEF Emptied, Inboxes
  <1>3. Len(<<>>) <= MaxPending
    BY LimitsAssumption
  <1>4. Notes' = {}
    BY <1>2 DEF Notes, ToSet
  <1>5. QED
    BY <1>2, <1>3, <1>4

\* close() leaves the instructions.
LEMMA ClosedInbox ==
    ASSUME Inv, inbox' = [inbox EXCEPT !.accepting = FALSE]
    PROVE  /\ inbox' \in Inboxes /\ Len(inbox'.pending) <= MaxPending /\ Notes' = Notes
           /\ inbox'.keys = inbox.keys /\ ~inbox'.accepting
  <1>1. inbox \in Inboxes /\ Len(inbox.pending) <= MaxPending
    BY DEF Inv, Types
  <1>2. /\ inbox' \in Inboxes /\ inbox'.pending = inbox.pending
        /\ inbox'.keys = inbox.keys /\ ~inbox'.accepting
    BY <1>1 DEF Inboxes
  <1>3. QED
    BY <1>1, <1>2 DEF Notes

\* A waiting instruction was accepted, and is not told yet.
LEMMA MailFacts ==
    ASSUME Inv
    PROVE  /\ Notes \subseteq inbox.keys /\ inbox.keys \subseteq Steers
           /\ \A s \in Notes : s \in Steers /\ ToldIn(history, s) = {}
           /\ Notes \in SUBSET (Tags \cup Steers) /\ "query" \notin Notes
  <1>1. Notes \subseteq inbox.keys /\ inbox.keys \subseteq Steers
    BY DEF Inv, Noticed, Types, Inboxes
  <1>2. \A s \in Notes : s \in Steers /\ ToldIn(history, s) = {}
    BY <1>1 DEF Inv, Noticed
  <1>3. QED
    BY <1>1, <1>2, NotASteer

\* A history that owes nothing takes the waiting instructions.
LEMMA SteeredKeeps ==
    ASSUME Inv, pc \in {"top", "finish", "closing", "limit"}
    PROVE  LET h == Steered(history)
           IN /\ Whole(h) /\ Owes(h) = {} /\ Tells(h, Bound) /\ Once(h)
              /\ Texts(h) = Texts(history) \cup Notes
              /\ Bound = turn + 1 /\ turn \in Nat /\ h \in Seq(Message)
  <1>1. /\ Whole(history) /\ Owes(history) = {} /\ Tells(history, Bound) /\ Once(history)
        /\ Bound = turn + 1 /\ turn \in Nat
    BY LimitsAssumption DEF Inv, Kept, Due, Acting, Bound, Asking, Types
  <1>2. history \in Seq(Message) /\ runStart \in Nat /\ runStart < Len(history)
    BY <1>1, KnownHistory DEF Whole, Inv, Types
  <1>3. CASE Notes = {}
    BY <1>1, <1>2, <1>3 DEF Steered
  <1>4. CASE Notes # {}
    <2> DEFINE m == User(Notes)
               h == Append(history, m)
    <2>1. /\ m \in Message /\ m.texts = Notes /\ m.uses = {} /\ DOMAIN m.results = {}
      BY MailFacts, UserFields
    <2> HIDE DEF m
    <2>2. Ids(m) = {}
      BY <2>1 DEF Ids
    <2>3. Whole(h) /\ Owes(h) = {} /\ h \in Seq(Message)
      BY <1>1, <1>2, <2>1, <2>2, MailFacts, WholeAppend
    <2>4. Tells(h, Bound)
      BY <1>1, <1>2, <2>1, TellsAppend
    <2>5. Once(h)
      BY <1>1, <1>2, <2>1, MailFacts, OnceAppend
    <2>6. Texts(h) = Texts(history) \cup Notes
      BY <1>2, <2>1, TextsAppend
    <2>7. Steered(history) = h
      BY <1>4 DEF Steered, m
    <2> HIDE DEF h
    <2>8. QED
      BY <1>1, <2>3, <2>4, <2>5, <2>6, <2>7
  <1>5. QED
    BY <1>3, <1>4

\* The loop goes on with a history that has taken them.
LEMMA RedirectKeeps ==
    ASSUME Inv, pc \in {"answered", "finish", "closing"}, NEW h, Redirect(h),
           Whole(h), Owes(h) = {}, Tells(h, turn + 1), Once(h),
           Texts(h) = Texts(history) \cup Notes
    PROVE  Inv'
  <1>1. /\ pc' = "top" /\ inbox' = Emptied /\ history' = h
        /\ UNCHANGED <<messages, fresh, run, outcome, origLen, runStart, turn, request,
                       promptAt, answer, index, results, failures, cancelled, effort,
                       ran, late, shown>>
    BY DEF Redirect, msgVars, ghosts, runGhosts
  <1>2. /\ inbox' \in Inboxes /\ Len(inbox'.pending) <= MaxPending /\ Notes' = {}
        /\ inbox'.keys = inbox.keys /\ inbox'.accepting = inbox.accepting
    BY <1>1, EmptiedInbox
  <1>3. h \in Seq(Message) /\ turn \in Nat
    BY KnownHistory, LimitsAssumption DEF Inv, Types
  <1>4. Types'
    <2>1. "top" \in Stages
      BY DEF Stages
    <2>2. QED
      BY <1>1, <1>2, <1>3, <2>1 DEF Inv, Types
  <1>5. results = User({}) /\ results.texts = {}
    BY UserFields DEF Inv, Gathering, Acting
  <1>6. Progress' /\ Gathering' /\ Prompted' /\ Orderly'
    BY <1>1, <1>5 DEF Inv, Progress, Gathering, Prompted, Orderly, Acting
  <1>7. Sound' /\ Truthful'
    BY <1>1 DEF Inv, Sound, Known, Truthful, Asking, Acting
  <1>8. Kept'
    <2>1. Bound' = turn + 1 /\ Due' = {}
      BY <1>1 DEF Bound, Asking, Due, Acting
    <2>2. QED
      BY <1>1, <1>2, <1>3, <2>1, KeptBy
  <1>9. Noticed'
    <2>1. inbox.keys \subseteq Notes \cup shown \cup Texts(history) \cup results.texts
      BY DEF Inv, Noticed
    <2>2. QED
      BY <1>1, <1>2, <1>5, <2>1 DEF Noticed, Acting
  <1>10. QED
    BY <1>4, <1>6, <1>7, <1>8, <1>9 DEF Inv

\* Only the stage changes, or the inbox is closed, and nothing is called.
LEMMA StageKeeps ==
    ASSUME Inv, pc \in {"top", "finish", "closing", "answered"},
           pc' \in {"closing", "limit", "finish"}, pc' # "finish" \/ answer.calls = 0,
           pc = "top" => pc' = "limit", pc' = "limit" => turn # 0,
           \/ UNCHANGED inbox
           \/ inbox' = [inbox EXCEPT !.accepting = FALSE] /\ pc' = "limit",
           pc = "answered" => pc' = "finish",
           UNCHANGED <<msgVars, history, loopVars, cancelled, ghosts>>
    PROVE  Inv'
  <1>1. UNCHANGED <<messages, fresh, run, outcome, origLen, history, runStart, turn, request,
                    promptAt, answer, index, results, failures, cancelled, effort,
                    ran, late, shown>>
    BY DEF msgVars, loopVars, ghosts, runGhosts
  <1>2. /\ inbox' \in Inboxes /\ Len(inbox'.pending) <= MaxPending /\ Notes' = Notes
        /\ inbox'.keys = inbox.keys
    <2>1. CASE UNCHANGED inbox
      BY <2>1 DEF Inv, Types, Notes
    <2>2. CASE inbox' = [inbox EXCEPT !.accepting = FALSE]
      BY <2>2, ClosedInbox
    <2>3. QED
      BY <2>1, <2>2
  <1>3. Types'
    <2>1. pc' \in Stages
      BY DEF Stages
    <2>2. QED
      BY <1>1, <1>2, <2>1 DEF Inv, Types
  <1>4. results = User({}) /\ results.texts = {}
    BY UserFields DEF Inv, Gathering, Acting
  <1>5. Progress' /\ Gathering' /\ Prompted' /\ Orderly'
    BY <1>1, <1>4 DEF Inv, Progress, Gathering, Prompted, Orderly, Acting
  <1>6. Sound' /\ Truthful'
    BY <1>1 DEF Inv, Sound, Known, Truthful, Asking, Acting
  <1>7. Kept'
    <2>1. turn \in Nat
      BY LimitsAssumption DEF Inv, Types
    <2>2. Bound' = turn + 1 /\ Due' = {} /\ Bound \in Nat /\ Bound <= turn + 1
      BY <1>1, <2>1 DEF Bound, Asking, Due, Acting
    <2>3. Due = {}
      BY DEF Due, Acting, Asked, Calls
    <2>4. QED
      BY <1>1, <1>2, <2>1, <2>2, <2>3, KeptBy DEF Inv, Kept
  <1>8. Noticed'
    <2>1. \A s : ToldIn(history, s)' = ToldIn(history, s)
      BY <1>1 DEF ToldIn
    <2>2. QED
      BY <1>1, <1>2, <1>4, <2>1 DEF Inv, Noticed, Acting
  <1>9. QED
    BY <1>3, <1>5, <1>6, <1>7, <1>8 DEF Inv

\* The request that a step of the loop makes
LEMMA AskedRequest ==
    ASSUME NEW why \in Contexts, NEW retryEmpty \in BOOLEAN
    PROVE  LET r == [NoRequest EXCEPT !.why = why, !.retryEmpty = retryEmpty]
           IN /\ r.why = why /\ r.held = 0 /\ r.retries = 0
              /\ r \in [why : Contexts, retryEmpty : BOOLEAN, retries : 0..MaxRetries,
                         overflowed : BOOLEAN, held : 0..MaxRetries]
  <1>1. 0 \in 0..MaxRetries
    BY LimitsAssumption
  <1>2. NoRequest \in [why : Contexts, retryEmpty : BOOLEAN, retries : 0..MaxRetries,
                       overflowed : BOOLEAN, held : 0..MaxRetries]
        /\ NoRequest.held = 0 /\ NoRequest.retries = 0
    BY <1>1 DEF NoRequest, Contexts
  <1>3. QED
    BY <1>2

\* A prompt joins a history that owes nothing, and an answer to it is asked for.
LEMMA PromptKeeps ==
    ASSUME Inv, pc \in {"answered", "limit"}, Notes = {}, Due = {},
           NEW why \in {"explicit", "summary"}, Ask(why, FALSE),
           promptAt' = Len(history), history' = Append(history, User({"prompt"})),
           UNCHANGED turn,
           \/ pc = "answered" /\ why = "explicit" /\ UNCHANGED inbox
           \/ pc = "limit" /\ why = "summary" /\ inbox' = [inbox EXCEPT !.accepting = FALSE]
    PROVE  Inv'
  <1> DEFINE m == User({"prompt"})
             h == Append(history, m)
  <1>1. /\ pc' = "call" /\ history' = h /\ promptAt' = Len(history)
        /\ request' = [NoRequest EXCEPT !.why = why, !.retryEmpty = FALSE]
        /\ UNCHANGED <<messages, fresh, run, outcome, origLen, runStart, turn,
                       answer, index, results, failures, cancelled, effort,
                       ran, late, shown>>
    BY DEF Ask, msgVars, ghosts, runGhosts
  <1>2. /\ inbox' \in Inboxes /\ Len(inbox'.pending) <= MaxPending /\ Notes' = {}
        /\ inbox'.keys = inbox.keys
        /\ why = "summary" => ~inbox'.accepting
    <2>1. CASE UNCHANGED inbox /\ why = "explicit"
      BY <2>1 DEF Inv, Types, Notes
    <2>2. CASE inbox' = [inbox EXCEPT !.accepting = FALSE]
      BY <2>2, ClosedInbox
    <2>3. QED
      BY <2>1, <2>2
  <1>3. /\ request'.why = why /\ request'.held = 0 /\ request'.retries = 0
        /\ request' \in [why : Contexts, retryEmpty : BOOLEAN, retries : 0..MaxRetries,
                         overflowed : BOOLEAN, held : 0..MaxRetries]
    BY <1>1, AskedRequest DEF Contexts
  <1>4. /\ Whole(history) /\ Owes(history) = {} /\ Tells(history, Bound) /\ Once(history)
        /\ turn \in Nat /\ runStart \in Nat /\ turn # 0
    <2>1. Whole(history) /\ Owes(history) = {} /\ Tells(history, Bound) /\ Once(history)
      BY DEF Inv, Kept
    <2>2. turn \in Nat /\ runStart \in Nat
      BY LimitsAssumption DEF Inv, Types
    <2>3. turn # 0
      BY DEF Inv, Progress
    <2>4. QED
      BY <2>1, <2>2, <2>3
  <1>5. history \in Seq(Message) /\ runStart < Len(history) /\ Len(history) \in Nat
    BY <1>4, KnownHistory DEF Whole
  <1>6. /\ m \in Message /\ m.texts = {"prompt"} /\ m.uses = {} /\ DOMAIN m.results = {}
    <2>1. {"prompt"} \in SUBSET (Tags \cup Steers)
      BY DEF Tags
    <2>2. QED
      BY <2>1, UserFields
  <1> HIDE DEF m
  <1>7. Ids(m) = {} /\ \A s \in Steers : s \notin m.texts
    BY <1>6, NotASteer DEF Ids
  <1>8. Whole(h) /\ Owes(h) = {} /\ h \in Seq(Message)
    BY <1>4, <1>6, <1>7, WholeAppend
  <1>9. Tells(h, Bound) /\ Once(h)
    BY <1>4, <1>5, <1>6, <1>7, TellsAppend, OnceAppend
  <1>10. Texts(h) = Texts(history) \cup m.texts
    BY <1>5, TextsAppend
  <1>11. Len(h) = Len(history) + 1 /\ h[Len(history) + 1] = m
    BY <1>5
  <1> HIDE DEF h
  <1>12. Types'
    <2>1. "call" \in Stages
      BY DEF Stages
    <2>2. QED
      BY <1>1, <1>2, <1>3, <1>5, <1>8, <2>1 DEF Inv, Types
  <1>13. results = User({}) /\ results.texts = {}
    BY UserFields DEF Inv, Gathering, Acting
  <1>14. Progress' /\ Gathering' /\ Orderly'
    BY <1>1, <1>3, <1>4, <1>13 DEF Inv, Progress, Gathering, Orderly, Acting
  <1>15. Prompted'
    BY <1>1, <1>5, <1>11 DEF Prompted, m
  <1>16. Sound'
    BY <1>1 DEF Inv, Sound, Known
  <1>17. Truthful'
    BY <1>1, <1>3 DEF Inv, Truthful, Asking, Acting
  <1>18. Kept'
    <2>1. Bound \in Nat /\ Bound' = Bound /\ Due' = {}
      BY <1>1, <1>3, <1>4 DEF Bound, Asking, Due, Acting
    <2>2. QED
      BY <1>1, <1>2, <1>8, <1>9, <2>1, KeptBy
  <1>19. Noticed'
    <2>1. inbox.keys \subseteq Notes \cup shown \cup Texts(history) \cup results.texts
      BY DEF Inv, Noticed
    <2>2. QED
      BY <1>1, <1>2, <1>3, <1>10, <1>13, <2>1 DEF Noticed, Acting
  <1>20. QED
    BY <1>12, <1>14, <1>15, <1>16, <1>17, <1>18, <1>19 DEF Inv

\* The history of a run that is under way
LEMMA StayStanding ==
    ASSUME Inv, pc # "idle"
    PROVE  /\ Whole(history) /\ Standing(history) /\ Owes(history) = Due
           /\ history \in Seq(MessageOf(Known)) /\ history \in Seq(Message)
           /\ history # <<>> /\ Answerable(history) /\ runStart \in Nat /\ turn \in Nat
           /\ runStart < Len(history)
  <1>1. Whole(history) /\ Owes(history) = Due
    BY DEF Inv, Kept
  <1>2. runStart \in Nat /\ turn \in Nat
    BY LimitsAssumption DEF Inv, Types
  <1>3. QED
    BY <1>1, <1>2, KnownHistory, WholeStands DEF Standing

\* The top of the loop: the limit, the cancel, or the next turn.
LEMMA TopStep ==
    ASSUME Inv, Top
    PROVE  Inv'
  <1>1. pc = "top"
    BY DEF Top
  <1>2. CASE /\ turn >= MaxTurns /\ pc' = "limit"
             /\ UNCHANGED <<msgVars, history, loopVars, cancelled, inbox, ghosts>>
    <2>1. turn # 0
      BY <1>2, LimitsAssumption DEF Inv, Types
    <2>2. QED
      BY <1>1, <1>2, <2>1, StageKeeps
  <1>3. CASE cancelled /\ End("cancelled", HandleCancelled(history)) /\ UNCHANGED ghosts
    <2>1. Standing(HandleCancelled(history))
      BY <1>1, StayStanding, HandleCancelledWhole, WholeStands
    <2>2. effort' \in 0..MaxEffort /\ UNCHANGED runGhosts
      BY <1>3 DEF Inv, Types, ghosts
    <2>3. QED
      BY <1>1, <1>3, <2>1, <2>2, EndKeeps DEF Standing
  <1>4. CASE /\ turn < MaxTurns /\ ~cancelled /\ history' = Steered(history)
             /\ inbox' = Emptied /\ turn' = turn + 1 /\ Ask("main", TRUE)
             /\ UNCHANGED promptAt
    <2> DEFINE h == Steered(history)
    <2>1. /\ pc' = "call" /\ history' = h /\ turn' = turn + 1
          /\ request' = [NoRequest EXCEPT !.why = "main", !.retryEmpty = TRUE]
          /\ UNCHANGED <<messages, fresh, run, outcome, origLen, runStart, promptAt,
                         answer, index, results, failures, cancelled, effort,
                         ran, late, shown>>
      BY <1>4 DEF Ask, msgVars, ghosts, runGhosts
    <2>2. /\ inbox' \in Inboxes /\ Len(inbox'.pending) <= MaxPending /\ Notes' = {}
          /\ inbox'.keys = inbox.keys /\ inbox'.accepting = inbox.accepting
      BY <1>4, EmptiedInbox
    <2>3. /\ Whole(h) /\ Owes(h) = {} /\ Tells(h, turn + 1) /\ Once(h)
          /\ Texts(h) = Texts(history) \cup Notes
          /\ turn \in Nat /\ h \in Seq(Message)
      BY <1>1, SteeredKeeps
    <2>4. /\ request'.why = "main" /\ request'.held = 0 /\ request'.retries = 0
          /\ request' \in [why : Contexts, retryEmpty : BOOLEAN, retries : 0..MaxRetries,
                           overflowed : BOOLEAN, held : 0..MaxRetries]
      BY <2>1, AskedRequest DEF Contexts
    <2> HIDE DEF h
    <2>5. Types'
      <3>1. "call" \in Stages
        BY DEF Stages
      <3>2. turn' \in 0..MaxTurns
        BY <1>4, <2>3, LimitsAssumption
      <3>3. QED
        BY <2>1, <2>2, <2>3, <2>4, <3>1, <3>2 DEF Inv, Types
    <2>6. results = User({}) /\ results.texts = {}
      BY <1>1, UserFields DEF Inv, Gathering, Acting
    <2>7. turn' # 0
      BY <1>4, <2>3
    <2>8. Progress'
      BY <1>1, <2>1, <2>4, <2>7 DEF Inv, Progress, Acting
    <2>9. Gathering' /\ Orderly' /\ Prompted'
      BY <1>1, <2>1, <2>4, <2>6 DEF Inv, Gathering, Orderly, Prompted, Acting
    <2>10. Sound'
      BY <2>1 DEF Inv, Sound, Known
    <2>11. Truthful'
      <3>1. \A c \in ran : c[1] = run /\ c[2] <= turn
        BY <1>1 DEF Inv, Truthful
      <3>2. \A c \in ran : c[2] \in Nat
        BY DEF Inv, Types, CallIds
      <3>3. \A c \in ran : c[2] <= turn + 1 /\ c[2] # turn + 1
        BY <2>3, <3>1, <3>2
      <3>4. QED
        BY <1>1, <2>1, <3>1, <3>3 DEF Inv, Truthful
    <2>12. Kept'
      <3>1. Bound' = turn + 1 /\ Due' = {} /\ turn + 1 \in Nat
        BY <2>1, <2>3, <2>4 DEF Bound, Asking, Due, Acting
      <3>2. QED
        BY <2>1, <2>2, <2>3, <3>1, KeptBy
    <2>13. Noticed'
      <3>1. inbox.keys \subseteq Notes \cup shown \cup Texts(history) \cup results.texts
        BY <1>1 DEF Inv, Noticed
      <3>2. QED
        BY <2>1, <2>2, <2>3, <2>4, <2>6, <3>1 DEF Noticed, Acting
    <2>14. QED
      BY <2>5, <2>8, <2>9, <2>10, <2>11, <2>12, <2>13 DEF Inv
  <1>5. QED
    BY <1>1, <1>2, <1>3, <1>4 DEF Top

\* The calls that steering skips get their results with it.
LEMMA SkippedAnswer ==
    ASSUME Inv, pc = "answered" \/ Acting
    PROVE  /\ Asked \in SUBSET CallIds /\ Asked \subseteq Known
           /\ \A c \in Asked : c[1] = run /\ c[2] = turn
           /\ Owes(history) = Asked
  <1>1. answer.calls \in 0..MaxCalls
    BY DEF Inv, Types
  <1>2. pc \notin {"idle", "top", "limit"}
    BY DEF Acting
  <1>3. Owes(history) = Asked
    BY <1>2 DEF Inv, Kept, Due
  <1>4. QED
    BY <1>1, <1>2, <1>3, CallsKnown DEF Asked

\* A bound on the turns of the results may be raised.
LEMMA TellsWiden ==
    ASSUME NEW h, Whole(h), NEW b \in Nat, Tells(h, b)
    PROVE  Tells(h, b + 1)
  <1>1. ASSUME NEW i \in DOMAIN h, NEW c \in DOMAIN h[i].results, c[1] = run
        PROVE  (h[i].results[c] = "real") = (c \in ran) /\ c[2] < b + 1
    <2>1. (h[i].results[c] = "real") = (c \in ran) /\ c[2] < b
      BY <1>1 DEF Tells
    <2>2. c[2] \in Nat
      <3>1. i \in 1..Len(h)
        BY <1>1, KnownHistory
      <3>2. Ids(h[i]) \subseteq Known
        BY <3>1, KnownHistory
      <3>3. c \in CallIds
        BY <1>1, <3>2 DEF Ids, Known
      <3>4. QED
        BY <3>3 DEF CallIds
    <2>3. QED
      BY <2>1, <2>2
  <1>2. QED
    BY <1>1 DEF Tells

\* Steering skips the calls of an answer and gives each its result.
LEMMA AnsweredStep ==
    ASSUME Inv, Answered
    PROVE  Inv'
  <1>1. pc = "answered"
    BY DEF Answered
  <1>2. CASE Notes # {} /\ Redirect(Redirected(history))
    <2> DEFINE m == WithResults(User(Notes), All(Asked, "skipped"))
               h == Append(history, m)
    <2>1. /\ User(Notes) \in Message /\ User(Notes).role = "user" /\ User(Notes).texts = Notes
          /\ DOMAIN User(Notes).results = {}
      BY MailFacts, UserFields
    <2>2. /\ Asked \in SUBSET CallIds /\ Asked \subseteq Known /\ Owes(history) = Asked
          /\ \A c \in Asked : c[1] = run /\ c[2] = turn
      BY <1>1, SkippedAnswer
    <2>3. All(Asked, "skipped") \in Results /\ DOMAIN All(Asked, "skipped") = Asked
      BY <2>2, AllType DEF Hows
    <2>4. \A c \in Asked : All(Asked, "skipped")[c] = "skipped"
      BY DEF All
    <2>5. /\ m \in Message /\ m.texts = Notes /\ m.uses = {} /\ DOMAIN m.results = Asked
          /\ \A c \in Asked : m.results[c] = "skipped"
      <3>1. DOMAIN User(Notes).results \cup DOMAIN All(Asked, "skipped") = Asked
        BY <2>1, <2>3
      <3>2. /\ m \in Message /\ m.texts = User(Notes).texts /\ m.uses = {}
            /\ DOMAIN m.results = Asked
            /\ \A c \in Asked : m.results[c] = All(Asked, "skipped")[c]
        <4>1. /\ m \in Message /\ m.texts = User(Notes).texts /\ m.uses = {}
              /\ DOMAIN m.results = DOMAIN User(Notes).results \cup DOMAIN All(Asked, "skipped")
              /\ \A c \in DOMAIN m.results :
                   m.results[c] = IF c \in DOMAIN User(Notes).results
                                  THEN User(Notes).results[c] ELSE All(Asked, "skipped")[c]
          BY <2>1, <2>3, WithResultsFields
        <4> HIDE DEF m
        <4>2. QED
          BY <2>1, <3>1, <4>1
      <3> HIDE DEF m
      <3>3. QED
        BY <2>1, <2>4, <3>2
    <2> HIDE DEF m
    <2>6. Ids(m) \subseteq Known
      BY <2>2, <2>5 DEF Ids
    <2>7. /\ Whole(history) /\ Tells(history, turn) /\ Once(history)
          /\ history \in Seq(Message) /\ turn \in Nat /\ runStart \in Nat
          /\ runStart < Len(history)
      BY <1>1, StayStanding DEF Inv, Kept, Bound, Asking
    <2>8. Tells(history, turn + 1)
      BY <2>7, TellsWiden
    <2>9. Whole(h) /\ Owes(h) = {} /\ h \in Seq(Message)
      BY <2>2, <2>5, <2>6, <2>7, MailFacts, WholeAppend
    <2>10. Tells(h, turn + 1)
      <3>1. \A c \in ran : c[2] # turn
        BY <1>1 DEF Inv, Truthful, Asking, Acting
      <3>2. \A c \in Asked : c \notin ran /\ c[2] < turn + 1
        BY <2>2, <2>7, <3>1
      <3>3. QED
        BY <2>5, <2>7, <2>8, <3>2, TellsAppend
    <2>11. Once(h)
      BY <2>5, <2>7, MailFacts, OnceAppend
    <2>12. Texts(h) = Texts(history) \cup Notes
      BY <2>5, <2>7, TextsAppend
    <2>13. Redirect(h)
      BY <1>2 DEF Redirected, m
    <2> HIDE DEF h
    <2>14. QED
      BY <1>1, <2>9, <2>10, <2>11, <2>12, <2>13, RedirectKeeps
  <1>3. CASE /\ Notes = {} /\ answer.calls = 0 /\ promptAt' = Len(history)
             /\ history' = Append(history, User({"prompt"}))
             /\ Ask("explicit", FALSE) /\ UNCHANGED <<turn, inbox>>
    <2>1. Due = {}
      BY <1>3 DEF Due, Asked, Calls
    <2>2. QED
      BY <1>1, <1>3, <2>1, PromptKeeps
  <1>4. CASE /\ Notes = {} /\ answer.calls = 0 /\ pc' = "finish"
             /\ UNCHANGED <<msgVars, history, loopVars, cancelled, inbox, ghosts>>
    BY <1>1, <1>4, StageKeeps
  <1>5. CASE /\ Notes = {} /\ answer.calls > 0 /\ pc' = "tools"
             /\ UNCHANGED <<msgVars, history, loopVars, cancelled, inbox, ghosts>>
    <2>1. UNCHANGED <<messages, fresh, run, outcome, origLen, history, runStart, turn, request,
                      promptAt, answer, index, results, failures, cancelled, inbox, effort,
                      ran, late, shown>>
      BY <1>5 DEF msgVars, loopVars, ghosts, runGhosts
    <2>2. pc' = "tools"
      BY <1>5
    <2>3. Types'
      <3>1. "tools" \in Stages
        BY DEF Stages
      <3>2. QED
        BY <2>1, <2>2, <3>1 DEF Inv, Types
    <2>4. index = 1 /\ answer.calls \in Nat
      BY <1>1, LimitsAssumption DEF Inv, Progress, Types
    <2>5. results = User({}) /\ results.texts = {} /\ DOMAIN results.results = {}
      BY <1>1, UserFields DEF Inv, Gathering, Acting
    <2>6. Progress'
      <3>1. index \in 1..answer.calls
        BY <1>5, <2>4
      <3>2. QED
        BY <1>1, <2>1, <2>2, <3>1 DEF Inv, Progress, Acting
    <2>7. Gathering'
      <3>1. Calls(index - 1)' = {}
        BY <2>1, <2>4 DEF Calls
      <3>2. QED
        BY <2>1, <2>2, <2>5, <3>1 DEF Gathering, Acting
    <2>8. Sound' /\ Orderly' /\ Prompted'
      BY <1>1, <2>1, <2>2 DEF Inv, Sound, Known, Orderly, Prompted
    <2>9. Truthful'
      BY <1>1, <2>1, <2>2 DEF Inv, Truthful, Asking, Acting
    <2>10. Kept'
      BY <1>1, <2>1, <2>2 DEF Inv, Kept, Whole, Known, Tells, Once, ToldIn, Due, Bound, Asking,
                              Acting, Calls, Asked
    <2>11. Noticed'
      BY <1>1, <2>1, <2>2 DEF Inv, Noticed, Notes, ToldIn, Acting
    <2>12. QED
      BY <2>3, <2>6, <2>7, <2>8, <2>9, <2>10, <2>11 DEF Inv
  <1>6. QED
    BY <1>1, <1>2, <1>3, <1>4, <1>5 DEF Answered

\* The last drain before the inbox is closed
LEMMA FinishStep ==
    ASSUME Inv, Finish
    PROVE  Inv'
  <1>1. pc = "finish"
    BY DEF Finish
  <1>2. CASE Redirect(Steered(history))
    <2> DEFINE h == Steered(history)
    <2>1. /\ Whole(h) /\ Owes(h) = {} /\ Tells(h, turn + 1) /\ Once(h)
          /\ Texts(h) = Texts(history) \cup Notes
      BY <1>1, SteeredKeeps
    <2> HIDE DEF h
    <2>2. Redirect(h)
      BY <1>2 DEF h
    <2>3. QED
      BY <1>1, <2>1, <2>2, RedirectKeeps
  <1>3. CASE /\ pc' = "closing"
             /\ UNCHANGED <<msgVars, history, loopVars, cancelled, inbox, ghosts>>
    BY <1>1, <1>3, StageKeeps
  <1>4. QED
    BY <1>1, <1>2, <1>3 DEF Finish

\* A run that completes has shown the instructions it accepted.
LEMMA CloseStep ==
    ASSUME Inv, Close
    PROVE  Inv'
  <1>1. pc = "closing"
    BY DEF Close
  <1>2. CASE Redirect(Steered(history))
    <2> DEFINE h == Steered(history)
    <2>1. /\ Whole(h) /\ Owes(h) = {} /\ Tells(h, turn + 1) /\ Once(h)
          /\ Texts(h) = Texts(history) \cup Notes
      BY <1>1, SteeredKeeps
    <2> HIDE DEF h
    <2>2. Redirect(h)
      BY <1>2 DEF h
    <2>3. QED
      BY <1>1, <2>1, <2>2, RedirectKeeps
  <1>3. CASE Notes = {} /\ End("completed", history) /\ UNCHANGED ghosts
    <2>1. effort' \in 0..MaxEffort /\ UNCHANGED runGhosts
      BY <1>3 DEF Inv, Types, ghosts
    <2>2. inbox.keys \subseteq shown
      <3>1. inbox.keys \subseteq Notes \cup shown \cup Texts(history) \cup results.texts
            /\ Steers \cap Texts(history) \subseteq shown
        BY <1>1 DEF Inv, Noticed
      <3>2. results.texts = {}
        BY <1>1, UserFields DEF Inv, Gathering, Acting
      <3>3. QED
        BY <1>3, <3>1, <3>2, MailFacts
    <2>3. QED
      BY <1>1, <1>3, <2>1, <2>2, StayStanding, EndKeeps
  <1>4. CASE /\ turn >= MaxTurns /\ pc' = "limit" /\ inbox' = [inbox EXCEPT !.accepting = FALSE]
             /\ UNCHANGED <<msgVars, history, loopVars, cancelled, ghosts>>
    <2>1. turn # 0
      <3>1. turn \in Nat /\ MaxTurns \in Nat /\ MaxTurns # 0
        BY LimitsAssumption DEF Inv, Types
      <3>2. QED
        BY <1>4, <3>1
    <2>2. QED
      BY <1>1, <1>4, <2>1, StageKeeps
  <1>5. QED
    BY <1>1, <1>2, <1>3, <1>4 DEF Close

\* The drains of the limit, and the prompt for the summary
LEMMA LimitStep ==
    ASSUME Inv, Limit
    PROVE  Inv'
  <1>1. pc = "limit"
    BY DEF Limit
  <1>2. CASE /\ Notes = {} /\ inbox' = [inbox EXCEPT !.accepting = FALSE]
             /\ promptAt' = Len(history)
             /\ history' = Append(history, User({"prompt"}))
             /\ Ask("summary", FALSE) /\ UNCHANGED turn
    <2>1. Due = {}
      BY <1>1 DEF Due, Acting
    <2>2. QED
      BY <1>1, <1>2, <2>1, PromptKeeps
  <1>3. CASE /\ history' = Steered(history) /\ inbox' = Emptied
             /\ UNCHANGED <<msgVars, pc, loopVars, cancelled, ghosts>>
    <2> DEFINE h == Steered(history)
    <2>1. /\ history' = h
          /\ UNCHANGED <<messages, fresh, run, outcome, origLen, pc, runStart, turn, request,
                         promptAt, answer, index, results, failures, cancelled, effort,
                         ran, late, shown>>
      BY <1>3 DEF msgVars, loopVars, ghosts, runGhosts
    <2>2. /\ inbox' \in Inboxes /\ Len(inbox'.pending) <= MaxPending /\ Notes' = {}
          /\ inbox'.keys = inbox.keys /\ inbox'.accepting = inbox.accepting
      BY <1>3, EmptiedInbox
    <2>3. /\ Whole(h) /\ Owes(h) = {} /\ Tells(h, turn + 1) /\ Once(h)
          /\ Texts(h) = Texts(history) \cup Notes
          /\ turn \in Nat /\ h \in Seq(Message)
      BY <1>1, SteeredKeeps
    <2> HIDE DEF h
    <2>4. Types'
      BY <2>1, <2>2, <2>3 DEF Inv, Types
    <2>5. results = User({}) /\ results.texts = {}
      BY <1>1, UserFields DEF Inv, Gathering, Acting
    <2>6. Progress' /\ Gathering' /\ Orderly' /\ Prompted'
      BY <1>1, <2>1, <2>5 DEF Inv, Progress, Gathering, Orderly, Prompted, Acting
    <2>7. Sound' /\ Truthful'
      BY <1>1, <2>1 DEF Inv, Sound, Known, Truthful, Asking, Acting
    <2>8. Kept'
      <3>1. Bound' = turn + 1 /\ Due' = {} /\ turn + 1 \in Nat
        BY <1>1, <2>1, <2>3 DEF Bound, Asking, Due, Acting
      <3>2. QED
        BY <2>1, <2>2, <2>3, <3>1, KeptBy
    <2>9. Noticed'
      <3>1. inbox.keys \subseteq Notes \cup shown \cup Texts(history) \cup results.texts
        BY <1>1 DEF Inv, Noticed
      <3>2. QED
        BY <1>1, <2>1, <2>2, <2>3, <2>5, <3>1 DEF Noticed, Acting
    <2>10. QED
      BY <2>4, <2>6, <2>7, <2>8, <2>9 DEF Inv
  <1>4. QED
    BY <1>1, <1>2, <1>3 DEF Limit

----------------------------------------------------------------------------
(* The tools.                                                              *)

\* What has been gathered answers some of the calls; in the end, all of them.
LEMMA GatheringFacts ==
    ASSUME Inv, Acting
    PROVE  /\ pc \in {"tools", "tool", "gather"} /\ Asked # {}
           /\ index \in 1..answer.calls /\ answer.calls \in 1..MaxCalls
           /\ Asked \in SUBSET CallIds /\ Asked \subseteq Known
           /\ \A c \in Asked : c[1] = run /\ c[2] = turn
           /\ results \in Message /\ results.role = "user" /\ results.uses = {}
           /\ DOMAIN results.results \subseteq Asked
           /\ results.texts \subseteq Steers
  <1>1. answer.calls \in 0..MaxCalls /\ MaxCalls \in Nat /\ index \in 1..answer.calls
    BY LimitsAssumption DEF Inv, Types, Progress
  <1>2. answer.calls \in 1..MaxCalls
    BY <1>1
  <1>3. pc \in {"tools", "tool", "gather"}
    BY DEF Acting
  <1>4. results \in Message /\ results.role = "user" /\ results.uses = {}
    BY DEF Inv, Types, Message
  <1>5. Asked # {}
    BY <1>1 DEF Asked, Calls
  <1>6. Calls(index - 1) \subseteq Asked
    BY <1>1 DEF Calls, Asked
  <1>7. DOMAIN results.results \subseteq Asked /\ results.texts \subseteq Steers
    BY <1>3, <1>6 DEF Inv, Gathering
  <1>8. QED
    BY <1>1, <1>2, <1>3, <1>4, <1>5, <1>7, SkippedAnswer

\* The message that the finally clause appends
LEMMA GatheredMessage ==
    ASSUME Inv, Acting
    PROVE  \E m \in Message :
             /\ Gathered(history) = Append(history, m)
             /\ m.role = "user" /\ m.uses = {} /\ m.texts = results.texts
             /\ DOMAIN m.results \subseteq Asked /\ Ids(m) \subseteq Known
             /\ pc = "gather" => m = results
  <1>1. CASE results.texts = {} /\ DOMAIN results.results = {}
    <2> DEFINE m == [User({}) EXCEPT !.results = All(Asked, "interrupted")]
    <2>1. /\ User({}) \in Message /\ User({}).role = "user" /\ User({}).uses = {}
          /\ User({}).texts = {}
      BY UserFields
    <2>2. All(Asked, "interrupted") \in Results /\ DOMAIN All(Asked, "interrupted") = Asked
      BY GatheringFacts, AllType DEF Hows
    <2>3. /\ m \in Message /\ m.role = "user" /\ m.uses = {} /\ m.texts = {}
          /\ DOMAIN m.results = Asked
      BY <2>1, <2>2 DEF Message
    <2>4. Gathered(history) = Append(history, m)
      BY <1>1 DEF Gathered
    <2> HIDE DEF m
    <2>5. pc # "gather"
      BY <1>1, GatheringFacts DEF Inv, Gathering
    <2>6. Ids(m) \subseteq Known
      BY <2>3, GatheringFacts DEF Ids
    <2>7. QED
      BY <1>1, <2>3, <2>4, <2>5, <2>6
  <1>2. CASE ~(results.texts = {} /\ DOMAIN results.results = {})
    <2>1. Gathered(history) = Append(history, results)
      BY <1>2 DEF Gathered
    <2>2. Ids(results) \subseteq Known
      BY GatheringFacts DEF Ids
    <2>3. QED
      BY <2>1, <2>2, GatheringFacts
  <1>3. QED
    BY <1>1, <1>2

HintText == User({"hint"})

\* The hint for a repeated call
LEMMA HintFields ==
    /\ HintText \in Message /\ HintText.role = "user" /\ HintText.texts = {"hint"}
    /\ HintText.uses = {} /\ DOMAIN HintText.results = {} /\ Ids(HintText) = {}
  <1>1. {"hint"} \in SUBSET (Tags \cup Steers)
    BY DEF Tags
  <1>2. QED
    BY <1>1, UserFields DEF HintText, Ids

\* A history that ends with the user's message, and a hint behind it
LEMMA HintAppended ==
    ASSUME NEW g \in Seq(Message), NEW hint \in Hints
    PROVE  g \o hint = g \/ g \o hint = Append(g, HintText)
  <1>1. hint = <<>> \/ hint = <<HintText>>
    BY DEF Hints, HintText
  <1>2. g \o <<>> = g /\ g \o <<HintText>> = Append(g, HintText)
    BY HintFields
  <1>3. QED
    BY <1>1, <1>2

\* However a run ends in its tools, it hands over an answerable history.
LEMMA GatheredStands ==
    ASSUME Inv, Acting, NEW hint \in Hints
    PROVE  LET h == Gathered(history) \o hint
           IN Standing(h) /\ Standing(HandleCancelled(h))
  <1> DEFINE h == Gathered(history) \o hint
             marker == Assistant({"marker"}, {})
  <1>1. PICK m \in Message :
             /\ Gathered(history) = Append(history, m)
             /\ m.role = "user" /\ m.uses = {} /\ m.texts = results.texts
             /\ DOMAIN m.results \subseteq Asked /\ Ids(m) \subseteq Known
    BY GatheredMessage
  <1>2. pc # "idle" /\ Owes(history) = Asked
    BY SkippedAnswer DEF Acting
  <1>3. /\ Standing(history) /\ history \in Seq(Message) /\ runStart \in Nat
    BY <1>2, StayStanding
  <1> DEFINE g == Append(history, m)
  <1>4. "query" \notin m.texts
    BY <1>1, GatheringFacts, NotASteer
  <1>5. Standing(g) /\ Owes(g) = {}
    BY <1>1, <1>2, <1>3, <1>4, StandingAppend
  <1>6. g \in Seq(Message) /\ Len(g) \in Nat \ {0} /\ g[Len(g)] = m
    BY <1>3
  <1> HIDE DEF g
  <1>7. h = g \/ h = Append(g, HintText)
    BY <1>1, <1>6, HintAppended DEF g
  <1> HIDE DEF h
  <1>8. /\ Standing(h) /\ Owes(h) = {} /\ h \in Seq(Message) /\ h # <<>>
        /\ h[Len(h)].role = "user"
    <2>1. CASE h = g
      <3>1. g # <<>>
        BY <1>6
      <3>2. QED
        BY <1>1, <1>5, <1>6, <2>1, <3>1
    <2>2. CASE h = Append(g, HintText)
      <3>1. Standing(h) /\ Owes(h) = {}
        BY <1>3, <1>5, <2>2, HintFields, StandingAppend
      <3>2. h \in Seq(Message) /\ h # <<>> /\ h[Len(h)] = HintText
        BY <1>6, <2>2, HintFields
      <3>3. QED
        BY <3>1, <3>2, HintFields
    <2>3. QED
      BY <1>7, <2>1, <2>2
  <1>9. /\ marker \in Message /\ marker.texts = {"marker"} /\ marker.uses = {}
        /\ DOMAIN marker.results = {} /\ Ids(marker) = {}
    BY PlainReply
  <1>10. HandleCancelled(h) = Append(h, marker)
    <2>1. Last(h).role # "assistant"
      BY <1>8 DEF Last
    <2>2. HandleCancelled(h) = h \o <<>> \o <<marker>>
      BY <2>1 DEF HandleCancelled
    <2> HIDE DEF marker
    <2>3. QED
      BY <1>8, <1>9, <2>2
  <1> HIDE DEF marker
  <1>11. Standing(Append(h, marker))
    BY <1>3, <1>8, <1>9, StandingAppend
  <1>12. QED
    BY <1>8, <1>10, <1>11 DEF h

\* A run may end among its tools, with what was gathered.
LEMMA EndedKeeps ==
    ASSUME Inv, Acting, NEW how \in {"critical", "cancelled", "failed"}, NEW hint \in Hints,
           Ended(how, Gathered(history) \o hint), UNCHANGED ghosts
    PROVE  Inv'
  <1> DEFINE g == Gathered(history) \o hint
             h == IF how = "cancelled" THEN HandleCancelled(g) ELSE g
  <1>1. Standing(g) /\ Standing(HandleCancelled(g))
    BY GatheredStands
  <1>2. End(how, h)
    BY DEF Ended
  <1> HIDE DEF g
  <1>3. Standing(h)
    BY <1>1
  <1> HIDE DEF h
  <1>4. effort' \in 0..MaxEffort /\ UNCHANGED runGhosts /\ pc # "idle"
    BY GatheringFacts DEF Inv, Types, ghosts
  <1>5. QED
    BY <1>2, <1>3, <1>4, EndKeeps DEF Standing

\* The failure limit, or the guard of a durable run, ends it.
LEMMA ToolEndsRunStep ==
    ASSUME Inv, ToolEndsRun
    PROVE  Inv'
  <1>1. PICK how \in {"critical", "cancelled", "failed"}, hint \in Hints :
           Ended(how, Gathered(history) \o hint)
    BY DEF ToolEndsRun
  <1>2. Acting /\ UNCHANGED ghosts
    BY DEF ToolEndsRun, Acting
  <1>3. QED
    BY <1>1, <1>2, EndedKeeps

\* What a step among the tools leaves alone
LEMMA ActingKeeps ==
    ASSUME Inv, Acting, Acting',
           UNCHANGED <<messages, run, history, runStart, turn, request, promptAt, answer>>,
           inbox.keys \subseteq inbox'.keys,
           ran' = ran \/ \E k \in Nat : ran' = ran \cup {<<run, turn, request.why, k>>}
    PROVE  Sound' /\ Kept' /\ Prompted'
  <1>1. Sound' /\ Prompted'
    BY DEF Inv, Sound, Known, Prompted, Acting
  <1>2. Whole(history) /\ Owes(history) = Asked /\ Tells(history, turn) /\ Once(history)
    BY SkippedAnswer DEF Inv, Kept, Acting, Bound, Asking
  <1>3. Whole(history)'
    BY <1>2 DEF Whole, Known
  <1>4. Once(history)'
    BY <1>2 DEF Once, ToldIn
  <1>5. turn \in Nat
    BY LimitsAssumption DEF Inv, Types
  <1>6. Tells(history, turn)'
    <2>1. ASSUME NEW i \in DOMAIN history, NEW c \in DOMAIN history[i].results, c[1] = run
          PROVE  (history[i].results[c] = "real") = (c \in ran') /\ c[2] < turn
      <3>1. (history[i].results[c] = "real") = (c \in ran) /\ c[2] < turn
        BY <1>2, <2>1 DEF Tells
      <3>2. \A k : c # <<run, turn, request.why, k>>
        BY <1>5, <3>1
      <3>3. (c \in ran) = (c \in ran')
        BY <3>2
      <3>4. QED
        BY <3>1, <3>3
    <2>2. QED
      BY <2>1 DEF Tells
  <1>7. Bound' = turn' /\ Due' = Asked
    BY DEF Bound, Asking, Acting, Due, Asked, Calls
  <1>8. Owes(history)' = Asked
    BY <1>2 DEF Owes
  <1>9. QED
    BY <1>1, <1>3, <1>4, <1>6, <1>7, <1>8 DEF Kept

\* The checks before a tool: the cancel, the steering, or the tool.
LEMMA ToolGateStep ==
    ASSUME Inv, ToolGate
    PROVE  Inv'
  <1>1. pc = "tools" /\ Acting
    BY DEF ToolGate, Acting
  <1>2. CASE UNCHANGED ghosts /\ \E hint \in Hints : Ended("cancelled", Gathered(history) \o hint)
    BY <1>1, <1>2, EndedKeeps
  <1>3. CASE /\ results' = WithResults([results EXCEPT !.texts = Notes], All(Asked, "skipped"))
             /\ inbox' = Emptied /\ pc' = "gather"
             /\ UNCHANGED <<msgVars, history, runStart, turn, request, promptAt, answer,
                            index, failures, cancelled, ghosts>>
    <2>1. UNCHANGED <<messages, fresh, run, outcome, origLen, history, runStart, turn, request,
                      promptAt, answer, index, failures, cancelled, effort, ran, late, shown>>
      BY <1>3 DEF msgVars, ghosts, runGhosts
    <2>2. /\ inbox' \in Inboxes /\ Len(inbox'.pending) <= MaxPending /\ Notes' = {}
          /\ inbox'.keys = inbox.keys /\ inbox'.accepting = inbox.accepting
      BY <1>3, EmptiedInbox
    <2> DEFINE m == [results EXCEPT !.texts = Notes]
               all == All(Asked, "skipped")
    <2>3. /\ m \in Message /\ m.role = "user" /\ m.texts = Notes
          /\ m.results = results.results
      BY <1>1, GatheringFacts, MailFacts DEF Message
    <2>4. all \in Results /\ DOMAIN all = Asked /\ \A c \in Asked : all[c] = "skipped"
      BY <1>1, GatheringFacts, AllType DEF Hows, All
    <2> HIDE DEF m, all
    <2>5. results' = WithResults(m, all)
      BY <1>3 DEF m, all
    <2>6. /\ results' \in Message /\ results'.role = "user" /\ results'.texts = Notes
          /\ DOMAIN results'.results = DOMAIN results.results \cup Asked
          /\ \A c \in DOMAIN results'.results :
               results'.results[c] = IF c \in DOMAIN results.results
                                     THEN results.results[c] ELSE all[c]
      BY <2>3, <2>4, <2>5, WithResultsFields
    <2>7. DOMAIN results.results \cup Asked = Asked
      BY <1>1, GatheringFacts
    <2>8. pc' = "gather" /\ Acting' /\ Asked' = Asked
      BY <1>3, <2>1 DEF Acting, Asked, Calls
    <2>9. Types'
      <3>1. "gather" \in Stages
        BY DEF Stages
      <3>2. QED
        BY <2>1, <2>2, <2>6, <2>8, <3>1 DEF Inv, Types
    <2>10. Progress'
      BY <1>1, <2>1, <2>8 DEF Inv, Progress
    <2>11. Gathering'
      BY <2>6, <2>7, <2>8, MailFacts DEF Gathering
    <2>12. Sound' /\ Kept' /\ Prompted'
      BY <1>1, <2>1, <2>2, <2>8, ActingKeeps
    <2>13. Orderly'
      BY <2>1, <2>8 DEF Inv, Orderly
    <2>14. Truthful'
      <3>1. /\ \A c \in ran : c[1] = run /\ c[2] <= turn
            /\ \A c \in ran : c[2] = turn => c \in DOMAIN results.results
            /\ \A c \in DOMAIN results.results : (results.results[c] = "real") = (c \in ran)
        BY <1>1 DEF Inv, Truthful, Asking, Acting
      <3>2. \A c \in Asked : c[2] = turn
        BY <1>1, GatheringFacts
      <3>3. \A c \in DOMAIN results'.results : (results'.results[c] = "real") = (c \in ran)
        BY <2>4, <2>6, <2>7, <3>1, <3>2
      <3>4. \A c \in ran : c[2] = turn => c \in DOMAIN results'.results
        BY <2>6, <3>1
      <3>5. QED
        BY <2>1, <2>8, <3>1, <3>3, <3>4 DEF Truthful
    <2>15. Noticed'
      <3>1. /\ inbox.keys \subseteq Notes \cup shown \cup Texts(history) \cup results.texts
            /\ Steers \cap Texts(history) \subseteq shown
        BY <1>1 DEF Inv, Noticed
      <3>2. results.texts = {}
        BY <1>1 DEF Inv, Gathering
      <3>3. \A s : ToldIn(history, s)' = ToldIn(history, s)
        BY <2>1 DEF ToldIn
      <3>4. QED
        BY <2>1, <2>2, <2>6, <2>8, <3>1, <3>2, <3>3, MailFacts DEF Noticed
    <2>16. QED
      BY <2>9, <2>10, <2>11, <2>12, <2>13, <2>14, <2>15 DEF Inv
  <1>4. CASE /\ ~cancelled /\ pc' = "tool"
             /\ UNCHANGED <<msgVars, history, loopVars, cancelled, inbox, ghosts>>
    <2>1. UNCHANGED <<messages, fresh, run, outcome, origLen, history, runStart, turn, request,
                      promptAt, answer, index, results, failures, cancelled, inbox, effort,
                      ran, late, shown>>
      BY <1>4 DEF msgVars, loopVars, ghosts, runGhosts
    <2>2. pc' = "tool" /\ Acting'
      BY <1>4 DEF Acting
    <2>3. Types'
      <3>1. "tool" \in Stages
        BY DEF Stages
      <3>2. QED
        BY <2>1, <2>2, <3>1 DEF Inv, Types
    <2>4. Progress' /\ Gathering'
      BY <1>1, <2>1, <2>2 DEF Inv, Progress, Gathering, Calls
    <2>5. Sound' /\ Kept' /\ Prompted'
      BY <1>1, <2>1, <2>2, ActingKeeps
    <2>6. Orderly'
      <3>1. late = 0
        <4>1. late \in Nat /\ late <= 1 /\ late # 1
          BY <1>4, LimitsAssumption DEF Inv, Types, Orderly
        <4>2. QED
          BY <4>1
      <3>2. QED
        BY <2>1, <2>2, <3>1 DEF Orderly
    <2>7. Truthful'
      BY <1>1, <2>1, <2>2 DEF Inv, Truthful, Asking, Acting
    <2>8. Noticed'
      BY <1>1, <2>1, <2>2 DEF Inv, Noticed, Notes, ToldIn
    <2>9. QED
      BY <2>3, <2>4, <2>5, <2>6, <2>7, <2>8 DEF Inv
  <1>5. QED
    BY <1>1, <1>2, <1>3, <1>4 DEF ToolGate

\* The result of the current call joins what is gathered.
LEMMA RecordKeeps ==
    ASSUME Inv, pc = "tool", NEW how \in {"real", "refused"}, NEW failed \in BOOLEAN,
           Record(how, failed)
    PROVE  Inv'
  <1> DEFINE all == All({ThisCall}, how)
             next == IF index < answer.calls THEN "tools" ELSE "gather"
  <1>1. /\ results' = WithResults(results, all)
        /\ failures' = (IF failed THEN failures + 1 ELSE 0)
        /\ ran' = (IF how = "real" THEN ran \cup {ThisCall} ELSE ran)
        /\ late' = (IF how = "real" /\ cancelled THEN late + 1 ELSE late)
        /\ index' = (IF index < answer.calls THEN index + 1 ELSE index)
        /\ pc' = next
        /\ UNCHANGED <<messages, fresh, run, outcome, origLen, history, runStart, turn, request,
                       promptAt, answer, cancelled, inbox, shown, effort>>
    BY DEF Record, msgVars
  <1>2. Acting /\ Acting' /\ pc' \in {"tools", "gather"}
    BY <1>1 DEF Acting
  <1>3. /\ index \in 1..answer.calls /\ answer.calls \in 1..MaxCalls /\ MaxCalls \in Nat
        /\ results \in Message /\ results.role = "user"
        /\ Asked \in SUBSET CallIds /\ \A c \in Asked : c[1] = run /\ c[2] = turn
    BY <1>2, GatheringFacts, LimitsAssumption
  <1>4. ThisCall \in Asked
    BY <1>3 DEF ThisCall, Asked, Calls
  <1>5. ThisCall \in CallIds /\ ThisCall[1] = run /\ ThisCall[2] = turn
    BY <1>3, <1>4
  <1>6. results.texts = {} /\ DOMAIN results.results = Calls(index - 1)
    BY DEF Inv, Gathering
  <1>7. Calls(index) = Calls(index - 1) \cup {ThisCall} /\ ThisCall \notin Calls(index - 1)
    <2>1. 1..index = 1..(index - 1) \cup {index} /\ index \notin 1..(index - 1)
      BY <1>3
    <2>2. QED
      BY <2>1 DEF Calls, ThisCall
  <1>8. all \in Results /\ DOMAIN all = {ThisCall} /\ all[ThisCall] = how
    <2>1. {ThisCall} \in SUBSET CallIds /\ how \in Hows
      BY <1>5 DEF Hows
    <2>2. QED
      BY <2>1, AllType DEF All
  <1> HIDE DEF all
  <1>9. /\ results' \in Message /\ results'.role = "user" /\ results'.texts = {}
        /\ DOMAIN results'.results = DOMAIN results.results \cup {ThisCall}
        /\ \A c \in DOMAIN results'.results :
             results'.results[c] = IF c \in DOMAIN results.results
                                   THEN results.results[c] ELSE all[c]
    BY <1>1, <1>3, <1>6, <1>8, WithResultsFields
  <1>10. DOMAIN results'.results = Calls(index)
    BY <1>6, <1>7, <1>9
  <1>11. late = 0
    BY DEF Inv, Orderly
  <1>12. Types'
    <2>1. pc' \in Stages
      BY <1>2 DEF Stages
    <2>2. index' \in 0..MaxCalls
      BY <1>1, <1>3
    <2>3. failures' \in Nat
      BY <1>1 DEF Inv, Types
    <2>4. late' \in 0..MaxCalls
      BY <1>1, <1>3, <1>11
    <2>5. ran' \subseteq CallIds
      BY <1>1, <1>5 DEF Inv, Types
    <2>6. QED
      BY <1>1, <1>9, <2>1, <2>2, <2>3, <2>4, <2>5 DEF Inv, Types
  <1>13. Progress'
    <2>1. index' \in 1..answer.calls
      BY <1>1, <1>3
    <2>2. pc' \notin {"idle", "answered"} /\ turn # 0 /\ request.why # "summary"
      BY <1>2 DEF Inv, Progress, Acting
    <2>3. QED
      BY <1>1, <2>1, <2>2 DEF Inv, Progress
  <1>14. Gathering'
    <2>1. CASE index < answer.calls
      <3>1. pc' = "tools" /\ index' - 1 = index
        BY <1>1, <1>3, <2>1
      <3>2. Calls(index - 1)' = {<<run, turn, request.why, k>> : k \in 1..(index' - 1)}
        BY <1>1 DEF Calls
      <3>3. Calls(index - 1)' = Calls(index)
        BY <3>1, <3>2 DEF Calls
      <3>4. QED
        BY <1>2, <1>9, <1>10, <3>1, <3>3 DEF Gathering
    <2>2. CASE ~(index < answer.calls)
      <3>1. pc' = "gather" /\ index = answer.calls
        BY <1>1, <1>3, <2>2
      <3>2. Asked' = Calls(index)
        BY <1>1, <3>1 DEF Asked, Calls
      <3>3. QED
        BY <1>2, <1>9, <1>10, <3>1, <3>2 DEF Gathering
    <2>3. QED
      BY <2>1, <2>2
  <1>15. Sound' /\ Kept' /\ Prompted'
    <2>1. ran' = ran \/ \E k \in Nat : ran' = ran \cup {<<run, turn, request.why, k>>}
      BY <1>1, <1>3 DEF ThisCall
    <2>2. QED
      BY <1>1, <1>2, <2>1, ActingKeeps
  <1>16. Orderly'
    <2>1. late' <= 1 /\ (late' = 1 => cancelled)
      BY <1>1, <1>11
    <2>2. QED
      BY <1>1, <1>2, <2>1 DEF Orderly
  <1>17. Truthful'
    <2>1. /\ \A c \in ran : c[1] = run /\ c[2] <= turn
          /\ \A c \in ran : c[2] = turn => c \in DOMAIN results.results
          /\ \A c \in DOMAIN results.results : (results.results[c] = "real") = (c \in ran)
      BY <1>2 DEF Inv, Truthful, Asking, Acting
    <2>2. turn \in Nat
      BY LimitsAssumption DEF Inv, Types
    <2>3. ThisCall \notin ran
      BY <1>5, <1>6, <1>7, <2>1
    <2>4. \A c : c \in ran' <=> c \in ran \/ (how = "real" /\ c = ThisCall)
      BY <1>1
    <2>5. \A c \in ran' : c[1] = run /\ c[2] <= turn
      BY <1>5, <2>1, <2>2, <2>4
    <2>6. \A c \in ran' : c[2] = turn => c \in DOMAIN results'.results
      BY <1>9, <2>1, <2>4
    <2>7. ASSUME NEW c \in DOMAIN results'.results
          PROVE  (results'.results[c] = "real") = (c \in ran')
      <3>1. CASE c = ThisCall
        <4>1. results'.results[c] = how
          BY <1>6, <1>7, <1>8, <1>9, <3>1
        <4>2. c \in ran' <=> how = "real"
          BY <2>3, <2>4, <3>1
        <4>3. QED
          BY <4>1, <4>2
      <3>2. CASE c # ThisCall
        <4>1. c \in DOMAIN results.results /\ results'.results[c] = results.results[c]
          BY <1>9, <3>2
        <4>2. c \in ran' <=> c \in ran
          BY <2>4, <3>2
        <4>3. QED
          BY <2>1, <4>1, <4>2
      <3>3. QED
        BY <3>1, <3>2
    <2>8. QED
      BY <1>1, <1>2, <2>5, <2>6, <2>7 DEF Truthful
  <1>18. Noticed'
    <2>1. \A s : ToldIn(history, s)' = ToldIn(history, s)
      BY <1>1 DEF ToldIn
    <2>2. Notes' = Notes
      BY <1>1 DEF Notes
    <2>3. QED
      BY <1>1, <1>2, <1>6, <1>9, <2>1, <2>2 DEF Inv, Noticed, Acting
  <1>19. QED
    BY <1>12, <1>13, <1>14, <1>15, <1>16, <1>17, <1>18 DEF Inv

\* A tool runs, or its call is refused.
LEMMA RunToolStep ==
    ASSUME Inv, RunTool
    PROVE  Inv'
  BY RecordKeeps DEF RunTool

\* A message of texts that are not instructions changes nothing of the steering.
LEMMA HintKeeps ==
    ASSUME NEW g, Whole(g), Owes(g) = {}, NEW b, Tells(g, b), Once(g), runStart \in Nat
    PROVE  LET h == Append(g, HintText)
           IN /\ Whole(h) /\ Owes(h) = {} /\ Tells(h, b) /\ Once(h)
              /\ Texts(g) \subseteq Texts(h)
              /\ \A s \in Steers : ToldIn(h, s) = ToldIn(g, s)
  <1> DEFINE h == Append(g, HintText)
  <1>1. g \in Seq(Message) /\ runStart < Len(g)
    BY KnownHistory DEF Whole
  <1>2. "query" \notin HintText.texts /\ \A s \in Steers : s \notin HintText.texts
    BY HintFields, NotASteer
  <1>3. Whole(h) /\ Owes(h) = {}
    BY <1>2, HintFields, WholeAppend
  <1>4. Tells(h, b) /\ Once(h)
    BY <1>1, <1>2, HintFields, TellsAppend, OnceAppend
  <1>5. Texts(g) \subseteq Texts(h)
    BY <1>1, TextsAppend
  <1>6. ASSUME NEW s \in Steers PROVE ToldIn(h, s) = ToldIn(g, s)
    <2>1. ToldIn(h, s) = ToldIn(g, s) \cup (IF s \in HintText.texts THEN {Len(g) + 1} ELSE {})
      BY <1>1, ToldAppend
    <2> HIDE DEF h
    <2>2. ToldIn(h, s) = ToldIn(g, s) \cup {}
      BY <1>2, <2>1
    <2>3. QED
      BY <2>2
  <1>7. QED
    BY <1>3, <1>4, <1>5, <1>6

\* The history takes the results, and the loop goes on.
LEMMA GatherStep ==
    ASSUME Inv, Gather
    PROVE  Inv'
  <1>1. pc = "gather" /\ Acting
    BY DEF Gather, Acting
  <1>2. PICK hint \in Hints : history' = Gathered(history) \o hint
    BY DEF Gather
  <1>3. /\ pc' = "top" /\ results' = User({})
        /\ UNCHANGED <<messages, fresh, run, outcome, origLen, runStart, turn, request,
                       promptAt, answer, index, failures, cancelled, inbox, effort,
                       ran, late, shown>>
    BY DEF Gather, msgVars, ghosts, runGhosts
  <1> DEFINE g == Append(history, results)
             h == Gathered(history) \o hint
  <1>4. Gathered(history) = g /\ Ids(results) \subseteq Known
    BY <1>1, GatheredMessage
  <1>5. /\ results \in Message /\ results.uses = {} /\ results.texts \subseteq Steers
        /\ \A c \in Asked : c[1] = run /\ c[2] = turn
    BY <1>1, GatheringFacts
  <1>6. DOMAIN results.results = Asked /\ Owes(history) = Asked
    BY <1>1, SkippedAnswer DEF Inv, Gathering
  <1>7. /\ Whole(history) /\ Tells(history, turn) /\ Once(history) /\ turn \in Nat
        /\ history \in Seq(Message) /\ runStart \in Nat /\ runStart < Len(history)
    BY <1>1, StayStanding DEF Inv, Kept, Bound, Asking
  <1>8. Tells(history, turn + 1)
    BY <1>7, TellsWiden
  <1>9. Whole(g) /\ Owes(g) = {} /\ g \in Seq(Message)
    <2>1. "query" \notin results.texts
      BY <1>5, NotASteer
    <2>2. QED
      BY <1>4, <1>5, <1>6, <1>7, <2>1, WholeAppend
  <1>10. Tells(g, turn + 1)
    <2>1. \A c \in DOMAIN results.results : (results.results[c] = "real") = (c \in ran)
      BY <1>1 DEF Inv, Truthful
    <2>2. \A c \in DOMAIN results.results : c[2] < turn + 1
      BY <1>5, <1>6, <1>7
    <2>3. QED
      BY <1>7, <1>8, <2>1, <2>2, TellsAppend
  <1>11. \A s \in results.texts :
            s \in Steers /\ s \in inbox.keys /\ s \notin Notes /\ ToldIn(history, s) = {}
    BY <1>5 DEF Inv, Noticed
  <1>12. Once(g)
    BY <1>7, <1>11, OnceAppend
  <1>13. Texts(g) = Texts(history) \cup results.texts
    BY <1>7, TextsAppend
  <1>14. ASSUME NEW s \in Steers, s \in Notes PROVE ToldIn(g, s) = {}
    <2>1. s \notin results.texts /\ ToldIn(history, s) = {}
      BY <1>11, <1>14 DEF Inv, Noticed
    <2>2. ToldIn(g, s) = ToldIn(history, s) \cup (IF s \in results.texts THEN {Len(history) + 1}
                                                  ELSE {})
      BY <1>7, ToldAppend
    <2> HIDE DEF g
    <2>3. QED
      BY <2>1, <2>2
  <1> HIDE DEF g
  <1>15. h = g \/ h = Append(g, HintText)
    BY <1>4, <1>9, HintAppended
  <1> HIDE DEF h
  <1>16. /\ Whole(h) /\ Owes(h) = {} /\ Tells(h, turn + 1) /\ Once(h)
         /\ Texts(g) \subseteq Texts(h) /\ \A s \in Steers : ToldIn(h, s) = ToldIn(g, s)
    <2>1. CASE h = g
      BY <1>9, <1>10, <1>12, <2>1
    <2>2. CASE h = Append(g, HintText)
      BY <1>7, <1>9, <1>10, <1>12, <2>2, HintKeeps
    <2>3. QED
      BY <1>15, <2>1, <2>2
  <1>17. history' = h /\ h \in Seq(Message)
    BY <1>2, <1>16, KnownHistory DEF h
  <1>18. /\ User({}) \in Message /\ User({}).role = "user" /\ User({}).texts = {}
         /\ DOMAIN User({}).results = {}
    BY UserFields
  <1>19. Types'
    <2>1. "top" \in Stages
      BY DEF Stages
    <2>2. QED
      BY <1>3, <1>17, <1>18, <2>1 DEF Inv, Types
  <1>20. Progress' /\ Gathering' /\ Prompted' /\ Orderly'
    BY <1>1, <1>3 DEF Inv, Progress, Gathering, Prompted, Orderly, Acting
  <1>21. Sound'
    BY <1>3 DEF Inv, Sound, Known
  <1>22. Truthful'
    BY <1>1, <1>3, <1>18 DEF Inv, Truthful, Asking, Acting
  <1>23. Kept'
    <2>1. Bound' = turn + 1 /\ Due' = {} /\ turn + 1 \in Nat
      BY <1>3, <1>7 DEF Bound, Asking, Due, Acting
    <2>2. QED
      BY <1>3, <1>7, <1>16, <1>17, <2>1, KeptBy
  <1>24. Noticed'
    <2>1. inbox.keys \subseteq Notes \cup shown \cup Texts(history) \cup results.texts
          /\ Notes \subseteq inbox.keys
      BY <1>1 DEF Inv, Noticed
    <2>2. inbox.keys \subseteq Notes \cup shown \cup Texts(h)
      BY <1>13, <1>16, <2>1
    <2>3. \A s \in Steers : ToldIn(history, s)' = ToldIn(h, s)
      BY <1>3, <1>17 DEF ToldIn
    <2>4. \A s \in Steers : ToldIn(h, s) # {} => s \notin Notes
      BY <1>14, <1>16
    <2>5. Notes' = Notes /\ Texts(history)' = Texts(h)
      BY <1>3, <1>17 DEF Notes, Texts
    <2>6. QED
      BY <1>3, <1>18, <2>1, <2>2, <2>3, <2>4, <2>5 DEF Noticed, Acting
  <1>25. QED
    BY <1>19, <1>20, <1>21, <1>22, <1>23, <1>24 DEF Inv

----------------------------------------------------------------------------
(* What every run satisfies.                                               *)

\* Nothing changes between the steps.
LEMMA StutterStep ==
    ASSUME Inv, UNCHANGED vars
    PROVE  Inv'
  <1>1. UNCHANGED <<messages, fresh, run, outcome, origLen, pc, history, runStart, turn, request,
                    promptAt, answer, index, results, failures, cancelled, inbox, effort,
                    ran, late, shown>>
    BY DEF vars, msgVars, loopVars, ghosts, runGhosts
  <1>2. Types' /\ Progress' /\ Prompted'
    BY <1>1 DEF Inv, Types, Progress, Prompted, Acting
  <1>3. Gathering'
    BY <1>1 DEF Inv, Gathering, Acting, Asked, Calls
  <1>4. Sound' /\ Truthful'
    BY <1>1 DEF Inv, Sound, Known, Truthful, Asking, Acting
  <1>5. Kept'
    BY <1>1 DEF Inv, Kept, Whole, Known, Tells, Once, ToldIn, Due, Bound, Asking, Acting,
                Calls, Asked
  <1>6. Noticed'
    BY <1>1 DEF Inv, Noticed, Notes, ToldIn, Acting
  <1>7. Orderly'
    BY <1>1 DEF Inv, Orderly, RunIsPublished
  <1>8. QED
    BY <1>2, <1>3, <1>4, <1>5, <1>6, <1>7 DEF Inv

\* The invariant is inductive: every step of a run, a cancel and a steering
\* instruction of another thread among them, leaves the history answered,
\* truthful, and with every instruction in one place.
THEOREM Invariance == Spec => []Inv
  <1>1. ASSUME Inv, [Next]_vars PROVE Inv'
    <2>1. CASE \E clear \in BOOLEAN : Start(clear)
      BY <1>1, <2>1, StartStep
    <2>2. CASE Cancel
      BY <1>1, <2>2, CancelStep
    <2>3. CASE \E s \in Steers : Submit(s)
      BY <1>1, <2>3, SubmitStep
    <2>4. CASE Top \/ Request \/ Overflow \/ StreamCancelled \/ StreamFails
               \/ StreamRetried \/ EmptyAnswer
      BY <1>1, <2>4, TopStep, RequestStep, OverflowStep, StreamCancelledStep,
         StreamFailsStep, StreamRetriedStep, EmptyAnswerStep
    <2>5. CASE \E text \in BOOLEAN, n \in 0..MaxCalls : Answer(text, n) \/ Summary(text, n)
      BY <1>1, <2>5, AnswerStep, SummaryStep
    <2>6. CASE Answered \/ Finish \/ Close \/ Limit
      BY <1>1, <2>6, AnsweredStep, FinishStep, CloseStep, LimitStep
    <2>7. CASE ToolGate \/ RunTool \/ ToolEndsRun \/ Gather
      BY <1>1, <2>7, ToolGateStep, RunToolStep, ToolEndsRunStep, GatherStep
    <2>8. CASE UNCHANGED vars
      BY <1>1, <2>8, StutterStep
    <2>9. QED
      BY <1>1, <2>1, <2>2, <2>3, <2>4, <2>5, <2>6, <2>7, <2>8 DEF Next, Step
  <1>2. QED
    BY InitInv, <1>1, PTL DEF Spec

\* The invariant speaks of the sequences, the type invariant of their elements.
LEMMA MessagesTyped ==
    ASSUME NEW ms \in Seq(Message)
    PROVE  \A i \in DOMAIN ms :
             /\ ms[i].role \in {"user", "assistant"}
             /\ ms[i].texts \subseteq Tags \cup Steers
             /\ ms[i].uses \subseteq CallIds /\ DOMAIN ms[i].results \subseteq CallIds
             /\ \A c \in DOMAIN ms[i].results : ms[i].results[c] \in Hows
  <1>1. ASSUME NEW i \in DOMAIN ms
        PROVE  /\ ms[i].role \in {"user", "assistant"}
               /\ ms[i].texts \subseteq Tags \cup Steers
               /\ ms[i].uses \subseteq CallIds /\ DOMAIN ms[i].results \subseteq CallIds
               /\ \A c \in DOMAIN ms[i].results : ms[i].results[c] \in Hows
    <2>1. ms[i] \in Message
      OBVIOUS
    <2>2. ms[i].results \in Results
      BY <2>1 DEF Message
    <2>3. PICK D \in SUBSET CallIds : ms[i].results \in [D -> Hows]
      BY <2>2 DEF Results
    <2>4. DOMAIN ms[i].results \subseteq CallIds
          /\ \A c \in DOMAIN ms[i].results : ms[i].results[c] \in Hows
      BY <2>3
    <2>5. QED
      BY <2>1, <2>4 DEF Message
  <1>2. QED
    BY <1>1

\* What a model call is about to send needs no repair (and the variables have
\* their types): whatever redirected, trimmed, compressed or retried the run, a
\* call has its result in the next message and a result its call before it.
THEOREM HistoryNeedsNoRepair == Spec => []NothingToRepair
  <1>1. ASSUME Inv PROVE TypeOK
    <2>1. Types
      BY <1>1 DEF Inv
    <2>2. <<results>> \in Seq(Message)
      BY <2>1 DEF Types
    <2>3. \A ms \in {messages, fresh, history, <<results>>} : ms \in Seq(Message)
      BY <2>1, <2>2 DEF Types
    <2>4. \A ms \in {messages, fresh, history, <<results>>} : \A i \in DOMAIN ms :
            /\ ms[i].role \in {"user", "assistant"}
            /\ ms[i].texts \subseteq Tags \cup Steers
            /\ ms[i].uses \subseteq CallIds /\ DOMAIN ms[i].results \subseteq CallIds
            /\ \A c \in DOMAIN ms[i].results : ms[i].results[c] \in Hows
      BY <2>3, MessagesTyped
    <2>5. /\ inbox.accepting \in BOOLEAN /\ inbox.keys \subseteq Steers
          /\ inbox.pending \in Seq(Steers) /\ Len(inbox.pending) <= MaxPending
      BY <2>1 DEF Types, Inboxes
    <2>6. QED
      BY <2>1, <2>4, <2>5 DEF Types, TypeOK
  <1>2. ASSUME Inv, pc = "call" PROVE Paired(history)
    <2>1. history \in Seq(Message) /\ Unbroken(history) /\ Owes(history) = {}
      BY <1>2, CallHistory
    <2>2. QED
      BY <2>1, PairedUnbroken
  <1>3. Inv => NothingToRepair
    BY <1>1, <1>2 DEF NothingToRepair
  <1>4. QED
    BY Invariance, <1>3, PTL

\* The history tells what happened: a call of this run has its tool's own
\* result exactly if the tool ran to its end, under every redirection of
\* pending calls, cancel and end of a run among its tools.
THEOREM HistoryTellsTheTruth == Spec => []ResultsTellTheTruth
  <1>1. ASSUME Inv PROVE ResultsTellTheTruth
    <2>1. CASE pc = "idle"
      <3>1. history = <<>>
        BY <1>1, <2>1 DEF Inv, Progress
      <3>2. QED
        BY <3>1 DEF ResultsTellTheTruth
    <2>2. CASE pc # "idle"
      <3>1. Tells(history, Bound)
        BY <1>1, <2>2 DEF Inv, Kept
      <3>2. QED
        BY <3>1 DEF Tells, ResultsTellTheTruth
    <2>3. QED
      BY <2>1, <2>2
  <1>2. QED
    BY Invariance, <1>1, PTL

\* Steering is neither lost nor repeated: what the inbox of a completed run has
\* accepted, some model call of the run contained, and no instruction stands in
\* the history of a run twice.
THEOREM SteeringReachesTheModel == Spec => []AcceptedSteeringIsShown
  <1>1. ASSUME Inv PROVE AcceptedSteeringIsShown
    <2>1. pc = "idle" /\ outcome = "completed" /\ ~cancelled => inbox.keys \subseteq shown
      BY <1>1 DEF Inv, Noticed
    <2>2. ASSUME NEW s \in Steers PROVE Cardinality(ToldIn(history, s)) <= 1
      <3>1. \A i, j \in ToldIn(history, s) : i = j
        <4>1. CASE pc = "idle"
          <5>1. history = <<>> /\ runStart \in Nat
            BY <1>1, <4>1 DEF Inv, Progress, Types
          <5>2. (runStart + 1)..Len(history) = {}
            BY <5>1
          <5>3. QED
            BY <5>2 DEF ToldIn
        <4>2. CASE pc # "idle"
          BY <1>1, <4>2 DEF Inv, Kept, Once
        <4>3. QED
          BY <4>1, <4>2
      <3>2. CASE ToldIn(history, s) = {}
        BY <3>2, FS_EmptySet
      <3>3. CASE ToldIn(history, s) # {}
        <4>1. PICK i : ToldIn(history, s) = {i}
          BY <3>1, <3>3
        <4>2. Cardinality({i}) = 1
          BY FS_Singleton
        <4>3. QED
          BY <4>1, <4>2
      <3>4. QED
        BY <3>2, <3>3
    <2>3. QED
      BY <2>1, <2>2 DEF AcceptedSteeringIsShown, ToldIn
  <1>2. QED
    BY Invariance, <1>1, PTL

\* A cancel is orderly: at most the tool that had passed its check still runs,
\* and the run hands over all it has added, from its query on, whatever was
\* trimmed before or during it.
THEOREM CancelsAreOrderly == Spec => []CancelIsOrderly
  <1>1. Inv => CancelIsOrderly
    BY DEF Inv, Orderly, CancelIsOrderly
  <1>2. QED
    BY Invariance, <1>1, PTL

=============================================================================
