---------------------------- MODULE FollowsProofs ---------------------------
(***************************************************************************)
(* Theorems about Follows, for every set of users, private or not, and     *)
(* every number of requests at the same time.                              *)
(***************************************************************************)
EXTENDS Follows, FiniteSetTheorems, TLAPS

Tasks == {Free} \cup [op : Ops, pair : Pairs, seen : SUBSET Pairs]

\* As long as no commit fell between a read of the follows and its use, the
\* counters are exact, the job has nothing to repair, and a block has read the
\* follows it deletes.
SeenIsCurrent ==
    \A w \in Workers : task[w].op = "block" =>
        task[w].seen = follows \cap {task[w].pair, Rev(task[w].pair)}

DriftInv == overlap \/ (CountsExact /\ cron.found = {} /\ SeenIsCurrent)

FolInv == FolTypeOK /\ DriftInv

-----------------------------------------------------------------------------
(***************************************************************************)
(* Counting follows.  In each pair, component 1 follows component 2.       *)
(***************************************************************************)
LEMMA PairsFinite == IsFiniteSet(Pairs) /\ \A S \in SUBSET Pairs : IsFiniteSet(S)
<1>1. IsFiniteSet(Users \X Users)
  BY FollowsAssumption, FS_Product
<1>2. Pairs \subseteq Users \X Users
  BY DEF Pairs
<1>3. IsFiniteSet(Pairs)
  BY <1>1, <1>2, FS_Subset
<1> QED BY <1>3, FS_Subset

LEMMA GainedType ==
  ASSUME NEW S \in SUBSET Pairs, NEW u, NEW i \in {1, 2}
  PROVE  Gained(S, u, i) \in Nat
<1> DEFINE T == {p \in S : p[i] = u}
<1>1. IsFiniteSet(T)
  BY PairsFinite
<1>2. Cardinality(T) \in Nat
  BY <1>1, FS_CardinalityType
<1> QED BY <1>2 DEF Gained

LEMMA GainedRemove ==
  ASSUME NEW S \in SUBSET Pairs, NEW G \in SUBSET S, NEW u, NEW i \in {1, 2}
  PROVE  /\ Gained(S \ G, u, i) = Gained(S, u, i) - Gained(G, u, i)
         /\ Gained(G, u, i) <= Gained(S, u, i)
<1> DEFINE A == {p \in S : p[i] = u}
           B == {p \in G : p[i] = u}
<1>1. IsFiniteSet(A) /\ B \subseteq A /\ {p \in S \ G : p[i] = u} = A \ B /\ A \cap B = B
  BY PairsFinite
<1>2. /\ Gained(S \ G, u, i) = Cardinality(A \ B)
      /\ Gained(S, u, i) = Cardinality(A) /\ Gained(G, u, i) = Cardinality(B)
  BY <1>1 DEF Gained
<1> HIDE DEF A, B
<1>3. Cardinality(A \ B) = Cardinality(A) - Cardinality(A \cap B)
  BY <1>1, FS_Difference
<1>4. Cardinality(B) <= Cardinality(A)
  BY <1>1, FS_Subset
<1> QED BY <1>1, <1>2, <1>3, <1>4

LEMMA GainedAdd ==
  ASSUME NEW S \in SUBSET Pairs, NEW p \in Pairs, p \notin S, NEW u, NEW i \in {1, 2}
  PROVE  Gained(S \cup {p}, u, i) = Gained(S, u, i) + (IF p[i] = u THEN 1 ELSE 0)
<1> DEFINE A == {q \in S : q[i] = u}
<1>1. IsFiniteSet(A) /\ Cardinality(A) \in Nat /\ p \notin A
  BY PairsFinite, FS_CardinalityType
<1>2. CASE p[i] = u
  <2>1. {q \in S \cup {p} : q[i] = u} = A \cup {p}
    BY <1>2
  <2> QED BY <1>1, <1>2, <2>1, FS_AddElement DEF Gained
<1>3. CASE p[i] # u
  <2>1. {q \in S \cup {p} : q[i] = u} = A
    BY <1>3
  <2>2. Gained(S \cup {p}, u, i) = Cardinality(A) /\ Gained(S, u, i) = Cardinality(A)
    BY <2>1 DEF Gained
  <2> QED BY <1>1, <1>3, <2>2
<1> QED BY <1>2, <1>3

LEMMA Counts ==
  /\ \A u : FollowerCount(u) = Gained(follows, u, 2) /\ FollowingCount(u) = Gained(follows, u, 1)
  /\ \A u : FollowerCount(u)' = Gained(follows', u, 2) /\ FollowingCount(u)' = Gained(follows', u, 1)
BY DEF FollowerCount, FollowingCount, Gained

LEMMA CountUpExact ==
  ASSUME FolTypeOK, CountsExact, NEW p \in Pairs, p \notin follows,
         follows' = follows \cup {p}, CountUp(p)
  PROVE  CountsExact'
<1> SUFFICES ASSUME NEW u \in Users
             PROVE  followers'[u] = FollowerCount(u)' /\ following'[u] = FollowingCount(u)'
  BY DEF CountsExact
<1>1. p[1] \in Users /\ p[2] \in Users
  BY DEF Pairs
<1>2. /\ Gained(follows', u, 1) = Gained(follows, u, 1) + (IF p[1] = u THEN 1 ELSE 0)
      /\ Gained(follows', u, 2) = Gained(follows, u, 2) + (IF p[2] = u THEN 1 ELSE 0)
  BY GainedAdd DEF FolTypeOK
<1>3. followers[u] = Gained(follows, u, 2) /\ following[u] = Gained(follows, u, 1)
  BY Counts DEF CountsExact
<1>4. /\ following'[u] = following[u] + (IF p[1] = u THEN 1 ELSE 0)
      /\ followers'[u] = followers[u] + (IF p[2] = u THEN 1 ELSE 0)
  BY <1>1 DEF CountUp, FolTypeOK
<1> QED BY <1>2, <1>3, <1>4, Counts

LEMMA CountDownExact ==
  ASSUME FolTypeOK, CountsExact, NEW G \in SUBSET follows,
         follows' = follows \ G, CountDown(G)
  PROVE  CountsExact'
<1> SUFFICES ASSUME NEW u \in Users
             PROVE  followers'[u] = FollowerCount(u)' /\ following'[u] = FollowingCount(u)'
  BY DEF CountsExact
<1>1. /\ Gained(follows', u, 1) = Gained(follows, u, 1) - Gained(G, u, 1)
      /\ Gained(follows', u, 2) = Gained(follows, u, 2) - Gained(G, u, 2)
      /\ Gained(G, u, 1) <= Gained(follows, u, 1) /\ Gained(G, u, 2) <= Gained(follows, u, 2)
  BY GainedRemove DEF FolTypeOK
<1>2. \A i \in {1, 2} : Gained(follows, u, i) \in Nat /\ Gained(G, u, i) \in Nat
  BY GainedType DEF FolTypeOK
<1>3. followers[u] = Gained(follows, u, 2) /\ following[u] = Gained(follows, u, 1)
  BY Counts DEF CountsExact
<1>4. /\ following'[u] = Less(following[u], Gained(G, u, 1))
      /\ followers'[u] = Less(followers[u], Gained(G, u, 2))
  BY DEF CountDown
<1>5. \A n, g \in Nat : g <= n => Less(n, g) = n - g
  BY DEF Less
<1> QED BY <1>1, <1>2, <1>3, <1>4, <1>5, Counts

LEMMA CountTypes ==
  ASSUME FolTypeOK
  PROVE  /\ \A p \in Pairs : CountUp(p) =>
               followers' \in [Users -> Nat] /\ following' \in [Users -> Nat]
         /\ \A G \in SUBSET Pairs : CountDown(G) =>
               followers' \in [Users -> Nat] /\ following' \in [Users -> Nat]
<1>1. ASSUME NEW p \in Pairs, CountUp(p)
      PROVE  followers' \in [Users -> Nat] /\ following' \in [Users -> Nat]
  <2>1. p[1] \in Users /\ p[2] \in Users
    BY DEF Pairs
  <2> QED BY <1>1, <2>1 DEF CountUp, FolTypeOK
<1>2. ASSUME NEW G \in SUBSET Pairs, CountDown(G)
      PROVE  followers' \in [Users -> Nat] /\ following' \in [Users -> Nat]
  <2>1. \A u \in Users, i \in {1, 2} : Gained(G, u, i) \in Nat
    BY GainedType
  <2>2. \A n, d \in Nat : Less(n, d) \in Nat
    BY DEF Less
  <2>3. \A u \in Users : followers[u] \in Nat /\ following[u] \in Nat
    BY DEF FolTypeOK
  <2> QED BY <1>2, <2>1, <2>2, <2>3 DEF CountDown
<1> QED BY <1>1, <1>2

LEMMA FoundTypes ==
  ASSUME FolTypeOK
  PROVE  /\ \A u \in Users : FollowerCount(u) \in Nat /\ FollowingCount(u) \in Nat
         /\ \A count \in [Users -> Nat] : Overwrite(count) \in [Users -> Nat]
<1>1. \A u \in Users : FollowerCount(u) \in Nat /\ FollowingCount(u) \in Nat
  BY Counts, GainedType DEF FolTypeOK
<1>2. ASSUME NEW u \in Users, \E x \in cron.found : x[1] = u
      PROVE  (CHOOSE x \in cron.found : x[1] = u)[2] \in Nat
  BY <1>2 DEF FolTypeOK
<1> QED BY <1>1, <1>2 DEF Overwrite

-----------------------------------------------------------------------------
LEMMA FolInitInv == FolInit => FolInv
<1> SUFFICES ASSUME FolInit PROVE FolInv
  OBVIOUS
<1>1. FolTypeOK
  BY DEF FolInit, FolTypeOK, NoCron, RowStatus, NoRow, Free
<1>2. \A u, i : Gained({}, u, i) = 0
  BY FS_EmptySet DEF Gained
<1>3. CountsExact
  BY <1>2, Counts DEF FolInit, CountsExact
<1>4. SeenIsCurrent /\ cron.found = {}
  BY DEF FolInit, SeenIsCurrent, Free, NoCron
<1> QED BY <1>1, <1>3, <1>4 DEF FolInv, DriftInv

LEMMA TaskTypes ==
  ASSUME FolTypeOK
  PROVE  /\ \A w \in Workers : task[w].op # "free" =>
               /\ task[w] \in [op : Ops, pair : Pairs, seen : SUBSET Pairs]
               /\ task[w].pair \in Pairs /\ task[w].seen \in SUBSET Pairs
         /\ \A w \in Workers : Done(w) => task' \in [Workers -> Tasks] /\ UNCHANGED <<requested, cron>>
BY DEF FolTypeOK, Tasks, Done, Free

LEMMA CommitTypes ==
  ASSUME FolTypeOK, NEW w \in Workers, Commit(w)
  PROVE  FolTypeOK'
<1> DEFINE p == task[w].pair
<1>1. p \in Pairs /\ task[w].seen \in SUBSET Pairs
  BY TaskTypes DEF Commit, CommitFollow, CommitRequest, CommitUnfollow, CommitAccept,
     CommitAnswer, CommitBlock, CommitUnblock, At
<1>2. Done(w) /\ overlap' \in BOOLEAN
  BY DEF Commit, CommitFollow, CommitRequest, CommitUnfollow, CommitAccept, CommitAnswer,
     CommitBlock, CommitUnblock, Changed, Unchanged, FolTypeOK
<1>3. task' \in [Workers -> Tasks] /\ UNCHANGED <<requested, cron>>
  BY <1>2, TaskTypes
<1>4. follows' \subseteq Pairs /\ blocks' \subseteq Pairs
  BY <1>1 DEF Commit, CommitFollow, CommitRequest, CommitUnfollow, CommitAccept,
     CommitAnswer, CommitBlock, CommitUnblock, FolTypeOK
<1>5. requests' \in [Pairs -> RowStatus \cup {NoRow}]
  BY <1>1 DEF Commit, CommitFollow, CommitRequest, CommitUnfollow, CommitAccept,
     CommitAnswer, CommitBlock, CommitUnblock, FolTypeOK, RowStatus
<1>6. \/ UNCHANGED <<followers, following>> \/ CountUp(p) \/ CountDown({p})
      \/ CountDown(task[w].seen)
  BY DEF Commit, CommitFollow, CommitRequest, CommitUnfollow, CommitAccept, CommitAnswer,
     CommitBlock, CommitUnblock
<1>7. followers' \in [Users -> Nat] /\ following' \in [Users -> Nat]
  BY <1>1, <1>6, CountTypes DEF FolTypeOK
<1> QED BY <1>2, <1>3, <1>4, <1>5, <1>7 DEF FolTypeOK, Tasks

LEMMA FolTypeStep ==
  ASSUME FolTypeOK, [FolNext]_folVars
  PROVE  FolTypeOK'
<1>1. ASSUME NEW w \in Workers, NEW p \in Pairs, NEW op \in Ops, Begin(w, p, op)
      PROVE  FolTypeOK'
  <2>1. (IF op = "block" THEN follows \cap {p, Rev(p)} ELSE {}) \in SUBSET Pairs
    BY DEF FolTypeOK
  <2> QED BY <1>1, <2>1 DEF Begin, FolTypeOK
<1>2. ASSUME NEW w \in Workers, Commit(w)
      PROVE  FolTypeOK'
  BY <1>2, CommitTypes
<1>3. CASE SelectFollowers \/ SelectFollowing
  <2>1. cron'.found \subseteq Users \X Nat
    BY <1>3, FoundTypes DEF SelectFollowers, SelectFollowing, FollowersDrifted, FollowingDrifted
  <2> QED BY <1>3, <2>1 DEF SelectFollowers, SelectFollowing, FolTypeOK
<1>4. CASE UpdateFollowers
  BY <1>4, FoundTypes DEF UpdateFollowers, FolTypeOK
<1>5. CASE UpdateFollowing
  BY <1>5, FoundTypes DEF UpdateFollowing, FolTypeOK, NoCron
<1>6. CASE UNCHANGED folVars
  BY <1>6 DEF folVars, FolTypeOK
<1> QED BY <1>1, <1>2, <1>3, <1>4, <1>5, <1>6 DEF FolNext, Cron

-----------------------------------------------------------------------------
\* A commit changes both counters by what it changes the follows, and a block
\* that would not has been overlapped.
LEMMA CommitDrift ==
  ASSUME FolInv, NEW w \in Workers, Commit(w)
  PROVE  DriftInv'
<1> DEFINE p == task[w].pair
<1> USE DEF FolInv
<1> SUFFICES ASSUME ~overlap'
             PROVE  CountsExact' /\ cron'.found = {} /\ SeenIsCurrent'
  BY DEF DriftInv
<1>1. Changed(w) \/ Unchanged(w)
  BY DEF Commit, CommitFollow, CommitRequest, CommitUnfollow, CommitAccept, CommitAnswer,
     CommitBlock, CommitUnblock
<1>2. ~overlap /\ Done(w)
  BY <1>1 DEF Changed, Unchanged, FolTypeOK
<1>3. CountsExact /\ cron.found = {} /\ SeenIsCurrent
  BY <1>2 DEF DriftInv
<1>4. cron' = cron /\ task'[w] = Free /\ \A v \in Workers : v # w => task'[v] = task[v]
  BY <1>2 DEF Done, FolTypeOK
<1>5. p \in Pairs
  BY TaskTypes DEF Commit, CommitFollow, CommitRequest, CommitUnfollow, CommitAccept,
     CommitAnswer, CommitBlock, CommitUnblock, At
<1>6. CASE UNCHANGED <<follows, followers, following>>
  <2>1. CountsExact'
    BY <1>3, <1>6 DEF CountsExact, FollowerCount, FollowingCount
  <2>2. SeenIsCurrent'
    BY <1>3, <1>4, <1>6 DEF SeenIsCurrent, Free
  <2> QED BY <1>3, <1>4, <2>1, <2>2
<1>7. CASE ~UNCHANGED <<follows, followers, following>>
  <2>1. Changed(w)
    BY <1>7 DEF Commit, CommitFollow, CommitRequest, CommitUnfollow, CommitAccept,
       CommitAnswer, CommitBlock, CommitUnblock
  <2>2. \A v \in Workers \ {w} : task[v].op # "block"
    BY <2>1 DEF Changed, Overlaps
  <2>3. SeenIsCurrent'
    BY <1>4, <2>2 DEF SeenIsCurrent, Free
  <2>4. CASE CommitFollow(w) \/ CommitAccept(w)
    <3>1. p \notin follows /\ follows' = follows \cup {p} /\ CountUp(p)
      BY <1>7, <2>4 DEF CommitFollow, CommitAccept
    <3> QED BY <1>3, <1>4, <1>5, <2>3, <3>1, CountUpExact
  <2>5. CASE CommitUnfollow(w)
    <3>1. {p} \in SUBSET follows /\ follows' = follows \ {p} /\ CountDown({p})
      BY <1>7, <2>5 DEF CommitUnfollow
    <3> QED BY <1>3, <1>4, <2>3, <3>1, CountDownExact
  <2>6. CASE CommitBlock(w)
    <3>1. task[w].seen = follows \cap {p, Rev(p)}
      BY <1>3, <2>6 DEF SeenIsCurrent, CommitBlock, At
    <3>2. follows' = follows \ {p, Rev(p)} /\ CountDown(task[w].seen)
      BY <1>7, <2>6 DEF CommitBlock
    <3>3. task[w].seen \in SUBSET follows /\ follows' = follows \ task[w].seen
      BY <3>1, <3>2
    <3> QED BY <1>3, <1>4, <2>3, <3>2, <3>3, CountDownExact
  <2> QED BY <1>7, <2>4, <2>5, <2>6
          DEF Commit, CommitRequest, CommitAnswer, CommitUnblock
<1> QED BY <1>6, <1>7

LEMMA FolDriftStep ==
  ASSUME FolInv, [FolNext]_folVars
  PROVE  DriftInv'
<1>1. ASSUME NEW w \in Workers, NEW p \in Pairs, NEW op \in Ops, Begin(w, p, op)
      PROVE  DriftInv'
  <2>1. /\ task' = [task EXCEPT ![w] = [op |-> op, pair |-> p,
                       seen |-> IF op = "block" THEN follows \cap {p, Rev(p)} ELSE {}]]
        /\ UNCHANGED <<follows, followers, following, cron, overlap>>
    BY <1>1 DEF Begin
  <2>2. SeenIsCurrent => SeenIsCurrent'
    BY <2>1 DEF SeenIsCurrent, FolInv, FolTypeOK
  <2>3. CountsExact => CountsExact'
    BY <2>1 DEF CountsExact, FollowerCount, FollowingCount
  <2> QED BY <2>1, <2>2, <2>3 DEF DriftInv, FolInv
<1>2. ASSUME NEW w \in Workers, Commit(w)
      PROVE  DriftInv'
  BY <1>2, CommitDrift
<1>3. ASSUME Cron \/ UNCHANGED folVars
      PROVE  DriftInv'
  <2>1. UNCHANGED <<follows, task, overlap>>
    BY <1>3 DEF Cron, SelectFollowers, UpdateFollowers, SelectFollowing, UpdateFollowing, folVars
  <2> SUFFICES ASSUME CountsExact, cron.found = {}, SeenIsCurrent
               PROVE  CountsExact' /\ cron'.found = {} /\ SeenIsCurrent'
    BY <2>1 DEF DriftInv, FolInv
  <2>2. \A count \in [Users -> Nat] : Overwrite(count) = count
    BY DEF Overwrite
  <2>3. UNCHANGED <<followers, following>>
    BY <1>3, <2>2 DEF Cron, SelectFollowers, UpdateFollowers, SelectFollowing, UpdateFollowing,
       folVars, FolInv, FolTypeOK
  <2>4. cron'.found = {}
    BY <1>3 DEF Cron, SelectFollowers, UpdateFollowers, SelectFollowing, UpdateFollowing,
       folVars, NoCron, CountsExact, FollowersDrifted, FollowingDrifted
  <2>5. CountsExact'
    BY <2>1, <2>3 DEF CountsExact, FollowerCount, FollowingCount
  <2>6. SeenIsCurrent'
    BY <2>1 DEF SeenIsCurrent
  <2> QED BY <2>4, <2>5, <2>6
<1> QED BY <1>1, <1>2, <1>3 DEF FolNext

-----------------------------------------------------------------------------
\* The inductive invariant: until something is overlapped nothing drifts.
THEOREM FolInvariant == FolSpec => []FolInv
<1>1. FolInv /\ [FolNext]_folVars => FolInv'
  BY FolTypeStep, FolDriftStep DEF FolInv
<1> QED BY <1>1, FolInitInv, PTL DEF FolSpec

\* The variables of Follows keep their types; the counters are never negative.
THEOREM FolTypeCorrect == FolSpec => []FolTypeOK
BY FolInvariant, PTL DEF FolInv

\* The denormalised counters equal the rows they count, for any number of users
\* and concurrent requests, until a commit falls between the read and the write
\* of a block or of the reconciliation.
THEOREM DriftOnlyByOverlap == FolSpec => []DriftNeedsOverlap
<1>1. FolInv => DriftNeedsOverlap
  BY DEF FolInv, DriftInv, DriftNeedsOverlap
<1> QED BY <1>1, FolInvariant, PTL
=============================================================================
