------------------------ MODULE CallAdmissionProofs ------------------------
(***************************************************************************)
(* Theorems about CallAdmission, for every set of users and transactions   *)
(* and every hash function: the advisory locks make the check and the      *)
(* insertion atomic, and a deadlock needs two ids with the same hash.      *)
(***************************************************************************)
EXTENDS CallAdmission, WellFoundedInduction, TLAPS

\* The lock of the participant that is being counted is held.
CountedLocked ==
  \A t \in Txns : pc[t] = "count" =>
    \A u \in Users : IsNext(t, u) => holder[Hash[u]] = t

\* The participants are done with in the order of their ids.
Ascending ==
  \A t \in Txns : \A v \in checked[t], w \in parties[t] \ checked[t] : v < w

\* Locks are held for participants only, and no longer than the transaction.
HeldFor ==
  \A k \in Locks : holder[k] # NoTxn =>
    /\ Running(holder[k])
    /\ \E u \in parties[holder[k]] :
         /\ Hash[u] = k
         /\ \/ u \in checked[holder[k]]
            \/ pc[holder[k]] = "count" /\ IsNext(holder[k], u)

TxnInv ==
  \A t \in Txns :
    /\ checked[t] \subseteq parties[t]
    /\ pc[t] = "insert" => checked[t] = parties[t]
    /\ Running(t) => parties[t] # {}
    /\ pc[t] = "new" => checked[t] = {}
    /\ t \in live => pc[t] = "committed"
    /\ t \notin live => open[t] = {}

AInv == TypeOK /\ TxnInv /\ CheckedFree /\ CountedLocked /\ Ascending /\ HeldFor

-----------------------------------------------------------------------------
LEMMA InitAInv == Init => AInv
BY NoTxnAssumption DEF Init, AInv, TypeOK, PC, TxnInv, CheckedFree, CountedLocked,
   Ascending, HeldFor, Running

LEMMA FailKeeps ==
  ASSUME AInv, NEW t \in Txns, Running(t), Fail(t)
  PROVE  AInv'
<1> USE DEF AInv, Fail, Release
<1>1. TypeOK'
  BY DEF TypeOK, PC
<1>2. TxnInv'
  BY DEF TypeOK, TxnInv, Running
<1>3. CheckedFree'
  BY HashAssumption DEF TypeOK, CheckedFree, Running, Busy
<1>4. CountedLocked'
  BY HashAssumption DEF TypeOK, CountedLocked, IsNext
<1>5. Ascending'
  BY DEF TypeOK, Ascending
<1>6. HeldFor'
  BY NoTxnAssumption DEF TypeOK, HeldFor, Running, IsNext
<1> QED BY <1>1, <1>2, <1>3, <1>4, <1>5, <1>6

LEMMA BeginKeeps ==
  ASSUME AInv, NEW t \in Txns, NEW P \in SUBSET Users, P # {}, Begin(t, P)
  PROVE  AInv'
<1> USE DEF AInv, Begin
<1>1. TypeOK'
  BY DEF TypeOK, PC
<1>2. TxnInv'
  BY DEF TypeOK, TxnInv, Running
<1>3. CheckedFree'
  BY DEF TypeOK, TxnInv, CheckedFree, Running, Busy
<1>4. CountedLocked'
  BY DEF TypeOK, CountedLocked, IsNext
<1>5. Ascending'
  BY DEF TypeOK, TxnInv, Ascending
<1>6. HeldFor'
  BY NoTxnAssumption DEF TypeOK, HeldFor, Running, IsNext
<1> QED BY <1>1, <1>2, <1>3, <1>4, <1>5, <1>6

LEMMA LockKeeps ==
  ASSUME AInv, NEW t \in Txns, Lock(t)
  PROVE  AInv'
<1> PICK u \in Users :
      /\ pc[t] = "lock" /\ IsNext(t, u)
      /\ holder[Hash[u]] \in {NoTxn, t}
      /\ holder' = [holder EXCEPT ![Hash[u]] = t]
      /\ pc' = [pc EXCEPT ![t] = "count"]
      /\ UNCHANGED <<parties, checked, live, open>>
  BY DEF Lock
<1> USE DEF AInv
<1>1. TypeOK'
  BY DEF TypeOK, PC
<1>2. TxnInv'
  BY DEF TypeOK, TxnInv, Running
<1>3. CheckedFree'
  BY HashAssumption, NoTxnAssumption DEF TypeOK, CheckedFree, Running, Busy
<1>4. CountedLocked'
  <2>1. \A v \in Users : IsNext(t, v) => v = u
    BY UsersAssumption DEF IsNext, TypeOK
  <2> QED BY <2>1, HashAssumption, NoTxnAssumption DEF TypeOK, CountedLocked, IsNext
<1>5. Ascending'
  BY DEF TypeOK, Ascending
<1>6. HeldFor'
  BY HashAssumption, NoTxnAssumption DEF TypeOK, HeldFor, Running, IsNext
<1> QED BY <1>1, <1>2, <1>3, <1>4, <1>5, <1>6

LEMMA CountKeeps ==
  ASSUME AInv, NEW t \in Txns, Count(t)
  PROVE  AInv'
<1> PICK u \in Users :
      /\ pc[t] = "count" /\ IsNext(t, u)
      /\ \/ Busy(u) /\ Fail(t)
         \/ /\ ~Busy(u)
            /\ checked' = [checked EXCEPT ![t] = @ \cup {u}]
            /\ pc' = [pc EXCEPT ![t] = IF parties[t] = checked'[t] THEN "insert" ELSE "lock"]
            /\ UNCHANGED <<parties, holder, live, open>>
  BY DEF Count
<1>1. CASE Busy(u) /\ Fail(t)
  BY <1>1, FailKeeps DEF Running
<1>2. CASE /\ ~Busy(u)
           /\ checked' = [checked EXCEPT ![t] = @ \cup {u}]
           /\ pc' = [pc EXCEPT ![t] = IF parties[t] = checked'[t] THEN "insert" ELSE "lock"]
           /\ UNCHANGED <<parties, holder, live, open>>
  <2> USE <1>2 DEF AInv
  <2>1. TypeOK'
    BY DEF TypeOK, PC
  <2>2. TxnInv'
    BY DEF TypeOK, TxnInv, Running, IsNext
  <2>3. CheckedFree'
    BY DEF TypeOK, CheckedFree, CountedLocked, Running, Busy
  <2>4. CountedLocked'
    BY DEF TypeOK, CountedLocked, IsNext
  <2>5. Ascending'
    BY UsersAssumption DEF TypeOK, Ascending, IsNext
  <2>6. HeldFor'
    <3>1. \A v \in Users : IsNext(t, v) => v = u
      BY UsersAssumption DEF IsNext, TypeOK
    <3> QED BY <3>1 DEF TypeOK, HeldFor, Running, IsNext
  <2> QED BY <2>1, <2>2, <2>3, <2>4, <2>5, <2>6
<1> QED BY <1>1, <1>2

LEMMA CommitKeeps ==
  ASSUME AInv, NEW t \in Txns, Commit(t)
  PROVE  AInv'
<1> USE DEF AInv, Commit, Release
<1>1. TypeOK'
  BY DEF TypeOK, PC
<1>2. TxnInv'
  BY DEF TypeOK, TxnInv, Running
<1>3. CheckedFree'
  \* A participant that both this and another transaction have checked would
  \* have one lock held by two transactions.
  <2>1. \A s \in Txns \ {t} : Running(s) =>
          \A u \in checked[s] : holder[Hash[u]] = s /\ u \notin parties[t]
    BY DEF CheckedFree, TxnInv, Running, TypeOK
  <2>2. \A s \in Txns \ {t} : Running(s) => \A u \in checked[s] : ~Busy(u)
    BY DEF CheckedFree
  <2>3. \A u : ~Busy(u) /\ u \notin parties[t] => ~Busy(u)'
    BY DEF Busy, TypeOK
  <2>4. \A s \in Txns : Running(s)' => s # t /\ Running(s)
    BY DEF Running, TypeOK
  <2> QED BY <2>1, <2>2, <2>3, <2>4, HashAssumption DEF CheckedFree, TypeOK
<1>4. CountedLocked'
  BY HashAssumption DEF TypeOK, CountedLocked, IsNext
<1>5. Ascending'
  BY DEF TypeOK, Ascending
<1>6. HeldFor'
  BY NoTxnAssumption DEF TypeOK, HeldFor, Running, IsNext
<1> QED BY <1>1, <1>2, <1>3, <1>4, <1>5, <1>6

LEMMA CallsKeep ==
  ASSUME AInv, NEW s \in Txns, EndCall(s) \/ \E u \in Users : MarkLeft(s, u)
  PROVE  AInv'
<1>1. /\ UNCHANGED <<pc, parties, checked, holder>>
      /\ live' \subseteq live
      /\ \A r \in Txns : open'[r] \subseteq open[r]
      /\ \A r \in Txns : r \notin live' => r \notin live \/ open'[r] = {}
      /\ open' \in [Txns -> SUBSET Users]
  BY DEF AInv, TypeOK, EndCall, MarkLeft
<1>2. TypeOK' /\ TxnInv' /\ CountedLocked' /\ Ascending' /\ HeldFor'
  BY <1>1 DEF AInv, TypeOK, TxnInv, CountedLocked, Ascending, HeldFor, IsNext, Running
<1>3. \A u : Busy(u)' => Busy(u)
  BY <1>1 DEF AInv, TypeOK, Busy
<1>4. CheckedFree'
  BY <1>1, <1>3 DEF AInv, CheckedFree, Running
<1> QED BY <1>2, <1>4 DEF AInv

LEMMA NextKeepsAInv == AInv /\ [Next]_vars => AInv'
<1> SUFFICES ASSUME AInv, [Next]_vars PROVE AInv'
  OBVIOUS
<1>1. CASE \E t \in Txns : Start(t)
  BY <1>1, BeginKeeps DEF Start
<1>2. CASE \E t \in Txns : Lock(t)
  BY <1>2, LockKeeps
<1>3. CASE \E t \in Txns : Count(t)
  BY <1>3, CountKeeps
<1>4. CASE \E t \in Txns : Commit(t)
  BY <1>4, CommitKeeps
<1>5. CASE \E t \in Txns : Rollback(t)
  BY <1>5, FailKeeps DEF Rollback, Running
<1>6. CASE \E t \in Txns : DeadlockDetected(t)
  BY <1>6, FailKeeps DEF DeadlockDetected, Cycle, WaitsFor, Running
<1>7. CASE \E t \in Txns : EndCall(t) \/ \E u \in Users : MarkLeft(t, u)
  BY <1>7, CallsKeep
<1>8. CASE UNCHANGED vars
  BY <1>8 DEF vars, AInv, TypeOK, TxnInv, CheckedFree, CountedLocked, Ascending,
              HeldFor, Running, Busy, IsNext
<1> QED BY <1>1, <1>2, <1>3, <1>4, <1>5, <1>6, <1>7, <1>8 DEF Next

\* AInv is an invariant: whoever has passed the check stays free until the
\* transaction that checked it is over.
THEOREM AdmissionInductive == Spec => []AInv
BY InitAInv, NextKeepsAInv, PTL DEF Spec

\* What a transaction has checked holds until it commits, for every set of users
\* and transactions and every hash function.
THEOREM CheckedIsFree == Spec => []CheckedFree
<1>1. AInv => CheckedFree
  BY DEF AInv
<1> QED BY <1>1, AdmissionInductive, PTL

\* The variables of CallAdmission keep their types.
THEOREM AdmissionTypes == Spec => []TypeOK
<1>1. AInv => TypeOK
  BY DEF AInv
<1> QED BY <1>1, AdmissionInductive, PTL

-----------------------------------------------------------------------------
(* The transaction is atomic. *)

RingStep == [Line!LineNext]_(Line!lineVars)

LEMMA SamePhases ==
  ASSUME AInv, UNCHANGED open, \A t \in Txns : Phase(t)' = Phase(t)
  PROVE  RingStep
<1>1. [t \in Txns |-> Phase(t)]' = [t \in Txns |-> Phase(t)]
  OBVIOUS
<1> QED BY <1>1 DEF RingStep, Line!lineVars, Phase

LEMMA CommitIsRing ==
  ASSUME AInv, NEW t \in Txns, Commit(t)
  PROVE  RingStep
<1>1. pc[t] = "insert" /\ t \notin live /\ parties[t] # {} /\ checked[t] = parties[t]
  BY DEF AInv, TxnInv, Commit, Running
<1>2. Phase(t) = "free" /\ Phase(t)' = "ringing"
  BY <1>1 DEF AInv, TypeOK, Commit, Phase
<1>3. \A s \in Txns \ {t} : Phase(s)' = Phase(s)
  BY DEF AInv, TypeOK, Commit, Phase
<1>4. \A s \in Txns : open[s] \cap parties[t] = {}
  BY <1>1 DEF AInv, TypeOK, TxnInv, CheckedFree, Running, Busy
<1>5. PICK P \in SUBSET Users : P = parties[t] /\ open' = [open EXCEPT ![t] = P]
  BY DEF AInv, TypeOK, Commit
<1>6. Line!Ring(t, P)
  BY <1>1, <1>2, <1>3, <1>4, <1>5 DEF Line!Ring, Phase
<1> QED BY <1>6 DEF RingStep, Line!LineNext

LEMMA EndCallIsHangUp ==
  ASSUME AInv, NEW t \in Txns, EndCall(t)
  PROVE  RingStep
<1>1. Phase(t) = "ringing" /\ Phase(t)' = "over"
  BY DEF AInv, TxnInv, EndCall, Phase
<1>2. \A s \in Txns \ {t} : Phase(s)' = Phase(s)
  BY DEF EndCall, Phase
<1>3. open' = [s \in Txns |-> IF s \in {t} THEN {} ELSE open[s]]
  BY DEF AInv, TypeOK, EndCall
<1>4. Line!HangUp({t})
  BY <1>1, <1>2, <1>3 DEF Line!HangUp, Line!Ongoing, Phase
<1> QED BY <1>4 DEF RingStep, Line!LineNext

LEMMA MarkLeftIsRelease ==
  ASSUME AInv, NEW t \in Txns, NEW u \in Users, MarkLeft(t, u)
  PROVE  RingStep
<1>1. Phase(t) = "ringing" /\ u \in open[t]
  BY DEF MarkLeft, Phase
<1>2. \A s \in Txns : Phase(s)' = Phase(s)
  BY DEF MarkLeft, Phase
<1>3. Line!Release(t, u)
  BY <1>1, <1>2 DEF Line!Release, Line!Ongoing, MarkLeft, Phase
<1> QED BY <1>3 DEF RingStep, Line!LineNext

LEMMA FailIsNoRing ==
  ASSUME AInv, NEW t \in Txns, Running(t), Fail(t)
  PROVE  RingStep
<1>1. \A s \in Txns : Phase(s)' = Phase(s)
  BY DEF AInv, TypeOK, Fail, Running, Phase
<1> QED BY <1>1, SamePhases DEF Fail

LEMMA NextIsRingStep == AInv /\ [Next]_vars => RingStep
<1> SUFFICES ASSUME AInv, [Next]_vars PROVE RingStep
  OBVIOUS
<1>1. CASE \E t \in Txns : Commit(t)
  BY <1>1, CommitIsRing
<1>2. CASE \E t \in Txns : EndCall(t)
  BY <1>2, EndCallIsHangUp
<1>3. CASE \E t \in Txns, u \in Users : MarkLeft(t, u)
  BY <1>3, MarkLeftIsRelease
<1>4. CASE \E t \in Txns : Running(t) /\ Fail(t)
  BY <1>4, FailIsNoRing
<1>5. CASE /\ UNCHANGED <<live, open>>
           /\ \A t \in Txns : pc[t]' = "committed" <=> pc[t] = "committed"
  <2>1. \A s \in Txns : Phase(s)' = Phase(s)
    BY <1>5 DEF Phase
  <2> QED BY <1>5, <2>1, SamePhases
<1>6. CASE \E t \in Txns : Start(t) \/ Lock(t) \/ Count(t)
  <2> PICK t \in Txns : Start(t) \/ Lock(t) \/ Count(t)
    BY <1>6
  <2>1. CASE Start(t) \/ Lock(t)
    BY <1>5, <2>1 DEF Start, Begin, Lock, AInv, TypeOK
  <2>2. CASE Count(t)
    BY <1>4, <1>5, <2>2 DEF Count, Running, AInv, TypeOK
  <2> QED BY <2>1, <2>2
<1>7. CASE \E t \in Txns : Rollback(t) \/ DeadlockDetected(t)
  BY <1>4, <1>7 DEF Rollback, DeadlockDetected, Cycle, WaitsFor, Running
<1>8. CASE UNCHANGED vars
  BY <1>5, <1>8 DEF vars
<1> QED BY <1>1, <1>2, <1>3, <1>6, <1>7, <1>8 DEF Next

\* CreateCallSession implements CallLine's atomic Ring: two requests that share
\* a participant never both succeed, whatever the order of their statements.
THEOREM AdmissionIsAtomic == Spec => AdmissionIsRing
<1>1. Init => Line!LineInit
  BY DEF Init, Line!LineInit, Phase
<1>2. AInv /\ [Next]_vars => [Line!LineNext]_(Line!lineVars)
  BY NextIsRingStep DEF RingStep
<1> QED BY <1>1, <1>2, AdmissionInductive, PTL DEF Spec, AdmissionIsRing, Line!LineSpec

-----------------------------------------------------------------------------
(* Deadlocks. *)

LEMMA LeastUser ==
  ASSUME NEW T \in SUBSET Nat, T # {}
  PROVE  \E m \in T : \A n \in T : m <= n
<1>1. PICK m \in T : \A n \in T : ~(<<n, m>> \in OpToRel(<, Nat))
  BY NatLessThanWellFounded, WFMin
<1>2. \A n \in T : ~(n < m)
  BY <1>1 DEF OpToRel
<1> QED BY <1>2

LEMMA CycleHasCollision == AInv => DeadlockNeedsCollision
<1> SUFFICES ASSUME AInv, NEW S \in SUBSET Txns, Cycle(S),
                    \A a, b \in S : \A u \in parties[a], v \in parties[b] :
                      u = v \/ Hash[u] # Hash[v]
             PROVE  FALSE
  BY DEF DeadlockNeedsCollision
<1> DEFINE T == {u \in Users : \E a \in S : pc[a] = "lock" /\ IsNext(a, u)}
<1>1. T # {} /\ T \in SUBSET Nat
  BY UsersAssumption DEF Cycle, WaitsFor
<1>2. PICK m \in T : \A n \in T : m <= n
  BY <1>1, LeastUser
<1>3. PICK b \in S : pc[b] = "lock" /\ IsNext(b, m)
  BY <1>2
<1>4. PICK a \in S : WaitsFor(a, b)
  BY <1>3 DEF Cycle
<1>5. PICK u \in Users : IsNext(a, u) /\ holder[Hash[u]] = b
  BY <1>4 DEF WaitsFor
\* b has the lock for a participant v of its own, which a collision apart is u.
<1>6. PICK v \in parties[b] : Hash[v] = Hash[u] /\ v \in checked[b]
  BY <1>3, <1>5, NoTxnAssumption, HashAssumption DEF AInv, HeldFor
<1>7. u = v
  BY <1>5, <1>6 DEF IsNext
<1>8. u \in T
  BY <1>4, <1>5 DEF WaitsFor
<1>9. v < m
  BY <1>3, <1>6 DEF AInv, Ascending, IsNext
<1> QED BY <1>2, <1>7, <1>8, <1>9, UsersAssumption

\* The sorted locks do what store.go claims whenever the participants at stake
\* have different hash values: transactions then never wait in a circle.
THEOREM SortedLocksAvoidDeadlock == Spec => []DeadlockNeedsCollision
BY CycleHasCollision, AdmissionInductive, PTL
=============================================================================
