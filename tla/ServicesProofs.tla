-------------------------- MODULE ServicesProofs --------------------------
(***************************************************************************)
(* Theorems about Publishing and Memberships, and about all the components of *)
(* MCServices together, for every value of their constants.                *)
(***************************************************************************)
EXTENDS MCServices, MoneyProofs, FollowsProofs, GatewayProofs, SignalProofs

(***************************************************************************)
(* Publishing: any number of items, instances, calls and deaths.           *)
(***************************************************************************)

Holds(c, i) == i \in pass[c].found

\* The passes besides the one that has the lock which may still announce item i.
Working(P, l, i) == {c \in Passes : c # l /\ (P[c].pc = "locked" \/ i \in P[c].found)}

\* A published item that the pass with the lock does not hold owes nothing more.
LockHolds(P, l, i) == \E c \in Passes : c = l /\ i \in P[c].found
Spare(sch, P, l, i) == IF sch = "none" /\ ~LockHolds(P, l, i) THEN 1 ELSE 0

\* What was announced and what passes that overran may still announce is covered
\* by what was asked for and by the overruns.
ItemCounted(i) ==
    announced[i] + Cardinality(Working(pass, lock, i))
        <= asked[i] + overruns + Spare(scheduled[i], pass, lock, i)

\* A pass that has read the item will publish it, or it is published already.
FoundIsDue(i) ==
    \A c \in Passes : Holds(c, i) =>
        /\ pass[c].pc \in {"found", "published"}
        /\ pass[c].pc = "published" => scheduled[i] = "none"
        /\ pass[c].pc = "found" =>
              scheduled[i] = "none" \/ (i \in Overdue /\ i \in pass[c].due)

ItemInv(i) == ItemCounted(i) /\ FoundIsDue(i)

PubInv == PubTypeOK /\ \A i \in Items \ raced : ItemInv(i)

-----------------------------------------------------------------------------
LEMMA WorkingFinite ==
  ASSUME NEW P, NEW l, NEW i
  PROVE  IsFiniteSet(Working(P, l, i)) /\ Cardinality(Working(P, l, i)) \in Nat
<1>1. Working(P, l, i) \subseteq Passes
  BY DEF Working
<1> QED BY <1>1, PublishingAssumption, FS_Subset, FS_CardinalityType

LEMMA WorkingFewer ==
  ASSUME NEW P, NEW l, NEW Q, NEW m, NEW i, Working(Q, m, i) \subseteq Working(P, l, i)
  PROVE  Cardinality(Working(Q, m, i)) <= Cardinality(Working(P, l, i))
BY WorkingFinite, FS_Subset

LEMMA WorkingOneFewer ==
  ASSUME NEW P, NEW l, NEW Q, NEW m, NEW i, NEW c \in Working(P, l, i),
         Working(Q, m, i) \subseteq Working(P, l, i) \ {c}
  PROVE  Cardinality(Working(Q, m, i)) + 1 <= Cardinality(Working(P, l, i))
<1>1. /\ IsFiniteSet(Working(P, l, i) \ {c})
      /\ Cardinality(Working(P, l, i) \ {c}) = Cardinality(Working(P, l, i)) - 1
  BY WorkingFinite, FS_RemoveElement
<1>2. Cardinality(Working(Q, m, i)) <= Cardinality(Working(P, l, i) \ {c})
  BY <1>1, FS_Subset
<1> QED BY <1>1, <1>2, WorkingFinite

LEMMA WorkingOneMore ==
  ASSUME NEW P, NEW l, NEW Q, NEW m, NEW i, NEW c,
         Working(Q, m, i) \subseteq Working(P, l, i) \cup {c}
  PROVE  Cardinality(Working(Q, m, i)) <= Cardinality(Working(P, l, i)) + 1
<1>1. /\ IsFiniteSet(Working(P, l, i) \cup {c})
      /\ Cardinality(Working(P, l, i) \cup {c}) <= Cardinality(Working(P, l, i)) + 1
  BY WorkingFinite, FS_AddElement
<1>2. /\ Cardinality(Working(Q, m, i)) <= Cardinality(Working(P, l, i) \cup {c})
      /\ Cardinality(Working(P, l, i) \cup {c}) \in Nat
  BY <1>1, FS_Subset, FS_CardinalityType
<1> QED BY <1>1, <1>2, WorkingFinite

LEMMA SpareType ==
  ASSUME NEW sch, NEW P, NEW l, NEW i
  PROVE  Spare(sch, P, l, i) \in {0, 1}
BY DEF Spare

\* What a step must show of the count.
LEMMA CountKept ==
  ASSUME NEW i \in Items, PubTypeOK, PubTypeOK', ItemCounted(i),
         announced'[i] + Cardinality(Working(pass', lock', i))
               + asked[i] + overruns + Spare(scheduled[i], pass, lock, i)
            <= announced[i] + Cardinality(Working(pass, lock, i))
               + asked'[i] + overruns' + Spare(scheduled'[i], pass', lock', i)
  PROVE  ItemCounted(i)'
<1>1. /\ announced[i] \in Nat /\ asked[i] \in Nat /\ overruns \in Nat
      /\ announced'[i] \in Nat /\ asked'[i] \in Nat /\ overruns' \in Nat
  BY DEF PubTypeOK
<1>2. /\ Cardinality(Working(pass, lock, i)) \in Nat
      /\ Cardinality(Working(pass', lock', i)) \in Nat
      /\ Spare(scheduled[i], pass, lock, i) \in {0, 1}
      /\ Spare(scheduled'[i], pass', lock', i) \in {0, 1}
  BY WorkingFinite, SpareType
<1> QED BY <1>1, <1>2, SMT DEF ItemCounted

LEMMA PubInitInv == PubInit => PubInv
<1> SUFFICES ASSUME PubInit PROVE PubInv
  OBVIOUS
<1>1. PubTypeOK
  BY PublishingAssumption DEF PubInit, PubTypeOK, IdlePass
<1>2. ASSUME NEW i \in Items PROVE ItemInv(i)
  <2>1. Working(pass, lock, i) = {}
    BY DEF PubInit, Working, IdlePass
  <2>2. announced[i] = 0 /\ asked[i] = 0 /\ overruns = 0
    BY DEF PubInit
  <2>3. ItemCounted(i)
    BY <2>1, <2>2, FS_EmptySet, SpareType DEF ItemCounted
  <2> QED BY <2>3 DEF ItemInv, FoundIsDue, Holds, PubInit, IdlePass
<1> QED BY <1>1, <1>2 DEF PubInv

LEMMA PubTypeStep ==
  ASSUME PubTypeOK, [PubNext]_pubVars
  PROVE  PubTypeOK'
<1> USE DEF PubTypeOK
<1>1. ASSUME NEW i \in Items, UpdateSchedule(i)
      PROVE  PubTypeOK'
  <2>1. \A c \in Passes : [pass[c] EXCEPT !.due = @ \ {i}] \in
           [pc : {"idle", "locked", "found", "published"}, due : SUBSET Items, found : SUBSET Items]
    OBVIOUS
  <2>2. pass' = [c \in Passes |-> [pass[c] EXCEPT !.due = @ \ {i}]]
    BY <1>1 DEF UpdateSchedule
  <2>3. pass' \in [Passes -> [pc : {"idle", "locked", "found", "published"},
                             due : SUBSET Items, found : SUBSET Items]]
    BY <2>1, <2>2, Zenon
  <2>4. /\ OwnerCall(i) /\ UNCHANGED <<removed, announced>>
        /\ scheduled' = [scheduled EXCEPT ![i] = "future"] /\ asked' = [asked EXCEPT ![i] = @ + 1]
    BY <1>1 DEF UpdateSchedule
  <2> QED BY <2>3, <2>4 DEF OwnerCall
<1>2. ASSUME NEW i \in Items, CancelSchedule(i)
      PROVE  PubTypeOK'
  BY <1>2 DEF CancelSchedule, OwnerCall
<1>3. ASSUME NEW i \in Items, PublishNow(i)
      PROVE  PubTypeOK'
  BY <1>3 DEF PublishNow, OwnerCall
<1>4. ASSUME NEW i \in Items, TimePasses(i)
      PROVE  PubTypeOK'
  BY <1>4 DEF TimePasses
<1>5. ASSUME NEW c \in Passes, FindOverdue(c)
      PROVE  PubTypeOK'
  BY <1>5 DEF FindOverdue, Overdue
<1>6. ASSUME NEW c \in Passes, PublishOverdue(c)
      PROVE  PubTypeOK'
  BY <1>6 DEF PublishOverdue
<1>7. ASSUME NEW c \in Passes, FireSideEffects(c)
      PROVE  PubTypeOK'
  BY <1>7 DEF FireSideEffects, IdlePass
<1>8. ASSUME NEW c \in Passes, PassDies(c)
      PROVE  PubTypeOK'
  BY <1>8 DEF PassDies, IdlePass
<1>10. ASSUME NEW c \in Passes, AcquireCronLock(c)
      PROVE  PubTypeOK'
  BY <1>10 DEF AcquireCronLock
<1>9. CASE LockExpires \/ UNCHANGED pubVars
  BY <1>9 DEF LockExpires, pubVars
<1> QED BY <1>1, <1>2, <1>3, <1>4, <1>5, <1>6, <1>7, <1>8, <1>9, <1>10 DEF PubNext

-----------------------------------------------------------------------------
\* What the owner of another item does, or the owner of this one while no pass
\* holds it.
LEMMA OwnerKeeps ==
  ASSUME PubTypeOK, PubTypeOK', NEW i \in Items, ItemInv(i), NEW j \in Items,
         UpdateSchedule(j) \/ CancelSchedule(j) \/ PublishNow(j), i \notin raced'
  PROVE  ItemInv(i)'
<1>1. OwnerCall(j) /\ UNCHANGED <<lock, overruns>>
  BY DEF UpdateSchedule, CancelSchedule, PublishNow, OwnerCall
<1>2. \A c \in Passes : pass'[c].pc = pass[c].pc /\ pass'[c].found = pass[c].found
  BY DEF UpdateSchedule, CancelSchedule, PublishNow, PubTypeOK
<1>3. /\ Working(pass', lock', i) = Working(pass, lock, i)
      /\ LockHolds(pass', lock', i) <=> LockHolds(pass, lock, i)
  BY <1>1, <1>2 DEF Working, LockHolds
<1>t. /\ announced[i] \in Nat /\ asked[i] \in Nat /\ overruns \in Nat
      /\ Cardinality(Working(pass, lock, i)) \in Nat
  BY WorkingFinite DEF PubTypeOK
<1>4. CASE i # j
  <2>1. /\ scheduled'[i] = scheduled[i] /\ announced'[i] = announced[i] /\ asked'[i] = asked[i]
        /\ i \in removed' <=> i \in removed
    BY <1>4 DEF UpdateSchedule, CancelSchedule, PublishNow, PubTypeOK
  <2>2. \A c \in Passes : i \in pass[c].due => i \in pass'[c].due
    BY <1>4 DEF UpdateSchedule, CancelSchedule, PublishNow, PubTypeOK
  <2>3. ItemCounted(i)'
    BY <1>1, <1>3, <2>1 DEF ItemInv, ItemCounted, Spare
  <2> QED BY <1>2, <2>1, <2>2, <2>3 DEF ItemInv, FoundIsDue, Holds, Overdue
<1>5. CASE i = j
  <2>1. \A c \in Passes : ~Holds(c, i)
    BY <1>1, <1>5 DEF OwnerCall, Held, Holds
  <2>2. ~LockHolds(pass, lock, i)
    BY <2>1 DEF LockHolds, Holds
  <2>3. \/ scheduled'[i] = "future" /\ asked'[i] = asked[i] + 1 /\ announced'[i] = announced[i]
        \/ scheduled'[i] = "none" /\ asked'[i] = asked[i] /\ announced'[i] = announced[i]
        \/ scheduled'[i] = "none" /\ asked'[i] = asked[i] + 1 /\ announced'[i] = announced[i] + 1
    BY <1>5 DEF UpdateSchedule, CancelSchedule, PublishNow, PubTypeOK
  <2>4. scheduled'[i] = "none" => Spare(scheduled'[i], pass', lock', i) = 1
    BY <1>3, <2>2 DEF Spare
  <2>5. /\ Spare(scheduled[i], pass, lock, i) \in {0, 1}
        /\ Spare(scheduled'[i], pass', lock', i) \in {0, 1}
    BY SpareType
  <2>6. ItemCounted(i)'
    <3> DEFINE n == Cardinality(Working(pass, lock, i))
               x == Spare(scheduled[i], pass, lock, i)
               y == Spare(scheduled'[i], pass', lock', i)
    <3>1. announced'[i] + asked[i] + x <= announced[i] + asked'[i] + y
      <4> HIDE DEF x, y
      <4> QED BY <1>t, <2>3, <2>4, <2>5 DEF x, y
    <3>2. Cardinality(Working(pass', lock', i)) = n /\ overruns' = overruns
      BY <1>1, <1>3
    <3>3. announced'[i] \in Nat /\ asked'[i] \in Nat
      BY DEF PubTypeOK
    <3>4. announced'[i] + n + asked[i] + overruns + x <= announced[i] + n + asked'[i] + overruns + y
      <4> HIDE DEF x, y, n
      <4> QED BY <1>t, <2>5, <3>1, <3>3 DEF x, y, n
    <3> QED BY <3>2, <3>4, CountKept DEF ItemInv
  <2> QED BY <1>2, <2>1, <2>6 DEF ItemInv, FoundIsDue, Holds
<1> QED BY <1>4, <1>5

-----------------------------------------------------------------------------
\* The count after a step that leaves asked alone.
LEMMA SameCount ==
  ASSUME NEW i \in Items, PubTypeOK, PubTypeOK', ItemCounted(i), UNCHANGED <<asked, overruns>>,
         announced'[i] = announced[i],
         Working(pass', lock', i) \subseteq Working(pass, lock, i),
         Spare(scheduled[i], pass, lock, i) <= Spare(scheduled'[i], pass', lock', i)
  PROVE  ItemCounted(i)'
<1> DEFINE n == Cardinality(Working(pass, lock, i))
           m == Cardinality(Working(pass', lock', i))
           x == Spare(scheduled[i], pass, lock, i)
           y == Spare(scheduled'[i], pass', lock', i)
<1>1. m <= n /\ m \in Nat /\ n \in Nat /\ x \in {0, 1} /\ y \in {0, 1} /\ x <= y
  BY WorkingFewer, WorkingFinite, SpareType
<1>2. announced[i] \in Nat /\ asked[i] \in Nat /\ overruns \in Nat
  BY DEF PubTypeOK
<1> HIDE DEF n, m, x, y
<1>3. announced[i] + m + asked[i] + overruns + x <= announced[i] + n + asked[i] + overruns + y
  BY <1>1, <1>2
<1> QED BY <1>3, CountKept DEF n, m, x, y

LEMMA AcquireKeeps ==
  ASSUME PubTypeOK, PubTypeOK', NEW i \in Items, ItemInv(i), NEW c \in Passes, AcquireCronLock(c)
  PROVE  ItemInv(i)'
<1>1. /\ lock = "none" /\ lock' = c /\ pass[c].pc = "idle"
      /\ pass' = [pass EXCEPT ![c].pc = "locked"]
      /\ UNCHANGED <<scheduled, removed, announced, asked, overruns>>
  BY DEF AcquireCronLock
<1>2. /\ pass'[c].pc = "locked" /\ pass'[c].found = pass[c].found
      /\ \A d \in Passes : d # c => pass'[d] = pass[d]
      /\ ~Holds(c, i) /\ "none" \notin Passes
  BY <1>1, PublishingAssumption DEF PubTypeOK, ItemInv, FoundIsDue
<1>3. Working(pass', lock', i) \subseteq Working(pass, lock, i)
  BY <1>1, <1>2 DEF Working
<1>4. Spare(scheduled[i], pass, lock, i) <= Spare(scheduled'[i], pass', lock', i)
  <2>1. ~LockHolds(pass', lock', i)
    BY <1>1, <1>2 DEF LockHolds, Holds
  <2> QED BY <1>1, <2>1 DEF Spare
<1>5. ItemCounted(i)'
  BY <1>1, <1>3, <1>4, SameCount DEF ItemInv
<1>6. FoundIsDue(i)'
  BY <1>1, <1>2 DEF ItemInv, FoundIsDue, Holds, Overdue
<1> QED BY <1>5, <1>6 DEF ItemInv

LEMMA FindKeeps ==
  ASSUME PubTypeOK, PubTypeOK', NEW i \in Items, ItemInv(i), NEW c \in Passes, FindOverdue(c)
  PROVE  ItemInv(i)'
<1>1. PICK F \in SUBSET Overdue :
         pass' = [pass EXCEPT ![c] = [pc |-> "found", due |-> Overdue, found |-> F]]
  BY DEF FindOverdue
<1>2. /\ pass[c].pc = "locked"
      /\ UNCHANGED <<scheduled, removed, lock, announced, asked, overruns>>
  BY DEF FindOverdue
<1>3. /\ pass'[c] = [pc |-> "found", due |-> Overdue, found |-> F]
      /\ \A d \in Passes : d # c => pass'[d] = pass[d]
      /\ ~Holds(c, i)
  BY <1>1, <1>2 DEF PubTypeOK, ItemInv, FoundIsDue
<1>4. Working(pass', lock', i) \subseteq Working(pass, lock, i)
  BY <1>2, <1>3 DEF Working
<1>5. i \in F => i \in Overdue /\ scheduled[i] # "none"
  BY DEF Overdue
<1>6. Spare(scheduled[i], pass, lock, i) <= Spare(scheduled'[i], pass', lock', i)
  <2>1. CASE scheduled[i] = "none"
    <3>1. LockHolds(pass', lock', i) => LockHolds(pass, lock, i)
      BY <1>2, <1>3, <1>5, <2>1 DEF LockHolds
    <3> QED BY <1>2, <3>1 DEF Spare
  <2>2. CASE scheduled[i] # "none"
    BY <1>2, <2>2 DEF Spare
  <2> QED BY <2>1, <2>2
<1>7. ItemCounted(i)'
  BY <1>2, <1>4, <1>6, SameCount DEF ItemInv
<1>8. FoundIsDue(i)'
  BY <1>2, <1>3, <1>5 DEF ItemInv, FoundIsDue, Holds, Overdue
<1> QED BY <1>7, <1>8 DEF ItemInv

LEMMA PublishKeeps ==
  ASSUME PubTypeOK, PubTypeOK', NEW i \in Items, ItemInv(i), NEW c \in Passes, PublishOverdue(c)
  PROVE  ItemInv(i)'
<1>1. /\ pass[c].pc = "found" /\ UNCHANGED <<removed, lock, announced, asked, overruns>>
      /\ scheduled'[i] = IF i \in pass[c].due \cap Overdue THEN "none" ELSE scheduled[i]
      /\ pass' = [pass EXCEPT ![c].pc = "published"]
  BY DEF PublishOverdue
<1>2. /\ pass'[c].pc = "published" /\ pass'[c].found = pass[c].found
      /\ \A d \in Passes : d # c => pass'[d] = pass[d]
  BY <1>1 DEF PubTypeOK
<1>3. /\ Working(pass', lock', i) \subseteq Working(pass, lock, i)
      /\ LockHolds(pass', lock', i) <=> LockHolds(pass, lock, i)
  BY <1>1, <1>2 DEF Working, LockHolds
<1>4. Spare(scheduled[i], pass, lock, i) <= Spare(scheduled'[i], pass', lock', i)
  BY <1>1, <1>3 DEF Spare
<1>5. ItemCounted(i)'
  BY <1>1, <1>3, <1>4, SameCount DEF ItemInv
<1>6. Holds(c, i) => scheduled'[i] = "none"
  BY <1>1 DEF ItemInv, FoundIsDue
<1>7. FoundIsDue(i)'
  BY <1>1, <1>2, <1>6 DEF ItemInv, FoundIsDue, Holds, Overdue
<1> QED BY <1>5, <1>7 DEF ItemInv

\* A pass that is over takes its item with it, announced or not.
LEMMA PassOverKeeps ==
  ASSUME PubTypeOK, PubTypeOK', NEW i \in Items, ItemInv(i), NEW c \in Passes,
         FireSideEffects(c) \/ PassDies(c)
  PROVE  ItemInv(i)'
<1>1. /\ pass' = [pass EXCEPT ![c] = IdlePass]
      /\ UNCHANGED <<scheduled, removed, lock, asked, overruns>>
      /\ \/ announced'[i] = announced[i]
         \/ /\ pass[c].pc = "published" /\ Holds(c, i)
            /\ announced'[i] = announced[i] + 1
  BY DEF FireSideEffects, PassDies, Holds, PubTypeOK
<1>2. /\ pass'[c] = IdlePass
      /\ \A d \in Passes : d # c => pass'[d] = pass[d]
  BY <1>1 DEF PubTypeOK
<1>3. /\ Working(pass', lock', i) \subseteq Working(pass, lock, i) \ {c}
      /\ LockHolds(pass', lock', i) => LockHolds(pass, lock, i)
  BY <1>1, <1>2 DEF Working, LockHolds, IdlePass
<1>4. Spare(scheduled[i], pass, lock, i) <= Spare(scheduled'[i], pass', lock', i)
  BY <1>1, <1>3 DEF Spare
<1>5. ASSUME announced'[i] = announced[i]
      PROVE  ItemCounted(i)'
  BY <1>1, <1>3, <1>4, <1>5, SameCount DEF ItemInv
<1>6. ASSUME pass[c].pc = "published", Holds(c, i), announced'[i] = announced[i] + 1
      PROVE  ItemCounted(i)'
  <2> DEFINE n == Cardinality(Working(pass, lock, i))
             m == Cardinality(Working(pass', lock', i))
             x == Spare(scheduled[i], pass, lock, i)
             y == Spare(scheduled'[i], pass', lock', i)
  <2>1. /\ n \in Nat /\ m \in Nat /\ x \in {0, 1} /\ y \in {0, 1} /\ x <= y
        /\ announced[i] \in Nat /\ asked[i] \in Nat /\ overruns \in Nat
    BY <1>4, WorkingFinite, SpareType DEF PubTypeOK
  <2>2. scheduled[i] = "none"
    BY <1>6 DEF ItemInv, FoundIsDue
  <2>3. m + 1 + x <= n + y
    <3>1. CASE c = lock
      <4>1. LockHolds(pass, lock, i) /\ ~LockHolds(pass', lock', i)
        BY <1>1, <1>2, <1>6, <3>1 DEF LockHolds, Holds, IdlePass
      <4>2. x = 0 /\ y = 1
        BY <1>1, <2>2, <4>1 DEF Spare
      <4>3. m <= n
        BY <1>3, WorkingFewer
      <4> HIDE DEF n, m, x, y
      <4> QED BY <2>1, <4>2, <4>3
    <3>2. CASE c # lock
      <4>1. c \in Working(pass, lock, i)
        BY <1>6, <3>2 DEF Working, Holds
      <4>2. m + 1 <= n
        BY <1>3, <4>1, WorkingOneFewer
      <4> HIDE DEF n, m, x, y
      <4> QED BY <2>1, <4>2
    <3> QED BY <3>1, <3>2
  <2>4. announced[i] + 1 + m + asked[i] + overruns + x <= announced[i] + n + asked[i] + overruns + y
    <3> HIDE DEF n, m, x, y
    <3> QED BY <2>1, <2>3
  <2> HIDE DEF n, m, x, y
  <2>5. announced'[i] + m + asked[i] + overruns + x <= announced[i] + n + asked'[i] + overruns' + y
    BY <1>1, <1>6, <2>1, <2>4
  <2> QED BY <2>5, CountKept DEF ItemInv, n, m, x, y
<1>7. ItemCounted(i)'
  BY <1>1, <1>5, <1>6 DEF ItemInv
<1>8. FoundIsDue(i)'
  BY <1>1, <1>2 DEF ItemInv, FoundIsDue, Holds, Overdue, IdlePass
<1> QED BY <1>7, <1>8 DEF ItemInv

LEMMA ExpiryKeeps ==
  ASSUME PubTypeOK, PubTypeOK', NEW i \in Items, ItemInv(i), LockExpires
  PROVE  ItemInv(i)'
<1>1. /\ lock \in Passes /\ lock' = "none" /\ "none" \notin Passes
      /\ UNCHANGED <<scheduled, removed, pass, announced, asked>>
  BY PublishingAssumption DEF LockExpires, PubTypeOK
<1>2. /\ ~LockHolds(pass', lock', i)
      /\ Working(pass', lock', i) \subseteq Working(pass, lock, i) \cup {lock}
  BY <1>1 DEF LockHolds, Working
<1>3. Spare(scheduled[i], pass, lock, i) <= Spare(scheduled'[i], pass', lock', i)
  BY <1>1, <1>2 DEF Spare
<1>4. ASSUME pass[lock].pc = "idle"
      PROVE  ItemCounted(i)'
  <2>1. ~Holds(lock, i) /\ UNCHANGED overruns
    BY <1>1, <1>4 DEF LockExpires, ItemInv, FoundIsDue
  <2>2. Working(pass', lock', i) \subseteq Working(pass, lock, i)
    BY <1>1, <1>4, <2>1 DEF Working, Holds
  <2> QED BY <1>1, <1>3, <2>1, <2>2, SameCount DEF ItemInv
<1>5. ASSUME pass[lock].pc # "idle"
      PROVE  ItemCounted(i)'
  <2> DEFINE n == Cardinality(Working(pass, lock, i))
             m == Cardinality(Working(pass', lock', i))
             x == Spare(scheduled[i], pass, lock, i)
             y == Spare(scheduled'[i], pass', lock', i)
  <2>1. /\ n \in Nat /\ m \in Nat /\ x \in {0, 1} /\ y \in {0, 1} /\ x <= y
        /\ announced[i] \in Nat /\ asked[i] \in Nat /\ overruns \in Nat
    BY <1>3, WorkingFinite, SpareType DEF PubTypeOK
  <2>2. m <= n + 1
    BY <1>2, WorkingOneMore
  <2>3. overruns' = overruns + 1
    BY <1>5 DEF LockExpires
  <2> HIDE DEF n, m, x, y
  <2>4. announced[i] + m + asked[i] + overruns + x
           <= announced[i] + n + asked[i] + (overruns + 1) + y
    BY <2>1, <2>2
  <2>5. announced'[i] + m + asked[i] + overruns + x <= announced[i] + n + asked'[i] + overruns' + y
    BY <1>1, <2>3, <2>4
  <2> QED BY <2>5, CountKept DEF ItemInv, n, m, x, y
<1>6. ItemCounted(i)'
  BY <1>4, <1>5 DEF ItemInv
<1>7. FoundIsDue(i)'
  BY <1>1 DEF ItemInv, FoundIsDue, Holds, Overdue
<1> QED BY <1>6, <1>7 DEF ItemInv

LEMMA PubItemStep ==
  ASSUME PubInv, [PubNext]_pubVars, NEW i \in Items \ raced'
  PROVE  ItemInv(i)'
<1>1. raced \subseteq raced'
  BY DEF PubNext, pubVars, UpdateSchedule, CancelSchedule, PublishNow, OwnerCall, TimePasses,
     AcquireCronLock, FindOverdue, PublishOverdue, FireSideEffects, PassDies, LockExpires
<1>2. ItemInv(i) /\ PubTypeOK /\ PubTypeOK'
  BY <1>1, PubTypeStep DEF PubInv
<1>3. ASSUME NEW j \in Items, UpdateSchedule(j) \/ CancelSchedule(j) \/ PublishNow(j)
      PROVE  ItemInv(i)'
  BY <1>2, <1>3, OwnerKeeps
<1>4. ASSUME NEW j \in Items, TimePasses(j)
      PROVE  ItemInv(i)'
  <2>1. /\ UNCHANGED <<removed, lock, pass, announced, asked, overruns>>
        /\ scheduled'[i] = "none" <=> scheduled[i] = "none"
        /\ scheduled[i] = "overdue" => scheduled'[i] = "overdue"
    BY <1>2, <1>4 DEF TimePasses, PubTypeOK
  <2>2. ItemCounted(i)'
    BY <1>2, <2>1 DEF ItemInv, ItemCounted, Spare
  <2> QED BY <1>2, <2>1, <2>2 DEF ItemInv, FoundIsDue, Holds, Overdue
<1>5. ASSUME NEW c \in Passes,
             AcquireCronLock(c) \/ FindOverdue(c) \/ PublishOverdue(c)
                \/ FireSideEffects(c) \/ PassDies(c)
      PROVE  ItemInv(i)'
  BY <1>2, <1>5, AcquireKeeps, FindKeeps, PublishKeeps, PassOverKeeps
<1>6. CASE LockExpires
  BY <1>2, <1>6, ExpiryKeeps
<1>7. CASE UNCHANGED pubVars
  BY <1>2, <1>7 DEF pubVars, ItemInv, ItemCounted, FoundIsDue, Overdue, Holds
<1> QED BY <1>3, <1>4, <1>5, <1>6, <1>7 DEF PubNext

-----------------------------------------------------------------------------
\* The inductive invariant: for an item whose owner did not act under a pass, the
\* announcements made, and those that passes without the lock may still make, are
\* no more than were asked for, or than locks expired under their passes.
THEOREM PubInvariant == PubSpec => []PubInv
<1>1. PubInv /\ [PubNext]_pubVars => PubInv'
  BY PubTypeStep, PubItemStep DEF PubInv
<1> QED BY <1>1, PubInitInv, PTL DEF PubSpec

\* The variables of Publishing keep their types.
THEOREM PubTypeCorrect == PubSpec => []PubTypeOK
BY PubInvariant, PTL DEF PubInv

\* An item is announced once, and once more for each call of its owner that asks
\* for it and for each lock that expired under its pass, for any number of items,
\* instances, deaths and overruns.  Left out are the items whose owner acts between
\* a pass's read of them and its end.
THEOREM PubAnnounced == PubSpec => []AnnouncedOnce
<1>1. ASSUME PubInv PROVE AnnouncedOnce
  <2> SUFFICES ASSUME NEW i \in Items \ raced
               PROVE  announced[i] <= asked[i] + 1 + overruns
    BY DEF AnnouncedOnce
  <2>1. announced[i] \in Nat /\ asked[i] \in Nat /\ overruns \in Nat
    BY <1>1 DEF PubInv, PubTypeOK
  <2> DEFINE n == Cardinality(Working(pass, lock, i))
             x == Spare(scheduled[i], pass, lock, i)
  <2>2. n \in Nat /\ x \in {0, 1} /\ announced[i] + n <= asked[i] + overruns + x
    BY <1>1, WorkingFinite, SpareType DEF PubInv, ItemInv, ItemCounted
  <2> HIDE DEF n, x
  <2> QED BY <2>1, <2>2
<1> QED BY <1>1, PubInvariant, PTL

-----------------------------------------------------------------------------
(***************************************************************************)
(* Memberships: any number of subscriptions and calls.                     *)
(***************************************************************************)

\* A recorded subscription exists at Stripe.
RecordedInv == \A s \in Subs : recorded[s] # "none" => sub[s] # "none"

MemInv == MemTypeOK /\ RecordedInv

LEMMA MemInitInv == MemInit => MemInv
BY DEF MemInit, MemInv, MemTypeOK, RecordedInv, MemberStatus, NoRead, NoSub

LEMMA StripeStepKeeps ==
  ASSUME MemInv, NEW s \in Subs, NEW next \in StripeStatus,
         NEW kinds \in SUBSET {"invoice.paid", "invoice.payment_failed", "updated", "deleted"},
         StripeStep(s, next, kinds)
  PROVE  MemInv'
<1>1. \A k \in kinds : SubEvent(k, s, next) \in SubEvents
  BY DEF SubEvent, SubEvents
<1>2. subEvents' \subseteq SubEvents
  BY <1>1 DEF StripeStep, MemInv, MemTypeOK
<1>3. /\ sub' = [sub EXCEPT ![s] = next] /\ changes' = changes + 1
      /\ UNCHANGED <<recorded, subJobs, member, endDate, mapTo, mapBack, nightly, memberCalls>>
  BY DEF StripeStep
<1>4. next # "none"
  BY DEF StripeStatus
<1> QED BY <1>2, <1>3, <1>4 DEF MemInv, MemTypeOK, RecordedInv

LEMMA MemStep == MemInv /\ [MemNext]_memVars => MemInv'
<1> SUFFICES ASSUME MemInv, [MemNext]_memVars PROVE MemInv'
  OBVIOUS
<1> USE DEF MemInv, MemTypeOK, RecordedInv
<1>1. ASSUME NEW s \in Subs,
             CreateSubscription(s) \/ RecordSubscription(s) \/ StoreSubscriptionMapping(s)
      PROVE  MemInv'
  BY <1>1 DEF CreateSubscription, RecordSubscription, StoreSubscriptionMapping, StripeStatus,
     MemberStatus
<1>2. ASSUME NEW s \in Subs,
             InvoicePaid(s) \/ InvoiceFails(s) \/ IncompleteExpires(s) \/ SubscriptionEnds(s)
      PROVE  MemInv'
  <2> HIDE DEF MemInv
  <2> QED BY <1>2, StripeStepKeeps
          DEF InvoicePaid, InvoiceFails, IncompleteExpires, SubscriptionEnds, StripeStatus
<1>3. ASSUME NEW s \in Subs, CancelSubscription(s)
      PROVE  MemInv'
  <2>1. recorded[s] = "mapped" /\ sub[s] \in StripeStatus
    BY <1>3 DEF CancelSubscription
  <2>2. /\ SubEvent("deleted", s, "canceled") \in SubEvents
        /\ SubEvent("cancelled", s, "canceled") \in Cancellations
        /\ SubEvent("refused", s, sub[s]) \in Cancellations
    BY <2>1 DEF SubEvent, SubEvents, Cancellations, StripeStatus
  <2>3. subEvents' \subseteq SubEvents /\ subJobs' \subseteq SubEvents \cup Cancellations
    BY <1>3, <2>2 DEF CancelSubscription
  <2>4. sub' = sub \/ sub' = [sub EXCEPT ![s] = "canceled"]
    BY <1>3 DEF CancelSubscription
  <2>5. /\ memberCalls' \in Nat
        /\ UNCHANGED <<recorded, member, endDate, nightly, changes>>
    BY <1>3 DEF CancelSubscription, MemberCall
  <2>6. mapTo' \subseteq Subs /\ mapBack' \in Subs \cup {NoSub}
    BY <1>3 DEF CancelSubscription, FindMapping
  <2> QED BY <2>3, <2>4, <2>5, <2>6 DEF StripeStatus
<1>4. ASSUME NEW e \in subEvents, ReceiveSubEvent(e)
      PROVE  MemInv'
  BY <1>4 DEF ReceiveSubEvent
<1>5. ASSUME NEW e \in subJobs, WriteRow(e)
      PROVE  MemInv'
  BY <1>5 DEF WriteRow, HandleSubEvent, HandleInvoicePaid, HandleInvoicePaymentFailed,
     HandleSubscriptionUpdated, HandleSubscriptionDeleted, CancelConfirmed, CancelPending,
     MemberStatus, NoSub
<1>6. CASE CancelRow \/ Subscribe \/ Unsubscribe \/ PeriodEnds
  BY <1>6 DEF CancelRow, Subscribe, Unsubscribe, PeriodEnds, MemberCall, MemberStatus
<1>7. CASE ReconcileMembershipRead \/ ReconcileMembershipWrite
  BY <1>7 DEF ReconcileMembershipRead, ReconcileMembershipWrite, NoRead, NoSub, MemberStatus,
     StripeStatus
<1>8. CASE UNCHANGED memVars
  BY <1>8 DEF memVars
<1> QED BY <1>1, <1>2, <1>3, <1>4, <1>5, <1>6, <1>7, <1>8 DEF MemNext

\* The variables of Memberships keep their types.
THEOREM MemTypeCorrect == MemSpec => []MemTypeOK
<1>1. MemInv => MemTypeOK
  BY DEF MemInv
<1> QED BY <1>1, MemInitInv, MemStep, PTL DEF MemSpec

-----------------------------------------------------------------------------
(***************************************************************************)
(* Every component behaves as its own specification says.                  *)
(***************************************************************************)

LEMMA SvcParts ==
  ASSUME [ServicesNext]_svcVars
  PROVE  /\ [PayNext]_payVars
         /\ [OrdNext]_ordVars
         /\ [FolNext]_folVars
         /\ [MemNext]_memVars
         /\ [PreNext]_preVars
         /\ [DlvNext]_dlvVars
         /\ [PubNext]_pubVars
         /\ [PkNext]_pkVars
         /\ [SigNext]_sigVars
<1>1. [PayNext]_payVars
  BY DEF ServicesNext, svcVars
<1>2. [OrdNext]_ordVars
  BY DEF ServicesNext, svcVars
<1>3. [FolNext]_folVars
  BY DEF ServicesNext, svcVars
<1>4. [MemNext]_memVars
  BY DEF ServicesNext, svcVars
<1>5. [PreNext]_preVars
  BY DEF ServicesNext, svcVars
<1>6. [DlvNext]_dlvVars
  BY DEF ServicesNext, svcVars
<1>7. [PubNext]_pubVars
  BY DEF ServicesNext, svcVars
<1>8. [PkNext]_pkVars
  BY DEF ServicesNext, svcVars
<1>9. [SigNext]_sigVars
  BY DEF ServicesNext, svcVars
<1> QED BY <1>1, <1>2, <1>3, <1>4, <1>5, <1>6, <1>7, <1>8, <1>9

\* The type invariants of the components hold, for all their handlers at once:
\* the composition lets no component take a step of another.
THEOREM ServicesTypeCorrect == ServicesSpec => []ServicesTypeOK
<1>1. ServicesInit => /\ PayInit /\ OrdInit /\ FolInit /\ MemInit /\ PreInit /\ DlvInit
                      /\ PubInit /\ PkInit /\ SigInit
  BY DEF ServicesInit
<1>2. ServicesSpec => /\ PaySpec /\ OrdSpec /\ FolSpec /\ MemSpec /\ PreSpec /\ DlvSpec
                      /\ PubSpec /\ PkSpec /\ SigSpec
  BY <1>1, SvcParts, PTL
     DEF ServicesSpec, PaySpec, OrdSpec, FolSpec, MemSpec, PreSpec, DlvSpec, PubSpec, PkSpec,
         SigSpec
<1>3. /\ PayTypeOK /\ OrdTypeOK /\ FolTypeOK /\ MemTypeOK /\ PreTypeOK /\ DlvTypeOK
      /\ PubTypeOK /\ PkTypeOK /\ SigTypeOK
      => ServicesTypeOK
  BY DEF ServicesTypeOK
<1> QED BY <1>2, <1>3, PayTypeCorrect, OrdTypeCorrect, FolTypeCorrect, MemTypeCorrect,
           PreTypeCorrect, DlvTypeCorrect, PubTypeCorrect, PkTypeCorrect, SigTypeCorrect, PTL
=============================================================================
