----------------------------- MODULE Publishing -----------------------------
(***************************************************************************)
(* Scheduled content: SchedulingService and its cron, which every instance *)
(* of the server runs under a Redis lock that is never released but        *)
(* expires.  A pass reads the overdue items, publishes by one update, and  *)
(* then announces the items it read (index, notifications, experience).    *)
(***************************************************************************)
EXTENDS Integers, FiniteSets

CONSTANTS Items,       \* pieces of content that were created with a schedule
          Passes,      \* instances of the server running the cron
          TakeLimit,   \* take: how many items of a type a pass reads
          MaxOwner,    \* bound: calls of the owner
          MaxDeaths,   \* bound: instances that die in a pass
          MaxOverruns  \* bound: passes that are still at work when their lock expires

ASSUME PublishingAssumption ==
    /\ IsFiniteSet(Items) /\ IsFiniteSet(Passes) /\ "none" \notin Passes
    /\ TakeLimit \in Nat \ {0}
    /\ MaxOwner \in Nat /\ MaxDeaths \in Nat /\ MaxOverruns \in Nat

IdlePass == [pc |-> "idle", due |-> {}, found |-> {}]

VARIABLES
    scheduled,  \* scheduledAt: "none", "future", "overdue"
    removed,    \* isRemoved
    lock,       \* Redis: the instance that took cron:publishOverdueContent
    pass,       \* publishOverdueContent in each instance
    announced,  \* how often the side effects of an item were fired
    asked,      \* calls of publishNow and updateSchedule for each item
    ownerCalls, deaths,
    overruns,   \* locks that expired while the pass that took them was at work
    raced       \* history: items whose owner acted between a pass's read and its end

pubVars == <<scheduled, removed, lock, pass, announced, asked, ownerCalls, deaths,
             overruns, raced>>

PubTypeOK ==
    /\ scheduled \in [Items -> {"none", "future", "overdue"}]
    /\ removed \subseteq Items /\ raced \subseteq Items
    /\ lock \in Passes \cup {"none"}
    /\ pass \in [Passes -> [pc : {"idle", "locked", "found", "published"},
                            due : SUBSET Items, found : SUBSET Items]]
    /\ announced \in [Items -> Nat] /\ asked \in [Items -> Nat]
    /\ ownerCalls \in Nat /\ deaths \in Nat /\ overruns \in Nat

PubInit ==
    /\ scheduled = [i \in Items |-> "future"]
    /\ removed = {} /\ raced = {} /\ lock = "none"
    /\ pass = [c \in Passes |-> IdlePass]
    /\ announced = [i \in Items |-> 0] /\ asked = [i \in Items |-> 0]
    /\ ownerCalls = 0 /\ deaths = 0 /\ overruns = 0

-----------------------------------------------------------------------------
\* Items some pass has read and not yet announced.
Held == UNION {pass[c].found : c \in Passes}

OwnerCall(i) ==
    /\ ownerCalls < MaxOwner /\ ownerCalls' = ownerCalls + 1
    /\ raced' = IF i \in Held THEN raced \cup {i} ELSE raced
    /\ UNCHANGED <<lock, deaths, overruns>>

\* updateSchedule: at least a quarter of an hour ahead, so that no pass that
\* runs now counts the item as overdue any more.
UpdateSchedule(i) ==
    /\ OwnerCall(i)
    /\ scheduled' = [scheduled EXCEPT ![i] = "future"]
    /\ asked' = [asked EXCEPT ![i] = @ + 1]
    /\ pass' = [c \in Passes |-> [pass[c] EXCEPT !.due = @ \ {i}]]
    /\ UNCHANGED <<removed, announced>>

CancelSchedule(i) ==
    /\ OwnerCall(i)
    /\ scheduled' = [scheduled EXCEPT ![i] = "none"]
    /\ removed' = removed \cup {i}
    /\ UNCHANGED <<pass, asked, announced>>

\* publishNow asks for nothing but the owner: the side effects are fired even
\* for an item that is published, or cancelled.
PublishNow(i) ==
    /\ OwnerCall(i)
    /\ scheduled' = [scheduled EXCEPT ![i] = "none"]
    /\ announced' = [announced EXCEPT ![i] = @ + 1]
    /\ asked' = [asked EXCEPT ![i] = @ + 1]
    /\ UNCHANGED <<removed, pass>>

TimePasses(i) ==
    /\ scheduled[i] = "future"
    /\ scheduled' = [scheduled EXCEPT ![i] = "overdue"]
    /\ UNCHANGED <<removed, lock, pass, announced, asked, ownerCalls, deaths, overruns, raced>>

-----------------------------------------------------------------------------
Overdue == {i \in Items : scheduled[i] = "overdue" /\ i \notin removed}

\* acquireCronLock: SET NX, with 55 seconds to live.
AcquireCronLock(c) ==
    /\ lock = "none" /\ pass[c].pc = "idle"
    /\ lock' = c
    /\ pass' = [pass EXCEPT ![c].pc = "locked"]
    /\ UNCHANGED <<scheduled, removed, announced, asked, ownerCalls, deaths, overruns, raced>>

\* The time is taken and the overdue items are read, at most TakeLimit of them;
\* nobody looks at the lock again.
FindOverdue(c) ==
    /\ pass[c].pc = "locked"
    /\ \E F \in SUBSET Overdue :
          /\ Cardinality(F) <= TakeLimit
          /\ F # Overdue => Cardinality(F) = TakeLimit
          /\ pass' = [pass EXCEPT ![c] = [pc |-> "found", due |-> Overdue, found |-> F]]
    /\ UNCHANGED <<scheduled, removed, lock, announced, asked, ownerCalls, deaths,
                   overruns, raced>>

\* Mutant: the schedule is not cleared.
PublishOverdueKept(c) ==
    /\ pass[c].pc = "found"
    /\ scheduled' = [i \in Items |->
          IF i \in pass[c].due \cap Overdue THEN "overdue" ELSE scheduled[i]]
    /\ pass' = [pass EXCEPT ![c].pc = "published"]
    /\ UNCHANGED <<removed, lock, announced, asked, ownerCalls, deaths, overruns, raced>>

\* updateMany has no limit: everything that was overdue at the start.
PublishOverdue(c) ==
    /\ pass[c].pc = "found"
    /\ scheduled' = [i \in Items |->
          IF i \in pass[c].due \cap Overdue THEN "none" ELSE scheduled[i]]
    /\ pass' = [pass EXCEPT ![c].pc = "published"]
    /\ UNCHANGED <<removed, lock, announced, asked, ownerCalls, deaths, overruns, raced>>

FireSideEffects(c) ==
    /\ pass[c].pc = "published"
    /\ announced' = [i \in Items |->
          announced[i] + (IF i \in pass[c].found THEN 1 ELSE 0)]
    /\ pass' = [pass EXCEPT ![c] = IdlePass]
    /\ UNCHANGED <<scheduled, removed, lock, asked, ownerCalls, deaths, overruns, raced>>

PassDies(c) ==
    /\ deaths < MaxDeaths /\ deaths' = deaths + 1
    /\ pass[c].pc # "idle"
    /\ pass' = [pass EXCEPT ![c] = IdlePass]
    /\ UNCHANGED <<scheduled, removed, lock, announced, asked, ownerCalls, overruns, raced>>

\* Mutant: the lock has no time to live and is released at the end of a pass.
LockReleased ==
    /\ lock # "none" /\ pass[lock].pc = "published" /\ lock' = "none"
    /\ UNCHANGED <<scheduled, removed, pass, announced, asked, ownerCalls, deaths,
                   overruns, raced>>

\* The lock expires, whether the pass that took it is over or not.
LockExpires ==
    /\ lock # "none" /\ lock' = "none"
    /\ \/ pass[lock].pc = "idle" /\ UNCHANGED overruns
       \/ pass[lock].pc # "idle" /\ overruns < MaxOverruns /\ overruns' = overruns + 1
    /\ UNCHANGED <<scheduled, removed, pass, announced, asked, ownerCalls, deaths, raced>>

PubNext ==
    \/ \E i \in Items : UpdateSchedule(i) \/ CancelSchedule(i) \/ PublishNow(i) \/ TimePasses(i)
    \/ \E c \in Passes :
          \/ AcquireCronLock(c) \/ FindOverdue(c) \/ PublishOverdue(c) \/ FireSideEffects(c)
          \/ PassDies(c)
    \/ LockExpires

\* The cron fires every minute, a pass goes on, and the lock expires.
PubFairness ==
    /\ WF_pubVars(\E c \in Passes : Overdue # {} /\ AcquireCronLock(c))
    /\ WF_pubVars(\E c \in Passes : FindOverdue(c))
    /\ WF_pubVars(\E c \in Passes : PublishOverdue(c))
    /\ WF_pubVars(\E c \in Passes : FireSideEffects(c))
    /\ WF_pubVars(LockExpires)

PubSpec == PubInit /\ [][PubNext]_pubVars
FairPubSpec == PubSpec /\ PubFairness

-----------------------------------------------------------------------------
\* The side effects of an item are fired once, once more for every publishNow and
\* every new schedule, and once more for every lock that expired under its pass: a
\* pass that overlaps with another, dies, or reads only some of what it publishes
\* costs no more than that.  Only items whose owner acts while a pass holds them
\* are left out.
AnnouncedOnce ==
    \A i \in Items \ raced : announced[i] <= asked[i] + 1 + overruns

\* What is overdue is published in the end unless its owner acts, though the
\* instance that holds the lock may die: the lock is never released by hand.
DueIsPublished ==
    \A i \in Items : (i \in Overdue) ~> (scheduled[i] # "overdue" \/ i \in removed)

\* The lock "prevents multiple instances from running the same cron job
\* simultaneously", cron-lock.ts says: two passes do not have the same item in
\* hand.  (The code breaks this: the lock expires under a pass of more than 55
\* seconds, and the next one reads, and later announces, the same items.)
NoItemInTwoPasses ==
    \A c, d \in Passes : c # d => pass[c].found \cap pass[d].found = {}
=============================================================================
