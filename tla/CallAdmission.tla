--------------------------- MODULE CallAdmission ---------------------------
(***************************************************************************)
(* The transaction of CreateCallSession (src/apps/livekit-server/internal/ *)
(* store/store.go), statement by statement: for each participant in the    *)
(* order of their ids it takes the advisory lock hashtext(id), counts the  *)
(* participant's open rows in live sessions, and gives up when there is    *)
(* one; then it inserts the session and its rows and commits.              *)
(*                                                                         *)
(* Each member of Txns is one request, and names the session it creates.   *)
(* A statement sees what was committed when it started (READ COMMITTED);   *)
(* an advisory lock is held by one transaction until it ends.              *)
(***************************************************************************)
EXTENDS Naturals, FiniteSets

CONSTANTS
  Users,    \* user ids; their order is the order of sort.Strings
  Txns,     \* transactions, one for each call that is attempted
  Locks,    \* the values of hashtext
  Hash,     \* hashtext: two ids may have the same value
  MaxParties, \* most participants of a call, the caller included
  NoTxn     \* no transaction

ASSUME UsersAssumption == Users \subseteq Nat
ASSUME HashAssumption == Hash \in [Users -> Locks]
ASSUME NoTxnAssumption == NoTxn \notin Txns

VARIABLES
  pc,        \* of each transaction: its next statement, or how it ended
  parties,   \* participantIDs, the caller's among them
  checked,   \* the participants the loop is done with
  holder,    \* the transaction that holds each advisory lock
  live,      \* sessions that are committed and RINGING or ACTIVE
  open       \* of each committed session, the participants with leftAt NULL

vars == <<pc, parties, checked, holder, live, open>>

PC == {"new", "lock", "count", "insert", "committed", "failed"}

\* Mutant: the ids are not sorted.
IsNextUnsorted(t, u) == u \in parties[t] \ checked[t]

\* The loop's pid: the first participant not yet done with.
IsNext(t, u) ==
  u \in parties[t] \ checked[t] /\ \A v \in parties[t] \ checked[t] : u <= v

Busy(u) == \E s \in live : u \in open[s]

\* Mutant: locks of the database session, which the transaction's end keeps.
ReleaseNothing(t) == t \in Txns /\ UNCHANGED holder

\* The end of a transaction releases its advisory locks.
Release(t) ==
  holder' = [k \in Locks |-> IF holder[k] = t THEN NoTxn ELSE holder[k]]

Fail(t) ==
  /\ pc' = [pc EXCEPT ![t] = "failed"]
  /\ Release(t)
  /\ UNCHANGED <<parties, checked, live, open>>

-----------------------------------------------------------------------------
Begin(t, P) ==
  /\ pc[t] = "new"
  /\ pc' = [pc EXCEPT ![t] = "lock"]
  /\ parties' = [parties EXCEPT ![t] = P]
  /\ UNCHANGED <<checked, holder, live, open>>

\* Mutant: the lock is tried, and the answer ignored.
TryLock(t) ==
  \E u \in Users :
    /\ pc[t] = "lock" /\ IsNext(t, u)
    /\ holder' = [holder EXCEPT ![Hash[u]] = t]
    /\ pc' = [pc EXCEPT ![t] = "count"]
    /\ UNCHANGED <<parties, checked, live, open>>

\* pg_advisory_xact_lock(hashtext(pid)) waits for another holder only.
Lock(t) ==
  \E u \in Users :
    /\ pc[t] = "lock" /\ IsNext(t, u)
    /\ holder[Hash[u]] \in {NoTxn, t}
    /\ holder' = [holder EXCEPT ![Hash[u]] = t]
    /\ pc' = [pc EXCEPT ![t] = "count"]
    /\ UNCHANGED <<parties, checked, live, open>>

\* Mutant: a lock is given back as soon as its participant is counted.
CountUnlocking(t) ==
  \E u \in Users :
    /\ pc[t] = "count" /\ IsNext(t, u)
    /\ \/ Busy(u) /\ Fail(t)
       \/ /\ ~Busy(u)
          /\ checked' = [checked EXCEPT ![t] = @ \cup {u}]
          /\ pc' = [pc EXCEPT ![t] = IF parties[t] = checked'[t] THEN "insert" ELSE "lock"]
          /\ holder' = [holder EXCEPT ![Hash[u]] = NoTxn]
          /\ UNCHANGED <<parties, live, open>>

\* A participant who is on a call makes the transaction fail with ErrUserInCall.
Count(t) ==
  \E u \in Users :
    /\ pc[t] = "count" /\ IsNext(t, u)
    /\ \/ Busy(u) /\ Fail(t)
       \/ /\ ~Busy(u)
          /\ checked' = [checked EXCEPT ![t] = @ \cup {u}]
          /\ pc' = [pc EXCEPT ![t] = IF parties[t] = checked'[t] THEN "insert" ELSE "lock"]
          /\ UNCHANGED <<parties, holder, live, open>>

\* The INSERTs, which nobody sees before the commit, and the commit.
Commit(t) ==
  /\ pc[t] = "insert"
  /\ pc' = [pc EXCEPT ![t] = "committed"]
  /\ live' = live \cup {t}
  /\ open' = [open EXCEPT ![t] = parties[t]]
  /\ Release(t)
  /\ UNCHANGED <<parties, checked>>

\* A statement fails, the client goes away, or the server dies.
Rollback(t) ==
  pc[t] \in {"lock", "count", "insert"} /\ Fail(t)

-----------------------------------------------------------------------------
(* Transactions that wait for each other.                                  *)

WaitsFor(a, b) ==
  /\ a # b /\ pc[a] = "lock"
  /\ \E u \in Users : IsNext(a, u) /\ holder[Hash[u]] = b

\* Everybody in S waits for one of S and is waited for by one of S.
Cycle(S) ==
  /\ S # {}
  /\ \A a \in S : (\E b \in S : WaitsFor(a, b)) /\ (\E b \in S : WaitsFor(b, a))

\* After deadlock_timeout PostgreSQL makes one of them fail.
DeadlockDetected(t) ==
  /\ \E S \in SUBSET Txns : t \in S /\ Cycle(S)
  /\ Fail(t)

(* The rest of the server: participants leave, and calls end.              *)

MarkLeft(s, u) ==
  /\ s \in live /\ u \in open[s]
  /\ open' = [open EXCEPT ![s] = @ \ {u}]
  /\ UNCHANGED <<pc, parties, checked, holder, live>>

EndCall(s) ==
  /\ s \in live
  /\ live' = live \ {s}
  /\ open' = [open EXCEPT ![s] = {}]
  /\ UNCHANGED <<pc, parties, checked, holder>>

-----------------------------------------------------------------------------
Init ==
  /\ pc      = [t \in Txns |-> "new"]
  /\ parties = [t \in Txns |-> {}]
  /\ checked = [t \in Txns |-> {}]
  /\ holder  = [k \in Locks |-> NoTxn]
  /\ live    = {}
  /\ open    = [t \in Txns |-> {}]

Start(t) ==
  \E P \in SUBSET Users : P # {} /\ Cardinality(P) <= MaxParties /\ Begin(t, P)

Next ==
  \E t \in Txns :
    \/ Start(t)
    \/ Lock(t) \/ Count(t) \/ Commit(t) \/ Rollback(t) \/ DeadlockDetected(t)
    \/ \E u \in Users : MarkLeft(t, u)
    \/ EndCall(t)

Spec == Init /\ [][Next]_vars

\* A goroutine that can run its next statement runs it, and PostgreSQL finds
\* every deadlock; nobody has to hang up, and no statement has to fail.
Fairness ==
  \A t \in Txns : WF_vars(Lock(t) \/ Count(t) \/ Commit(t)) /\ WF_vars(DeadlockDetected(t))

LiveSpec == Spec /\ Fairness

-----------------------------------------------------------------------------
TypeOK ==
  /\ pc \in [Txns -> PC]
  /\ parties \in [Txns -> SUBSET Users]
  /\ checked \in [Txns -> SUBSET Users]
  /\ holder \in [Locks -> Txns \cup {NoTxn}]
  /\ live \subseteq Txns
  /\ open \in [Txns -> SUBSET Users]

Running(t) == pc[t] \in {"lock", "count", "insert"}

\* What the loop has found out about one participant still holds when it has
\* locked and counted the others, up to the INSERT: a checked participant stays
\* locked by this transaction and on no live call, whatever other transactions
\* commit meanwhile.
CheckedFree ==
  \A t \in Txns : Running(t) =>
    \A u \in checked[t] : holder[Hash[u]] = t /\ ~Busy(u)

\* The transaction does in one step, its commit, what CallLine's Ring does:
\* however the statements of several transactions and the ends of calls
\* interleave, a session is created only when all its lines are free.  This is
\* why module CallServer may run the transaction as one action.
Phase(t) == IF t \in live THEN "ringing"
            ELSE IF pc[t] = "committed" THEN "over" ELSE "free"

Line == INSTANCE CallLine WITH
  Sessions <- Txns, phase <- [t \in Txns |-> Phase(t)], line <- open

AdmissionIsRing == Line!LineSpec

\* Every attempt to start a call gets an answer, even if transactions block
\* each other: no request hangs on its advisory locks.
AdmissionSettles ==
  \A t \in Txns : pc[t] = "lock" ~> pc[t] \in {"committed", "failed"}

\* Sorting the ids prevents deadlock as long as the ids at stake have hash
\* values of their own.
DeadlockNeedsCollision ==
  \A S \in SUBSET Txns :
    Cycle(S) => \E a, b \in S : \E u \in parties[a], v \in parties[b] :
                  u # v /\ Hash[u] = Hash[v]

\* "In the same order (alphabetical) instead of A->B vs B->A.  No deadlock
\* possible", store.go says of the sorted locks.  (The code breaks this: it
\* locks hashtext(id), and a collision puts one lock in two places of the order.)
NoDeadlock == \A S \in SUBSET Txns : ~Cycle(S)
=============================================================================
