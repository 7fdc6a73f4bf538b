------------------------------- MODULE Follows ------------------------------
(***************************************************************************)
(* The follow graph, its denormalised counters and their reconciliation:   *)
(* FollowsService, BlocksService and reconcileUserFollowCounts.  A request *)
(* checks what it needs and commits later; a commit is one transaction,    *)
(* with the unique keys of the tables as its only protection against what  *)
(* changed in between.                                                     *)
(***************************************************************************)
EXTENDS Integers, FiniteSets

CONSTANTS Users, Private,   \* accounts, and those that approve followers
          Workers,          \* concurrent requests
          MaxRequests       \* bound: requests ever made

ASSUME FollowsAssumption ==
    IsFiniteSet(Users) /\ Private \subseteq Users /\ MaxRequests \in Nat

Pairs == {p \in Users \X Users : p[1] # p[2]}
Rev(p) == <<p[2], p[1]>>
NoRow == "none"
Free == [op |-> "free"]
NoCron == [pc |-> "idle", found |-> {}]

VARIABLES
    follows,    \* table follow
    requests,   \* table followRequest: the status of each pair's row
    blocks,     \* table block
    followers,  \* users.followersCount
    following,  \* users.followingCount
    task,       \* requests between their checks and their commit
    requested,  \* requests so far
    cron,       \* reconcileUserFollowCounts between its select and its update
    overlap     \* history: a commit fell between a read of counts and its use

folVars == <<follows, requests, blocks, followers, following, task, requested,
             cron, overlap>>

RowStatus == {"PENDING", "ACCEPTED", "DECLINED"}
Ops == {"follow", "request", "unfollow", "withdraw", "accept", "decline", "cancel",
        "block", "unblock"}

FolTypeOK ==
    /\ follows \subseteq Pairs /\ blocks \subseteq Pairs
    /\ requests \in [Pairs -> RowStatus \cup {NoRow}]
    /\ followers \in [Users -> Nat] /\ following \in [Users -> Nat]
    /\ task \in [Workers -> {Free} \cup
                   [op : Ops, pair : Pairs, seen : SUBSET Pairs]]
    /\ requested \in Nat /\ overlap \in BOOLEAN
    /\ cron.pc \in {"idle", "followers", "between", "following"}
    /\ cron.found \subseteq Users \X Nat

FolInit ==
    /\ follows = {} /\ blocks = {}
    /\ requests = [p \in Pairs |-> NoRow]
    /\ followers = [u \in Users |-> 0] /\ following = [u \in Users |-> 0]
    /\ task = [w \in Workers |-> Free] /\ requested = 0
    /\ cron = NoCron /\ overlap = FALSE

-----------------------------------------------------------------------------
(***************************************************************************)
(* The checks of each request, on what it reads before it writes.          *)
(***************************************************************************)
BlockedPair(p) == p \in blocks \/ Rev(p) \in blocks

\* follow: a public account is followed, a private one asked.  A row that is
\* ACCEPTED stops neither branch, though the create then meets its unique key.
FollowChecks(p, op) ==
    /\ ~BlockedPair(p) /\ p \notin follows
    /\ IF p[2] \in Private
       THEN op = "request" /\ requests[p] \notin {"PENDING", "DECLINED"}
       ELSE op = "follow"

\* unfollow and removeFollower write the same rows; an unfollow that finds no
\* follow goes on to delete a request that is pending.
UnfollowChecks(p, op) == op = IF p \in follows THEN "unfollow" ELSE "withdraw"

\* acceptRequest; when the two have blocked each other it declines instead, as
\* declineRequest does, which asks for no status at all.
AcceptChecks(p, op) == op = "accept" /\ requests[p] = "PENDING" /\ ~BlockedPair(p)
AnswerChecks(p, op) == op \in {"decline", "cancel"} /\ requests[p] # NoRow
BlockChecks(p, op) == op = "block" /\ p \notin blocks
UnblockChecks(p, op) == op = "unblock" /\ p \in blocks

\* A request passes its checks; that of block has also read, in its
\* transaction, which follows of the two it is about to delete.
Begin(w, p, op) ==
    /\ task[w] = Free /\ requested < MaxRequests
    /\ \/ FollowChecks(p, op) \/ UnfollowChecks(p, op) \/ AcceptChecks(p, op)
       \/ AnswerChecks(p, op) \/ BlockChecks(p, op) \/ UnblockChecks(p, op)
    /\ task' = [task EXCEPT ![w] = [op |-> op, pair |-> p,
                    seen |-> IF op = "block" THEN follows \cap {p, Rev(p)} ELSE {}]]
    /\ requested' = requested + 1
    /\ UNCHANGED <<follows, requests, blocks, followers, following, cron, overlap>>

-----------------------------------------------------------------------------
(***************************************************************************)
(* The commits.                                                            *)
(***************************************************************************)
Less(n, d) == IF n > d THEN n - d ELSE 0      \* GREATEST(count - 1, 0)

Gained(gone, u, i) == Cardinality({p \in gone : p[i] = u})

\* The counters after the follows in "gone" were deleted and counted down.
CountDown(gone) ==
    /\ following' = [u \in Users |-> Less(following[u], Gained(gone, u, 1))]
    /\ followers' = [u \in Users |-> Less(followers[u], Gained(gone, u, 2))]

CountUp(p) ==
    /\ following' = [following EXCEPT ![p[1]] = @ + 1]
    /\ followers' = [followers EXCEPT ![p[2]] = @ + 1]

\* A commit that changes the follows while somebody holds what it read of them.
Overlaps(w) ==
    \/ cron.pc \in {"followers", "following"}
    \/ \E v \in Workers \ {w} : task[v].op = "block"

Done(w) ==
    /\ task' = [task EXCEPT ![w] = Free]
    /\ UNCHANGED <<requested, cron>>

Changed(w) == Done(w) /\ overlap' = (overlap \/ Overlaps(w))
Unchanged(w) == Done(w) /\ UNCHANGED overlap

At(w, op) == task[w].op = op

\* Mutant: the row is upserted and the counters go up each time.
CommitFollowUpsert(w) ==
    LET p == task[w].pair IN
    /\ At(w, "follow")
    /\ follows' = follows \cup {p}
    /\ CountUp(p) /\ Changed(w)
    /\ UNCHANGED <<requests, blocks>>

\* follow.create and both counters; the unique key turns a second follow away.
CommitFollow(w) ==
    LET p == task[w].pair IN
    /\ At(w, "follow")
    /\ IF p \in follows
       THEN UNCHANGED <<follows, followers, following>> /\ Unchanged(w)
       ELSE /\ follows' = follows \cup {p}
            /\ CountUp(p) /\ Changed(w)
    /\ UNCHANGED <<requests, blocks>>

\* followRequest.create: a row that is there, whatever its status, is returned.
CommitRequest(w) ==
    LET p == task[w].pair IN
    /\ At(w, "request")
    /\ requests' = IF requests[p] = NoRow
                   THEN [requests EXCEPT ![p] = "PENDING"] ELSE requests
    /\ Unchanged(w)
    /\ UNCHANGED <<follows, blocks, followers, following>>

\* follow.delete fails, and the transaction with it, when the row is gone.
CommitUnfollow(w) ==
    LET p == task[w].pair IN
    /\ At(w, "unfollow")
    /\ IF p \notin follows
       THEN UNCHANGED <<follows, followers, following>> /\ Unchanged(w)
       ELSE /\ follows' = follows \ {p}
            /\ CountDown({p}) /\ Changed(w)
    /\ UNCHANGED <<requests, blocks>>

\* acceptRequest: the row, the follow and the counters, all or nothing.
CommitAccept(w) ==
    LET p == task[w].pair IN
    /\ At(w, "accept")
    /\ IF requests[p] = NoRow \/ p \in follows
       THEN UNCHANGED <<follows, requests, followers, following>> /\ Unchanged(w)
       ELSE /\ requests' = [requests EXCEPT ![p] = "ACCEPTED"]
            /\ follows' = follows \cup {p}
            /\ CountUp(p) /\ Changed(w)
    /\ UNCHANGED blocks

\* declineRequest overwrites whatever status the row has, cancelRequest deletes
\* it, and unfollow deletes it while it is pending.
CommitAnswer(w) ==
    LET p == task[w].pair IN
    /\ \/ /\ At(w, "decline")
          /\ requests' = IF requests[p] = NoRow THEN requests
                         ELSE [requests EXCEPT ![p] = "DECLINED"]
       \/ /\ At(w, "cancel")
          /\ requests' = [requests EXCEPT ![p] = NoRow]
       \/ /\ At(w, "withdraw")
          /\ requests' = IF requests[p] = "PENDING"
                         THEN [requests EXCEPT ![p] = NoRow] ELSE requests
    /\ Unchanged(w)
    /\ UNCHANGED <<follows, blocks, followers, following>>

\* block: the rows are deleted as they are now, the counters go down for the
\* follows the transaction had read.
CommitBlock(w) ==
    LET p == task[w].pair
        gone == {p, Rev(p)}
    IN
    /\ At(w, "block")
    /\ IF p \in blocks
       THEN UNCHANGED <<follows, requests, blocks, followers, following>> /\ Unchanged(w)
       ELSE /\ blocks' = blocks \cup {p}
            /\ follows' = follows \ gone
            /\ requests' = [r \in Pairs |-> IF r \in gone THEN NoRow ELSE requests[r]]
            /\ CountDown(task[w].seen) /\ Changed(w)

CommitUnblock(w) ==
    /\ At(w, "unblock")
    /\ blocks' = blocks \ {task[w].pair}
    /\ Unchanged(w)
    /\ UNCHANGED <<follows, requests, followers, following>>

Commit(w) ==
    \/ CommitFollow(w) \/ CommitRequest(w) \/ CommitUnfollow(w) \/ CommitAccept(w)
    \/ CommitAnswer(w) \/ CommitBlock(w) \/ CommitUnblock(w)

-----------------------------------------------------------------------------
(***************************************************************************)
(* reconcileUserFollowCounts: for each counter, a SELECT of the users who  *)
(* drifted and their true counts, then an UPDATE that writes those counts. *)
(* A night on which no followersCount has drifted ends with its SELECT.    *)
(***************************************************************************)
FollowerCount(u) == Cardinality({p \in follows : p[2] = u})
FollowingCount(u) == Cardinality({p \in follows : p[1] = u})
FollowersDrifted == {u \in Users : followers[u] # FollowerCount(u)}
FollowingDrifted == {u \in Users : following[u] # FollowingCount(u)}

SelectFollowers ==
    /\ cron.pc = "idle" /\ FollowersDrifted # {}
    /\ cron' = [pc |-> "followers",
                found |-> {<<u, FollowerCount(u)>> : u \in FollowersDrifted}]
    /\ UNCHANGED <<follows, requests, blocks, followers, following, task,
                   requested, overlap>>

Overwrite(count) ==
    [u \in Users |-> IF \E x \in cron.found : x[1] = u
                     THEN (CHOOSE x \in cron.found : x[1] = u)[2] ELSE count[u]]

\* Mutant: the counts are not written.
UpdateFollowersIdle ==
    /\ cron.pc = "followers"
    /\ UNCHANGED followers
    /\ cron' = [pc |-> "between", found |-> {}]
    /\ UNCHANGED <<follows, requests, blocks, following, task, requested, overlap>>

UpdateFollowers ==
    /\ cron.pc = "followers"
    /\ followers' = Overwrite(followers)
    /\ cron' = [pc |-> "between", found |-> {}]
    /\ UNCHANGED <<follows, requests, blocks, following, task, requested, overlap>>

SelectFollowing ==
    /\ cron.pc = "between"
    /\ cron' = [pc |-> "following",
                found |-> {<<u, FollowingCount(u)>> : u \in FollowingDrifted}]
    /\ UNCHANGED <<follows, requests, blocks, followers, following, task,
                   requested, overlap>>

UpdateFollowing ==
    /\ cron.pc = "following"
    /\ following' = Overwrite(following)
    /\ cron' = NoCron
    /\ UNCHANGED <<follows, requests, blocks, followers, task, requested, overlap>>

Cron == SelectFollowers \/ UpdateFollowers \/ SelectFollowing \/ UpdateFollowing

FolNext ==
    \/ \E w \in Workers, p \in Pairs, op \in Ops : Begin(w, p, op)
    \/ \E w \in Workers : Commit(w)
    \/ Cron

\* The job runs every night, and a request that started ends.
CommitFairness == \A w \in Workers : WF_folVars(Commit(w))
FolFairness == WF_folVars(Cron) /\ CommitFairness

FolSpec == FolInit /\ [][FolNext]_folVars
FairFolSpec == FolSpec /\ FolFairness

-----------------------------------------------------------------------------
CountsExact ==
    \A u \in Users : followers[u] = FollowerCount(u) /\ following[u] = FollowingCount(u)

\* The counters are exact, however follows, unfollows, accepts and removals
\* interleave between their checks and their transactions, until a commit
\* falls between the read and the write of a block or of the reconciliation.
DriftNeedsOverlap == ~overlap => CountsExact

\* A followersCount that drifted is repaired in the end, though the job may write
\* counts that are stale by then.
FollowersRepaired == <>[](FollowersDrifted = {})

\* So is a followingCount: the counters "must be exact" (header of
\* reconcileUserFollowCounts).
FollowingRepaired == <>[](FollowingDrifted = {})
=============================================================================
