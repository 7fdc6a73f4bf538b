------------------------------ MODULE Presence ------------------------------
(***************************************************************************)
(* Who is online: handleConnection and handleDisconnect of the chat        *)
(* gateway, for the sockets of one user.  The Redis set presence:<user>    *)
(* has a time to live that the heartbeat timers of the sockets renew.  The *)
(* two handlers of one socket are not ordered: a client may be gone while  *)
(* its handshake still waits for an answer.                                *)
(***************************************************************************)
EXTENDS Integers, FiniteSets

CONSTANTS Sockets, MaxSockets   \* MAX_SOCKETS_PER_USER

ASSUME PresenceAssumption ==
    /\ IsFiniteSet(Sockets) /\ "none" \notin Sockets
    /\ MaxSockets \in Nat \ {0}

VARIABLES
    presence,   \* Redis: the set presence:<user>
    ttl,        \* Redis: the set has a time to live
    timers,     \* heartbeatTimers: the sockets with a running interval
    conn,       \* handleConnection of each socket
    disc        \* handleDisconnect of each socket

preVars == <<presence, ttl, timers, conn, disc>>

ConnStates == {"none", "checking", "identified", "added", "online", "failed"}
DiscStates == {"no", "left", "removed", "empty", "done"}

PreTypeOK ==
    /\ presence \subseteq Sockets /\ timers \subseteq Sockets
    /\ ttl \in BOOLEAN
    /\ conn \in [Sockets -> ConnStates] /\ disc \in [Sockets -> DiscStates]

PreInit ==
    /\ presence = {} /\ timers = {} /\ ttl = FALSE
    /\ conn = [s \in Sockets |-> "none"] /\ disc = [s \in Sockets |-> "no"]

-----------------------------------------------------------------------------
\* handleConnection: the token and the user are looked up, ...
Connect(s) ==
    /\ conn[s] = "none" /\ disc[s] = "no"
    /\ conn' = [conn EXCEPT ![s] = "checking"]
    /\ UNCHANGED <<presence, ttl, timers, disc>>

\* ... client.data.userId is set and the script is sent, ...
Identify(s) ==
    /\ conn[s] = "checking"
    /\ conn' = [conn EXCEPT ![s] = "identified"]
    /\ UNCHANGED <<presence, ttl, timers, disc>>

\* Mutant: the set gets no time to live.
AddSocketForever(s) ==
    LET members == presence \cup {s}
        excess == Cardinality(members) - MaxSockets
        Fronts == {F \in SUBSET members :
                      Cardinality(F) = IF excess > 0 THEN excess ELSE 0}
    IN
    /\ conn[s] = "identified"
    /\ conn' = [conn EXCEPT ![s] = "added"]
    /\ UNCHANGED ttl
    /\ \E F \in Fronts : presence' = members \ (F \ {s})
    /\ UNCHANGED <<timers, disc>>

\* ... the script adds the socket, renews the time to live and evicts from the
\* front of the member list (in whatever order Redis keeps it) as many as are
\* too many, except the new one when it is among them, ...
AddSocket(s) ==
    LET members == presence \cup {s}
        excess == Cardinality(members) - MaxSockets
        Fronts == {F \in SUBSET members :
                      Cardinality(F) = IF excess > 0 THEN excess ELSE 0}
    IN
    /\ conn[s] = "identified"
    /\ conn' = [conn EXCEPT ![s] = "added"]
    /\ ttl' = TRUE
    /\ \E F \in Fronts : presence' = members \ (F \ {s})
    /\ UNCHANGED <<timers, disc>>

\* ... and the heartbeat starts.
StartHeartbeat(s) ==
    /\ conn[s] = "added"
    /\ conn' = [conn EXCEPT ![s] = "online"]
    /\ timers' = timers \cup {s}
    /\ UNCHANGED <<presence, ttl, disc>>

\* The token or the user is refused, or a call fails: the gateway disconnects
\* the socket itself, and handleDisconnect runs unless it already has.
ConnectFails(s) ==
    /\ conn[s] \in {"checking", "identified", "added"}
    /\ conn' = [conn EXCEPT ![s] = "failed"]
    /\ disc' = [disc EXCEPT ![s] = IF disc[s] # "no" THEN disc[s]
                                  ELSE IF conn[s] = "checking" THEN "done" ELSE "left"]
    /\ UNCHANGED <<presence, ttl, timers>>

Continue(s) == Identify(s) \/ AddSocket(s) \/ StartHeartbeat(s) \/ ConnectFails(s)

\* A running heartbeat renews the time to live of a set that exists.
Heartbeat ==
    /\ timers # {} /\ presence # {} /\ ~ttl
    /\ ttl' = TRUE
    /\ UNCHANGED <<presence, timers, conn, disc>>

-----------------------------------------------------------------------------
\* handleDisconnect, up to its first await: the timer stops if there is one,
\* and a socket whose user is not known yet is left alone.
Disconnect(s) ==
    /\ conn[s] \notin {"none", "failed"} /\ disc[s] = "no"
    /\ timers' = timers \ {s}
    /\ disc' = [disc EXCEPT ![s] = IF conn[s] = "checking" THEN "done" ELSE "left"]
    /\ UNCHANGED <<presence, ttl, conn>>

RemoveSocket(s) ==
    /\ disc[s] = "left"
    /\ presence' = presence \ {s}
    /\ ttl' = (ttl /\ presence' # {})
    /\ disc' = [disc EXCEPT ![s] = "removed"]
    /\ UNCHANGED <<timers, conn>>

CountSockets(s) ==
    /\ disc[s] = "removed"
    /\ disc' = [disc EXCEPT ![s] = IF presence = {} THEN "empty" ELSE "done"]
    /\ UNCHANGED <<presence, ttl, timers, conn>>

\* The set that was empty is deleted, with the sockets that came since.
DeletePresence(s) ==
    /\ disc[s] = "empty"
    /\ presence' = {} /\ ttl' = FALSE
    /\ disc' = [disc EXCEPT ![s] = "done"]
    /\ UNCHANGED <<timers, conn>>

Leave(s) == RemoveSocket(s) \/ CountSockets(s) \/ DeletePresence(s)

\* The instance of a socket dies: its timer and its handlers are gone, the
\* members of the set stay.
GatewayCrash(s) ==
    /\ conn[s] # "none"
    /\ ~(conn[s] = "online" /\ disc[s] = "done" /\ s \notin timers)
    /\ timers' = timers \ {s}
    /\ conn' = [conn EXCEPT ![s] = "online"]
    /\ disc' = [disc EXCEPT ![s] = "done"]
    /\ UNCHANGED <<presence, ttl>>

\* Nothing has renewed the set for five minutes.
Expire ==
    /\ presence # {} /\ ttl /\ timers = {}
    /\ \A s \in Sockets : conn[s] # "added"
    /\ presence' = {} /\ ttl' = FALSE
    /\ UNCHANGED <<timers, conn, disc>>

PreNext ==
    \/ \E s \in Sockets :
          Connect(s) \/ Continue(s) \/ Disconnect(s) \/ Leave(s) \/ GatewayCrash(s)
    \/ Heartbeat \/ Expire

PreFairness ==
    /\ \A s \in Sockets : WF_preVars(Continue(s)) /\ WF_preVars(Leave(s))
    /\ WF_preVars(Heartbeat) /\ WF_preVars(Expire)

PreSpec == PreInit /\ [][PreNext]_preVars
FairPreSpec == PreSpec /\ PreFairness

-----------------------------------------------------------------------------
\* "auto-cleanup stale connections" (PRESENCE_TTL): when every socket has left
\* and no heartbeat runs, the user does not stay online, though a crash or a
\* client that leaves during its handshake leaves its socket in the set.
GhostsExpire ==
    <>[](timers = {} /\ \A s \in Sockets : conn[s] # "none" => disc[s] = "done")
        => <>[](presence = {})

\* "max 3 sockets per user": the script "trims oldest if over limit", the gateway
\* and its test say.  (The code breaks this: the script takes as many members from
\* the front of the list as are too many, spares the new socket when it is one of
\* them, and evicts no other in its place.)
PresenceWithinLimit == Cardinality(presence) <= MaxSockets

\* "Start heartbeat to keep presence alive while connected", the gateway says, and
\* it deletes the set when the "user [is] fully offline": a socket that came
\* online and has not left is present, while there are no more than the limit.
\* (The code breaks this: the set is deleted with a socket that came after the
\* count, and a heartbeat does not add it again.)
ConnectedIsPresent ==
    Cardinality(Sockets) <= MaxSockets =>
        \A s \in Sockets : conn[s] = "online" /\ disc[s] = "no" => s \in presence

\* "auto-cleanup stale connections", the gateway says of the time to live: when
\* every socket has left for good, the user does not stay online.  (The code
\* breaks this: a handshake whose client has left goes on and starts a heartbeat
\* that nobody will ever stop.)
StaleIsCleanedUp ==
    <>[](\A s \in Sockets : conn[s] # "none" => disc[s] = "done") => <>[](presence = {})
=============================================================================
