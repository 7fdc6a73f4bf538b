---------------------------- MODULE MCCallGroup -----------------------------
(***************************************************************************)
(* CallServer for two questions at once, told apart by "part": a group of  *)
(* three on one session with two concurrent goroutines, and two sessions   *)
(* that compete for the same two users, with one request at a time and the *)
(* ringing cleanup beside it.                                              *)
(***************************************************************************)
EXTENDS MCCallServer

VARIABLE part

\* In a group no cleanup runs: what is violated there is violated by the
\* handlers alone.
GroupNext ==
  /\ UNCHANGED part
  /\ \/ \E p \in Procs : ClientCall(p) \/ Handler(p) \/ Webhook(p)
     \/ part = "two sessions" /\ Cleanup
     \/ LiveKitStep

GroupSpec ==
  Init /\ part \in {"group", "two sessions"} /\ [][GroupNext]_<<vars, part>>

Used == {s \in Sessions : status[s] # "NONE"}
Parties == UNION {members[s] \cup ({caller[s]} \ {None}) : s \in Sessions}

\* BOUND of each part.  In a group LiveKit reports who joins, so that a call of
\* three becomes active and people leave it, and nothing else: the events that end
\* a call from LiveKit's side are those of call_pair.
GroupBound ==
  /\ part = "group" =>
       /\ Cardinality(Used) <= 1
       /\ \A e \in processed : e.kind = "participant_joined"
  /\ part = "two sessions" =>
       /\ Cardinality({p \in Procs : req[p].pc # "idle"}) <= 1
       /\ \A p \in Procs : req[p].pc \notin {"token_material", "delete_rows"}
       /\ Cardinality(Parties) <= 2
=============================================================================
