-------------------------- MODULE CallServerProofs --------------------------
(***************************************************************************)
(* Theorems about CallServer, for every set of users, sessions and         *)
(* handlers and every combination of failures.                             *)
(*                                                                         *)
(* Every action changes the database by one of a few statements.  The      *)
(* proof first shows, action by action, which (DbStep) and what becomes of *)
(* the requests; the invariants of the rows are then proved once per       *)
(* statement.                                                              *)
(***************************************************************************)
EXTENDS CallServer, FiniteSetTheorems, TLAPS

\* What a handler's snapshot still says of the rows when it is used: startedAt
\* is never cleared, livekitJoinedAt never shrinks, and nobody comes back to the
\* open rows of a session that exists.
SnapshotOK(r) ==
  /\ r.pc # "idle" => r.s \in Sessions
  /\ r.pc \in {"create_token", "create_room", "token_material"} => r.u \in Users
  /\ r.started => r.s \in Sessions /\ startedAt[r.s]
  /\ r.pc = "finished_duration" => r.started
  /\ r.pc = "joined_activate" => AtLeastTwo(livekitJoinedAt[r.s])
  /\ r.pc \in {"delete_rows", "delete_room", "delete_end", "leave_rows",
               "leave_mark", "leave_remove", "leave_settle"} => status[r.s] # "NONE"
  /\ r.pc \in {"delete_room", "delete_end"} =>
       /\ Present(r.s) \subseteq r.here
       /\ r.u = caller[r.s] \/ Cardinality(r.here) <= 2
  /\ r.pc \in {"leave_mark", "leave_remove", "leave_settle"} =>
       Present(r.s) \subseteq r.here
  /\ r.pc \in {"leave_remove", "leave_settle"} => r.u \notin Present(r.s)

SnapshotInv == \A p \in Procs : SnapshotOK(req[p])

\* The ringing cleanup only ever reads ids of sessions that exist.
StaleInv == \A s \in stale : status[s] # "NONE"

\* What the columns of one session say together.
RowInv(s) ==
  /\ status[s] = "NONE" =>
       members[s] = {} /\ leftAt[s] = {} /\ ~startedAt[s] /\ ~e2eeKey[s]
  /\ Live(s) => e2eeKey[s]
  /\ startedAt[s] => status[s] # "RINGING" /\ AtLeastTwo(livekitJoinedAt[s])
  /\ status[s] = "ACTIVE" => startedAt[s]
  /\ Over(s) /\ ~startedAt[s] => ~e2eeKey[s]
  /\ status[s] # "NONE" /\ ~e2eeKey[s] => Over(s) /\ Present(s) = {}

RowsInv == \A s \in Sessions : RowInv(s)

IInv == TypeOK /\ SnapshotInv /\ StaleInv /\ RowsInv /\ ExclusiveCall

-----------------------------------------------------------------------------
(* What a step may do. *)

\* The statements an action may run on the database, with what the handler
\* knows when it runs them.
RowStep ==
  \/ UNCHANGED db
  \/ \E s \in Sessions, u \in Users, parties \in SUBSET Users, type \in CallType :
       u \in parties /\ CreateCallSession(s, u, parties, type)
  \/ \E s \in Sessions, new \in OverStatus : EndCallSession(s, new)
  \/ \E s \in Sessions : startedAt[s] /\ UpdateSessionDuration(s)
  \/ \E s \in Sessions : AtLeastTwo(livekitJoinedAt[s]) /\ Activate(s)
  \/ \E s \in Sessions, u \in Users : u \in Present(s) /\ MarkParticipantLeft(s, u)
  \/ \E s \in Sessions, u \in Users \cup {None} : MarkParticipantLivekitJoined(s, u)
  \/ MarkStaleMissed(stale)

\* The request of handler p is replaced by one whose snapshot is sound, before
\* the step or because of it.
RequestStep(p) ==
  \E r \in Request :
    req' = [req EXCEPT ![p] = r] /\ (SnapshotOK(r) \/ SnapshotOK(r)')

EnvTypeOK ==
  /\ processed \subseteq Event
  /\ missedPush \in [Sessions -> SUBSET Users]
  /\ LivekitTypeOK

HandlerEffect(p) == RowStep /\ RequestStep(p) /\ stale' = stale /\ EnvTypeOK'

LEMMA IdleSound == Idle \in Request /\ SnapshotOK(Idle)
BY DEF Idle, Request, SnapshotOK, PC, Status

\* Moving on to another statement keeps what the request says.
LEMMA GotoSound ==
  ASSUME TypeOK, SnapshotInv, NEW p \in Procs, NEW pc \in PC \ {"idle"},
         req[p].pc # "idle", Goto(p, pc),
         pc \in {"create_token", "create_room", "token_material"} => req[p].u \in Users,
         pc = "finished_duration" => req[p].started,
         pc = "joined_activate" => AtLeastTwo(livekitJoinedAt[req[p].s]),
         pc \notin {"delete_rows", "delete_room", "leave_rows", "leave_mark",
                   "leave_remove"},
         pc = "delete_end" => req[p].pc = "delete_room",
         pc = "leave_settle" => req[p].pc = "leave_remove"
  PROVE  RequestStep(p)
<1> DEFINE r == [req[p] EXCEPT !.pc = pc]
<1>1. r \in Request
  BY DEF TypeOK, Request
<1>2. SnapshotOK(r)
  BY DEF SnapshotOK, SnapshotInv, TypeOK, Request
<1>3. req' = [req EXCEPT ![p] = r]
  BY DEF Goto, TypeOK
<1> QED BY <1>1, <1>2, <1>3 DEF RequestStep

LEMMA DoneSound ==
  ASSUME NEW p \in Procs, Done(p)
  PROVE  RequestStep(p)
BY IdleSound DEF Done, RequestStep

LEMMA BeginSound ==
  ASSUME NEW p \in Procs, NEW s \in Sessions, NEW u \in Users \cup {None},
         NEW pc \in {"create_room", "finished_read", "joined_mark", "left_read"},
         pc = "create_room" => u \in Users,
         Begin(p, pc, s, u)
  PROVE  RequestStep(p)
<1> DEFINE r == [Idle EXCEPT !.pc = pc, !.s = s, !.u = u]
<1>1. r \in Request
  BY DEF Idle, Request, PC, Status
<1>2. SnapshotOK(r)
  BY DEF SnapshotOK, Idle
<1>3. req' = [req EXCEPT ![p] = r]
  BY DEF Begin
<1> QED BY <1>1, <1>2, <1>3 DEF RequestStep

LEMMA ReadSessionSound ==
  ASSUME TypeOK, NEW p \in Procs, NEW s \in Sessions, NEW u \in Users,
         NEW target \in Users \cup {None},
         NEW pc \in {"token_material", "delete_rows", "leave_rows", "kick_rows"},
         ReadSession(p, pc, s, u, target)
  PROVE  HandlerEffect(p)
<1> DEFINE r == [Idle EXCEPT !.pc = pc, !.s = s, !.u = u, !.target = target,
                             !.status = status[s]]
<1>1. r \in Request
  BY DEF Idle, Request, PC, Status, TypeOK, DbTypeOK
<1>2. SnapshotOK(r)
  BY DEF SnapshotOK, Idle, ReadSession, Live, LiveStatus
<1>3. req' = [req EXCEPT ![p] = r] /\ UNCHANGED <<db, processed, missedPush, stale, livekit>>
  BY DEF ReadSession
<1>4. RequestStep(p)
  BY <1>1, <1>2, <1>3 DEF RequestStep
<1> QED
  BY <1>3, <1>4 DEF HandlerEffect, RowStep, EnvTypeOK, TypeOK, LivekitTypeOK, livekit

LEMMA ReadRowsSound ==
  ASSUME TypeOK, SnapshotInv, NEW p \in Procs, NEW accepted,
         NEW pc \in {"delete_room", "leave_mark", "kick_remove"},
         req[p].pc # "idle", ReadRows(p, pc, accepted),
         pc = "delete_room" =>
           /\ req[p].pc = "delete_rows"
           /\ accepted => \/ req[p].u = caller[req[p].s]
                          \/ Cardinality(Present(req[p].s)) <= 2,
         pc = "leave_mark" => req[p].pc = "leave_rows"
  PROVE  HandlerEffect(p)
<1> DEFINE r == [req[p] EXCEPT !.pc = pc, !.here = Present(req[p].s)]
<1>1. r \in Request
  <2>1. req[p] \in Request /\ req[p].s \in Sessions
    BY DEF TypeOK, SnapshotInv, SnapshotOK
  <2>2. Present(req[p].s) \in SUBSET Users
    BY <2>1 DEF Present, TypeOK, DbTypeOK
  <2> QED BY <2>1, <2>2 DEF Request, PC
<1>2. accepted => SnapshotOK(r)
  BY DEF SnapshotOK, SnapshotInv, TypeOK, Request, Present
<1>3. /\ \/ accepted /\ req' = [req EXCEPT ![p] = r]
         \/ req' = [req EXCEPT ![p] = Idle]
      /\ UNCHANGED <<db, processed, missedPush, stale, livekit>>
  BY DEF ReadRows
<1>4. RequestStep(p)
  BY <1>1, <1>2, <1>3, IdleSound DEF RequestStep
<1> QED
  BY <1>3, <1>4 DEF HandlerEffect, RowStep, EnvTypeOK, TypeOK, LivekitTypeOK, livekit

\* The LiveKit calls keep the types of LiveKit's state.
LEMMA LivekitCalls ==
  ASSUME TypeOK, NEW s \in Sessions, NEW u
  PROVE  /\ DeleteRoom(s) => LivekitTypeOK'
         /\ RemoveParticipant(s, u) => LivekitTypeOK'
         /\ UNCHANGED livekit => LivekitTypeOK'
BY DEF TypeOK, LivekitTypeOK, DeleteRoom, RemoveParticipant, livekit

LEMMA ClientCallEffect ==
  ASSUME TypeOK, NEW p \in Procs, ClientCall(p)
  PROVE  HandlerEffect(p)
<1> PICK s \in Sessions, u \in Users :
      \/ \E others \in SUBSET (Users \ {u}), type \in CallTypes :
           CreateRoom(p, s, u, others, type)
      \/ TokenRead(p, s, u)
      \/ DeleteRead(p, s, u)
      \/ LeaveRead(p, s, u)
      \/ \E target \in Users : KickRead(p, s, u, target)
  BY DEF ClientCall
<1>1. CASE \E others \in SUBSET (Users \ {u}), type \in CallTypes :
             CreateRoom(p, s, u, others, type)
  <2> PICK others \in SUBSET (Users \ {u}), type \in CallTypes :
        CreateRoom(p, s, u, others, type)
    BY <1>1
  <2>1. RequestStep(p)
    BY BeginSound DEF CreateRoom
  <2>2. RowStep
    BY CallTypesAssumption DEF CreateRoom, RowStep
  <2> QED
    BY <2>1, <2>2 DEF CreateRoom, HandlerEffect, EnvTypeOK, TypeOK, LivekitTypeOK, livekit
<1>2. CASE TokenRead(p, s, u)
  BY <1>2, ReadSessionSound DEF TokenRead
<1>3. CASE DeleteRead(p, s, u)
  BY <1>3, ReadSessionSound DEF DeleteRead
<1>4. CASE LeaveRead(p, s, u)
  BY <1>4, ReadSessionSound DEF LeaveRead
<1>5. CASE \E target \in Users : KickRead(p, s, u, target)
  BY <1>5, ReadSessionSound DEF KickRead
<1> QED BY <1>1, <1>2, <1>3, <1>4, <1>5

LEMMA WebhookEffect ==
  ASSUME TypeOK, NEW p \in Procs, Webhook(p)
  PROVE  HandlerEffect(p)
<1> PICK e \in Sent : Receive(p, e)
  BY DEF Webhook
<1>1. e \in Event
  BY DEF Sent
<1>2. e.s \in Sessions /\ e.u \in Users \cup {None}
      /\ e.kind \in {"participant_joined", "participant_left", "room_finished"}
  BY <1>1 DEF Event
<1>3. RequestStep(p)
  BY <1>2, BeginSound DEF Receive
<1>4. processed' \subseteq Event
  BY <1>1 DEF Receive, TypeOK
<1> QED
  BY <1>3, <1>4 DEF Receive, HandlerEffect, RowStep, EnvTypeOK, TypeOK, LivekitTypeOK, livekit

\* A handler under way has a session, and at most three kinds of step.
LEMMA HandlerSession ==
  ASSUME TypeOK, SnapshotInv, NEW p \in Procs, req[p].pc # "idle"
  PROVE  req[p].s \in Sessions /\ req[p].u \in Users \cup {None}
BY DEF TypeOK, SnapshotInv, SnapshotOK, Request

LEMMA CreateAndTokenEffect ==
  ASSUME TypeOK, SnapshotInv, NEW p \in Procs,
         \/ CreateRoomOk(p) \/ CreateRoomFail(p) \/ CreateRoomReply(p)
         \/ TokenMaterial(p)
  PROVE  HandlerEffect(p)
<1>1. req[p].pc # "idle" /\ req[p].s \in Sessions /\ req[p].u \in Users
  BY DEF CreateRoomOk, CreateRoomFail, CreateRoomReply, TokenMaterial, At,
         TypeOK, SnapshotInv, SnapshotOK
<1>2. CASE CreateRoomOk(p)
  <2>1. RequestStep(p)
    BY <1>1, <1>2, GotoSound DEF CreateRoomOk, PC
  <2> QED
    BY <1>1, <1>2, <2>1 DEF CreateRoomOk, OpenRoom, HandlerEffect, RowStep, EnvTypeOK, TypeOK, LivekitTypeOK
<1>3. CASE CreateRoomFail(p)
  <2>1. RequestStep(p)
    BY <1>3, DoneSound DEF CreateRoomFail
  <2>2. RowStep
    BY <1>1, <1>3 DEF CreateRoomFail, OverStatus, RowStep
  <2>3. EnvTypeOK' /\ stale' = stale
    BY <1>1, <1>3 DEF CreateRoomFail, OpenRoom, EnvTypeOK, TypeOK, LivekitTypeOK, livekit
  <2> QED BY <2>1, <2>2, <2>3 DEF HandlerEffect
<1>4. CASE CreateRoomReply(p)
  BY <1>1, <1>4, DoneSound DEF CreateRoomReply, HandlerEffect, RowStep, EnvTypeOK, TypeOK, LivekitTypeOK
<1>5. CASE TokenMaterial(p)
  BY <1>1, <1>5, DoneSound DEF TokenMaterial, HandlerEffect, RowStep, EnvTypeOK, TypeOK, LivekitTypeOK
<1> QED BY <1>2, <1>3, <1>4, <1>5

LEMMA DeleteEffect ==
  ASSUME TypeOK, SnapshotInv, NEW p \in Procs,
         DeleteRows(p) \/ DeleteLivekitRoom(p) \/ DeleteEnd(p)
  PROVE  HandlerEffect(p)
<1>1. req[p].pc # "idle" /\ req[p].s \in Sessions
  BY HandlerSession DEF DeleteRows, DeleteLivekitRoom, DeleteEnd, At
<1>2. CASE DeleteRows(p)
  BY <1>1, <1>2, ReadRowsSound DEF DeleteRows, At
<1>3. CASE DeleteLivekitRoom(p)
  <2>1. RequestStep(p)
    BY <1>1, <1>3, GotoSound DEF DeleteLivekitRoom, At, PC
  <2>2. LivekitTypeOK'
    BY <1>1, <1>3, LivekitCalls DEF DeleteLivekitRoom
  <2> QED
    BY <1>3, <2>1, <2>2 DEF DeleteLivekitRoom, HandlerEffect, RowStep, EnvTypeOK, TypeOK
<1>4. CASE DeleteEnd(p)
  BY <1>1, <1>4, DoneSound DEF DeleteEnd, OverStatus, HandlerEffect, RowStep, EnvTypeOK, TypeOK, LivekitTypeOK, livekit
<1> QED BY <1>2, <1>3, <1>4

LEMMA LeaveEffect ==
  ASSUME TypeOK, SnapshotInv, NEW p \in Procs,
         \/ LeaveRows(p) \/ LeaveMark(p) \/ LeaveRemove(p)
         \/ LeaveSettle(p) \/ LeaveClose(p)
  PROVE  HandlerEffect(p)
<1>1. req[p].pc # "idle" /\ req[p].s \in Sessions
  BY HandlerSession DEF LeaveRows, LeaveMark, LeaveRemove, LeaveSettle, LeaveClose, At
<1>2. CASE LeaveRows(p)
  BY <1>1, <1>2, ReadRowsSound DEF LeaveRows, At
<1>3. CASE LeaveMark(p)
  <2>1. RequestStep(p)
    <3>1. CASE Done(p)
      BY <3>1, DoneSound
    <3>2. CASE /\ MarkParticipantLeft(req[p].s, req[p].u)
               /\ Goto(p, "leave_remove")
      <4> DEFINE r == [req[p] EXCEPT !.pc = "leave_remove"]
      <4>1. r \in Request /\ req' = [req EXCEPT ![p] = r]
        BY <3>2 DEF TypeOK, Request, PC, Goto
      <4>2. /\ req[p].s \in Sessions /\ status[req[p].s] # "NONE"
            /\ Present(req[p].s) \subseteq req[p].here
            /\ req[p].started => startedAt[req[p].s]
        BY <1>1, <1>3 DEF LeaveMark, At, SnapshotInv, SnapshotOK
      <4> PICK r2 : r2 = r
        OBVIOUS
      <4>3. SnapshotOK(r2)'
        BY <3>2, <4>2 DEF SnapshotOK, MarkParticipantLeft, Present, sessionVars,
                          TypeOK, DbTypeOK, Request
      <4> QED BY <4>1, <4>3 DEF RequestStep
    <3> QED BY <1>3, <3>1, <3>2 DEF LeaveMark
  <2>2. RowStep
    BY <1>1, <1>3 DEF LeaveMark, RowStep, Present, TypeOK, DbTypeOK
  <2> QED
    BY <1>3, <2>1, <2>2 DEF LeaveMark, HandlerEffect, RowStep, EnvTypeOK, TypeOK, LivekitTypeOK, livekit
<1>4. CASE LeaveRemove(p)
  <2>1. RequestStep(p)
    BY <1>1, <1>4, GotoSound DEF LeaveRemove, At, PC
  <2>2. LivekitTypeOK'
    BY <1>1, <1>4, LivekitCalls DEF LeaveRemove
  <2> QED
    BY <1>4, <2>1, <2>2 DEF LeaveRemove, HandlerEffect, RowStep, EnvTypeOK, TypeOK
<1>5. CASE LeaveSettle(p)
  <2>1. RequestStep(p)
    BY <1>1, <1>5, GotoSound, DoneSound DEF LeaveSettle, PC
  <2>2. RowStep
    BY <1>1, <1>5 DEF LeaveSettle, RowStep, OverStatus
  <2> QED
    BY <1>5, <2>1, <2>2 DEF LeaveSettle, HandlerEffect, RowStep, EnvTypeOK, TypeOK, LivekitTypeOK, livekit
<1>6. CASE LeaveClose(p)
  <2>1. LivekitTypeOK'
    BY <1>1, <1>6, LivekitCalls DEF LeaveClose
  <2> QED
    BY <1>6, <2>1, DoneSound DEF LeaveClose, HandlerEffect, RowStep, EnvTypeOK, TypeOK
<1> QED BY <1>2, <1>3, <1>4, <1>5, <1>6

LEMMA KickEffect ==
  ASSUME TypeOK, SnapshotInv, NEW p \in Procs,
         KickRows(p) \/ KickRemove(p) \/ KickMark(p)
  PROVE  HandlerEffect(p)
<1>1. req[p].pc # "idle" /\ req[p].s \in Sessions
  BY HandlerSession DEF KickRows, KickRemove, KickMark, At
<1>2. CASE KickRows(p)
  BY <1>1, <1>2, ReadRowsSound DEF KickRows
<1>3. CASE KickRemove(p)
  <2>1. RequestStep(p)
    BY <1>1, <1>3, GotoSound, DoneSound DEF KickRemove, PC
  <2>2. LivekitTypeOK'
    BY <1>1, <1>3, LivekitCalls DEF KickRemove
  <2> QED
    BY <1>3, <2>1, <2>2 DEF KickRemove, HandlerEffect, RowStep, EnvTypeOK, TypeOK
<1>4. CASE KickMark(p)
  <2>1. RowStep
    BY <1>1, <1>4 DEF KickMark, RowStep, Present, TypeOK, DbTypeOK
  <2> QED
    BY <1>4, <2>1, DoneSound DEF KickMark, HandlerEffect, RowStep, EnvTypeOK, TypeOK, LivekitTypeOK, livekit
<1> QED BY <1>2, <1>3, <1>4

LEMMA FinishedEffect ==
  ASSUME TypeOK, SnapshotInv, NEW p \in Procs,
         \/ FinishedRead(p) \/ FinishedRows(p)
         \/ FinishedDuration(p) \/ FinishedEnd(p)
  PROVE  HandlerEffect(p)
<1>1. req[p].pc # "idle" /\ req[p].s \in Sessions
  BY HandlerSession DEF FinishedRead, FinishedRows, FinishedDuration, FinishedEnd, At
<1>2. CASE FinishedRead(p)
  <2> DEFINE r == [req[p] EXCEPT !.pc = "finished_rows", !.status = status[req[p].s],
                                 !.started = startedAt[req[p].s]]
  <2>1. r \in Request
    <3>1. req[p] \in Request /\ status[req[p].s] \in Status
      BY <1>1 DEF TypeOK, DbTypeOK
    <3>2. startedAt[req[p].s] \in BOOLEAN
      BY <1>1, Zenon DEF TypeOK, DbTypeOK
    <3>3. "finished_rows" \in PC
      BY DEF PC
    <3> QED BY <3>1, <3>2, <3>3, Zenon DEF Request
  <2>2. SnapshotOK(r)
    BY <1>1 DEF SnapshotOK, TypeOK, Request
  <2>3. req' = [req EXCEPT ![p] = r] \/ req' = [req EXCEPT ![p] = Idle]
    BY <1>2 DEF FinishedRead
  <2>4. RequestStep(p)
    BY <2>1, <2>2, <2>3, IdleSound DEF RequestStep
  <2> QED
    BY <1>2, <2>4 DEF FinishedRead, HandlerEffect, RowStep, EnvTypeOK, TypeOK, LivekitTypeOK, livekit
<1>3. CASE FinishedRows(p)
  <2>1. RequestStep(p)
    <3>1. CASE req[p].started
      <4>1. Goto(p, "finished_duration")
        BY <1>3, <3>1 DEF FinishedRows
      <4> QED BY <1>1, <3>1, <4>1, GotoSound DEF PC
    <3>2. CASE ~req[p].started
      <4>1. Goto(p, "finished_end")
        BY <1>3, <3>2 DEF FinishedRows
      <4> QED BY <1>1, <4>1, GotoSound DEF PC
    <3> QED BY <3>1, <3>2
  <2>2. Present(req[p].s) \in SUBSET Users
    BY <1>1 DEF Present, TypeOK, DbTypeOK
  <2>3. missedPush' \in [Sessions -> SUBSET Users]
    BY <1>1, <1>3, <2>2 DEF FinishedRows, TypeOK
  <2> QED
    BY <1>3, <2>1, <2>3 DEF FinishedRows, HandlerEffect, RowStep, EnvTypeOK, TypeOK, LivekitTypeOK, livekit
<1>4. CASE FinishedDuration(p)
  <2>1. RequestStep(p)
    BY <1>1, <1>4, GotoSound DEF FinishedDuration, PC
  <2>2. startedAt[req[p].s]
    BY <1>4 DEF FinishedDuration, At, SnapshotInv, SnapshotOK
  <2> QED
    BY <1>1, <1>4, <2>1, <2>2 DEF FinishedDuration, HandlerEffect, RowStep, EnvTypeOK, TypeOK, LivekitTypeOK, livekit
<1>5. CASE FinishedEnd(p)
  <2>1. RowStep
    BY <1>1, <1>5 DEF FinishedEnd, RowStep, OverStatus
  <2> QED
    BY <1>5, <2>1, DoneSound DEF FinishedEnd, HandlerEffect, EnvTypeOK, TypeOK, LivekitTypeOK, livekit
<1> QED BY <1>2, <1>3, <1>4, <1>5

LEMMA JoinedEffect ==
  ASSUME TypeOK, SnapshotInv, NEW p \in Procs,
         JoinedMark(p) \/ JoinedRead(p) \/ JoinedCount(p) \/ JoinedActivate(p)
  PROVE  HandlerEffect(p)
<1>1. /\ req[p].pc # "idle" /\ req[p].s \in Sessions
      /\ req[p].u \in Users \cup {None}
  BY HandlerSession DEF JoinedMark, JoinedRead, JoinedCount, JoinedActivate, At
<1>2. CASE JoinedMark(p)
  <2>1. RequestStep(p)
    BY <1>1, <1>2, GotoSound DEF JoinedMark, PC
  <2> QED
    BY <1>1, <1>2, <2>1 DEF JoinedMark, HandlerEffect, RowStep, EnvTypeOK, TypeOK, LivekitTypeOK, livekit
<1>3. CASE JoinedRead(p)
  <2>1. RequestStep(p)
    BY <1>1, <1>3, GotoSound, DoneSound DEF JoinedRead, PC
  <2> QED
    BY <1>3, <2>1 DEF JoinedRead, HandlerEffect, RowStep, EnvTypeOK, TypeOK, LivekitTypeOK, livekit
<1>4. CASE JoinedCount(p)
  <2>1. RequestStep(p)
    <3>1. CASE AtLeastTwo(Connected(req[p].s))
      <4>1. Goto(p, "joined_activate")
        BY <1>4, <3>1 DEF JoinedCount
      <4>2. AtLeastTwo(livekitJoinedAt[req[p].s])
        BY <3>1 DEF AtLeastTwo, Connected
      <4> QED BY <1>1, <4>1, <4>2, GotoSound DEF PC
    <3>2. CASE ~AtLeastTwo(Connected(req[p].s))
      BY <1>4, <3>2, DoneSound DEF JoinedCount
    <3> QED BY <3>1, <3>2
  <2> QED
    BY <1>4, <2>1 DEF JoinedCount, HandlerEffect, RowStep, EnvTypeOK, TypeOK, LivekitTypeOK, livekit
<1>5. CASE JoinedActivate(p)
  <2>1. AtLeastTwo(livekitJoinedAt[req[p].s])
    BY <1>5 DEF JoinedActivate, At, SnapshotInv, SnapshotOK
  <2>2. RowStep
    BY <1>1, <1>5, <2>1 DEF JoinedActivate, RowStep
  <2> QED
    BY <1>5, <2>2, DoneSound DEF JoinedActivate, HandlerEffect, EnvTypeOK, TypeOK, LivekitTypeOK, livekit
<1> QED BY <1>2, <1>3, <1>4, <1>5

LEMMA LeftEffect ==
  ASSUME TypeOK, SnapshotInv, NEW p \in Procs,
         LeftRead(p) \/ LeftMark(p) \/ LeftCount(p) \/ LeftEnd(p)
  PROVE  HandlerEffect(p)
<1>1. req[p].pc # "idle" /\ req[p].s \in Sessions
  BY HandlerSession DEF LeftRead, LeftMark, LeftCount, LeftEnd, At
<1>2. CASE LeftRead(p)
  <2>1. RequestStep(p)
    BY <1>1, <1>2, GotoSound, DoneSound DEF LeftRead, PC
  <2> QED
    BY <1>2, <2>1 DEF LeftRead, HandlerEffect, RowStep, EnvTypeOK, TypeOK, LivekitTypeOK, livekit
<1>3. CASE LeftMark(p)
  <2>1. RequestStep(p)
    BY <1>1, <1>3, GotoSound DEF LeftMark, PC
  <2>2. RowStep
    BY <1>1, <1>3 DEF LeftMark, RowStep, Present, TypeOK, DbTypeOK
  <2> QED
    BY <1>3, <2>1, <2>2 DEF LeftMark, HandlerEffect, EnvTypeOK, TypeOK, LivekitTypeOK, livekit
<1>4. CASE LeftCount(p)
  <2>1. RequestStep(p)
    BY <1>1, <1>4, GotoSound, DoneSound DEF LeftCount, PC
  <2> QED
    BY <1>4, <2>1 DEF LeftCount, HandlerEffect, RowStep, EnvTypeOK, TypeOK, LivekitTypeOK, livekit
<1>5. CASE LeftEnd(p)
  <2>1. RowStep
    BY <1>1, <1>5 DEF LeftEnd, RowStep, OverStatus
  <2> QED
    BY <1>5, <2>1, DoneSound DEF LeftEnd, HandlerEffect, EnvTypeOK, TypeOK, LivekitTypeOK, livekit
<1> QED BY <1>2, <1>3, <1>4, <1>5

LEMMA CrashEffect ==
  ASSUME TypeOK, NEW p \in Procs, Crash(p)
  PROVE  HandlerEffect(p)
BY DoneSound DEF Crash, HandlerEffect, RowStep, EnvTypeOK, TypeOK, LivekitTypeOK, livekit

\* Whatever a goroutine does is a RowStep and a sound change of its request.
LEMMA GoroutineEffect ==
  ASSUME TypeOK, SnapshotInv, NEW p \in Procs,
         ClientCall(p) \/ Handler(p) \/ Webhook(p) \/ Crash(p)
  PROVE  HandlerEffect(p)
BY ClientCallEffect, WebhookEffect, CrashEffect, CreateAndTokenEffect,
   DeleteEffect, LeaveEffect, KickEffect, FinishedEffect, JoinedEffect, LeftEffect
   DEF Handler

\* LiveKit and the clients do not touch the database.
LEMMA LiveKitStepEffect ==
  ASSUME TypeOK, LiveKitStep
  PROVE  /\ UNCHANGED <<db, req, stale>>
         /\ EnvTypeOK'
<1>1. CASE \E s \in Sessions, u \in Users : Connect(s, u)
  <2> PICK s \in Sessions, u \in Users : Connect(s, u)
    BY <1>1
  <2>1. connects[s][u] + 1 \in 0 .. MaxConnects
    <3>1. connects[s][u] \in 0 .. MaxConnects /\ connects[s][u] < MaxConnects
      BY DEF Connect, TypeOK, LivekitTypeOK
    <3> QED BY <3>1, MaxConnectsAssumption
  <2>2. connects' \in [Sessions -> [Users -> 0 .. MaxConnects]]
    <3> DEFINE n == connects[s][u] + 1
               C == 0 .. MaxConnects
    <3>1. connects' = [connects EXCEPT ![s] = [connects[s] EXCEPT ![u] = n]]
      BY DEF Connect
    <3>2. n \in C /\ connects \in [Sessions -> [Users -> C]]
      BY <2>1 DEF TypeOK, LivekitTypeOK
    <3> HIDE DEF n, C
    <3>3. [connects[s] EXCEPT ![u] = n] \in [Users -> C]
      BY <3>2
    <3>4. connects' \in [Sessions -> [Users -> C]]
      BY <3>1, <3>2, <3>3
    <3> QED BY <3>4 DEF C
  <2>3. inRoom' \in [Sessions -> SUBSET Users]
    BY DEF Connect, TypeOK, LivekitTypeOK
  <2> QED BY <2>2, <2>3 DEF Connect, EnvTypeOK, TypeOK, LivekitTypeOK
<1>2. CASE \E s \in Sessions, u \in Users : Disconnect(s, u)
  BY <1>2, LivekitCalls DEF Disconnect, EnvTypeOK, TypeOK
<1>3. CASE \E s \in Sessions : RoomEmptyTimeout(s)
  BY <1>3, LivekitCalls DEF RoomEmptyTimeout, EnvTypeOK, TypeOK
<1> QED BY <1>1, <1>2, <1>3 DEF LiveKitStep

-----------------------------------------------------------------------------
(* What the statements keep. *)

DbInv == DbTypeOK /\ RowsInv /\ ExclusiveCall

\* What a stale snapshot may rely on.
Monotone ==
  \A s \in Sessions :
    /\ startedAt[s] => startedAt[s]'
    /\ livekitJoinedAt[s] \subseteq livekitJoinedAt[s]'
    /\ status[s] # "NONE" => /\ status[s]' # "NONE"
                             /\ Present(s)' \subseteq Present(s)
                             /\ caller[s]' = caller[s]

Kept == DbInv' /\ Monotone

LEMMA CreateKeeps ==
  ASSUME DbInv, NEW s \in Sessions, NEW u \in Users,
         NEW parties \in SUBSET Users, NEW type \in CallType,
         u \in parties, CreateCallSession(s, u, parties, type)
  PROVE  Kept
<1>1. DbTypeOK'
  BY DEF DbInv, DbTypeOK, CreateCallSession, Status, LiveStatus
<1>2. RowsInv'
  BY DEF DbInv, DbTypeOK, RowsInv, RowInv, CreateCallSession, Live, Over, Present,
         Status, LiveStatus, OverStatus, AtLeastTwo
<1>3. ExclusiveCall'
  BY DEF DbInv, DbTypeOK, RowsInv, RowInv, ExclusiveCall, CreateCallSession, Live,
         Present, LiveStatus
<1>4. Monotone
  BY DEF DbInv, DbTypeOK, Monotone, Present, CreateCallSession
<1> QED BY <1>1, <1>2, <1>3, <1>4 DEF DbInv, Kept

LEMMA EndKeeps ==
  ASSUME DbInv, NEW s \in Sessions, NEW new \in OverStatus, EndCallSession(s, new)
  PROVE  Kept
<1>1. DbTypeOK'
  BY DEF DbInv, DbTypeOK, EndCallSession, Status, OverStatus
<1>2. RowsInv'
  BY DEF DbInv, DbTypeOK, RowsInv, RowInv, EndCallSession, Live, Over, Present,
         Status, LiveStatus, OverStatus, AtLeastTwo
<1>3. ExclusiveCall'
  BY DEF DbInv, DbTypeOK, ExclusiveCall, EndCallSession, Live, Present,
         LiveStatus, OverStatus
<1>4. Monotone
  BY DEF DbInv, DbTypeOK, Monotone, Present, EndCallSession, Live, LiveStatus, OverStatus
<1> QED BY <1>1, <1>2, <1>3, <1>4 DEF DbInv, Kept

LEMMA DurationKeeps ==
  ASSUME DbInv, NEW s \in Sessions, startedAt[s], UpdateSessionDuration(s)
  PROVE  Kept
<1>1. DbTypeOK'
  BY DEF DbInv, DbTypeOK, UpdateSessionDuration, Status, OverStatus, rowVars
<1>2. RowsInv'
  BY DEF DbInv, DbTypeOK, RowsInv, RowInv, UpdateSessionDuration, Live, Over, Present,
         Status, LiveStatus, OverStatus, AtLeastTwo, rowVars
<1>3. ExclusiveCall'
  BY DEF DbInv, DbTypeOK, ExclusiveCall, UpdateSessionDuration, Live, Present,
         LiveStatus, rowVars
<1>4. Monotone
  BY DEF DbInv, DbTypeOK, Monotone, Present, UpdateSessionDuration, rowVars
<1> QED BY <1>1, <1>2, <1>3, <1>4 DEF DbInv, Kept

LEMMA ActivateKeeps ==
  ASSUME DbInv, NEW s \in Sessions, AtLeastTwo(livekitJoinedAt[s]), Activate(s)
  PROVE  Kept
<1>1. DbTypeOK'
  BY DEF DbInv, DbTypeOK, Activate, Status, LiveStatus, rowVars
<1>2. RowsInv'
  BY DEF DbInv, DbTypeOK, RowsInv, RowInv, Activate, Live, Over, Present,
         Status, LiveStatus, OverStatus, AtLeastTwo, rowVars
<1>3. ExclusiveCall'
  BY DEF DbInv, DbTypeOK, ExclusiveCall, Activate, Live, Present, LiveStatus, rowVars
<1>4. Monotone
  BY DEF DbInv, DbTypeOK, Monotone, Present, Activate, rowVars
<1> QED BY <1>1, <1>2, <1>3, <1>4 DEF DbInv, Kept

LEMMA LeftKeeps ==
  ASSUME DbInv, NEW s \in Sessions, NEW u \in Users, u \in Present(s),
         MarkParticipantLeft(s, u)
  PROVE  Kept
<1>1. DbTypeOK'
  BY DEF DbInv, DbTypeOK, MarkParticipantLeft, sessionVars
<1>2. RowsInv'
  BY DEF DbInv, DbTypeOK, RowsInv, RowInv, MarkParticipantLeft, Live, Over, Present,
         Status, LiveStatus, OverStatus, AtLeastTwo, sessionVars
<1>3. ExclusiveCall'
  BY DEF DbInv, DbTypeOK, ExclusiveCall, MarkParticipantLeft, Live, Present, LiveStatus,
         sessionVars
<1>4. Monotone
  BY DEF DbInv, DbTypeOK, Monotone, Present, MarkParticipantLeft, sessionVars
<1> QED BY <1>1, <1>2, <1>3, <1>4 DEF DbInv, Kept

LEMMA LivekitJoinedKeeps ==
  ASSUME DbInv, NEW s \in Sessions, NEW u, MarkParticipantLivekitJoined(s, u)
  PROVE  Kept
<1>1. DbTypeOK'
  BY DEF DbInv, DbTypeOK, MarkParticipantLivekitJoined, sessionVars
<1>2. RowsInv'
  BY DEF DbInv, DbTypeOK, RowsInv, RowInv, MarkParticipantLivekitJoined, Live, Over, Present,
         Status, LiveStatus, OverStatus, AtLeastTwo, sessionVars
<1>3. ExclusiveCall'
  BY DEF DbInv, DbTypeOK, ExclusiveCall, MarkParticipantLivekitJoined, Live, Present,
         LiveStatus, sessionVars
<1>4. Monotone
  BY DEF DbInv, DbTypeOK, Monotone, Present, MarkParticipantLivekitJoined, sessionVars
<1> QED BY <1>1, <1>2, <1>3, <1>4 DEF DbInv, Kept

LEMMA StaleKeeps ==
  ASSUME DbInv, StaleInv, stale \subseteq Sessions, MarkStaleMissed(stale)
  PROVE  Kept
<1>1. DbTypeOK'
  BY DEF DbInv, DbTypeOK, MarkStaleMissed, Status, OverStatus
<1>2. RowsInv'
  BY DEF DbInv, DbTypeOK, StaleInv, RowsInv, RowInv, MarkStaleMissed, Live, Over, Present,
         Status, LiveStatus, OverStatus, AtLeastTwo
<1>3. ExclusiveCall'
  BY DEF DbInv, DbTypeOK, ExclusiveCall, MarkStaleMissed, Live, Present, LiveStatus
<1>4. Monotone
  BY DEF DbInv, DbTypeOK, Monotone, Present, MarkStaleMissed
<1> QED BY <1>1, <1>2, <1>3, <1>4 DEF DbInv, Kept

LEMMA UnchangedKeeps ==
  ASSUME DbInv, UNCHANGED db
  PROVE  Kept
BY DEF DbInv, DbTypeOK, RowsInv, RowInv, ExclusiveCall, Live, Over, Present,
       Monotone, Kept, db, sessionVars, rowVars

LEMMA RowStepKeeps ==
  ASSUME DbInv, StaleInv, stale \subseteq Sessions, RowStep
  PROVE  Kept
BY CreateKeeps, EndKeeps, DurationKeeps, ActivateKeeps, LeftKeeps,
   LivekitJoinedKeeps, StaleKeeps, UnchangedKeeps DEF RowStep

-----------------------------------------------------------------------------
(* The inductive invariant. *)

LEMMA SnapshotKept ==
  ASSUME Monotone, NEW CONSTANT r, SnapshotOK(r)
  PROVE  SnapshotOK(r)'
BY DEF Monotone, SnapshotOK, AtLeastTwo

LEMMA InitInv == Init => IInv
<1> SUFFICES ASSUME Init PROVE IInv
  OBVIOUS
<1>1. DbTypeOK
  BY DEF Init, DbTypeOK, Status, CallType
<1>2. LivekitTypeOK
  BY MaxConnectsAssumption DEF Init, LivekitTypeOK
<1>3. req \in [Procs -> Request] /\ SnapshotInv
  BY IdleSound DEF Init, SnapshotInv, SnapshotOK, Idle
<1>4. RowsInv /\ ExclusiveCall
  BY DEF Init, RowsInv, RowInv, ExclusiveCall, Live, Over, Present, LiveStatus, OverStatus
<1>5. TypeOK /\ StaleInv
  BY <1>1, <1>2, <1>3 DEF Init, TypeOK, StaleInv
<1> QED BY <1>3, <1>4, <1>5 DEF IInv

\* A step of a goroutine keeps the invariant.
LEMMA GoroutineKeepsInv ==
  ASSUME IInv, NEW p \in Procs, HandlerEffect(p)
  PROVE  IInv'
<1>1. Kept /\ stale' = stale /\ EnvTypeOK'
  BY RowStepKeeps DEF IInv, DbInv, TypeOK, HandlerEffect
<1> PICK r \in Request :
      req' = [req EXCEPT ![p] = r] /\ (SnapshotOK(r) \/ SnapshotOK(r)')
  BY DEF HandlerEffect, RequestStep
<1>2. TypeOK'
  BY <1>1 DEF IInv, TypeOK, Kept, DbInv, EnvTypeOK
<1>3. SnapshotInv'
  <2> SUFFICES ASSUME NEW q \in Procs PROVE SnapshotOK(req[q])'
    BY DEF SnapshotInv
  <2>1. PICK r2 : r2 = req'[q] /\ (SnapshotOK(r2) \/ SnapshotOK(r2)')
    BY DEF IInv, TypeOK, SnapshotInv
  <2>2. SnapshotOK(r2)'
    BY <1>1, <2>1, SnapshotKept DEF Kept
  <2> QED BY <2>1, <2>2 DEF SnapshotOK
<1>4. StaleInv'
  BY <1>1 DEF IInv, TypeOK, StaleInv, Kept, Monotone
<1> QED BY <1>1, <1>2, <1>3, <1>4 DEF IInv, Kept, DbInv

\* So does a step of the ringing cleanup, which no handler notices.
LEMMA CleanupKeepsInv ==
  ASSUME IInv, Cleanup
  PROVE  IInv'
<1>1. /\ UNCHANGED <<processed, missedPush, req, livekit>>
      /\ stale' \subseteq Sessions /\ \A s \in stale' : status[s] # "NONE"
      /\ RowStep
  <2>1. CASE \E S \in SUBSET Sessions : CleanupScan(S)
    BY <2>1 DEF CleanupScan, RowStep
  <2>2. CASE CleanupApply
    BY <2>2 DEF CleanupApply, RowStep
  <2>3. CASE CleanupAbort
    BY <2>3 DEF CleanupAbort, RowStep
  <2> QED BY <2>1, <2>2, <2>3 DEF Cleanup
<1>2. Kept
  BY <1>1, RowStepKeeps DEF IInv, DbInv, TypeOK
<1>3. TypeOK'
  BY <1>1, <1>2 DEF IInv, TypeOK, Kept, DbInv, LivekitTypeOK, livekit
<1>4. SnapshotInv'
  <2> SUFFICES ASSUME NEW q \in Procs PROVE SnapshotOK(req[q])'
    BY DEF SnapshotInv
  <2>1. PICK r2 : r2 = req'[q] /\ SnapshotOK(r2)
    BY <1>1 DEF IInv, SnapshotInv
  <2>2. SnapshotOK(r2)'
    BY <1>2, <2>1, SnapshotKept DEF Kept
  <2> QED BY <2>1, <2>2 DEF SnapshotOK
<1>5. StaleInv'
  BY <1>1, <1>2 DEF StaleInv, Kept, Monotone
<1> QED BY <1>2, <1>3, <1>4, <1>5 DEF IInv, Kept, DbInv

\* Steps that leave the server alone.
LEMMA ServerIdleKeepsInv ==
  ASSUME IInv, UNCHANGED <<db, req, stale>>, EnvTypeOK'
  PROVE  IInv'
<1>1. Kept
  BY UnchangedKeeps DEF IInv, DbInv, TypeOK
<1>2. TypeOK'
  BY <1>1 DEF IInv, TypeOK, Kept, DbInv, EnvTypeOK
<1>3. SnapshotInv' /\ StaleInv'
  BY DEF IInv, SnapshotInv, SnapshotOK, StaleInv, Present, db, sessionVars, rowVars
<1> QED BY <1>1, <1>2, <1>3 DEF IInv, Kept, DbInv

LEMMA NextKeepsInv == IInv /\ [Next]_vars => IInv'
<1> SUFFICES ASSUME IInv, [Next]_vars PROVE IInv'
  OBVIOUS
<1>1. CASE \E p \in Procs : ClientCall(p) \/ Handler(p) \/ Webhook(p) \/ Crash(p)
  BY <1>1, GoroutineEffect, GoroutineKeepsInv DEF IInv
<1>2. CASE Cleanup
  BY <1>2, CleanupKeepsInv
<1>3. CASE LiveKitStep
  BY <1>3, LiveKitStepEffect, ServerIdleKeepsInv DEF IInv
<1>4. CASE UNCHANGED vars
  <2>1. UNCHANGED <<db, req, stale, processed, missedPush, livekit>>
    BY <1>4 DEF vars
  <2>2. EnvTypeOK'
    BY <2>1 DEF IInv, TypeOK, EnvTypeOK, LivekitTypeOK, livekit
  <2> QED BY <2>1, <2>2, ServerIdleKeepsInv
<1> QED BY <1>1, <1>2, <1>3, <1>4 DEF Next

\* IInv is an invariant: the columns of a session agree, and what the handlers
\* remember of a row is still good for the statement they are about to run.
THEOREM Inductive == Spec => []IInv
BY InitInv, NextKeepsInv, PTL DEF Spec

-----------------------------------------------------------------------------
(* Theorems. *)

\* Every variable keeps its type, whatever the interleaving and the failures.
THEOREM TypeCorrect == Spec => []TypeOK
<1>1. IInv => TypeOK
  BY DEF IInv
<1> QED BY <1>1, Inductive, PTL

\* A user is on one live call at a time.
THEOREM OneCallPerUser == Spec => []ExclusiveCall
<1>1. IInv => ExclusiveCall
  BY DEF IInv
<1> QED BY <1>1, Inductive, PTL

\* A live call always has the key its participants are given.
THEOREM LiveCallsKeepTheirKey == Spec => []LiveCallHasKey
<1>1. IInv => LiveCallHasKey
  BY DEF IInv, RowsInv, RowInv, LiveCallHasKey
<1> QED BY <1>1, Inductive, PTL

\* No path that ends an unanswered call leaves its key in the database.
THEOREM UnansweredCallsLoseTheirKey == Spec => []UnansweredKeyWiped
<1>1. IInv => UnansweredKeyWiped
  BY DEF IInv, RowsInv, RowInv, UnansweredKeyWiped
<1> QED BY <1>1, Inductive, PTL

\* A call is answered only after LiveKit reported two of its participants,
\* although they are counted one step before the session is updated.
THEOREM AnsweredCallsHadTwo == Spec => []AnsweredByTwo
<1>1. IInv => AnsweredByTwo
  BY DEF IInv, RowsInv, RowInv, AnsweredByTwo
<1> QED BY <1>1, Inductive, PTL

\* A session without its key is over and has released its participants.
THEOREM WipedCallsAreReleased == Spec => []WipedCallReleased
<1>1. IInv => WipedCallReleased
  BY DEF IInv, RowsInv, RowInv, WipedCallReleased
<1> QED BY <1>1, Inductive, PTL

-----------------------------------------------------------------------------
(* Refinement: every statement is a step of CallLine or leaves the lines alone. *)

LineStep == [Line!LineNext]_(Line!lineVars)

LEMMA InitIsLineInit == Init => Line!LineInit
BY DEF Init, Line!LineInit, Phase, Held, Live, LiveStatus, Over, OverStatus

\* A step that leaves every phase and every held line as it is.
LEMMA LineUnchanged ==
  ASSUME \A s \in Sessions : Phase(s)' = Phase(s) /\ Held(s)' = Held(s)
  PROVE  LineStep
<1>1. UNCHANGED <<[s \in Sessions |-> Phase(s)], [s \in Sessions |-> Held(s)]>>
  OBVIOUS
<1> QED BY <1>1 DEF LineStep, Line!lineVars

\* The ends of calls: S goes over and is released, nothing else changes.
LEMMA LineHangUp ==
  ASSUME NEW S \in SUBSET Sessions, S # {}, \A s \in S : Live(s),
         \A s \in S : Phase(s)' = "over" /\ Held(s)' = {},
         \A s \in Sessions \ S : Phase(s)' = Phase(s) /\ Held(s)' = Held(s)
  PROVE  LineStep
<1>1. \A s \in S : Phase(s) \in {"ringing", "active"}
  BY DEF Live, LiveStatus, Phase, Over, OverStatus
<1>2. Line!HangUp(S)
  BY <1>1 DEF Line!HangUp, Line!Ongoing
<1> QED BY <1>2 DEF LineStep, Line!LineNext

LEMMA CreateIsRing ==
  ASSUME DbInv, NEW s \in Sessions, NEW u \in Users,
         NEW parties \in SUBSET Users, NEW type \in CallType,
         u \in parties, CreateCallSession(s, u, parties, type)
  PROVE  LineStep
<1>1. Phase(s) = "free" /\ Phase(s)' = "ringing" /\ Held(s)' = parties
  BY DEF DbInv, DbTypeOK, RowsInv, RowInv, CreateCallSession, Phase, Held, Live,
         Over, Present, LiveStatus, OverStatus
<1>2. \A t \in Sessions \ {s} : Phase(t)' = Phase(t) /\ Held(t)' = Held(t)
  BY DEF DbInv, DbTypeOK, CreateCallSession, Phase, Held, Live, Over, Present
<1>3. \A t \in Sessions : Held(t) \cap parties = {}
  BY DEF CreateCallSession, Held
<1>4. Line!Ring(s, parties)
  BY <1>1, <1>2, <1>3 DEF Line!Ring
<1> QED BY <1>4 DEF LineStep, Line!LineNext

LEMMA EndIsHangUp ==
  ASSUME DbInv, NEW s \in Sessions, NEW new \in OverStatus, EndCallSession(s, new)
  PROVE  LineStep
<1>1. \A t \in Sessions \ {s} : Phase(t)' = Phase(t) /\ Held(t)' = Held(t)
  BY DEF DbInv, DbTypeOK, EndCallSession, Phase, Held, Live, Over, Present
<1>2. CASE Live(s)
  <2>1. Phase(s)' = "over" /\ Held(s)' = {}
    BY <1>2 DEF DbInv, DbTypeOK, EndCallSession, Phase, Held, Live, Over, Present,
                LiveStatus, OverStatus
  <2>2. {s} \in SUBSET Sessions /\ {s} # {}
    OBVIOUS
  <2> QED BY <1>1, <1>2, <2>1, <2>2, LineHangUp
<1>3. CASE ~Live(s)
  <2>1. Phase(s)' = Phase(s) /\ Held(s)' = Held(s)
    BY <1>3 DEF EndCallSession, Phase, Held, Live, Over
  <2> QED BY <1>1, <2>1, LineUnchanged
<1> QED BY <1>2, <1>3

LEMMA DurationIsHangUp ==
  ASSUME DbInv, NEW s \in Sessions, startedAt[s], UpdateSessionDuration(s)
  PROVE  LineStep
<1>1. \A t \in Sessions \ {s} : Phase(t)' = Phase(t) /\ Held(t)' = Held(t)
  BY DEF DbInv, DbTypeOK, UpdateSessionDuration, Phase, Held, Live, Over, Present, rowVars
<1>2. Phase(s)' = "over" /\ Held(s)' = {}
  BY DEF DbInv, DbTypeOK, UpdateSessionDuration, Phase, Held, Live, Over, LiveStatus, OverStatus
<1>3. CASE Live(s)
  <2>1. {s} \in SUBSET Sessions /\ {s} # {}
    OBVIOUS
  <2> QED BY <1>1, <1>2, <1>3, <2>1, LineHangUp
<1>4. CASE ~Live(s)
  <2>1. Phase(s) = "over" /\ Held(s) = {}
    BY <1>4 DEF DbInv, DbTypeOK, RowsInv, RowInv, Phase, Held, Live, Over, Status,
                LiveStatus, OverStatus
  <2> QED BY <1>1, <1>2, <2>1, LineUnchanged
<1> QED BY <1>3, <1>4

LEMMA ActivateIsAnswer ==
  ASSUME DbInv, NEW s \in Sessions, Activate(s)
  PROVE  LineStep
<1>1. \A t \in Sessions \ {s} : Phase(t)' = Phase(t) /\ Held(t)' = Held(t)
  BY DEF DbInv, DbTypeOK, Activate, Phase, Held, Live, Over, Present, rowVars
<1>2. CASE status[s] = "RINGING"
  <2>1. Phase(s) = "ringing" /\ Phase(s)' = "active" /\ Held(s)' = Held(s)
    BY <1>2 DEF DbInv, DbTypeOK, Activate, Phase, Held, Live, Over, Present,
                LiveStatus, OverStatus, rowVars
  <2>2. Line!Answer(s)
    BY <1>1, <2>1 DEF Line!Answer
  <2> QED BY <2>2 DEF LineStep, Line!LineNext
<1>3. CASE status[s] # "RINGING"
  <2>1. Phase(s)' = Phase(s) /\ Held(s)' = Held(s)
    BY <1>3 DEF Activate, Phase, Held, Live, Over, Present, rowVars
  <2> QED BY <1>1, <2>1, LineUnchanged
<1> QED BY <1>2, <1>3

LEMMA LeftIsRelease ==
  ASSUME DbInv, NEW s \in Sessions, NEW u \in Users, u \in Present(s),
         MarkParticipantLeft(s, u)
  PROVE  LineStep
<1>1. \A t \in Sessions \ {s} : Phase(t)' = Phase(t) /\ Held(t)' = Held(t)
  BY DEF DbInv, DbTypeOK, MarkParticipantLeft, Phase, Held, Live, Over, Present, sessionVars
<1>2. Phase(s)' = Phase(s)
  BY DEF MarkParticipantLeft, Phase, Over, sessionVars
<1>3. CASE Live(s)
  <2>1. Phase(s) \in {"ringing", "active"} /\ u \in Held(s) /\ Held(s)' = Held(s) \ {u}
    BY <1>3 DEF DbInv, DbTypeOK, MarkParticipantLeft, Phase, Held, Live, Over,
                Present, LiveStatus, OverStatus, sessionVars
  <2>2. Line!Release(s, u)
    BY <1>1, <1>2, <2>1 DEF Line!Release, Line!Ongoing
  <2> QED BY <2>2 DEF LineStep, Line!LineNext
<1>4. CASE ~Live(s)
  <2>1. Held(s)' = Held(s)
    BY <1>4 DEF MarkParticipantLeft, Held, Live, sessionVars
  <2> QED BY <1>1, <1>2, <2>1, LineUnchanged
<1> QED BY <1>3, <1>4

LEMMA StaleIsHangUp ==
  ASSUME DbInv, StaleInv, stale \subseteq Sessions, MarkStaleMissed(stale)
  PROVE  LineStep
<1> DEFINE S == {s \in stale : Live(s)}
<1>1. \A s \in stale : Phase(s)' = "over" /\ Held(s)' = {}
  BY DEF DbInv, DbTypeOK, MarkStaleMissed, Phase, Held, Live, Over, LiveStatus, OverStatus
<1>2. \A s \in stale \ S : Phase(s) = "over" /\ Held(s) = {}
  BY DEF DbInv, DbTypeOK, StaleInv, Phase, Held, Live, Over, Status, LiveStatus, OverStatus
<1>3. \A s \in Sessions \ stale : Phase(s)' = Phase(s) /\ Held(s)' = Held(s)
  BY DEF DbInv, DbTypeOK, MarkStaleMissed, Phase, Held, Live, Over, Present
<1>4. \A s \in Sessions \ S : Phase(s)' = Phase(s) /\ Held(s)' = Held(s)
  BY <1>1, <1>2, <1>3
<1>5. CASE S = {}
  BY <1>4, <1>5, LineUnchanged
<1>6. CASE S # {}
  <2> HIDE DEF S
  <2>1. S \in SUBSET Sessions /\ \A s \in S : Live(s) /\ s \in stale
    BY DEF S
  <2> QED BY <1>1, <1>4, <1>6, <2>1, LineHangUp
<1> QED BY <1>5, <1>6

LEMMA OtherStatementsLeaveLines ==
  ASSUME DbInv, \/ UNCHANGED db
                \/ \E s \in Sessions, u \in Users \cup {None} :
                     MarkParticipantLivekitJoined(s, u)
  PROVE  LineStep
<1>1. UNCHANGED <<status, members, leftAt>>
  BY DEF db, sessionVars, rowVars, MarkParticipantLivekitJoined
<1>2. \A s \in Sessions : Phase(s)' = Phase(s) /\ Held(s)' = Held(s)
  BY <1>1 DEF Phase, Held, Live, Over, Present
<1> QED BY <1>2, LineUnchanged

LEMMA RowStepIsLineStep ==
  ASSUME DbInv, StaleInv, stale \subseteq Sessions, RowStep
  PROVE  LineStep
BY CreateIsRing, EndIsHangUp, DurationIsHangUp, ActivateIsAnswer, LeftIsRelease,
   StaleIsHangUp, OtherStatementsLeaveLines DEF RowStep

LEMMA NextIsLineStep == IInv /\ [Next]_vars => LineStep
<1> SUFFICES ASSUME IInv, [Next]_vars PROVE RowStep
  BY RowStepIsLineStep DEF IInv, TypeOK, DbInv
<1>1. CASE \E p \in Procs : ClientCall(p) \/ Handler(p) \/ Webhook(p) \/ Crash(p)
  BY <1>1, GoroutineEffect DEF IInv, HandlerEffect
<1>2. CASE Cleanup
  BY <1>2 DEF Cleanup, CleanupScan, CleanupApply, CleanupAbort, RowStep
<1>3. CASE LiveKitStep
  BY <1>3, LiveKitStepEffect DEF IInv, RowStep
<1>4. CASE UNCHANGED vars
  BY <1>4 DEF vars, RowStep
<1> QED BY <1>1, <1>2, <1>3, <1>4 DEF Next

\* The server implements CallLine: no interleaving of handlers, webhooks,
\* cleanup and crashes revives a call or takes a line that is held.
THEOREM Refinement == Spec => ImplementsCallLine
<1>1. Init => Line!LineInit
  BY InitIsLineInit
<1>2. IInv /\ [Next]_vars => [Line!LineNext]_(Line!lineVars)
  BY NextIsLineStep DEF LineStep
<1> QED BY <1>1, <1>2, Inductive, PTL DEF Spec, ImplementsCallLine, Line!LineSpec

\* So CallLine's promise holds of the rows of the database.
THEOREM NobodyOnTwoCalls == Spec => []Line!OneCallPerLine
BY Refinement, Line!OneCallHoldsALine, PTL DEF ImplementsCallLine

-----------------------------------------------------------------------------
(* Decisions taken from rows that were read earlier. *)

\* Only its own goroutine moves a request on, and not by starting another one.
LEMMA OwnStep ==
  ASSUME IInv, [Next]_vars, NEW p \in Procs, req[p].pc # "idle",
         req'[p].pc # req[p].pc, req'[p].pc # "idle"
  PROVE  Handler(p)
<1>1. \A q \in Procs : RequestStep(q) => q = p
  BY DEF RequestStep, IInv, TypeOK
<1>2. CASE \E q \in Procs : ClientCall(q) \/ Handler(q) \/ Webhook(q) \/ Crash(q)
  <2> PICK q \in Procs : ClientCall(q) \/ Handler(q) \/ Webhook(q) \/ Crash(q)
    BY <1>2
  <2>1. q = p
    BY <1>1, GoroutineEffect DEF HandlerEffect, IInv
  <2>2. ~ClientCall(p)
    BY DEF ClientCall, CreateRoom, Begin, TokenRead, DeleteRead, LeaveRead, KickRead,
           ReadSession
  <2>3. ~Webhook(p)
    BY DEF Webhook, Receive, Begin
  <2>4. ~Crash(p)
    BY DEF Crash, Done, Idle, IInv, TypeOK
  <2> QED BY <2>1, <2>2, <2>3, <2>4
<1>3. CASE Cleanup \/ LiveKitStep \/ UNCHANGED vars
  <2>1. req' = req
    BY <1>3, LiveKitStepEffect
       DEF Cleanup, CleanupScan, CleanupApply, CleanupAbort, vars, IInv
  <2> QED BY <2>1
<1> QED BY <1>2, <1>3 DEF Next

\* The statement a handler runs next is the one it is at.
LEMMA StatementAt ==
  ASSUME NEW p \in Procs, Handler(p)
  PROVE  At(p, "leave_settle") => LeaveSettle(p)
BY DEF Handler, At, CreateRoomOk, CreateRoomFail, CreateRoomReply, TokenMaterial,
       DeleteRows, DeleteLivekitRoom, DeleteEnd, LeaveRows, LeaveMark, LeaveRemove,
       LeaveSettle, LeaveClose, KickRows, KickRemove, KickMark, FinishedRead,
       FinishedRows, FinishedDuration, FinishedEnd, JoinedMark, JoinedRead,
       JoinedCount, JoinedActivate, LeftRead, LeftMark, LeftCount, LeftEnd

\* A leave that ends the call leaves at most one person on it, although it
\* counted them before it closed its own row and removed its user.
THEOREM LeavesSpareOthers == Spec => LeaveSparesOthers
<1>1. ASSUME IInv, [Next]_vars, NEW p \in Procs,
             At(p, "leave_settle"), At(p, "leave_close")'
      PROVE  LET s == req[p].s IN status[s] # status'[s] => ~AtLeastTwo(Present(s))
  <2> DEFINE s == req[p].s
             rest == req[p].here \ {req[p].u}
  <2>1. LeaveSettle(p)
    BY <1>1, OwnStep, StatementAt DEF At
  <2>2. Present(s) \subseteq rest
    BY <1>1 DEF At, IInv, SnapshotInv, SnapshotOK
  <2>3. ~AtLeastTwo(rest)
    <3>1. rest \subseteq {caller[s]} \/ ~AtLeastTwo(rest)
      BY <1>1, <2>1 DEF LeaveSettle, Done, Idle, At, IInv, TypeOK
    <3> QED BY <3>1 DEF AtLeastTwo
  <2> QED BY <2>2, <2>3 DEF AtLeastTwo
<1>2. IInv /\ [Next]_vars =>
        [\A p \in Procs : At(p, "leave_settle") /\ At(p, "leave_close")' =>
           LET s == req[p].s IN
           status[s] # status'[s] => ~AtLeastTwo(Present(s))]_vars
  BY <1>1
<1> QED BY <1>2, Inductive, PTL DEF Spec, LeaveSparesOthers

\* A request to end the call for all was made by its caller, or finds at most
\* two people still on it when it ends the call.
THEOREM OnlyCallersEndGroups == Spec => OnlyCallerEndsGroup
<1>1. ASSUME IInv, [Next]_vars, NEW p \in Procs,
             At(p, "delete_end"), ~At(p, "delete_end")'
      PROVE  LET s == req[p].s IN
             status[s] # status'[s] =>
               req[p].u = caller[s] \/ Cardinality(Present(s)) <= 2
  <2> DEFINE s == req[p].s
  <2>1. /\ Present(s) \subseteq req[p].here /\ req[p].here \subseteq Users
        /\ req[p].u = caller[s] \/ Cardinality(req[p].here) <= 2
    BY <1>1 DEF At, IInv, SnapshotInv, SnapshotOK, TypeOK, Request
  <2>2. IsFiniteSet(req[p].here)
    BY <2>1, UsersAssumption, FS_Subset
  <2>3. /\ Cardinality(Present(s)) <= Cardinality(req[p].here)
        /\ Cardinality(Present(s)) \in Nat /\ Cardinality(req[p].here) \in Nat
    BY <2>1, <2>2, FS_Subset, FS_CardinalityType
  <2> QED BY <2>1, <2>3
<1>2. IInv /\ [Next]_vars =>
        [\A p \in Procs : At(p, "delete_end") /\ ~At(p, "delete_end")' =>
           LET s == req[p].s IN
           status[s] # status'[s] =>
             req[p].u = caller[s] \/ Cardinality(Present(s)) <= 2]_vars
  BY <1>1
<1> QED BY <1>2, Inductive, PTL DEF Spec, OnlyCallerEndsGroup
=============================================================================
