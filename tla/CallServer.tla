----------------------------- MODULE CallServer -----------------------------
(***************************************************************************)
(* The call server (src/apps/livekit-server): the handlers of              *)
(* internal/handler/handler.go over the PostgreSQL rows of                 *)
(* internal/store/store.go, the LiveKit room service they drive and the    *)
(* webhooks it sends back.                                                 *)
(*                                                                         *)
(* A handler is a goroutine (a member of Procs) that runs one SQL          *)
(* statement, or one LiveKit call, per step: what it read earlier it keeps *)
(* in its request record, and every other handler may run between two of   *)
(* its steps.  One SQL statement is one action, as PostgreSQL runs it      *)
(* (READ COMMITTED); the transaction of CreateCallSession is one action    *)
(* because module CallAdmission shows that its locks make it one.          *)
(***************************************************************************)
EXTENDS Naturals, FiniteSets

CONSTANTS
  Users,        \* user ids
  Sessions,     \* ids of call sessions, each with its own LiveKit room
  Procs,        \* handler goroutines, of one server or of several
  MaxConnects,  \* BOUND: times a user connects to one room
  Faults,       \* the failures a run allows, a subset of FaultKind
  CallTypes,    \* BOUND: the kinds of call clients make, a subset of CallType
  Endpoints,    \* BOUND: the endpoints clients use besides "create a room"
  None          \* no session, no user

FaultKind == {"crash",    \* a goroutine dies between two statements
              "redis",    \* SETNX fails, or its key expired: no deduplication
              "livekit",  \* a LiveKit call returns an error
              "db"}       \* a SQL statement returns an error

ASSUME UsersAssumption == IsFiniteSet(Users)
ASSUME MaxConnectsAssumption == MaxConnects \in Nat \ {0}
ASSUME FaultsAssumption == Faults \subseteq FaultKind
\* VOICE and VIDEO calls behave alike.
CallType == {"CALL", "BROADCAST"}

ASSUME CallTypesAssumption == CallTypes \subseteq CallType
ASSUME EndpointsAssumption == Endpoints \subseteq {"token", "delete", "leave", "kick"}
ASSUME NoneAssumption == None \notin Users /\ None \notin Sessions

VARIABLES
  \* call_sessions, one row per session
  status,           \* "NONE" before the INSERT
  startedAt,        \* startedAt IS NOT NULL
  e2eeKey,          \* e2eeKey and e2eeSalt are not NULL
  callType,
  \* call_participants, rows (session, user)
  caller,           \* the row with role 'caller'
  members,          \* users with a row
  leftAt,           \* rows whose leftAt is not NULL
  livekitJoinedAt,  \* rows whose livekitJoinedAt is not NULL
  \* Redis
  processed,        \* webhook events whose deduplication key is set
  \* pushes sent through the API
  missedPush,       \* users told of a missed call
  \* the server's goroutines
  req,              \* what each handler is doing and has read
  stale,            \* ids the ringing cleanup has read and not yet updated
  \* LiveKit and the clients
  room,             \* "none", "open" or "finished"
  inRoom,           \* users connected to the room
  connects,         \* how often each user connected to the room
  tokens            \* users that hold a token and the key of the session

sessionVars == <<status, startedAt, e2eeKey, callType>>
rowVars     == <<caller, members, leftAt, livekitJoinedAt>>
db          == <<sessionVars, rowVars>>
livekit     == <<room, inRoom, connects, tokens>>
vars        == <<db, processed, missedPush, req, stale, livekit>>

-----------------------------------------------------------------------------
LiveStatus  == {"RINGING", "ACTIVE"}
OverStatus  == {"ENDED", "MISSED", "DECLINED"}
Status      == {"NONE"} \cup LiveStatus \cup OverStatus

Live(s)    == status[s] \in LiveStatus
Over(s)    == status[s] \in OverStatus
Present(s) == members[s] \ leftAt[s]      \* rows with leftAt NULL

\* GetActiveParticipantCount counts these rows.
Connected(s) == Present(s) \cap livekitJoinedAt[s]

AtLeastTwo(S) == \E a, b \in S : a # b

May(fault) == fault \in Faults

(***************************************************************************)
(* The events LiveKit has sent.  It may deliver each of them any number of *)
(* times and in any order, so what has been sent follows from what         *)
(* happened in the rooms.                                                  *)
(***************************************************************************)
Event == [kind : {"participant_joined", "participant_left", "room_finished"},
          s : Sessions, u : Users \cup {None}, n : 0 .. MaxConnects]

Sent ==
  {e \in Event :
     \/ /\ e.kind = "participant_joined"
        /\ e.u \in Users /\ e.n \in 1 .. connects[e.s][e.u]
     \/ /\ e.kind = "participant_left"
        /\ e.u \in Users /\ e.n \in 1 .. connects[e.s][e.u]
        /\ e.n = connects[e.s][e.u] => e.u \notin inRoom[e.s]
     \/ /\ e.kind = "room_finished"
        /\ e.u = None /\ e.n = 0 /\ room[e.s] = "finished"}

(***************************************************************************)
(* Requests in progress.  "status", "started" and "here" are the values of *)
(* the session row and the participant rows the handler read.              *)
(***************************************************************************)
PC == {"idle", "create_room", "create_token", "token_material",
       "delete_rows", "delete_room", "delete_end",
       "leave_rows", "leave_mark", "leave_remove", "leave_settle", "leave_close",
       "kick_rows", "kick_remove", "kick_mark",
       "finished_read", "finished_rows", "finished_duration", "finished_end",
       "joined_mark", "joined_read", "joined_count", "joined_activate",
       "left_read", "left_mark", "left_count", "left_end"}

Request == [pc : PC, s : Sessions \cup {None}, u : Users \cup {None},
            target : Users \cup {None}, status : Status, started : BOOLEAN,
            here : SUBSET Users]

Idle == [pc |-> "idle", s |-> None, u |-> None, target |-> None,
         status |-> "NONE", started |-> FALSE, here |-> {}]

Begin(p, pc, s, u) ==
  /\ req[p].pc = "idle"
  /\ req' = [req EXCEPT ![p] = [Idle EXCEPT !.pc = pc, !.s = s, !.u = u]]

At(p, pc)   == req[p].pc = pc
Goto(p, pc) == req' = [req EXCEPT ![p].pc = pc]
Done(p)     == req' = [req EXCEPT ![p] = Idle]

-----------------------------------------------------------------------------
(* SQL statements of store.go. *)

\* Mutant: only the caller is looked up, not the people called.
CreateCallSessionCallerOnly(s, u, parties, type) ==
  /\ status[s] = "NONE"
  /\ \A t \in Sessions : Live(t) => u \notin Present(t)
  /\ status'    = [status EXCEPT ![s] = "RINGING"]
  /\ e2eeKey'   = [e2eeKey EXCEPT ![s] = TRUE]
  /\ callType'  = [callType EXCEPT ![s] = type]
  /\ caller'    = [caller EXCEPT ![s] = u]
  /\ members'   = [members EXCEPT ![s] = parties]
  /\ UNCHANGED <<startedAt, leftAt, livekitJoinedAt>>

\* The transaction of CreateCallSession: nobody on the call holds an open row
\* of a live session; the rows and the key are inserted together.  A broadcast
\* has a row for its caller only.
CreateCallSession(s, u, parties, type) ==
  /\ status[s] = "NONE"
  /\ \A t \in Sessions : Live(t) => Present(t) \cap parties = {}
  /\ status'    = [status EXCEPT ![s] = "RINGING"]
  /\ e2eeKey'   = [e2eeKey EXCEPT ![s] = TRUE]
  /\ callType'  = [callType EXCEPT ![s] = type]
  /\ caller'    = [caller EXCEPT ![s] = u]
  /\ members'   = [members EXCEPT ![s] = parties]
  /\ UNCHANGED <<startedAt, leftAt, livekitJoinedAt>>

\* Mutant: only the rows of people who had connected are closed.
EndCallSessionConnectedOnly(s, newStatus) ==
  /\ IF Live(s)
       THEN /\ status'  = [status EXCEPT ![s] = newStatus]
            /\ e2eeKey' = [e2eeKey EXCEPT ![s] = FALSE]
       ELSE UNCHANGED <<status, e2eeKey>>
  /\ leftAt' = [leftAt EXCEPT ![s] = @ \cup Connected(s)]
  /\ UNCHANGED <<startedAt, callType, caller, members, livekitJoinedAt>>

\* EndCallSession: a live session takes the new status and loses its key;
\* the participant rows are closed whatever the status.
EndCallSession(s, newStatus) ==
  /\ IF Live(s)
       THEN /\ status'  = [status EXCEPT ![s] = newStatus]
            /\ e2eeKey' = [e2eeKey EXCEPT ![s] = FALSE]
       ELSE UNCHANGED <<status, e2eeKey>>
  /\ leftAt' = [leftAt EXCEPT ![s] = members[s]]
  /\ UNCHANGED <<startedAt, callType, caller, members, livekitJoinedAt>>

\* UpdateSessionDuration: WHERE id = $1, with no condition on the status.
UpdateSessionDuration(s) ==
  /\ status' = [status EXCEPT ![s] = "ENDED"]
  /\ UNCHANGED <<startedAt, e2eeKey, callType, rowVars>>

\* Mutant: the status is set without looking at the one the row has.
ActivateAnything(s) ==
  /\ status' = [status EXCEPT ![s] = "ACTIVE"]
  /\ startedAt' = [startedAt EXCEPT ![s] = TRUE]
  /\ UNCHANGED <<e2eeKey, callType, rowVars>>

\* UpdateSessionStatus(..., "ACTIVE"): only a RINGING session is updated.
Activate(s) ==
  /\ IF status[s] = "RINGING"
       THEN /\ status' = [status EXCEPT ![s] = "ACTIVE"]
            /\ startedAt' = [startedAt EXCEPT ![s] = TRUE]
       ELSE UNCHANGED <<status, startedAt>>
  /\ UNCHANGED <<e2eeKey, callType, rowVars>>

\* MarkParticipantLeft, when it finds an open row.
MarkParticipantLeft(s, u) ==
  /\ leftAt' = [leftAt EXCEPT ![s] = @ \cup {u}]
  /\ UNCHANGED <<sessionVars, caller, members, livekitJoinedAt>>

\* Mutant: a participant who connects again gets the row reopened.
MarkParticipantRejoined(s, u) ==
  /\ livekitJoinedAt' = [livekitJoinedAt EXCEPT ![s] = @ \cup ({u} \cap members[s])]
  /\ leftAt' = [leftAt EXCEPT ![s] = @ \ {u}]
  /\ UNCHANGED <<sessionVars, caller, members>>

MarkParticipantLivekitJoined(s, u) ==
  /\ livekitJoinedAt' = [livekitJoinedAt EXCEPT ![s] = @ \cup ({u} \cap members[s])]
  /\ UNCHANGED <<sessionVars, caller, members, leftAt>>

\* Mutant: the cleanup forgets the key.
MarkStaleMissedKeepKey(S) ==
  /\ status'  = [s \in Sessions |-> IF s \in S THEN "MISSED" ELSE status[s]]
  /\ leftAt'  = [s \in Sessions |-> IF s \in S THEN members[s] ELSE leftAt[s]]
  /\ UNCHANGED <<startedAt, e2eeKey, callType, caller, members, livekitJoinedAt>>

\* The updates of CleanupStaleRingingSessions, for the ids in S.
MarkStaleMissed(S) ==
  /\ status'  = [s \in Sessions |-> IF s \in S THEN "MISSED" ELSE status[s]]
  /\ e2eeKey' = [s \in Sessions |-> e2eeKey[s] /\ s \notin S]
  /\ leftAt'  = [s \in Sessions |-> IF s \in S THEN members[s] ELSE leftAt[s]]
  /\ UNCHANGED <<startedAt, callType, caller, members, livekitJoinedAt>>

(* Calls of the LiveKit room service. *)

OpenRoom(s) ==
  /\ room' = [room EXCEPT ![s] = "open"]
  /\ UNCHANGED <<inRoom, connects, tokens>>

DeleteRoom(s) ==
  IF room[s] = "open"
    THEN /\ room' = [room EXCEPT ![s] = "finished"]
         /\ inRoom' = [inRoom EXCEPT ![s] = {}]
         /\ UNCHANGED <<connects, tokens>>
    ELSE UNCHANGED livekit

RemoveParticipant(s, u) ==
  /\ inRoom' = [inRoom EXCEPT ![s] = @ \ {u}]
  /\ UNCHANGED <<room, connects, tokens>>

-----------------------------------------------------------------------------
(* HandleCreateRoom *)

CreateRoom(p, s, u, others, type) ==
  /\ Begin(p, "create_room", s, u)
  /\ type = "BROADCAST" => others = {}
  /\ CreateCallSession(s, u, {u} \cup others, type)
  /\ UNCHANGED <<processed, missedPush, stale, livekit>>

CreateRoomOk(p) ==
  /\ At(p, "create_room")
  /\ OpenRoom(req[p].s)
  /\ Goto(p, "create_token")
  /\ UNCHANGED <<db, processed, missedPush, stale>>

\* LiveKit refused the room, or its answer was lost: the session is ended.
CreateRoomFail(p) ==
  /\ At(p, "create_room") /\ May("livekit")
  /\ OpenRoom(req[p].s) \/ UNCHANGED livekit
  /\ EndCallSession(req[p].s, "ENDED") \/ (May("db") /\ UNCHANGED db)
  /\ Done(p)
  /\ UNCHANGED <<processed, missedPush, stale>>

\* The caller gets a token only together with the key of a live session; an
\* error leaves the session as it is.
CreateRoomReply(p) ==
  /\ At(p, "create_token")
  /\ IF Live(req[p].s)
       THEN tokens' = [tokens EXCEPT ![req[p].s] = @ \cup {req[p].u}]
       ELSE UNCHANGED tokens
  /\ Done(p)
  /\ UNCHANGED <<db, processed, missedPush, stale, room, inRoom, connects>>

-----------------------------------------------------------------------------
(* The handlers below read the session row, then its open participant rows. *)
(* A handler that refuses the request writes nothing, so only the requests  *)
(* the first read lets through are started.                                 *)

ReadSession(p, pc, s, u, target) ==
  /\ req[p].pc = "idle"
  /\ Live(s)
  /\ req' = [req EXCEPT ![p] =
       [Idle EXCEPT !.pc = pc, !.s = s, !.u = u, !.target = target,
                    !.status = status[s]]]
  /\ UNCHANGED <<db, processed, missedPush, stale, livekit>>

\* The participant rows are kept for the steps to come when the handler goes on.
ReadRows(p, pc, accepted) ==
  /\ req' = [req EXCEPT ![p] =
       IF accepted THEN [@ EXCEPT !.pc = pc, !.here = Present(req[p].s)] ELSE Idle]
  /\ UNCHANGED <<db, processed, missedPush, stale, livekit>>

(* HandleCreateToken *)

\* A live session never was over before, and TokenMaterial asks for a live one
\* again: reading the session and its rows in one step loses no behaviour.
TokenRead(p, s, u) ==
  /\ callType[s] = "BROADCAST" \/ u \in Present(s)
  /\ ReadSession(p, "token_material", s, u, None)

\* GetSessionE2EEMaterial returns nothing once the session is over.
TokenMaterial(p) ==
  /\ At(p, "token_material")
  /\ IF Live(req[p].s)
       THEN tokens' = [tokens EXCEPT ![req[p].s] = @ \cup {req[p].u}]
       ELSE UNCHANGED tokens
  /\ Done(p)
  /\ UNCHANGED <<db, processed, missedPush, stale, room, inRoom, connects>>

(* HandleDeleteRoom *)

DeleteRead(p, s, u) ==
  u \in members[s] /\ ReadSession(p, "delete_rows", s, u, None)

\* Mutant: any participant may end the call for all.
DeleteRowsByAnybody(p) ==
  /\ At(p, "delete_rows")
  /\ ReadRows(p, "delete_room", req[p].u \in Present(req[p].s))

\* In a call of three or more only the caller may end it for all.
DeleteRows(p) ==
  LET here == Present(req[p].s) IN
  /\ At(p, "delete_rows")
  /\ ReadRows(p, "delete_room",
              /\ req[p].u \in here
              /\ req[p].u = caller[req[p].s] \/ Cardinality(here) <= 2)

DeleteLivekitRoom(p) ==
  /\ At(p, "delete_room")
  /\ DeleteRoom(req[p].s) \/ (May("livekit") /\ UNCHANGED livekit)
  /\ Goto(p, "delete_end")
  /\ UNCHANGED <<db, processed, missedPush, stale>>

DeleteEnd(p) ==
  /\ At(p, "delete_end")
  /\ EndCallSession(req[p].s, "ENDED") \/ (May("db") /\ UNCHANGED db)
  /\ Done(p)
  /\ UNCHANGED <<processed, missedPush, stale, livekit>>

(* HandleLeaveRoom *)

LeaveRead(p, s, u) ==
  u \in members[s] /\ ReadSession(p, "leave_rows", s, u, None)

LeaveRows(p) ==
  /\ At(p, "leave_rows")
  /\ ReadRows(p, "leave_mark", req[p].u \in Present(req[p].s))

\* Nothing more happens when the row was closed meanwhile.
LeaveMark(p) ==
  LET s == req[p].s
      u == req[p].u IN
  /\ At(p, "leave_mark")
  /\ \/ /\ u \in Present(s)
        /\ MarkParticipantLeft(s, u)
        /\ Goto(p, "leave_remove")
     \/ /\ u \notin Present(s) \/ May("db")
        /\ UNCHANGED db
        /\ Done(p)
  /\ UNCHANGED <<processed, missedPush, stale, livekit>>

LeaveRemove(p) ==
  /\ At(p, "leave_remove")
  /\ \/ RemoveParticipant(req[p].s, req[p].u)
     \/ (May("livekit") /\ UNCHANGED livekit)
  /\ Goto(p, "leave_settle")
  /\ UNCHANGED <<db, processed, missedPush, stale>>

\* Mutant: two who remain are too few for a call.
LeaveSettlePair(p) ==
  LET s    == req[p].s
      u    == req[p].u
      rest == req[p].here \ {u}
      declined == /\ req[p].status = "RINGING" /\ u # caller[s]
                  /\ rest \subseteq {caller[s]}
      deserted == req[p].status = "ACTIVE" /\ Cardinality(rest) <= 2
  IN
  /\ At(p, "leave_settle")
  /\ \/ /\ declined \/ deserted
        /\ \/ EndCallSession(s, IF declined THEN "DECLINED" ELSE "ENDED")
           \/ (May("db") /\ UNCHANGED db)
        /\ Goto(p, "leave_close")
     \/ /\ ~(declined \/ deserted)
        /\ UNCHANGED db
        /\ Done(p)
  /\ UNCHANGED <<processed, missedPush, stale, livekit>>

\* What the leave does to the call is decided from the rows read at the start.
LeaveSettle(p) ==
  LET s    == req[p].s
      u    == req[p].u
      rest == req[p].here \ {u}
      declined == /\ req[p].status = "RINGING" /\ u # caller[s]
                  /\ rest \subseteq {caller[s]}
      deserted == req[p].status = "ACTIVE" /\ ~AtLeastTwo(rest)
  IN
  /\ At(p, "leave_settle")
  /\ \/ /\ declined \/ deserted
        /\ \/ EndCallSession(s, IF declined THEN "DECLINED" ELSE "ENDED")
           \/ (May("db") /\ UNCHANGED db)
        /\ Goto(p, "leave_close")
     \/ /\ ~(declined \/ deserted)
        /\ UNCHANGED db
        /\ Done(p)
  /\ UNCHANGED <<processed, missedPush, stale, livekit>>

LeaveClose(p) ==
  /\ At(p, "leave_close")
  /\ DeleteRoom(req[p].s) \/ (May("livekit") /\ UNCHANGED livekit)
  /\ Done(p)
  /\ UNCHANGED <<db, processed, missedPush, stale>>

(* HandleKickParticipant *)

KickRead(p, s, u, target) ==
  /\ status[s] = "ACTIVE"
  /\ u = caller[s] /\ target # u /\ target \in members[s]
  /\ ReadSession(p, "kick_rows", s, u, target)

KickRows(p) ==
  /\ At(p, "kick_rows")
  /\ ReadRows(p, "kick_remove", {req[p].u, req[p].target} \subseteq Present(req[p].s))

\* An error of LiveKit, such as a target that is not connected, ends the request.
KickRemove(p) ==
  LET s == req[p].s
      target == req[p].target IN
  /\ At(p, "kick_remove")
  /\ \/ /\ target \in inRoom[s]
        /\ RemoveParticipant(s, target)
        /\ Goto(p, "kick_mark")
     \/ /\ target \notin inRoom[s] \/ May("livekit")
        /\ UNCHANGED livekit
        /\ Done(p)
  /\ UNCHANGED <<db, processed, missedPush, stale>>

KickMark(p) ==
  LET s == req[p].s
      target == req[p].target IN
  /\ At(p, "kick_mark")
  /\ \/ target \in Present(s) /\ MarkParticipantLeft(s, target)
     \/ /\ target \notin Present(s) \/ May("db")
        /\ UNCHANGED db
  /\ Done(p)
  /\ UNCHANGED <<processed, missedPush, stale, livekit>>

-----------------------------------------------------------------------------
(* HandleWebhook: SETNX of the event id comes before any of its work, so an  *)
(* event whose goroutine dies is not processed again.                        *)

Receive(p, e) ==
  /\ e \in Sent
  /\ \/ e \notin processed /\ processed' = processed \cup {e}
     \/ (May("redis") /\ UNCHANGED processed)
  /\ Begin(p, CASE e.kind = "room_finished"      -> "finished_read"
                [] e.kind = "participant_joined" -> "joined_mark"
                [] e.kind = "participant_left"   -> "left_read", e.s, e.u)
  /\ UNCHANGED <<db, missedPush, stale, livekit>>

(* room_finished *)

\* Mutant: an answered call is taken for one that somebody else will end.
FinishedReadRingingOnly(p) ==
  LET s == req[p].s IN
  /\ At(p, "finished_read")
  /\ req' = [req EXCEPT ![p] =
       IF status[s] = "RINGING"
         THEN [@ EXCEPT !.pc = "finished_rows", !.status = status[s],
                        !.started = startedAt[s]]
         ELSE Idle]
  /\ UNCHANGED <<db, processed, missedPush, stale, livekit>>

FinishedRead(p) ==
  LET s == req[p].s IN
  /\ At(p, "finished_read")
  /\ req' = [req EXCEPT ![p] =
       IF Live(s)
         THEN [@ EXCEPT !.pc = "finished_rows", !.status = status[s],
                        !.started = startedAt[s]]
         ELSE Idle]
  /\ UNCHANGED <<db, processed, missedPush, stale, livekit>>

\* A call that was not answered when the session was read is a missed call.
FinishedRows(p) ==
  LET s == req[p].s IN
  /\ At(p, "finished_rows")
  /\ IF req[p].started
       THEN Goto(p, "finished_duration") /\ UNCHANGED missedPush
       ELSE /\ Goto(p, "finished_end")
            /\ missedPush' = [missedPush EXCEPT ![s] =
                                @ \cup (Present(s) \ {caller[s]})]
  /\ UNCHANGED <<db, processed, stale, livekit>>

FinishedDuration(p) ==
  /\ At(p, "finished_duration")
  /\ UpdateSessionDuration(req[p].s) \/ (May("db") /\ UNCHANGED db)
  /\ Goto(p, "finished_end")
  /\ UNCHANGED <<processed, missedPush, stale, livekit>>

\* Mutant: a status the column does not have.
FinishedEndUnanswered(p) ==
  /\ At(p, "finished_end")
  /\ \/ EndCallSession(req[p].s, IF req[p].started THEN "ENDED" ELSE "UNANSWERED")
     \/ (May("db") /\ UNCHANGED db)
  /\ Done(p)
  /\ UNCHANGED <<processed, missedPush, stale, livekit>>

FinishedEnd(p) ==
  /\ At(p, "finished_end")
  /\ \/ EndCallSession(req[p].s, IF req[p].started THEN "ENDED" ELSE "MISSED")
     \/ (May("db") /\ UNCHANGED db)
  /\ Done(p)
  /\ UNCHANGED <<processed, missedPush, stale, livekit>>

(* participant_joined *)

JoinedMark(p) ==
  /\ At(p, "joined_mark")
  /\ \/ MarkParticipantLivekitJoined(req[p].s, req[p].u)
     \/ (May("db") /\ UNCHANGED db)
  /\ Goto(p, "joined_read")
  /\ UNCHANGED <<processed, missedPush, stale, livekit>>

JoinedRead(p) ==
  /\ At(p, "joined_read")
  /\ IF status[req[p].s] = "RINGING" THEN Goto(p, "joined_count") ELSE Done(p)
  /\ UNCHANGED <<db, processed, missedPush, stale, livekit>>

\* Mutant: the caller alone in the room makes the call active.
JoinedCountOne(p) ==
  /\ At(p, "joined_count")
  /\ IF Connected(req[p].s) # {} THEN Goto(p, "joined_activate") ELSE Done(p)
  /\ UNCHANGED <<db, processed, missedPush, stale, livekit>>

JoinedCount(p) ==
  /\ At(p, "joined_count")
  /\ IF AtLeastTwo(Connected(req[p].s)) THEN Goto(p, "joined_activate") ELSE Done(p)
  /\ UNCHANGED <<db, processed, missedPush, stale, livekit>>

JoinedActivate(p) ==
  /\ At(p, "joined_activate")
  /\ Activate(req[p].s) \/ (May("db") /\ UNCHANGED db)
  /\ Done(p)
  /\ UNCHANGED <<processed, missedPush, stale, livekit>>

(* participant_left *)

LeftRead(p) ==
  /\ At(p, "left_read")
  /\ IF Live(req[p].s) THEN Goto(p, "left_mark") ELSE Done(p)
  /\ UNCHANGED <<db, processed, missedPush, stale, livekit>>

\* An error, such as a row that is already closed, is only logged.
LeftMark(p) ==
  LET s == req[p].s
      u == req[p].u IN
  /\ At(p, "left_mark")
  /\ \/ u \in Present(s) /\ MarkParticipantLeft(s, u)
     \/ /\ u \notin Present(s) \/ May("db")
        /\ UNCHANGED db
  /\ Goto(p, "left_count")
  /\ UNCHANGED <<processed, missedPush, stale, livekit>>

LeftCount(p) ==
  /\ At(p, "left_count")
  /\ IF Connected(req[p].s) = {} THEN Goto(p, "left_end") ELSE Done(p)
  /\ UNCHANGED <<db, processed, missedPush, stale, livekit>>

LeftEnd(p) ==
  /\ At(p, "left_end")
  /\ EndCallSession(req[p].s, "ENDED") \/ (May("db") /\ UNCHANGED db)
  /\ Done(p)
  /\ UNCHANGED <<processed, missedPush, stale, livekit>>

-----------------------------------------------------------------------------
(* CleanupStaleRingingSessions, run by the ticker of cmd/server/main.go.     *)
(* The statement reads the ids of the old RINGING sessions (its CTE "stale") *)
(* and then updates the rows with these ids.  It waits for a row that        *)
(* another transaction is updating, and then checks "id IN (stale)" again,   *)
(* never the status.                                                         *)

\* Mutant: a call that somebody has connected to is not cleaned up.
CleanupScanDeserted(S) ==
  /\ stale = {}
  /\ S # {} /\ \A s \in S : status[s] = "RINGING" /\ livekitJoinedAt[s] = {}
  /\ stale' = S
  /\ UNCHANGED <<db, processed, missedPush, req, livekit>>

CleanupScan(S) ==
  /\ stale = {}
  /\ S # {} /\ \A s \in S : status[s] = "RINGING"
  /\ stale' = S
  /\ UNCHANGED <<db, processed, missedPush, req, livekit>>

CleanupApply ==
  /\ stale # {}
  /\ MarkStaleMissed(stale)
  /\ stale' = {}
  /\ UNCHANGED <<processed, missedPush, req, livekit>>

\* The statement fails, or the server dies, before it commits.
CleanupAbort ==
  /\ stale # {} /\ (May("db") \/ May("crash"))
  /\ stale' = {}
  /\ UNCHANGED <<db, processed, missedPush, req, livekit>>

\* The process dies between two statements of a handler.
Crash(p) ==
  /\ May("crash") /\ req[p].pc # "idle"
  /\ Done(p)
  /\ UNCHANGED <<db, processed, missedPush, stale, livekit>>

-----------------------------------------------------------------------------
(* LiveKit and the clients. *)

Connect(s, u) ==
  /\ room[s] = "open" /\ u \in tokens[s] \ inRoom[s]
  /\ connects[s][u] < MaxConnects
  /\ inRoom'   = [inRoom EXCEPT ![s] = @ \cup {u}]
  /\ connects' = [connects EXCEPT ![s][u] = @ + 1]
  /\ UNCHANGED <<db, processed, missedPush, req, stale, room, tokens>>

Disconnect(s, u) ==
  /\ u \in inRoom[s]
  /\ RemoveParticipant(s, u)
  /\ UNCHANGED <<db, processed, missedPush, req, stale>>

\* LiveKit closes a room that stayed empty for EmptyTimeout.
RoomEmptyTimeout(s) ==
  /\ room[s] = "open" /\ inRoom[s] = {}
  /\ DeleteRoom(s)
  /\ UNCHANGED <<db, processed, missedPush, req, stale>>

-----------------------------------------------------------------------------
Init ==
  /\ status    = [s \in Sessions |-> "NONE"]
  /\ startedAt = [s \in Sessions |-> FALSE]
  /\ e2eeKey   = [s \in Sessions |-> FALSE]
  /\ callType  = [s \in Sessions |-> "CALL"]
  /\ caller    = [s \in Sessions |-> None]
  /\ members   = [s \in Sessions |-> {}]
  /\ leftAt    = [s \in Sessions |-> {}]
  /\ livekitJoinedAt = [s \in Sessions |-> {}]
  /\ processed = {}
  /\ missedPush = [s \in Sessions |-> {}]
  /\ req       = [p \in Procs |-> Idle]
  /\ stale     = {}
  /\ room      = [s \in Sessions |-> "none"]
  /\ inRoom    = [s \in Sessions |-> {}]
  /\ connects  = [s \in Sessions |-> [u \in Users |-> 0]]
  /\ tokens    = [s \in Sessions |-> {}]

\* A client calls an endpoint.
ClientCall(p) ==
  \E s \in Sessions, u \in Users :
    \/ \E others \in SUBSET (Users \ {u}), type \in CallTypes :
         CreateRoom(p, s, u, others, type)
    \/ "token" \in Endpoints /\ TokenRead(p, s, u)
    \/ "delete" \in Endpoints /\ DeleteRead(p, s, u)
    \/ "leave" \in Endpoints /\ LeaveRead(p, s, u)
    \/ "kick" \in Endpoints /\ \E target \in Users : KickRead(p, s, u, target)

\* The next statement of a handler that is under way.
Handler(p) ==
  \/ CreateRoomOk(p) \/ CreateRoomFail(p) \/ CreateRoomReply(p)
  \/ TokenMaterial(p)
  \/ DeleteRows(p) \/ DeleteLivekitRoom(p) \/ DeleteEnd(p)
  \/ LeaveRows(p) \/ LeaveMark(p) \/ LeaveRemove(p) \/ LeaveSettle(p) \/ LeaveClose(p)
  \/ KickRows(p) \/ KickRemove(p) \/ KickMark(p)
  \/ FinishedRead(p) \/ FinishedRows(p) \/ FinishedDuration(p) \/ FinishedEnd(p)
  \/ JoinedMark(p) \/ JoinedRead(p) \/ JoinedCount(p) \/ JoinedActivate(p)
  \/ LeftRead(p) \/ LeftMark(p) \/ LeftCount(p) \/ LeftEnd(p)

Webhook(p) == \E e \in Sent : Receive(p, e)

Cleanup ==
  \/ \E S \in SUBSET Sessions : CleanupScan(S)
  \/ CleanupApply
  \/ CleanupAbort

LiveKitStep ==
  \E s \in Sessions :
    \/ \E u \in Users : Connect(s, u) \/ Disconnect(s, u)
    \/ RoomEmptyTimeout(s)

Next ==
  \/ \E p \in Procs : ClientCall(p) \/ Handler(p) \/ Webhook(p) \/ Crash(p)
  \/ Cleanup
  \/ LiveKitStep

Spec == Init /\ [][Next]_vars
(***************************************************************************)
(* Fairness, for liveness.  The Go scheduler runs every goroutine that can *)
(* run; the ticker fires for ever, and a session that keeps ringing is old *)
(* at some tick; LiveKit retries a webhook until it is answered.  Nothing  *)
(* is assumed of the clients.                                              *)
(***************************************************************************)
Ringing == {s \in Sessions : status[s] = "RINGING"}

FinishedEvent(s) == [kind |-> "room_finished", s |-> s, u |-> None, n |-> 0]

Fairness ==
  /\ \A p \in Procs : WF_vars(Handler(p))
  /\ SF_vars(CleanupScan(Ringing)) /\ WF_vars(CleanupApply)
  /\ \A s \in Sessions : SF_vars(\E p \in Procs : Receive(p, FinishedEvent(s)))

LiveSpec == Spec /\ Fairness

-----------------------------------------------------------------------------
(* Properties. *)

DbTypeOK ==
  /\ status \in [Sessions -> Status]
  /\ startedAt \in [Sessions -> BOOLEAN]
  /\ e2eeKey \in [Sessions -> BOOLEAN]
  /\ callType \in [Sessions -> CallType]
  /\ caller \in [Sessions -> Users \cup {None}]
  /\ members \in [Sessions -> SUBSET Users]
  /\ leftAt \in [Sessions -> SUBSET Users]
  /\ livekitJoinedAt \in [Sessions -> SUBSET Users]

LivekitTypeOK ==
  /\ room \in [Sessions -> {"none", "open", "finished"}]
  /\ inRoom \in [Sessions -> SUBSET Users]
  /\ connects \in [Sessions -> [Users -> 0 .. MaxConnects]]
  /\ tokens \in [Sessions -> SUBSET Users]

TypeOK ==
  /\ DbTypeOK
  /\ processed \subseteq Event
  /\ missedPush \in [Sessions -> SUBSET Users]
  /\ req \in [Procs -> Request]
  /\ stale \subseteq Sessions
  /\ LivekitTypeOK

\* A user is on one live call at a time, however handlers interleave: what the
\* check in CreateCallSession is for, and what GetActiveCall relies on when it
\* takes the first row it finds.
ExclusiveCall ==
  \A s, t \in Sessions :
    s # t /\ Live(s) /\ Live(t) => Present(s) \cap Present(t) = {}

\* Every live session has its key, so no participant is ever told to join a
\* live call without one ("call MUST NOT proceed without encryption keys").
LiveCallHasKey == \A s \in Sessions : Live(s) => e2eeKey[s]

\* The key of a call that was over before anybody answered is gone, whichever
\* of the paths ended it: decline, hang-up, cleanup, webhook, LiveKit failure.
UnansweredKeyWiped ==
  \A s \in Sessions : Over(s) /\ ~startedAt[s] => ~e2eeKey[s]

\* A call counts as answered (startedAt is set, its duration will be billed to
\* history) only when LiveKit has reported two of its participants.
AnsweredByTwo ==
  \A s \in Sessions :
    /\ startedAt[s] => AtLeastTwo(livekitJoinedAt[s])
    /\ status[s] = "ACTIVE" => startedAt[s]

\* The three effects of EndCallSession and of the cleanup go together: once
\* the key is gone the session is over and nobody is left on it.
WipedCallReleased ==
  \A s \in Sessions :
    status[s] # "NONE" /\ ~e2eeKey[s] => Over(s) /\ Present(s) = {}

\* The server implements CallLine: phases only go forward (a call that is over
\* is never revived, whatever stale snapshot a handler writes from) and lines
\* are taken only when free.
Phase(s) == CASE status[s] = "NONE"    -> "free"
              [] status[s] = "RINGING" -> "ringing"
              [] status[s] = "ACTIVE"  -> "active"
              [] Over(s)               -> "over"

Held(s) == IF Live(s) THEN Present(s) ELSE {}

Line == INSTANCE CallLine WITH
  phase <- [s \in Sessions |-> Phase(s)],
  line  <- [s \in Sessions |-> Held(s)]

ImplementsCallLine == Line!LineSpec

\* "Only end the session if ALL callees have now left" (handler.go): a leave
\* decides from the rows it read some statements ago, and still never hangs up
\* on two people who go on talking.
LeaveSparesOthers ==
  [][\A p \in Procs : At(p, "leave_settle") /\ At(p, "leave_close")' =>
       LET s == req[p].s IN
       status[s] # status'[s] => ~AtLeastTwo(Present(s))]_vars

\* In a call of three or more only the caller may end it for everybody, also
\* when people leave between the request's reads and its UPDATE.
OnlyCallerEndsGroup ==
  [][\A p \in Procs : At(p, "delete_end") /\ ~At(p, "delete_end")' =>
       LET s == req[p].s IN
       status[s] # status'[s] =>
         req[p].u = caller[s] \/ Cardinality(Present(s)) <= 2]_vars

\* The ticker ends every call that keeps ringing.
RingingEnds ==
  \A s \in Sessions : status[s] = "RINGING" ~> status[s] # "RINGING"

\* Once LiveKit has closed the room the session does not stay live, so its
\* participants can be called again.
FinishedRoomEndsCall ==
  \A s \in Sessions : room[s] = "finished" ~> ~Live(s)

\* "DB breach of ended calls (e2eeKey + e2eeSalt set to NULL on call end)" is
\* mitigated, handler.go says: when no handler is at work, no session that is
\* over has its key.  (The code breaks this: UpdateSessionDuration sets ENDED,
\* and EndCallSession then no longer matches the row.)
KeyWipedOnEnd ==
  (\A p \in Procs : req[p].pc = "idle") =>
    \A s \in Sessions : Over(s) => ~e2eeKey[s]

\* "Terminal states (ENDED, MISSED, DECLINED) cannot transition to anything",
\* store.go says.  (The code breaks this: the cleanup updates the ids it has
\* selected whatever their status is by then, so a call that is declined at that
\* moment becomes a missed one.)
TerminalIsFinal ==
  [][\A s \in Sessions : Over(s) => status'[s] = status[s]]_vars

\* A leave counts who remains from the rows it read first, which "avoids ... the
\* TOCTOU race", handler.go says: a call whose callees have all declined does not
\* go on ringing.  (The code breaks this: of two callees who decline at the same
\* time each counts the other.)
DeclinedByAllEnds ==
  (\A p \in Procs : req[p].pc = "idle") =>
    \A s \in Sessions :
      status[s] = "RINGING" /\ AtLeastTwo(members[s]) => Present(s) \ {caller[s]} # {}
=============================================================================
