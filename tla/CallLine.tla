------------------------------ MODULE CallLine ------------------------------
(***************************************************************************)
(* What the call server promises about a user's telephone line: a call     *)
(* rings, is answered and is over, in this order and once; while it lives  *)
(* it holds the lines of the users that are on it, and a line is held by   *)
(* one call at a time.  Module CallServer implements this specification.   *)
(***************************************************************************)
EXTENDS TLAPS

CONSTANTS Users, Sessions

VARIABLES
  phase,   \* of each session: "free", "ringing", "active" or "over"
  line     \* the users whose line the session holds

lineVars == <<phase, line>>

LinePhase == {"free", "ringing", "active", "over"}

Ongoing(s) == phase[s] \in {"ringing", "active"}

LineInit ==
  /\ phase = [s \in Sessions |-> "free"]
  /\ line  = [s \in Sessions |-> {}]

\* A new call takes the lines of its parties, all of them free.
Ring(s, parties) ==
  /\ phase[s] = "free"
  /\ parties # {} /\ \A t \in Sessions : line[t] \cap parties = {}
  /\ phase' = [phase EXCEPT ![s] = "ringing"]
  /\ line'  = [line EXCEPT ![s] = parties]

Answer(s) ==
  /\ phase[s] = "ringing"
  /\ phase' = [phase EXCEPT ![s] = "active"]
  /\ UNCHANGED line

\* A user leaves a call that goes on.
Release(s, u) ==
  /\ Ongoing(s) /\ u \in line[s]
  /\ line' = [line EXCEPT ![s] = @ \ {u}]
  /\ UNCHANGED phase

\* Calls end, and let go of every line they hold.
HangUp(S) ==
  /\ S # {} /\ \A s \in S : Ongoing(s)
  /\ phase' = [s \in Sessions |-> IF s \in S THEN "over" ELSE phase[s]]
  /\ line'  = [s \in Sessions |-> IF s \in S THEN {} ELSE line[s]]

LineNext ==
  \/ \E s \in Sessions :
       \/ \E parties \in SUBSET Users : Ring(s, parties)
       \/ Answer(s)
       \/ \E u \in Users : Release(s, u)
  \/ \E S \in SUBSET Sessions : HangUp(S)

LineSpec == LineInit /\ [][LineNext]_lineVars

LineTypeOK ==
  /\ phase \in [Sessions -> LinePhase]
  /\ line \in [Sessions -> SUBSET Users]

\* A line is held by one call at a time, and by no call that is over: what
\* CreateCallSession's check of the open participant rows is for.
OneCallPerLine ==
  /\ \A s, t \in Sessions : s # t => line[s] \cap line[t] = {}
  /\ \A s \in Sessions : ~Ongoing(s) => line[s] = {}

-----------------------------------------------------------------------------
LineInv == LineTypeOK /\ OneCallPerLine

LEMMA LineInitInv == LineInit => LineInv
BY DEF LineInit, LineInv, LineTypeOK, LinePhase, OneCallPerLine, Ongoing

LEMMA LineNextKeepsInv == LineInv /\ [LineNext]_lineVars => LineInv'
<1> SUFFICES ASSUME LineInv, [LineNext]_lineVars PROVE LineInv'
  OBVIOUS
<1> USE DEF LineInv, LineTypeOK, LinePhase, OneCallPerLine, Ongoing
<1>1. CASE \E s \in Sessions, parties \in SUBSET Users : Ring(s, parties)
  BY <1>1 DEF Ring
<1>2. CASE \E s \in Sessions : Answer(s)
  BY <1>2 DEF Answer
<1>3. CASE \E s \in Sessions, u \in Users : Release(s, u)
  BY <1>3 DEF Release
<1>4. CASE \E S \in SUBSET Sessions : HangUp(S)
  BY <1>4 DEF HangUp
<1>5. CASE UNCHANGED lineVars
  BY <1>5 DEF lineVars
<1> QED BY <1>1, <1>2, <1>3, <1>4, <1>5 DEF LineNext

\* The rules of the line suffice: nobody is ever on two calls, and a call that
\* is over holds no line.
THEOREM OneCallHoldsALine == LineSpec => []OneCallPerLine
<1>1. LineInv => OneCallPerLine
  BY DEF LineInv
<1> QED BY <1>1, LineInitInv, LineNextKeepsInv, PTL DEF LineSpec
=============================================================================
