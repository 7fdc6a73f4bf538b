------------------------------ MODULE Delivery ------------------------------
(***************************************************************************)
(* How a message of one conversation gets from a phone to the server: the  *)
(* send hook and its acknowledged emit, the persistent offline queue, and  *)
(* the deduplication of MessagesService.sendMessage.  The queue is one     *)
(* value that every operation loads and saves whole; processQueue loads it *)
(* before it sends and saves it after.                                     *)
(***************************************************************************)
EXTENDS Integers, FiniteSets

CONSTANTS Msgs,          \* messages, by clientMessageId
          Runs,          \* calls of processQueue that may overlap
          MAX_RETRY_COUNT,
          MaxKills       \* bound: times the app is killed

ASSUME DeliveryAssumption ==
    /\ IsFiniteSet(Msgs) /\ IsFiniteSet(Runs) /\ Msgs \cap {"none"} = {}
    /\ Runs \cap {"send", "nobody"} = {}
    /\ MAX_RETRY_COUNT \in Nat \ {0} /\ MaxKills \in Nat

Absent == -1
NoMsg == "none"
Queues == [Msgs -> Absent..MAX_RETRY_COUNT]    \* retryCount, or Absent
Retryable(q) == {m \in Msgs : q[m] \in 0..(MAX_RETRY_COUNT - 1)}
Waiters == Runs \cup {"send", "nobody"}
Requests_ == [msg : Msgs, by : Waiters, stage : {"sent", "checked", "answered"}]
Request(m, w, st) == [msg |-> m, by |-> w, stage |-> st]

VARIABLES
    composer,   \* handleSend of each message: "new", "emitted", "settled"
    queue,      \* MMKV: the offline queue
    run,        \* processQueue: its copy of the queue and what is left to send
    wire,       \* requests between the emit and the end of their handler
    rows,       \* table message: the rows of each clientMessageId
    unread,     \* conversationMember.unreadCount of the other member
    kills,
    queuedOnce, \* history: the messages that were put in the queue
    overtaken   \* history: those put there while a call of processQueue ran

dlvVars == <<composer, queue, run, wire, rows, unread, kills, queuedOnce, overtaken>>

IdleRun == [busy |-> FALSE, copy |-> [m \in Msgs |-> Absent], todo |-> {}, cur |-> NoMsg]

DlvTypeOK ==
    /\ composer \in [Msgs -> {"new", "emitted", "settled"}]
    /\ queue \in Queues
    /\ run \in [Runs -> [busy : BOOLEAN, copy : Queues, todo : SUBSET Msgs,
                         cur : Msgs \cup {NoMsg}]]
    /\ wire \subseteq Requests_
    /\ rows \in [Msgs -> Nat] /\ unread \in Nat /\ kills \in Nat
    /\ queuedOnce \subseteq Msgs /\ overtaken \subseteq Msgs

DlvInit ==
    /\ composer = [m \in Msgs |-> "new"]
    /\ queue = [m \in Msgs |-> Absent]
    /\ run = [r \in Runs |-> IdleRun]
    /\ wire = {} /\ unread = 0 /\ kills = 0
    /\ rows = [m \in Msgs |-> 0]
    /\ queuedOnce = {} /\ overtaken = {}

-----------------------------------------------------------------------------
(***************************************************************************)
(* The emit: it resolves with the acknowledgement, or with null after 3 s. *)
(***************************************************************************)
Answered(m, w) == Request(m, w, "answered") \in wire

\* What is left of the requests once nobody waits for their answer any more.
Orphans(reqs) ==
    {[q EXCEPT !.by = "nobody"] : q \in {p \in reqs : p.stage # "answered"}}

Abandon(m, w) ==
    LET gone == {q \in wire : q.msg = m /\ q.by = w}
    IN  (wire \ gone) \cup Orphans(gone)

\* handleSend: the message is encrypted and emitted, if the socket is there.
Emit(m) ==
    /\ composer[m] = "new"
    /\ composer' = [composer EXCEPT ![m] = "emitted"]
    /\ \/ wire' = wire \cup {Request(m, "send", "sent")}
       \/ UNCHANGED wire
    /\ UNCHANGED <<queue, run, rows, unread, kills, queuedOnce, overtaken>>

EmitAcked(m) ==
    /\ composer[m] = "emitted" /\ Answered(m, "send")
    /\ composer' = [composer EXCEPT ![m] = "settled"]
    /\ wire' = wire \ {Request(m, "send", "answered")}
    /\ UNCHANGED <<queue, run, rows, unread, kills, queuedOnce, overtaken>>

\* No answer in time: enqueueMessage loads, appends and saves.
EnqueueMessage(m) ==
    /\ composer[m] = "emitted"
    /\ composer' = [composer EXCEPT ![m] = "settled"]
    /\ queue' = [queue EXCEPT ![m] = 0]
    /\ wire' = Abandon(m, "send")
    /\ queuedOnce' = queuedOnce \cup {m}
    /\ overtaken' = IF \E r \in Runs : run[r].busy THEN overtaken \cup {m} ELSE overtaken
    /\ UNCHANGED <<run, rows, unread, kills>>

-----------------------------------------------------------------------------
(***************************************************************************)
(* processQueue, called when the socket connects and when the app is       *)
(* online again.                                                           *)
(***************************************************************************)
StartProcessQueue(r) ==
    /\ ~run[r].busy /\ Retryable(queue) # {}
    /\ run' = [run EXCEPT ![r] = [busy |-> TRUE, copy |-> queue,
                                  todo |-> Retryable(queue), cur |-> NoMsg]]
    /\ UNCHANGED <<composer, queue, wire, rows, unread, kills, queuedOnce, overtaken>>

SendQueued(r) ==
    \E m \in run[r].todo :
       /\ run[r].cur = NoMsg
       /\ run' = [run EXCEPT ![r].cur = m, ![r].todo = @ \ {m}]
       /\ \/ wire' = wire \cup {Request(m, r, "sent")}
          \/ UNCHANGED wire
       /\ UNCHANGED <<composer, queue, rows, unread, kills, queuedOnce, overtaken>>

\* The acknowledgement removes the message from the copy, its absence counts
\* as a retry; the last one makes it permanently failed.
QueuedAcked(r) ==
    LET m == run[r].cur IN
    /\ m # NoMsg /\ Answered(m, r)
    /\ run' = [run EXCEPT ![r].cur = NoMsg, ![r].copy[m] = Absent]
    /\ wire' = wire \ {Request(m, r, "answered")}
    /\ UNCHANGED <<composer, queue, rows, unread, kills, queuedOnce, overtaken>>

\* Mutant: a message that was not acknowledged leaves the queue.
IncrementRetryDropped(r) ==
    LET m == run[r].cur IN
    /\ m # NoMsg
    /\ run' = [run EXCEPT ![r].cur = NoMsg, ![r].copy[m] = Absent]
    /\ wire' = Abandon(m, r)
    /\ UNCHANGED <<composer, queue, rows, unread, kills, queuedOnce, overtaken>>

\* Mutant: attempts are not counted.
IncrementRetryUncounted(r) ==
    LET m == run[r].cur IN
    /\ m # NoMsg
    /\ run' = [run EXCEPT ![r].cur = NoMsg, ![r].copy[m] = @]
    /\ wire' = Abandon(m, r)
    /\ UNCHANGED <<composer, queue, rows, unread, kills, queuedOnce, overtaken>>

IncrementRetry(r) ==
    LET m == run[r].cur IN
    /\ m # NoMsg
    /\ run' = [run EXCEPT ![r].cur = NoMsg, ![r].copy[m] = @ + 1]
    /\ wire' = Abandon(m, r)
    /\ UNCHANGED <<composer, queue, rows, unread, kills, queuedOnce, overtaken>>

SaveQueue(r) ==
    /\ run[r].busy /\ run[r].cur = NoMsg /\ run[r].todo = {}
    /\ queue' = run[r].copy
    /\ run' = [run EXCEPT ![r] = IdleRun]
    /\ UNCHANGED <<composer, wire, rows, unread, kills, queuedOnce, overtaken>>

ProcessStep(r) ==
    SendQueued(r) \/ QueuedAcked(r) \/ IncrementRetry(r) \/ SaveQueue(r)

\* The app is killed: what is not in the queue is forgotten.
AppKilled ==
    /\ kills < MaxKills /\ kills' = kills + 1
    /\ composer' = [m \in Msgs |-> IF composer[m] = "emitted" THEN "settled" ELSE composer[m]]
    /\ run' = [r \in Runs |-> IdleRun]
    /\ wire' = Orphans(wire)
    /\ UNCHANGED <<queue, rows, unread, queuedOnce, overtaken>>

-----------------------------------------------------------------------------
(***************************************************************************)
(* The server: handleMessage of the gateway and sendMessage.               *)
(***************************************************************************)
AnswerOf(q) == IF q.by = "nobody" THEN {} ELSE {[q EXCEPT !.stage = "answered"]}

\* The row of the clientMessageId is looked up and answers for itself.
Deduplicate(q) ==
    /\ q \in wire /\ q.stage = "sent"
    /\ wire' = (wire \ {q}) \cup
               (IF rows[q.msg] > 0 THEN AnswerOf(q) ELSE {[q EXCEPT !.stage = "checked"]})
    /\ UNCHANGED <<composer, queue, run, rows, unread, kills, queuedOnce, overtaken>>

\* Mutant: clientMessageId is not unique.
StoreMessageTwice(q) ==
    /\ q \in wire /\ q.stage = "checked"
    /\ rows' = [rows EXCEPT ![q.msg] = @ + 1]
    /\ unread' = unread + 1
    /\ wire' = (wire \ {q}) \cup AnswerOf(q)
    /\ UNCHANGED <<composer, queue, run, kills, queuedOnce, overtaken>>


\* The transaction: row, conversation and unread counters; the unique key of
\* clientMessageId turns a second row away, and the request gets no answer.
StoreMessage(q) ==
    /\ q \in wire /\ q.stage = "checked"
    /\ IF rows[q.msg] > 0
       THEN wire' = wire \ {q} /\ UNCHANGED <<rows, unread>>
       ELSE /\ rows' = [rows EXCEPT ![q.msg] = @ + 1]
            /\ unread' = unread + 1
            /\ wire' = (wire \ {q}) \cup AnswerOf(q)
    /\ UNCHANGED <<composer, queue, run, kills, queuedOnce, overtaken>>

\* The connection breaks: the request, or its answer, is lost.
LoseRequest(q) ==
    /\ q \in wire /\ q.stage # "checked"
    /\ wire' = wire \ {q}
    /\ UNCHANGED <<composer, queue, run, rows, unread, kills, queuedOnce, overtaken>>

DlvNext ==
    \/ \E m \in Msgs : Emit(m) \/ EmitAcked(m) \/ EnqueueMessage(m)
    \/ \E r \in Runs : StartProcessQueue(r) \/ ProcessStep(r)
    \/ \E q \in wire : Deduplicate(q) \/ StoreMessage(q) \/ LoseRequest(q)
    \/ AppKilled

\* The socket connects again and again, and what has started goes on.
DlvFairness ==
    /\ WF_dlvVars(\E r \in Runs : StartProcessQueue(r))
    /\ \A r \in Runs : WF_dlvVars(ProcessStep(r))

DlvSpec == DlvInit /\ [][DlvNext]_dlvVars
FairDlvSpec == DlvSpec /\ DlvFairness

-----------------------------------------------------------------------------
\* A message is stored once and counted as unread once, however often the
\* sender, its queue and a lost acknowledgement have it sent.
StoredOnce ==
    /\ \A m \in Msgs : rows[m] <= 1
    /\ unread = Cardinality({m \in Msgs : rows[m] > 0})

\* A message leaves the queue unsent only if it was put there while a call of
\* processQueue held a copy made before.
QueuedIsKept ==
    \A m \in queuedOnce \ overtaken : queue[m] = Absent => rows[m] > 0

\* A message in the queue is stored or given up in the end, though calls of
\* processQueue overwrite each other's retry counts.
QueuedIsSettled ==
    \A m \in Msgs :
        (queue[m] # Absent)
            ~> (rows[m] > 0 \/ queue[m] = MAX_RETRY_COUNT \/ m \in overtaken)

\* "Messages that fail to send (offline, socket disconnect, network error) are
\* enqueued here and retried when connectivity returns" (header of the queue):
\* a message does not leave the queue before the server has it.
QueueKeepsUnsent ==
    [][\A m \in Msgs :
          queue[m] # Absent /\ queue'[m] = Absent => rows[m] > 0]_dlvVars
=============================================================================
