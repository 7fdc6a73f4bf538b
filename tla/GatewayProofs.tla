--------------------------- MODULE GatewayProofs ---------------------------
(***************************************************************************)
(* Theorems about Presence and Delivery, for every set of sockets, messages *)
(* and calls of processQueue, and every limit.                             *)
(***************************************************************************)
EXTENDS Presence, Delivery, FiniteSetTheorems, TLAPS

(***************************************************************************)
(* Presence.                                                               *)
(***************************************************************************)

LEMMA PreTypeStep ==
  ASSUME PreTypeOK, [PreNext]_preVars
  PROVE  PreTypeOK'
<1> USE DEF PreTypeOK, ConnStates, DiscStates
<1>1. ASSUME NEW s \in Sockets, Connect(s) \/ Identify(s) \/ StartHeartbeat(s)
                                 \/ ConnectFails(s)
      PROVE  PreTypeOK'
  BY <1>1 DEF Connect, Identify, StartHeartbeat, ConnectFails
<1>2. ASSUME NEW s \in Sockets, AddSocket(s)
      PROVE  PreTypeOK'
  BY <1>2 DEF AddSocket
<1>3. ASSUME NEW s \in Sockets, Disconnect(s) \/ Leave(s) \/ GatewayCrash(s)
      PROVE  PreTypeOK'
  BY <1>3 DEF Disconnect, Leave, RemoveSocket, CountSockets, DeletePresence, GatewayCrash
<1>4. CASE Heartbeat \/ Expire
  BY <1>4 DEF Heartbeat, Expire
<1>5. CASE UNCHANGED preVars
  BY <1>5 DEF preVars
<1> QED BY <1>1, <1>2, <1>3, <1>4, <1>5 DEF PreNext, Continue

\* The variables of Presence keep their types.
THEOREM PreTypeCorrect == PreSpec => []PreTypeOK
<1>1. PreInit => PreTypeOK
  BY DEF PreInit, PreTypeOK, ConnStates, DiscStates
<1> QED BY <1>1, PreTypeStep, PTL DEF PreSpec

-----------------------------------------------------------------------------
(***************************************************************************)
(* Delivery.                                                               *)
(***************************************************************************)

\* What is left to send, and what is being sent, is in the copy with retries left.
CopyInv ==
    \A r \in Runs :
        /\ run[r].todo \subseteq Retryable(run[r].copy)
        /\ run[r].cur # NoMsg => run[r].cur \in Retryable(run[r].copy) \ run[r].todo

\* Only the handler of a request answers it, after the row is there.
AnswerInv == \A q \in wire : q.stage = "answered" => rows[q.msg] > 0

\* A copy that was made after a message came into the queue has it as well.
KeptInv ==
    \A m \in queuedOnce \ overtaken :
        /\ queue[m] = Absent => rows[m] > 0
        /\ \A r \in Runs : run[r].busy /\ run[r].copy[m] = Absent => rows[m] > 0

DlvInv == DlvTypeOK /\ CopyInv /\ AnswerInv /\ KeptInv /\ StoredOnce

LEMMA RetryableCopy ==
  ASSUME NEW q \in Queues, NEW m \in Retryable(q)
  PROVE  m \in Msgs /\ q[m] \in Nat /\ q[m] + 1 \in 1..MAX_RETRY_COUNT /\ m # NoMsg
BY DeliveryAssumption DEF Retryable, Queues, Absent, NoMsg

\* The rows only grow, so what relies on a row keeps it.
LEMMA DlvRowsGrow ==
  ASSUME DlvTypeOK, [DlvNext]_dlvVars
  PROVE  \A m \in Msgs : rows[m] > 0 => rows'[m] > 0
<1>1. ASSUME NEW q \in wire, StoreMessage(q)
      PROVE  \A m \in Msgs : rows[m] > 0 => rows'[m] > 0
  BY <1>1 DEF StoreMessage, DlvTypeOK
<1>2. UNCHANGED rows \/ \E q \in wire : StoreMessage(q)
  BY DEF DlvNext, dlvVars, Emit, EmitAcked, EnqueueMessage, StartProcessQueue, ProcessStep,
     SendQueued, QueuedAcked, IncrementRetry, SaveQueue, AppKilled, Deduplicate, LoseRequest
<1> QED BY <1>1, <1>2

LEMMA AbandonType ==
  ASSUME wire \subseteq Requests_, NEW m, NEW w
  PROVE  /\ Abandon(m, w) \subseteq Requests_
         /\ Orphans(wire) \subseteq Requests_
         /\ \A q \in Abandon(m, w) \cup Orphans(wire) : q.stage = "answered" => q \in wire
BY DEF Abandon, Orphans, Requests_, Waiters

RunStates == [busy : BOOLEAN, copy : Queues, todo : SUBSET Msgs, cur : Msgs \cup {NoMsg}]

\* A call of processQueue that goes on with a copy of the same messages.
LEMMA WithCopy ==
  ASSUME DlvTypeOK, NEW r \in Runs, NEW m, NEW n,
         [run[r].copy EXCEPT ![m] = n] \in Queues
  PROVE  /\ [run EXCEPT ![r].cur = NoMsg, ![r].copy[m] = n] \in [Runs -> RunStates]
         /\ [run EXCEPT ![r].cur = NoMsg, ![r].copy[m] = n][r].copy
              = [run[r].copy EXCEPT ![m] = n]
<1> DEFINE st == [run[r] EXCEPT !.cur = NoMsg, !.copy = [run[r].copy EXCEPT ![m] = n]]
<1>1. run[r] \in RunStates
  BY DEF DlvTypeOK, RunStates
<1>2. st \in RunStates /\ st.copy = [run[r].copy EXCEPT ![m] = n]
  BY <1>1 DEF RunStates
<1>3. [run EXCEPT ![r].cur = NoMsg, ![r].copy[m] = n] = [run EXCEPT ![r] = st]
  BY <1>1 DEF DlvTypeOK, RunStates
<1> HIDE DEF st
<1> QED BY <1>2, <1>3 DEF DlvTypeOK, RunStates

LEMMA DlvTypeStep ==
  ASSUME DlvTypeOK, CopyInv, [DlvNext]_dlvVars
  PROVE  DlvTypeOK'
<1> USE DeliveryAssumption DEF DlvTypeOK, CopyInv
<1>a. ASSUME NEW m \in Msgs, NEW w \in Waiters, NEW st \in {"sent", "checked", "answered"}
      PROVE  Request(m, w, st) \in Requests_
  BY DEF Request, Requests_
<1>b. Runs \subseteq Waiters /\ "send" \in Waiters /\ "nobody" \in Waiters
  BY DEF Waiters
<1>c. IdleRun \in [busy : BOOLEAN, copy : Queues, todo : SUBSET Msgs, cur : Msgs \cup {NoMsg}]
  BY DEF IdleRun, Queues, Absent
<1>1. ASSUME NEW m \in Msgs, Emit(m) \/ EmitAcked(m)
      PROVE  DlvTypeOK'
  BY <1>1, <1>a, <1>b DEF Emit, EmitAcked
<1>2. ASSUME NEW m \in Msgs, EnqueueMessage(m)
      PROVE  DlvTypeOK'
  <2>1. queue' \in Queues
    BY <1>2 DEF EnqueueMessage, Queues, Absent
  <2>2. wire' \subseteq Requests_
    BY <1>2, AbandonType DEF EnqueueMessage
  <2>3. overtaken' \subseteq Msgs
    BY <1>2 DEF EnqueueMessage
  <2> QED BY <1>2, <2>1, <2>2, <2>3 DEF EnqueueMessage
<1>3. ASSUME NEW r \in Runs, StartProcessQueue(r)
      PROVE  DlvTypeOK'
  BY <1>3 DEF StartProcessQueue, Retryable
<1>4. ASSUME NEW r \in Runs, SendQueued(r)
      PROVE  DlvTypeOK'
  BY <1>4, <1>a, <1>b DEF SendQueued
<1>5. ASSUME NEW r \in Runs, QueuedAcked(r)
      PROVE  DlvTypeOK'
  <2>1. run[r].cur \in Msgs
    BY <1>5 DEF QueuedAcked
  <2>2. [run[r].copy EXCEPT ![run[r].cur] = Absent] \in Queues
    BY <2>1 DEF Queues, Absent
  <2>3. run' \in [Runs -> RunStates]
    BY <1>5, <2>2, WithCopy DEF QueuedAcked
  <2> QED BY <1>5, <2>3 DEF QueuedAcked, RunStates
<1>6. ASSUME NEW r \in Runs, IncrementRetry(r)
      PROVE  DlvTypeOK'
  <2>1. run[r].cur \in Retryable(run[r].copy) /\ run[r].copy \in Queues
    BY <1>6 DEF IncrementRetry
  <2>2. [run[r].copy EXCEPT ![run[r].cur] = @ + 1] \in Queues
    BY <2>1, RetryableCopy DEF Queues, Absent
  <2>3. run' \in [Runs -> RunStates]
    BY <1>6, <2>2, WithCopy DEF IncrementRetry
  <2> QED BY <1>6, <2>3, AbandonType DEF IncrementRetry, RunStates
<1>7. ASSUME NEW r \in Runs, SaveQueue(r)
      PROVE  DlvTypeOK'
  BY <1>7, <1>c DEF SaveQueue
<1>8. CASE AppKilled
  BY <1>8, <1>c, AbandonType DEF AppKilled
<1>9. ASSUME NEW q \in wire, Deduplicate(q) \/ StoreMessage(q) \/ LoseRequest(q)
      PROVE  DlvTypeOK'
  <2>1. q.msg \in Msgs /\ AnswerOf(q) \cup {[q EXCEPT !.stage = "checked"]} \subseteq Requests_
    BY DEF AnswerOf, Requests_
  <2>2. wire' \subseteq Requests_
    BY <1>9, <2>1 DEF Deduplicate, StoreMessage, LoseRequest
  <2>3. rows' \in [Msgs -> Nat] /\ unread' \in Nat
    BY <1>9, <2>1 DEF Deduplicate, StoreMessage, LoseRequest
  <2> QED BY <1>9, <2>2, <2>3 DEF Deduplicate, StoreMessage, LoseRequest
<1>10. CASE UNCHANGED dlvVars
  BY <1>10 DEF dlvVars
<1> QED BY <1>1, <1>2, <1>3, <1>4, <1>5, <1>6, <1>7, <1>8, <1>9, <1>10 DEF DlvNext, ProcessStep

LEMMA DlvCopyStep ==
  ASSUME DlvTypeOK, CopyInv, [DlvNext]_dlvVars
  PROVE  CopyInv'
<1> USE DeliveryAssumption DEF DlvTypeOK, CopyInv
<1>1. ASSUME NEW r \in Runs, SendQueued(r)
      PROVE  CopyInv'
  BY <1>1 DEF SendQueued, Retryable
<1>2. ASSUME NEW r \in Runs, QueuedAcked(r) \/ IncrementRetry(r)
      PROVE  CopyInv'
  <2>1. /\ run[r].cur \in Msgs /\ run[r].cur \notin run[r].todo
        /\ run'[r].cur = NoMsg /\ run'[r].todo = run[r].todo
        /\ \A m \in Msgs \ {run[r].cur} : run'[r].copy[m] = run[r].copy[m]
        /\ \A p \in Runs \ {r} : run'[p] = run[p]
    BY <1>2 DEF QueuedAcked, IncrementRetry, Queues
  <2> QED BY <2>1 DEF Retryable
<1>3. ASSUME NEW r \in Runs, StartProcessQueue(r) \/ SaveQueue(r)
      PROVE  CopyInv'
  BY <1>3 DEF StartProcessQueue, SaveQueue, IdleRun, NoMsg
<1>4. CASE AppKilled
  BY <1>4 DEF AppKilled, IdleRun, NoMsg
<1>5. CASE UNCHANGED run
  BY <1>5
<1>6. \/ UNCHANGED run \/ AppKilled
      \/ \E r \in Runs : StartProcessQueue(r) \/ ProcessStep(r)
  BY DEF DlvNext, dlvVars, Emit, EmitAcked, EnqueueMessage, Deduplicate, StoreMessage, LoseRequest
<1> QED BY <1>1, <1>2, <1>3, <1>4, <1>5, <1>6 DEF ProcessStep

LEMMA DlvAnswerStep ==
  ASSUME DlvTypeOK, AnswerInv, [DlvNext]_dlvVars
  PROVE  AnswerInv'
<1> USE DEF DlvTypeOK, AnswerInv, Requests_
<1>1. ASSUME \A q \in wire' : q.stage = "answered" => q \in wire
      PROVE  AnswerInv'
  BY <1>1, DlvRowsGrow
<1>2. ASSUME NEW m \in Msgs, Emit(m) \/ EmitAcked(m)
      PROVE  AnswerInv'
  BY <1>1, <1>2 DEF Emit, EmitAcked, Request
<1>3. ASSUME NEW m \in Msgs, EnqueueMessage(m)
      PROVE  AnswerInv'
  BY <1>1, <1>3, AbandonType DEF EnqueueMessage
<1>4. ASSUME NEW r \in Runs, SendQueued(r) \/ QueuedAcked(r)
      PROVE  AnswerInv'
  <2>1. SendQueued(r) => wire' \subseteq wire \cup {Request(m, r, "sent") : m \in run[r].todo}
    BY DEF SendQueued
  <2>2. QueuedAcked(r) => wire' \subseteq wire
    BY DEF QueuedAcked
  <2> QED BY <1>1, <1>4, <2>1, <2>2 DEF Request
<1>5. ASSUME NEW r \in Runs, IncrementRetry(r)
      PROVE  AnswerInv'
  BY <1>1, <1>5, AbandonType DEF IncrementRetry
<1>6. CASE AppKilled
  BY <1>1, <1>6, AbandonType DEF AppKilled
<1>7. ASSUME NEW q \in wire, Deduplicate(q)
      PROVE  AnswerInv'
  BY <1>7 DEF Deduplicate, AnswerOf
<1>8. ASSUME NEW q \in wire, StoreMessage(q)
      PROVE  AnswerInv'
  <2>1. CASE rows[q.msg] > 0
    BY <1>1, <1>8, <2>1 DEF StoreMessage
  <2>2. CASE ~(rows[q.msg] > 0)
    <3>1. q.msg \in Msgs /\ rows' = [rows EXCEPT ![q.msg] = @ + 1]
      BY <1>8, <2>2 DEF StoreMessage
    <3>2. rows'[q.msg] > 0
      BY <3>1
    <3>3. \A p \in wire' : p \in wire \/ p.msg = q.msg
      BY <1>8, <2>2 DEF StoreMessage, AnswerOf
    <3> QED BY <3>2, <3>3, DlvRowsGrow
  <2> QED BY <2>1, <2>2
<1>9. CASE wire' \subseteq wire
  BY <1>1, <1>9
<1>10. ASSUME NEW q \in wire, LoseRequest(q)
      PROVE  wire' \subseteq wire
  BY <1>10 DEF LoseRequest
<1>11. ASSUME NEW r \in Runs, StartProcessQueue(r) \/ SaveQueue(r)
       PROVE  wire' \subseteq wire
  BY <1>11 DEF StartProcessQueue, SaveQueue
<1>12. UNCHANGED dlvVars => wire' \subseteq wire
  BY DEF dlvVars
<1> QED BY <1>2, <1>3, <1>4, <1>5, <1>6, <1>7, <1>8, <1>9, <1>10, <1>11, <1>12
        DEF DlvNext, ProcessStep

LEMMA DlvKeptStep ==
  ASSUME DlvTypeOK, AnswerInv, KeptInv, [DlvNext]_dlvVars
  PROVE  KeptInv'
<1> USE DeliveryAssumption, DlvRowsGrow DEF DlvTypeOK, KeptInv
<1>1. ASSUME NEW m \in Msgs, EnqueueMessage(m)
      PROVE  KeptInv'
  <2>1. queue' = [queue EXCEPT ![m] = 0] /\ queue'[m] # Absent
    BY <1>1 DEF EnqueueMessage, Queues, Absent
  <2>2. \A x \in Msgs \ {m} : queue'[x] = queue[x]
    BY <2>1 DEF Queues
  <2>3. queuedOnce' = queuedOnce \cup {m} /\ overtaken \subseteq overtaken' /\ UNCHANGED <<run, rows>>
    BY <1>1 DEF EnqueueMessage
  <2>4. m \notin overtaken' => \A r \in Runs : ~run[r].busy
    BY <1>1 DEF EnqueueMessage
  <2> QED BY <2>1, <2>2, <2>3, <2>4
<1>2. ASSUME NEW r \in Runs, QueuedAcked(r)
      PROVE  KeptInv'
  <2>1. /\ rows[run[r].cur] > 0
        /\ UNCHANGED <<queue, rows, queuedOnce, overtaken>>
    BY <1>2 DEF QueuedAcked, Answered, AnswerInv, Request
  <2>2. /\ \A p \in Runs \ {r} : run'[p] = run[p]
        /\ run'[r].busy = run[r].busy
        /\ \A m \in Msgs \ {run[r].cur} : run'[r].copy[m] = run[r].copy[m]
    BY <1>2 DEF QueuedAcked, Queues
  <2> QED BY <2>1, <2>2
<1>3. ASSUME NEW r \in Runs, IncrementRetry(r)
      PROVE  KeptInv'
  <2>1. UNCHANGED <<queue, rows, queuedOnce, overtaken>>
    BY <1>3 DEF IncrementRetry
  <2>2. /\ \A p \in Runs \ {r} : run'[p] = run[p]
        /\ run'[r].busy = run[r].busy
        /\ \A m \in Msgs \ {run[r].cur} : run'[r].copy[m] = run[r].copy[m]
    BY <1>3 DEF IncrementRetry, Queues
  <2>3. run'[r].copy[run[r].cur] # Absent
    <3>1. run[r].cur \in Msgs /\ run[r].copy \in Queues
      BY <1>3 DEF IncrementRetry
    <3>2. run'[r].copy[run[r].cur] = run[r].copy[run[r].cur] + 1
      BY <1>3, <3>1 DEF IncrementRetry, Queues
    <3> QED BY <3>1, <3>2 DEF Queues, Absent
  <2> QED BY <2>1, <2>2, <2>3
<1>4. ASSUME NEW r \in Runs, StartProcessQueue(r) \/ SendQueued(r)
      PROVE  KeptInv'
  <2>1. UNCHANGED <<queue, rows, queuedOnce, overtaken>>
    BY <1>4 DEF StartProcessQueue, SendQueued
  <2>2. \A p \in Runs \ {r} : run'[p] = run[p]
    BY <1>4 DEF StartProcessQueue, SendQueued
  <2>3. StartProcessQueue(r) => run'[r].copy = queue
    BY DEF StartProcessQueue
  <2>4. SendQueued(r) => run'[r].copy = run[r].copy /\ run'[r].busy = run[r].busy
    BY DEF SendQueued
  <2> QED BY <1>4, <2>1, <2>2, <2>3, <2>4
<1>5. ASSUME NEW r \in Runs, SaveQueue(r)
      PROVE  KeptInv'
  BY <1>5 DEF SaveQueue, IdleRun
<1>6. CASE AppKilled
  BY <1>6 DEF AppKilled, IdleRun
<1>7. CASE UNCHANGED <<queue, run, queuedOnce, overtaken>>
  BY <1>7
<1>8. \/ UNCHANGED <<queue, run, queuedOnce, overtaken>> \/ AppKilled
      \/ \E m \in Msgs : EnqueueMessage(m)
      \/ \E r \in Runs : StartProcessQueue(r) \/ ProcessStep(r)
  BY DEF DlvNext, dlvVars, Emit, EmitAcked, Deduplicate, StoreMessage, LoseRequest
<1> QED BY <1>1, <1>2, <1>3, <1>4, <1>5, <1>6, <1>7, <1>8 DEF ProcessStep

\* One row more is one message more that has a row.
LEMMA DlvStoredStep ==
  ASSUME DlvTypeOK, StoredOnce, [DlvNext]_dlvVars
  PROVE  StoredOnce'
<1> USE DEF DlvTypeOK, StoredOnce
<1>1. ASSUME NEW q \in wire, StoreMessage(q), ~(rows[q.msg] > 0)
      PROVE  StoredOnce'
  <2> DEFINE S == {m \in Msgs : rows[m] > 0}
  <2>1. q.msg \in Msgs
    BY DEF Requests_
  <2>2. /\ rows' = [rows EXCEPT ![q.msg] = @ + 1]
        /\ unread' = unread + 1
    BY <1>1 DEF StoreMessage
  <2>3. {m \in Msgs : rows'[m] > 0} = S \cup {q.msg} /\ q.msg \notin S
    BY <1>1, <2>1, <2>2
  <2>4. Cardinality(S \cup {q.msg}) = Cardinality(S) + 1
    <3>1. IsFiniteSet(S)
      BY DeliveryAssumption, FS_Subset
    <3> QED BY <2>3, <3>1, FS_AddElement
  <2>5. \A m \in Msgs : rows'[m] <= 1
    BY <1>1, <2>1, <2>2
  <2> QED BY <2>2, <2>3, <2>4, <2>5
<1>2. CASE UNCHANGED <<rows, unread>>
  BY <1>2
<1>3. \/ UNCHANGED <<rows, unread>>
      \/ \E q \in wire : StoreMessage(q) /\ ~(rows[q.msg] > 0)
  BY DEF DlvNext, dlvVars, Emit, EmitAcked, EnqueueMessage, StartProcessQueue, ProcessStep,
     SendQueued, QueuedAcked, IncrementRetry, SaveQueue, AppKilled, Deduplicate, StoreMessage,
     LoseRequest
<1> QED BY <1>1, <1>2, <1>3

LEMMA DlvInitInv == DlvInit => DlvInv
<1> SUFFICES ASSUME DlvInit PROVE DlvInv
  OBVIOUS
<1>1. DlvTypeOK
  BY DeliveryAssumption DEF DlvInit, DlvTypeOK, IdleRun, Queues, Absent
<1>2. CopyInv /\ AnswerInv /\ KeptInv
  BY DEF DlvInit, CopyInv, AnswerInv, KeptInv, IdleRun, NoMsg
<1>3. StoredOnce
  <2>1. {m \in Msgs : rows[m] > 0} = {}
    BY DEF DlvInit
  <2> QED BY <2>1, FS_EmptySet DEF DlvInit, StoredOnce
<1> QED BY <1>1, <1>2, <1>3 DEF DlvInv

\* The inductive invariant: a call of processQueue sends only what its copy of
\* the queue holds with retries left, an answer means that the row is there, and
\* a message that left a copy or the queue was stored, unless a write overtook it.
THEOREM DlvInvariant == DlvSpec => []DlvInv
<1>1. DlvInv /\ [DlvNext]_dlvVars => DlvInv'
  BY DlvTypeStep, DlvCopyStep, DlvAnswerStep, DlvKeptStep, DlvStoredStep DEF DlvInv
<1> QED BY <1>1, DlvInitInv, PTL DEF DlvSpec

\* The variables of Delivery keep their types.
THEOREM DlvTypeCorrect == DlvSpec => []DlvTypeOK
BY DlvInvariant, PTL DEF DlvInv

\* One row and one unread, however often the sender, its queue and a lost
\* acknowledgement have a message sent.
THEOREM MessageStoredOnce == DlvSpec => []StoredOnce
BY DlvInvariant, PTL DEF DlvInv

\* A message that was queued is in the queue or stored, whatever calls of
\* processQueue overlap, unless another call's write overtook its own.
THEOREM NothingQueuedIsLost == DlvSpec => []QueuedIsKept
<1>1. DlvInv => QueuedIsKept
  BY DEF DlvInv, KeptInv, QueuedIsKept
<1> QED BY <1>1, DlvInvariant, PTL
=============================================================================
