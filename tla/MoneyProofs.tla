---------------------------- MODULE MoneyProofs ----------------------------
(***************************************************************************)
(* Theorems about Payments and Orders, for every number of tips, purchases, *)
(* instances of the webhook handler, faults, orders, requests of the seller *)
(* and redeliveries, and every price and quantity.                         *)
(***************************************************************************)
EXTENDS Payments, Orders, FiniteSetTheorems, TLAPS

(***************************************************************************)
(* Payments.                                                               *)
(***************************************************************************)

\* What an event of Stripe says, and the tip its handler resolved.
Sound(e) == IF e.kind = "succeeded" THEN intent[e.of] = "succeeded" ELSE e.of \in Tips
Resolved(j) == j.ev.of \in Tips /\ j.ev.kind # "payment_failed" => j.tip = j.ev.of

EventInv ==
    /\ \A e \in outbox : Sound(e)
    /\ \A w \in Instances : job[w].pc # "idle" =>
          job[w].ev \in Events /\ Sound(job[w].ev) /\ Resolved(job[w])
    /\ \A t \in Tips : tip[t] = "none" => intent[t] = "none"

\* The tips a charge of which was handled, in whatever way it was; the diamonds
\* are counted against them.  A tip leaves "pending" once and never comes back.
Settled == {t \in Tips : intent[t] = "succeeded" /\ tip[t] \notin {"none", "pending"}}

CoinInv ==
    /\ coins + GiftCost * giftsSent = CoinAmount * Cardinality(mapping)
    /\ coins + GiftCost * giftsSent <= CoinAmount * completedRows
    /\ \A p \in mapping : intent[p] = "succeeded"

DiamondInv ==
    /\ diamondLedger <= diamonds
    /\ diamonds <= GiftDiamonds * giftsSent + TipDiamonds * Cardinality(Settled)

PayInv == PayTypeOK /\ EventInv /\ CoinInv /\ DiamondInv

-----------------------------------------------------------------------------
(***************************************************************************)
(* Arithmetic and constants.                                               *)
(***************************************************************************)
LEMMA Distribute ==
  ASSUME NEW a \in Nat, NEW b \in Int, NEW c \in Int
  PROVE  a * (b + c) = a * b + a * c /\ a * b \in Int
BY SMT

LEMMA Times1 ==
  ASSUME NEW a \in Nat, NEW b \in Nat
  PROVE  a * (b + 1) = a * b + a /\ a * b \in Nat /\ a * 0 = 0
BY SMT

LEMMA TimesMonotone ==
  ASSUME NEW a \in Nat, NEW b \in Nat, NEW c \in Nat, b <= c
  PROVE  a * b <= a * c /\ a * b \in Nat /\ a * c \in Nat
<1> DEFINE d == c - b
<1>1. d \in Nat /\ c = b + d
  BY SMT
<1> HIDE DEF d
<1>2. a * c = a * b + a * d /\ a * d \in Nat
  BY <1>1, Distribute, SMT
<1>3. a * b \in Nat /\ a * c \in Nat
  BY SMT
<1> QED BY <1>2, <1>3, SMT

LEMMA Constants ==
  /\ Tips \cap Purchases = {} /\ NoTip \notin Intents
  /\ CoinAmount \in Nat /\ GiftCost \in Nat /\ GiftDiamonds \in Nat /\ TipDiamonds \in Nat
  /\ MaxAdverse \in Nat
BY PaymentsAssumption DEF Intents, NoTip

LEMMA MappingFinite ==
  ASSUME PayTypeOK
  PROVE  IsFiniteSet(mapping) /\ Cardinality(mapping) \in Nat
BY PaymentsAssumption, FS_Subset, FS_CardinalityType DEF PayTypeOK

LEMMA SettledFinite ==
  /\ IsFiniteSet(Settled) /\ Cardinality(Settled) \in Nat
  /\ IsFiniteSet(Settled') /\ Cardinality(Settled') \in Nat
BY PaymentsAssumption, FS_Subset, FS_CardinalityType DEF Settled

LEMMA ResolvedTipType ==
  ASSUME NEW e \in Events
  PROVE  /\ ResolvedTip(e) \in Tips \cup {NoTip}
         /\ e.of \in Tips /\ e.kind # "payment_failed" => ResolvedTip(e) = e.of
<1>1. NewestPending \in Tips \cup {NoTip}
  BY DEF NewestPending
<1>2. e.of \in Tips \cup Purchases
  BY DEF Events, Intents
<1> QED BY <1>1, <1>2, Constants DEF ResolvedTip

-----------------------------------------------------------------------------
LEMMA PayInitInv == PayInit => PayInv
<1> SUFFICES ASSUME PayInit PROVE PayInv
  OBVIOUS
<1>1. PayTypeOK
  BY DEF PayInit, PayTypeOK, IdleJob, TipStatus, NoTip
<1>2. EventInv
  BY DEF PayInit, EventInv, IdleJob, Intents
<1>3. Settled = {}
  BY DEF PayInit, Settled
<1>4. GiftCost * 0 = 0 /\ CoinAmount * 0 = 0 /\ GiftDiamonds * 0 = 0 /\ TipDiamonds * 0 = 0
  BY Constants, Times1
<1>5. CoinInv
  BY <1>4, Constants, FS_EmptySet DEF PayInit, CoinInv
<1>6. DiamondInv
  BY <1>3, <1>4, Constants, FS_EmptySet DEF PayInit, DiamondInv
<1> QED BY <1>1, <1>2, <1>5, <1>6 DEF PayInv

-----------------------------------------------------------------------------
LEMMA PayTypeStep ==
  ASSUME PayTypeOK, EventInv, [PayNext]_payVars
  PROVE  PayTypeOK'
<1> USE Constants DEF PayTypeOK, Intents, TipStatus
<1>1. ASSUME NEW t \in Tips, CreateTip(t) \/ CreateTipInterrupted(t)
      PROVE  PayTypeOK'
  BY <1>1 DEF CreateTip, CreateTipInterrupted, coinVars, stripeVars, redisVars
<1>2. ASSUME NEW t \in Tips, Decline(t) \/ Dispute(t)
      PROVE  PayTypeOK'
  <2>1. adverse' \in 0..MaxAdverse /\ adverse' \in Nat
    BY <1>2 DEF Decline, Dispute
  <2>2. outbox' \subseteq Events
    BY <1>2, <2>1 DEF Decline, Dispute, Event, Events
  <2> QED BY <1>2, <2>1, <2>2 DEF Decline, Dispute, redisVars, coinVars, tipVars
<1>3. ASSUME NEW p \in Purchases, CreateCoinPurchaseIntent(p)
      PROVE  PayTypeOK'
  BY <1>3 DEF CreateCoinPurchaseIntent, redisVars, coinVars, tipVars
<1>4. ASSUME NEW i \in Intents, Charge(i)
      PROVE  PayTypeOK'
  <2>1. Event("succeeded", i, 0) \in Events
    BY DEF Event, Events
  <2> QED BY <1>4, <2>1 DEF Charge, redisVars, coinVars, tipVars
<1>5. CASE PurchaseCoins
  BY <1>5 DEF PurchaseCoins, stripeVars, redisVars, tipVars
<1>6. CASE SendGift
  BY <1>6 DEF SendGift, stripeVars, redisVars
<1>7. ASSUME NEW w \in Instances, NEW e \in outbox, Receive(w, e)
      PROVE  PayTypeOK'
  <2>1. ResolvedTip(e) \in Tips \cup {NoTip}
    BY ResolvedTipType
  <2> QED BY <1>7, <2>1 DEF Receive, coinVars, tipVars
<1>8. ASSUME NEW w \in Instances, HandleCoinPurchaseSucceeded(w)
      PROVE  PayTypeOK'
  <2>1. job[w].ev \in Events /\ job' = [job EXCEPT ![w].pc = "committed"]
    BY <1>8 DEF HandleCoinPurchaseSucceeded, EventInv
  <2>2. completedRows' \in Nat /\ coins' \in Nat /\ pendingRows' \in Nat
    BY <1>8 DEF HandleCoinPurchaseSucceeded, coinVars
  <2> QED BY <1>8, <2>1, <2>2
          DEF HandleCoinPurchaseSucceeded, coinVars, stripeVars, redisVars, tipVars
<1>9. ASSUME NEW w \in Instances, HandleTipPaymentSucceeded(w)
      PROVE  PayTypeOK'
  BY <1>9 DEF HandleTipPaymentSucceeded, EventInv, coinVars, stripeVars, tipVars
<1>10. ASSUME NEW w \in Instances, HandlePaymentIntentFailed(w)
       PROVE  PayTypeOK'
  BY <1>10 DEF HandlePaymentIntentFailed, coinVars, stripeVars
<1>11. ASSUME NEW w \in Instances, HandleDisputeCreated(w)
       PROVE  PayTypeOK'
  BY <1>11 DEF HandleDisputeCreated, coinVars, stripeVars, redisVars, tipVars
<1>12. ASSUME NEW w \in Instances, Finish(w)
       PROVE  PayTypeOK'
  BY <1>12 DEF Finish, EventInv, IdleJob, coinVars, redisVars, tipVars
<1>13. ASSUME NEW w \in Instances, HandlerFails(w) \/ InstanceCrash(w)
       PROVE  PayTypeOK'
  BY <1>13 DEF HandlerFails, InstanceCrash, EventInv, IdleJob, coinVars, redisVars,
     tipVars, stripeVars
<1>14. CASE RedisLoss
  BY <1>14 DEF RedisLoss, stripeVars, coinVars, tipVars
<1>15. CASE ReconcileRead
  BY <1>15 DEF ReconcileRead, PendingTips, stripeVars, redisVars, coinVars, tipVars
<1>16. ASSUME NEW t \in Tips, ReconcileTip(t)
       PROVE  PayTypeOK'
  BY <1>16 DEF ReconcileTip, stripeVars, redisVars, coinVars
<1>17. CASE UNCHANGED payVars
  BY <1>17 DEF payVars, stripeVars, redisVars, coinVars, tipVars
<1> QED
  BY <1>1, <1>2, <1>3, <1>4, <1>5, <1>6, <1>7, <1>8, <1>9, <1>10, <1>11, <1>12, <1>13,
     <1>14, <1>15, <1>16, <1>17 DEF PayNext, Handle

-----------------------------------------------------------------------------
\* A step that leaves the webhook executions alone, adds no event without its
\* charge and takes no charge back keeps EventInv.
LEMMA EventKept ==
  ASSUME PayTypeOK, EventInv, UNCHANGED job,
         \A i \in Intents : intent[i] = "succeeded" => intent'[i] = "succeeded",
         \A e \in outbox' : e \in outbox \/ Sound(e)',
         \A t \in Tips : tip'[t] = "none" => intent'[t] = "none"
  PROVE  EventInv'
<1>1. \A e \in Events : Sound(e) => Sound(e)'
  BY DEF Sound, Events
<1>2. \A w \in Instances : Resolved(job[w]) => Resolved(job[w])'
  BY DEF Resolved
<1> QED BY <1>1, <1>2 DEF EventInv, PayTypeOK

\* So does one that ends or advances one execution.
LEMMA EventDone ==
  ASSUME PayTypeOK, EventInv, NEW w \in Instances, UNCHANGED intent,
         \/ job' = [job EXCEPT ![w] = IdleJob]
         \/ job[w].pc # "idle" /\ job' = [job EXCEPT ![w].pc = "committed"],
         outbox' \subseteq outbox,
         \A t \in Tips : tip'[t] = "none" => tip[t] = "none"
  PROVE  EventInv'
<1>1. \A e \in Events : Sound(e) => Sound(e)'
  BY DEF Sound
<1>2. ASSUME NEW v \in Instances, job'[v].pc # "idle"
      PROVE  job[v].pc # "idle" /\ job'[v].ev = job[v].ev /\ job'[v].tip = job[v].tip
  BY <1>2 DEF PayTypeOK, IdleJob
<1> QED BY <1>1, <1>2 DEF EventInv, PayTypeOK, Resolved

LEMMA PayEventStep ==
  ASSUME PayTypeOK, EventInv, [PayNext]_payVars
  PROVE  EventInv'
<1> USE Constants
<1>t. tip \in [Tips -> TipStatus] /\ intent \in [Intents -> {"none", "open", "succeeded"}]
  BY DEF PayTypeOK
<1>1. ASSUME NEW t \in Tips, CreateTip(t) \/ CreateTipInterrupted(t)
      PROVE  EventInv'
  <2>1. intent[t] = "none" /\ UNCHANGED <<job, outbox>>
    BY <1>1 DEF CreateTip, CreateTipInterrupted, NextTip, EventInv, stripeVars
  <2>2. intent' = intent \/ intent' = [intent EXCEPT ![t] = "open"]
    BY <1>1 DEF CreateTip, CreateTipInterrupted, stripeVars
  <2>3. tip' = [tip EXCEPT ![t] = "pending"]
    BY <1>1 DEF CreateTip, CreateTipInterrupted
  <2>4. \A s \in Tips : tip'[s] = "none" => intent'[s] = "none"
    BY <1>t, <2>2, <2>3 DEF EventInv, Intents
  <2> QED BY <1>t, <2>1, <2>2, <2>4, EventKept DEF Intents
<1>2. ASSUME NEW t \in Tips, Decline(t) \/ Dispute(t)
      PROVE  EventInv'
  <2>1. \A e \in outbox' : e \in outbox \/ (e.kind # "succeeded" /\ e.of = t)
    BY <1>2 DEF Decline, Dispute, Event
  <2>2. UNCHANGED <<intent, job, tip>>
    BY <1>2 DEF Decline, Dispute, tipVars
  <2> QED BY <2>1, <2>2, EventKept DEF Sound, EventInv
<1>3. ASSUME NEW p \in Purchases, CreateCoinPurchaseIntent(p)
      PROVE  EventInv'
  <2>1. intent[p] = "none" /\ intent' = [intent EXCEPT ![p] = "open"]
        /\ UNCHANGED <<job, outbox, tip>>
    BY <1>3 DEF CreateCoinPurchaseIntent, tipVars
  <2> QED BY <1>t, <2>1, EventKept DEF Intents, EventInv
<1>4. ASSUME NEW i \in Intents, Charge(i)
      PROVE  EventInv'
  <2>1. intent[i] = "open" /\ intent' = [intent EXCEPT ![i] = "succeeded"]
        /\ UNCHANGED <<job, tip>>
    BY <1>4 DEF Charge, tipVars
  <2>2. \A e \in outbox' : e \in outbox \/ (e.kind = "succeeded" /\ e.of = i)
    BY <1>4 DEF Charge, Event
  <2>3. \A e \in outbox' : e \in outbox \/ Sound(e)'
    BY <1>t, <2>1, <2>2 DEF Sound
  <2>4. \A t \in Tips : tip'[t] = "none" => intent'[t] = "none"
    BY <1>t, <2>1 DEF EventInv, Intents
  <2> QED BY <1>t, <2>1, <2>3, <2>4, EventKept
<1>5. CASE PurchaseCoins \/ SendGift \/ RedisLoss \/ ReconcileRead
  BY <1>5, EventKept DEF PurchaseCoins, SendGift, RedisLoss, ReconcileRead, stripeVars,
     tipVars, EventInv
<1>6. ASSUME NEW w \in Instances, NEW e \in outbox, Receive(w, e)
      PROVE  EventInv'
  <2>1. UNCHANGED <<intent, tip>> /\ outbox' \subseteq outbox
    BY <1>6 DEF Receive, tipVars
  <2>2. CASE UNCHANGED job
    BY <2>1, <2>2, EventKept DEF EventInv
  <2>3. CASE job' = [job EXCEPT ![w] = [pc |-> "resolved", ev |-> e, tip |-> ResolvedTip(e)]]
    <3>1. e \in Events /\ Sound(e)
      BY DEF PayTypeOK, EventInv
    <3>2. \A f \in Events : Sound(f) => Sound(f)'
      BY <2>1 DEF Sound
    <3>3. job'[w].ev = e /\ job'[w].tip = ResolvedTip(e)
      BY <2>3 DEF PayTypeOK
    <3>4. Resolved(job'[w])
      BY <3>1, <3>3, ResolvedTipType DEF Resolved
    <3>5. \A v \in Instances : v # w => job'[v] = job[v]
      BY <2>3 DEF PayTypeOK
    <3> QED BY <2>1, <3>1, <3>2, <3>3, <3>4, <3>5 DEF EventInv, PayTypeOK, Resolved
  <2> QED BY <1>6, <2>2, <2>3 DEF Receive
<1>7. ASSUME NEW w \in Instances, Handle(w)
      PROVE  EventInv'
  <2>1. job[w].pc # "idle" /\ job' = [job EXCEPT ![w].pc = "committed"]
        /\ UNCHANGED <<intent, outbox>>
    BY <1>7 DEF Handle, HandleCoinPurchaseSucceeded, HandleTipPaymentSucceeded,
       HandlePaymentIntentFailed, HandleDisputeCreated, stripeVars
  <2>2. \A t \in Tips : tip'[t] = "none" => tip[t] = "none"
    BY <1>7, <1>t DEF Handle, HandleCoinPurchaseSucceeded, HandleTipPaymentSucceeded,
       HandlePaymentIntentFailed, HandleDisputeCreated, tipVars
  <2> QED BY <2>1, <2>2, EventDone
<1>8. ASSUME NEW w \in Instances, Finish(w) \/ HandlerFails(w) \/ InstanceCrash(w)
      PROVE  EventInv'
  <2>1. job' = [job EXCEPT ![w] = IdleJob] /\ UNCHANGED <<intent, tip>>
        /\ outbox' \subseteq outbox
    BY <1>8 DEF Finish, HandlerFails, InstanceCrash, stripeVars, tipVars
  <2> QED BY <2>1, EventDone
<1>9. ASSUME NEW t \in Tips, ReconcileTip(t)
      PROVE  EventInv'
  <2>1. UNCHANGED <<intent, outbox, job>> /\ tip' = [tip EXCEPT ![t] = "failed"]
    BY <1>9 DEF ReconcileTip, stripeVars
  <2> QED BY <1>t, <2>1, EventKept DEF EventInv
<1>10. CASE UNCHANGED payVars
  BY <1>10, EventKept DEF payVars, stripeVars, tipVars, EventInv
<1> QED
  BY <1>1, <1>2, <1>3, <1>4, <1>5, <1>6, <1>7, <1>8, <1>9, <1>10 DEF PayNext

-----------------------------------------------------------------------------
\* No step takes a charge back.
LEMMA ChargesKept ==
  ASSUME PayTypeOK, EventInv, [PayNext]_payVars
  PROVE  \A i \in Intents : intent[i] = "succeeded" => intent'[i] = "succeeded"
<1>1. CASE UNCHANGED intent
  BY <1>1
<1>2. ASSUME NEW i \in Intents, intent[i] # "succeeded",
             intent' = [intent EXCEPT ![i] = "open"] \/ intent' = [intent EXCEPT ![i] = "succeeded"]
      PROVE  \A j \in Intents : intent[j] = "succeeded" => intent'[j] = "succeeded"
  BY <1>2 DEF PayTypeOK
<1>3. ASSUME NEW t \in Tips, CreateTip(t)
      PROVE  intent[t] # "succeeded" /\ intent' = [intent EXCEPT ![t] = "open"]
  BY <1>3 DEF CreateTip, NextTip, EventInv
<1>4. ASSUME NEW p \in Purchases, CreateCoinPurchaseIntent(p)
      PROVE  intent[p] # "succeeded" /\ intent' = [intent EXCEPT ![p] = "open"]
  BY <1>4 DEF CreateCoinPurchaseIntent
<1>5. ASSUME NEW i \in Intents, Charge(i)
      PROVE  intent[i] # "succeeded" /\ intent' = [intent EXCEPT ![i] = "succeeded"]
  BY <1>5 DEF Charge
<1>6. \/ UNCHANGED intent
      \/ \E t \in Tips : CreateTip(t)
      \/ \E p \in Purchases : CreateCoinPurchaseIntent(p)
      \/ \E i \in Intents : Charge(i)
  BY DEF PayNext, payVars, stripeVars, CreateTipInterrupted, Decline, Dispute, PurchaseCoins,
     SendGift, Receive, Handle, HandleCoinPurchaseSucceeded, HandleTipPaymentSucceeded,
     HandlePaymentIntentFailed, HandleDisputeCreated, Finish, HandlerFails, InstanceCrash,
     RedisLoss, ReconcileRead, ReconcileTip
<1> QED BY <1>1, <1>2, <1>3, <1>4, <1>5, <1>6 DEF Intents

LEMMA PayCoinStep ==
  ASSUME PayTypeOK, EventInv, CoinInv, [PayNext]_payVars
  PROVE  CoinInv'
<1> USE Constants, MappingFinite
<1>t. /\ coins \in Nat /\ giftsSent \in Nat /\ completedRows \in Nat /\ pendingRows \in Nat
      /\ mapping \subseteq Purchases
  BY DEF PayTypeOK
<1>c. \A p \in mapping : intent'[p] = "succeeded"
  BY <1>t, ChargesKept DEF CoinInv, Intents
<1>1. CASE UNCHANGED <<coins, giftsSent, mapping, completedRows>>
  BY <1>1, <1>c DEF CoinInv
<1>2. CASE SendGift
  <2>1. /\ coins' = coins - GiftCost /\ giftsSent' = giftsSent + 1
        /\ UNCHANGED <<mapping, completedRows>>
    BY <1>2 DEF SendGift
  <2>2. GiftCost * (giftsSent + 1) = GiftCost * giftsSent + GiftCost
        /\ GiftCost * giftsSent \in Nat
    BY <1>t, Times1
  <2>3. coins' + GiftCost * giftsSent' = coins + GiftCost * giftsSent
    BY <1>t, <2>1, <2>2, SMT
  <2> QED BY <1>c, <2>1, <2>3 DEF CoinInv
<1>3. ASSUME NEW w \in Instances, HandleCoinPurchaseSucceeded(w)
      PROVE  CoinInv'
  <2> DEFINE e == job[w].ev
  <2>1. CASE e.of \in mapping
    BY <1>3, <1>1, <2>1 DEF HandleCoinPurchaseSucceeded, coinVars
  <2>2. CASE e.of \notin mapping
    <3> DEFINE k == IF pendingRows = 0 THEN 1 ELSE pendingRows
    <3>1. /\ mapping' = mapping \cup {e.of} /\ coins' = coins + CoinAmount
          /\ completedRows' = completedRows + k
          /\ UNCHANGED <<intent, giftsSent>>
      BY <1>3, <2>2 DEF HandleCoinPurchaseSucceeded, stripeVars
    <3>2. k \in Nat /\ completedRows + 1 <= completedRows + k /\ completedRows + k \in Nat
      BY <1>t, SMT
    <3>3. intent[e.of] = "succeeded"
      BY <1>3 DEF HandleCoinPurchaseSucceeded, EventInv, Sound
    <3>4. Cardinality(mapping') = Cardinality(mapping) + 1
      BY <2>2, <3>1, FS_AddElement
    <3> HIDE DEF k, e
    <3>5. /\ CoinAmount * (Cardinality(mapping) + 1) = CoinAmount * Cardinality(mapping) + CoinAmount
          /\ CoinAmount * (completedRows + 1) = CoinAmount * completedRows + CoinAmount
          /\ CoinAmount * Cardinality(mapping) \in Nat /\ CoinAmount * completedRows \in Nat
      BY <1>t, Times1
    <3>6. /\ CoinAmount * (completedRows + 1) <= CoinAmount * (completedRows + k)
          /\ CoinAmount * (completedRows + k) \in Nat
      BY <1>t, <3>2, TimesMonotone
    <3>7. GiftCost * giftsSent \in Nat
      BY <1>t, Times1
    <3>8. coins' + GiftCost * giftsSent' = CoinAmount * Cardinality(mapping')
      BY <1>t, <3>1, <3>4, <3>5, <3>7, SMT DEF CoinInv
    <3>9. coins' + GiftCost * giftsSent' <= CoinAmount * completedRows'
      BY <1>t, <3>1, <3>5, <3>6, <3>7, SMT DEF CoinInv
    <3> QED BY <1>c, <3>1, <3>3, <3>8, <3>9 DEF CoinInv
  <2> QED BY <2>1, <2>2
<1>4. \/ UNCHANGED <<coins, giftsSent, mapping, completedRows>>
      \/ SendGift
      \/ \E w \in Instances : HandleCoinPurchaseSucceeded(w)
  BY DEF PayNext, payVars, coinVars, CreateTip, CreateTipInterrupted, Decline, Dispute,
     CreateCoinPurchaseIntent, Charge, PurchaseCoins, Receive, Handle,
     HandleTipPaymentSucceeded, HandlePaymentIntentFailed, HandleDisputeCreated, Finish,
     HandlerFails, InstanceCrash, RedisLoss, ReconcileRead, ReconcileTip
<1> QED BY <1>1, <1>2, <1>3, <1>4

LEMMA PayDiamondStep ==
  ASSUME PayTypeOK, EventInv, DiamondInv, [PayNext]_payVars
  PROVE  DiamondInv'
<1> USE Constants, SettledFinite
<1>t. /\ diamonds \in Nat /\ giftsSent \in Nat /\ diamondLedger \in Int
      /\ tip \in [Tips -> TipStatus]
  BY DEF PayTypeOK
<1>p. GiftDiamonds * giftsSent \in Nat /\ TipDiamonds * Cardinality(Settled) \in Nat
      /\ TipDiamonds * Cardinality(Settled') \in Nat
  BY <1>t, Times1
<1>m. ASSUME \A t \in Tips : tip[t] \notin {"none", "pending"} => tip'[t] \notin {"none", "pending"}
      PROVE  Settled \subseteq Settled' /\ TipDiamonds * Cardinality(Settled)
                                            <= TipDiamonds * Cardinality(Settled')
  <2>1. Settled \subseteq Settled'
    BY <1>m, ChargesKept DEF Settled, Intents
  <2>2. Cardinality(Settled) <= Cardinality(Settled')
    BY <2>1, FS_Subset
  <2> QED BY <2>1, <2>2, TimesMonotone
<1>1. ASSUME UNCHANGED <<diamonds, diamondLedger, giftsSent>>,
             \A t \in Tips : tip[t] \notin {"none", "pending"} => tip'[t] \notin {"none", "pending"}
      PROVE  DiamondInv'
  BY <1>1, <1>t, <1>p, <1>m, SMT DEF DiamondInv
<1>2. CASE SendGift
  <2>1. /\ diamonds' = diamonds + GiftDiamonds /\ diamondLedger' = diamondLedger + GiftDiamonds
        /\ giftsSent' = giftsSent + 1 /\ UNCHANGED tip
    BY <1>2 DEF SendGift
  <2>2. GiftDiamonds * (giftsSent + 1) = GiftDiamonds * giftsSent + GiftDiamonds
    BY <1>t, Times1
  <2>3. TipDiamonds * Cardinality(Settled) <= TipDiamonds * Cardinality(Settled')
    BY <1>m, <2>1
  <2> QED BY <1>t, <1>p, <2>1, <2>2, <2>3, SMT DEF DiamondInv
<1>3. ASSUME NEW w \in Instances, HandleTipPaymentSucceeded(w)
      PROVE  DiamondInv'
  <2> DEFINE t == job[w].tip
  <2>1. t \in Tips /\ intent[t] = "succeeded" /\ UNCHANGED <<intent, giftsSent>>
    BY <1>3 DEF HandleTipPaymentSucceeded, EventInv, Resolved, Sound, stripeVars
  <2>2. CASE tip[t] # "pending"
    BY <1>3, <1>1, <2>1, <2>2 DEF HandleTipPaymentSucceeded, tipVars
  <2>3. CASE tip[t] = "pending"
    <3>1. /\ tip' = [tip EXCEPT ![t] = "completed"]
          /\ diamonds' = diamonds + TipDiamonds /\ diamondLedger' = diamondLedger + TipDiamonds
      BY <1>3, <2>3 DEF HandleTipPaymentSucceeded
    <3>2. Settled' = Settled \cup {t} /\ t \notin Settled
      BY <1>t, <2>1, <2>3, <3>1 DEF Settled
    <3>3. Cardinality(Settled') = Cardinality(Settled) + 1
      BY <3>2, FS_AddElement
    <3>4. TipDiamonds * (Cardinality(Settled) + 1) = TipDiamonds * Cardinality(Settled) + TipDiamonds
      BY Times1
    <3> QED BY <1>t, <1>p, <2>1, <3>1, <3>3, <3>4, SMT DEF DiamondInv
  <2> QED BY <2>2, <2>3
<1>4. ASSUME NEW w \in Instances, HandleDisputeCreated(w)
      PROVE  DiamondInv'
  <2> DEFINE t == job[w].tip
  <2>1. UNCHANGED <<intent, giftsSent>>
    BY <1>4 DEF HandleDisputeCreated, stripeVars
  <2>2. CASE tip[t] = "disputed"
    BY <1>4, <1>1, <2>1, <2>2 DEF HandleDisputeCreated, tipVars
  <2>3. CASE tip[t] # "disputed"
    <3>1. /\ tip' = [tip EXCEPT ![t] = "disputed"]
          /\ diamonds' = IF diamonds >= TipDiamonds THEN diamonds - TipDiamonds ELSE diamonds
          /\ diamondLedger' = diamondLedger - TipDiamonds
      BY <1>4, <2>3 DEF HandleDisputeCreated
    <3>2. TipDiamonds * Cardinality(Settled) <= TipDiamonds * Cardinality(Settled')
      BY <1>t, <1>m, <3>1
    <3> QED BY <1>t, <1>p, <2>1, <3>1, <3>2, SMT DEF DiamondInv
  <2> QED BY <2>2, <2>3
<1>5. ASSUME NEW t \in Tips, CreateTip(t) \/ CreateTipInterrupted(t)
      PROVE  DiamondInv'
  BY <1>5, <1>1, <1>t DEF CreateTip, CreateTipInterrupted, NextTip
<1>6. ASSUME NEW w \in Instances, HandlePaymentIntentFailed(w)
      PROVE  DiamondInv'
  BY <1>6, <1>1, <1>t DEF HandlePaymentIntentFailed
<1>7. ASSUME NEW t \in Tips, ReconcileTip(t)
      PROVE  DiamondInv'
  BY <1>7, <1>1, <1>t DEF ReconcileTip
<1>8. CASE UNCHANGED <<diamonds, diamondLedger, giftsSent, tip>>
  BY <1>8, <1>1
<1>9. \/ UNCHANGED <<diamonds, diamondLedger, giftsSent, tip>>
      \/ SendGift
      \/ \E w \in Instances : \/ HandleTipPaymentSucceeded(w)
                              \/ HandlePaymentIntentFailed(w) \/ HandleDisputeCreated(w)
      \/ \E t \in Tips : CreateTip(t) \/ CreateTipInterrupted(t) \/ ReconcileTip(t)
  BY DEF PayNext, payVars, tipVars, Decline, Dispute, CreateCoinPurchaseIntent, Charge,
     PurchaseCoins, Receive, Handle, HandleCoinPurchaseSucceeded, Finish, HandlerFails,
     InstanceCrash, RedisLoss, ReconcileRead
<1> QED BY <1>2, <1>3, <1>4, <1>5, <1>6, <1>7, <1>8, <1>9

-----------------------------------------------------------------------------
\* The inductive invariant: what an execution holds is still true when it
\* writes, coins are counted against the mapping and against the completed rows,
\* diamonds against the settled tips.
THEOREM PayInvariant == PaySpec => []PayInv
<1>1. PayInv /\ [PayNext]_payVars => PayInv'
  BY PayTypeStep, PayEventStep, PayCoinStep, PayDiamondStep DEF PayInv
<1> QED BY <1>1, PayInitInv, PTL DEF PaySpec

\* The variables of Payments keep their types: no balance is ever negative.
THEOREM PayTypeCorrect == PaySpec => []PayTypeOK
BY PayInvariant, PTL DEF PayInv

\* Coins are credited once for every charge, and for charges only.
THEOREM CoinsOnce == PaySpec => []CoinsCreditedOnce
<1>1. PayInv => CoinsCreditedOnce
  BY DEF PayInv, CoinInv, CoinsCreditedOnce
<1> QED BY <1>1, PayInvariant, PTL

\* The audit of the purchase rows never falls short of the balance.
THEOREM LedgerCovers == PaySpec => []CoinLedgerCovers
<1>1. ASSUME PayInv PROVE CoinLedgerCovers
  <2>1. /\ coins \in Nat /\ giftsSent \in Nat /\ pendingRows \in Nat /\ completedRows \in Nat
        /\ coins + GiftCost * giftsSent <= CoinAmount * completedRows
    BY <1>1 DEF PayInv, PayTypeOK, CoinInv
  <2>2. /\ CoinAmount * completedRows <= CoinAmount * (pendingRows + completedRows)
        /\ CoinAmount * completedRows \in Nat
        /\ CoinAmount * (pendingRows + completedRows) \in Nat
    BY <2>1, Constants, TimesMonotone
  <2>3. GiftCost * giftsSent \in Nat
    BY <2>1, Constants, Times1
  <2> QED BY <2>1, <2>2, <2>3, SMT DEF CoinLedgerCovers
<1> QED BY <1>1, PayInvariant, PTL

\* No diamond row credits what the balance did not receive.
THEOREM LedgerBacked == PaySpec => []DiamondLedgerBacked
<1>1. PayInv => DiamondLedgerBacked
  BY DEF PayInv, DiamondInv, DiamondLedgerBacked
<1> QED BY <1>1, PayInvariant, PTL

\* Diamonds are backed by charged tips and paid gifts.
THEOREM DiamondsBacked == PaySpec => []DiamondsPaidFor
<1>1. ASSUME PayInv PROVE DiamondsPaidFor
  <2> DEFINE Charged == {t \in Tips : intent[t] = "succeeded"}
  <2>1. Settled \subseteq Charged /\ IsFiniteSet(Charged)
    BY PaymentsAssumption, FS_Subset DEF Settled
  <2>2. Cardinality(Settled) <= Cardinality(Charged) /\ Cardinality(Charged) \in Nat
        /\ Cardinality(Settled) \in Nat
    BY <2>1, FS_Subset, FS_CardinalityType
  <2> HIDE DEF Charged
  <2>3. /\ TipDiamonds * Cardinality(Settled) <= TipDiamonds * Cardinality(Charged)
        /\ TipDiamonds * Cardinality(Settled) \in Nat
        /\ TipDiamonds * Cardinality(Charged) \in Nat
    BY <2>2, Constants, TimesMonotone
  <2>4. GiftDiamonds * giftsSent \in Nat /\ diamonds \in Nat
    BY <1>1, Constants, Times1 DEF PayInv, PayTypeOK
  <2>5. diamonds <= GiftDiamonds * giftsSent + TipDiamonds * Cardinality(Settled)
    BY <1>1 DEF PayInv, DiamondInv
  <2>6. diamonds <= GiftDiamonds * giftsSent + TipDiamonds * Cardinality(Charged)
    BY <2>3, <2>4, <2>5, SMT
  <2> QED BY <2>6 DEF DiamondsPaidFor, Charged
<1> QED BY <1>1, PayInvariant, PTL

-----------------------------------------------------------------------------
(***************************************************************************)
(* Orders.                                                                 *)
(***************************************************************************)

PaidStatus == {"PAID", "SHIPPED", "DELIVERED", "REFUNDED"}
Charged(o) == charge[o] = "succeeded"

\* Whatever anybody may still act upon: the row, the status a request of the
\* seller has read, a paid event on its way and what Stripe said of an order.
ChargeInv ==
    /\ \A o \in Orders : order[o] \in PaidStatus => Charged(o)
    /\ \A o \in paidEvents : Charged(o)
    /\ \A r \in Requests : seller[r] # NoRequest =>
          /\ seller[r].to \in ValidTransitions[seller[r].from]
          /\ seller[r].from \in PaidStatus => Charged(seller[r].order)
    /\ answer # NoAnswer /\ answer.charged => Charged(answer.order)

OrdInv == OrdTypeOK /\ ChargeInv

\* Only a status that is reached by a payment leads to another one.
LEMMA PaidStays ==
  ASSUME NEW s \in OrderStatus, NEW to \in ValidTransitions[s], to \in PaidStatus
  PROVE  s \in PaidStatus
BY DEF ValidTransitions, OrderStatus, PaidStatus

-----------------------------------------------------------------------------
LEMMA OrdInitInv == OrdInit => OrdInv
BY OrdersAssumption
   DEF OrdInit, OrdInv, OrdTypeOK, ChargeInv, OrderStatus, PaidStatus, NoRequest, NoAnswer

LEMMA OrdTypeStep ==
  ASSUME OrdTypeOK, [OrdNext]_ordVars
  PROVE  OrdTypeOK'
<1> USE OrdersAssumption DEF OrdTypeOK
<1>1. ASSUME NEW o \in Orders, CheckStock(o) \/ PayOrder(o)
      PROVE  OrdTypeOK'
  BY <1>1 DEF CheckStock, PayOrder
<1>2. ASSUME NEW o \in Orders, PlaceOrder(o)
      PROVE  OrdTypeOK'
  <2>1. Quantity[o] \in Nat \ {0}
    OBVIOUS
  <2>2. stock' \in Nat /\ sales' \in Int
    BY <1>2, <2>1 DEF PlaceOrder
  <2> QED BY <1>2, <2>2 DEF PlaceOrder, OrderStatus
<1>3. ASSUME NEW o \in Orders, HandleMarketplaceOrderSucceeded(o)
      PROVE  OrdTypeOK'
  BY <1>3 DEF HandleMarketplaceOrderSucceeded, OrderStatus
<1>4. ASSUME NEW r \in Requests, NEW o \in Orders, NEW to \in OrderStatus,
             UpdateOrderRead(r, o, to)
      PROVE  OrdTypeOK'
  BY <1>4 DEF UpdateOrderRead
<1>5. ASSUME NEW r \in Requests, UpdateOrderWrite(r)
      PROVE  OrdTypeOK'
  <2>1. seller[r].order \in Orders /\ seller[r].to \in OrderStatus
    BY <1>5 DEF UpdateOrderWrite
  <2>2. Quantity[seller[r].order] \in Nat
    BY <2>1
  <2>3. stock' \in Nat /\ sales' \in Int
    BY <1>5, <2>2 DEF UpdateOrderWrite
  <2> QED BY <1>5, <2>1, <2>3 DEF UpdateOrderWrite
<1>6. CASE ReconcileOrdersRead
  BY <1>6 DEF ReconcileOrdersRead
<1>7. ASSUME NEW o \in Orders, ReconcileOrderAsk(o)
      PROVE  OrdTypeOK'
  <2>1. answer' \in {NoAnswer} \cup [order : Orders, charged : BOOLEAN]
    <3>1. (charge[o] = "succeeded") \in BOOLEAN
      OBVIOUS
    <3>2. [order |-> o, charged |-> charge[o] = "succeeded"]
            \in [order : Orders, charged : BOOLEAN]
      BY <3>1
    <3>3. \/ answer' = NoAnswer
          \/ answer' = [order |-> o, charged |-> charge[o] = "succeeded"]
      BY <1>7 DEF ReconcileOrderAsk
    <3> QED BY <3>2, <3>3
  <2> QED BY <1>7, <2>1 DEF ReconcileOrderAsk
<1>8. CASE ReconcileOrderWrite
  <2>1. answer.order \in Orders
    BY <1>8 DEF ReconcileOrderWrite
  <2>2. Quantity[answer.order] \in Nat
    BY <2>1
  <2> QED BY <1>8, <2>1, <2>2 DEF ReconcileOrderWrite, OrderStatus
<1>9. CASE UNCHANGED ordVars
  BY <1>9 DEF ordVars
<1> QED BY <1>1, <1>2, <1>3, <1>4, <1>5, <1>6, <1>7, <1>8, <1>9 DEF OrdNext

LEMMA OrdChargeStep ==
  ASSUME OrdInv, [OrdNext]_ordVars
  PROVE  ChargeInv'
<1> USE DEF OrdInv, OrdTypeOK, ChargeInv, Charged
<1>1. ASSUME NEW o \in Orders, CheckStock(o) \/ PayOrder(o)
      PROVE  ChargeInv'
  <2>1. charge[o] # "succeeded" /\ UNCHANGED <<order, seller, answer>>
    BY <1>1 DEF CheckStock, PayOrder
  <2>2. \A p \in Orders : Charged(p) => Charged(p)'
    BY <1>1 DEF CheckStock, PayOrder
  <2>3. \A p \in paidEvents' : Charged(p)'
    BY <1>1, <2>2 DEF CheckStock, PayOrder
  <2> QED BY <2>1, <2>2, <2>3
<1>2. ASSUME NEW o \in Orders, PlaceOrder(o)
      PROVE  ChargeInv'
  <2>1. charge[o] = "open" /\ UNCHANGED <<paidEvents, seller, answer>>
    BY <1>2 DEF PlaceOrder
  <2>2. \A p \in Orders : Charged(p) => Charged(p)'
    BY <1>2, <2>1 DEF PlaceOrder
  <2>3. \A p \in Orders : order'[p] \in PaidStatus => order[p] \in PaidStatus
    BY <1>2 DEF PlaceOrder, PaidStatus
  <2> QED BY <2>1, <2>2, <2>3
<1>3. ASSUME NEW o \in Orders, HandleMarketplaceOrderSucceeded(o)
      PROVE  ChargeInv'
  BY <1>3 DEF HandleMarketplaceOrderSucceeded
<1>4. ASSUME NEW r \in Requests, NEW o \in Orders, NEW to \in OrderStatus,
             UpdateOrderRead(r, o, to)
      PROVE  ChargeInv'
  <2>1. /\ seller' = [seller EXCEPT ![r] = [order |-> o, from |-> order[o], to |-> to]]
        /\ to \in ValidTransitions[order[o]]
        /\ UNCHANGED <<order, charge, paidEvents, answer>>
    BY <1>4 DEF UpdateOrderRead
  <2> QED BY <2>1
<1>5. ASSUME NEW r \in Requests, UpdateOrderWrite(r)
      PROVE  ChargeInv'
  <2>1. /\ seller[r] # NoRequest /\ seller' = [seller EXCEPT ![r] = NoRequest]
        /\ order' = [order EXCEPT ![seller[r].order] = seller[r].to]
        /\ UNCHANGED <<charge, paidEvents, answer>>
    BY <1>5 DEF UpdateOrderWrite
  <2>2. /\ seller[r].from \in OrderStatus /\ seller[r].order \in Orders
        /\ seller[r].to \in ValidTransitions[seller[r].from]
    BY <2>1
  <2>3. seller[r].to \in PaidStatus => Charged(seller[r].order)
    BY <2>1, <2>2, PaidStays
  <2> QED BY <2>1, <2>2, <2>3
<1>6. CASE ReconcileOrdersRead
  BY <1>6 DEF ReconcileOrdersRead
<1>7. ASSUME NEW o \in Orders, ReconcileOrderAsk(o)
      PROVE  ChargeInv'
  <2>1. UNCHANGED <<order, charge, paidEvents, seller>>
    BY <1>7 DEF ReconcileOrderAsk
  <2>2. CASE answer' = NoAnswer
    BY <2>1, <2>2
  <2>3. CASE answer' = [order |-> o, charged |-> charge[o] = "succeeded"]
    <3>1. answer'.order = o /\ (answer'.charged => Charged(o))
      BY <2>3
    <3> QED BY <2>1, <3>1
  <2> QED BY <1>7, <2>2, <2>3 DEF ReconcileOrderAsk
<1>8. CASE ReconcileOrderWrite
  BY <1>8 DEF ReconcileOrderWrite, PaidStatus, NoAnswer
<1>9. CASE UNCHANGED ordVars
  BY <1>9 DEF ordVars
<1> QED BY <1>1, <1>2, <1>3, <1>4, <1>5, <1>6, <1>7, <1>8, <1>9 DEF OrdNext

-----------------------------------------------------------------------------
\* The inductive invariant: nothing that is still to be written relies on a
\* charge that did not happen.
THEOREM OrdInvariant == OrdSpec => []OrdInv
<1>1. OrdInv /\ [OrdNext]_ordVars => OrdInv'
  BY OrdTypeStep, OrdChargeStep DEF OrdInv
<1> QED BY <1>1, OrdInitInv, PTL DEF OrdSpec

\* The variables of Orders keep their types; the stock is never negative.
THEOREM OrdTypeCorrect == OrdSpec => []OrdTypeOK
BY OrdInvariant, PTL DEF OrdInv

\* What is shipped, delivered or refunded was charged, whatever the requests of
\* the seller, the webhooks and the reconciliation read and write in between.
THEOREM OnlyChargedShips == OrdSpec => []ShippedWasCharged
<1>1. OrdInv => ShippedWasCharged
  BY DEF OrdInv, ChargeInv, ShippedWasCharged, PaidStatus, Charged
<1> QED BY <1>1, OrdInvariant, PTL

-----------------------------------------------------------------------------
UnitsIn(os) == UNION {UnitsOf(o) : o \in os}

\* What the sales count lacks is in stock: only the reconciliation gives units
\* back without taking them off the count.
SalesInv == stock + sales >= InitialStock

UnitsInv == OrdTypeOK /\ SalesInv /\ UnitsNeverLeak

LEMMA UnitsOfOne ==
  ASSUME NEW o \in Orders
  PROVE  IsFiniteSet(UnitsOf(o)) /\ Cardinality(UnitsOf(o)) = Quantity[o]
<1>1. Quantity[o] \in Nat \ {0}
  BY OrdersAssumption
<1>2. IsFiniteSet(1..Quantity[o]) /\ Cardinality(1..Quantity[o]) = Quantity[o]
  BY <1>1, FS_Interval
<1>3. IsFiniteSet({o}) /\ Cardinality({o}) = 1
  BY FS_Singleton
<1>4. /\ IsFiniteSet({o} \X (1..Quantity[o]))
      /\ Cardinality({o} \X (1..Quantity[o])) = Cardinality({o}) * Cardinality(1..Quantity[o])
  BY <1>2, <1>3, FS_Product
<1>5. 1 * Quantity[o] = Quantity[o]
  BY <1>1
<1> QED BY <1>2, <1>3, <1>4, <1>5 DEF UnitsOf

LEMMA UnitsFinite ==
  ASSUME NEW os \in SUBSET Orders
  PROVE  IsFiniteSet(UnitsIn(os)) /\ Cardinality(UnitsIn(os)) \in Nat
<1> DEFINE sets == {UnitsOf(o) : o \in os}
           f == [o \in os |-> UnitsOf(o)]
<1>1. IsFiniteSet(os)
  BY OrdersAssumption, FS_Subset
<1>2. f \in Surjection(os, sets)
  BY DEF Surjection
<1>3. IsFiniteSet(sets)
  BY <1>1, <1>2, FS_Surjection
<1>4. \A T \in sets : IsFiniteSet(T)
  BY UnitsOfOne
<1> QED BY <1>3, <1>4, FS_UNION, FS_CardinalityType DEF UnitsIn

LEMMA UnitsGrow ==
  ASSUME NEW os \in SUBSET Orders, NEW more \in SUBSET Orders, os \subseteq more
  PROVE  Cardinality(UnitsIn(os)) <= Cardinality(UnitsIn(more))
<1>1. UnitsIn(os) \subseteq UnitsIn(more)
  BY DEF UnitsIn
<1> QED BY <1>1, UnitsFinite, FS_Subset

\* An order that is added adds its quantity.
LEMMA UnitsAdd ==
  ASSUME NEW os \in SUBSET Orders, NEW o \in Orders \ os
  PROVE  Cardinality(UnitsIn(os \cup {o})) = Cardinality(UnitsIn(os)) + Quantity[o]
<1>1. UnitsIn(os \cup {o}) = UnitsIn(os) \cup UnitsOf(o)
  BY DEF UnitsIn
<1>2. UnitsIn(os) \cap UnitsOf(o) = {}
  BY DEF UnitsIn, UnitsOf
<1>3. Cardinality(UnitsIn(os) \cup UnitsOf(o))
        = Cardinality(UnitsIn(os)) + Cardinality(UnitsOf(o)) - Cardinality({})
  BY <1>2, UnitsFinite, UnitsOfOne, FS_Union
<1>4. Cardinality({}) = 0 /\ Quantity[o] \in Nat /\ Cardinality(UnitsIn(os)) \in Nat
  BY FS_EmptySet, OrdersAssumption, UnitsFinite
<1>5. Cardinality(UnitsOf(o)) = Quantity[o]
  BY UnitsOfOne
<1>6. Cardinality(UnitsIn(os)) + Quantity[o] - 0 = Cardinality(UnitsIn(os)) + Quantity[o]
  BY <1>4
<1> QED BY <1>1, <1>3, <1>4, <1>5, <1>6

\* Giving back the quantity of an order makes up for the order.
LEMMA UnitsRemove ==
  ASSUME NEW os \in SUBSET Orders, NEW less \in SUBSET Orders, NEW o \in Orders,
         os \subseteq less \cup {o}
  PROVE  Cardinality(UnitsIn(os)) <= Cardinality(UnitsIn(less)) + Quantity[o]
<1>1. Cardinality(UnitsIn(os)) <= Cardinality(UnitsIn(less \cup {o}))
  BY UnitsGrow
<1>2. Quantity[o] \in Nat /\ Cardinality(UnitsIn(os)) \in Nat
      /\ Cardinality(UnitsIn(less)) \in Nat /\ Cardinality(UnitsIn(less \cup {o})) \in Nat
  BY OrdersAssumption, UnitsFinite
<1>3. CASE o \in less
  <2>1. less \cup {o} = less
    BY <1>3
  <2>2. Cardinality(UnitsIn(os)) <= Cardinality(UnitsIn(less))
    BY <1>1, <2>1
  <2> QED BY <1>2, <2>2, SMT
<1>4. CASE o \notin less
  BY <1>1, <1>2, <1>4, UnitsAdd
<1> QED BY <1>3, <1>4

LEMMA ActiveUnitsIn ==
  /\ ActiveUnits = Cardinality(UnitsIn(Active)) /\ Active \subseteq Orders
  /\ ActiveUnits \in Nat
BY UnitsFinite DEF ActiveUnits, UnitsIn, Active

LEMMA OrdSalesStep ==
  ASSUME OrdTypeOK, SalesInv, [OrdNext]_ordVars
  PROVE  SalesInv'
<1> USE OrdersAssumption DEF OrdTypeOK, SalesInv
<1>1. ASSUME NEW o \in Orders, PlaceOrder(o)
      PROVE  SalesInv'
  BY <1>1 DEF PlaceOrder
<1>2. ASSUME NEW r \in Requests, UpdateOrderWrite(r)
      PROVE  SalesInv'
  <2>1. Quantity[seller[r].order] \in Nat
    BY <1>2 DEF UpdateOrderWrite
  <2> QED BY <1>2, <2>1 DEF UpdateOrderWrite
<1>3. CASE ReconcileOrderWrite
  <2>1. Quantity[answer.order] \in Nat
    BY <1>3 DEF ReconcileOrderWrite
  <2> QED BY <1>3, <2>1 DEF ReconcileOrderWrite
<1>4. CASE UNCHANGED <<stock, sales>>
  BY <1>4
<1> QED BY <1>1, <1>2, <1>3, <1>4
        DEF OrdNext, ordVars, CheckStock, PayOrder, HandleMarketplaceOrderSucceeded,
            UpdateOrderRead, ReconcileOrdersRead, ReconcileOrderAsk

LEMMA OrdUnitsStep ==
  ASSUME OrdTypeOK, SalesInv, UnitsNeverLeak, [OrdNext]_ordVars
  PROVE  UnitsNeverLeak'
<1> USE OrdersAssumption DEF OrdTypeOK, UnitsNeverLeak
<1>0. /\ ActiveUnits = Cardinality(UnitsIn(Active)) /\ Active \subseteq Orders
      /\ ActiveUnits' = Cardinality(UnitsIn(Active')) /\ Active' \subseteq Orders
      /\ ActiveUnits \in Nat /\ ActiveUnits' \in Nat
      /\ stock' \in Nat
  <2>1. OrdTypeOK'
    BY OrdTypeStep
  <2> QED BY <2>1, ActiveUnitsIn, UnitsFinite DEF ActiveUnits, Active, UnitsIn, UnitsOf
<1>1. ASSUME NEW o \in Orders, PlaceOrder(o)
      PROVE  UnitsNeverLeak'
  <2>1. CASE stock >= Quantity[o]
    <3>1. Active' = Active \cup {o} /\ o \notin Active
      BY <1>1, <2>1 DEF PlaceOrder, Active
    <3>2. ActiveUnits' = ActiveUnits + Quantity[o]
      BY <1>0, <3>1, UnitsAdd
    <3> QED BY <1>0, <1>1, <2>1, <3>2 DEF PlaceOrder
  <2>2. CASE ~(stock >= Quantity[o])
    BY <1>1, <2>2 DEF PlaceOrder, ActiveUnits, Active
  <2> QED BY <2>1, <2>2
<1>2. ASSUME stock' = stock, Active \subseteq Active'
      PROVE  UnitsNeverLeak'
  BY <1>0, <1>2, UnitsGrow
<1>3. ASSUME NEW o \in Orders, Active \subseteq Active' \cup {o}, stock' = stock + Quantity[o]
      PROVE  UnitsNeverLeak'
  <2>1. ActiveUnits <= ActiveUnits' + Quantity[o]
    BY <1>0, <1>3, UnitsRemove
  <2> QED BY <1>0, <1>3, <2>1
<1>4. ASSUME NEW r \in Requests, UpdateOrderWrite(r)
      PROVE  UnitsNeverLeak'
  <2> DEFINE o == seller[r].order
  <2>1. o \in Orders /\ order' = [order EXCEPT ![o] = seller[r].to]
    BY <1>4 DEF UpdateOrderWrite
  <2>2. Active \subseteq Active' \cup {o}
    BY <2>1 DEF Active
  <2>3. CASE seller[r].to \in {"CANCELLED", "REFUNDED"} /\ sales > 0
    BY <1>3, <1>4, <2>1, <2>2, <2>3 DEF UpdateOrderWrite
  <2>4. CASE seller[r].to \in {"CANCELLED", "REFUNDED"} /\ ~(sales > 0)
    <3>1. stock' = stock /\ stock >= InitialStock
      BY <1>4, <2>4 DEF UpdateOrderWrite, SalesInv
    <3> QED BY <1>0, <3>1
  <2>5. CASE seller[r].to \notin {"CANCELLED", "REFUNDED"}
    <3>1. seller[r].to \in {"PENDING", "PAID", "SHIPPED", "DELIVERED"}
      BY <1>4, <2>5 DEF UpdateOrderWrite, OrderStatus
    <3>2. Active \subseteq Active' /\ stock' = stock
      BY <1>4, <2>1, <2>5, <3>1 DEF UpdateOrderWrite, Active
    <3> QED BY <1>2, <3>2
  <2> QED BY <2>3, <2>4, <2>5
<1>5. CASE ReconcileOrderWrite
  <2>1. answer.order \in Orders
    BY <1>5 DEF ReconcileOrderWrite
  <2>2. CASE answer.charged
    BY <1>2, <1>5, <2>1, <2>2 DEF ReconcileOrderWrite, Active
  <2>3. CASE ~answer.charged
    BY <1>3, <1>5, <2>1, <2>3 DEF ReconcileOrderWrite, Active
  <2> QED BY <2>2, <2>3
<1>6. ASSUME NEW o \in Orders, HandleMarketplaceOrderSucceeded(o)
      PROVE  UnitsNeverLeak'
  BY <1>2, <1>6 DEF HandleMarketplaceOrderSucceeded, Active
<1>7. CASE UNCHANGED <<order, stock>>
  BY <1>2, <1>7 DEF Active
<1> QED BY <1>1, <1>4, <1>5, <1>6, <1>7
        DEF OrdNext, ordVars, CheckStock, PayOrder, UpdateOrderRead, ReconcileOrdersRead,
            ReconcileOrderAsk

\* No unit gets lost, though the seller's cancellation gives units back only
\* while the sales count is positive: when it is not, all of them are in stock.
THEOREM NoUnitLost == OrdSpec => []UnitsNeverLeak
<1>1. OrdInit => UnitsInv
  <2> SUFFICES ASSUME OrdInit PROVE UnitsInv
    OBVIOUS
  <2>1. OrdTypeOK
    BY OrdInitInv DEF OrdInv
  <2>2. SalesInv /\ UnitsNeverLeak
    BY OrdersAssumption, ActiveUnitsIn DEF OrdInit, SalesInv, UnitsNeverLeak
  <2> QED BY <2>1, <2>2 DEF UnitsInv
<1>2. UnitsInv /\ [OrdNext]_ordVars => UnitsInv'
  BY OrdTypeStep, OrdSalesStep, OrdUnitsStep DEF UnitsInv
<1>3. UnitsInv => UnitsNeverLeak
  BY DEF UnitsInv
<1> QED BY <1>1, <1>2, <1>3, PTL DEF OrdSpec
=============================================================================
