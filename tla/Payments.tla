------------------------------ MODULE Payments ------------------------------
(***************************************************************************)
(* Coins, diamonds and tips of the API server, and the Stripe webhook that *)
(* moves them: modules/payments, modules/gifts and the nightly             *)
(* reconciliation of tips.                                                 *)
(*                                                                         *)
(* One user (the sender) buys coins, sends gifts and tips; another user    *)
(* (the receiver) earns diamonds.  A tip is identified with the            *)
(* PaymentIntent created for it.  Stripe is the environment: it charges or *)
(* declines an intent, and delivers every event again until it is          *)
(* answered with a 2xx, in any order and to any instance of the server.    *)
(***************************************************************************)
EXTENDS Integers, FiniteSets

CONSTANTS Tips,           \* tips, numbered in the order they are created
          Purchases,      \* PaymentIntents of coin purchases, of one amount
          Instances,      \* concurrent executions of the webhook handler
          CoinAmount,     \* coins bought by one purchase
          GiftCost,       \* coins one gift costs
          GiftDiamonds,   \* diamonds one gift earns
          TipDiamonds,    \* diamonds one tip earns
          MaxOpen,        \* bound: tips and purchases ever started
          MaxAdverse,     \* bound: declined and disputed charges
          MaxRows,        \* bound: pending purchase rows ever created
          MaxGifts,       \* bound: gifts
          MaxFaults       \* bound: crashes, transient errors and Redis losses

ASSUME PaymentsAssumption ==
    /\ Tips \subseteq Nat \ {0} /\ IsFiniteSet(Tips)
    /\ IsFiniteSet(Purchases) /\ Purchases \cap Nat = {}
    /\ {CoinAmount, GiftCost, GiftDiamonds, TipDiamonds} \subseteq Nat
    /\ {MaxOpen, MaxAdverse, MaxRows, MaxGifts, MaxFaults} \subseteq Nat

Intents == Tips \cup Purchases
Events == [kind : {"succeeded", "payment_failed", "dispute"},
           of   : Intents,
           n    : 0..MaxAdverse]
Event(k, i, m) == [kind |-> k, of |-> i, n |-> m]

NoTip == 0
IdleJob == [pc |-> "idle", ev |-> Event("succeeded", NoTip, 0), tip |-> NoTip]

VARIABLES
    intent,       \* Stripe: "none", "open", "succeeded"
    outbox,       \* Stripe: events not yet answered with a 2xx
    adverse,      \* Stripe: declined and disputed charges so far
    claims,       \* Redis: the stripe:event:<id> keys
    tipMap,       \* Redis: the payment:intent:<id> keys (tip of an intent)
    processed,    \* table processedWebhookEvent
    mapping,      \* table paymentMapping: the coin purchases already credited
    tip,          \* table tip: the status of each tip
    coins,        \* coinBalance.coins of the sender
    diamonds,     \* coinBalance.diamonds of the receiver
    pendingRows,  \* coinTransaction: PURCHASE rows "pending payment"
    completedRows,\* coinTransaction: PURCHASE rows "completed"
    giftsSent,    \* giftRecord: gifts the sender paid for
    diamondLedger,\* coinTransaction: sum of the receiver's diamond rows
    job,          \* the webhook executions in flight
    stuck,        \* reconcileTips: the tips it read as stuck, not yet updated
    faults,       \* crashes, transient errors and Redis losses so far
    struck        \* history: the events of which an execution failed or died

stripeVars == <<intent, outbox, adverse>>
redisVars  == <<claims, tipMap>>
coinVars   == <<mapping, coins, pendingRows, completedRows>>
tipVars    == <<tip, diamonds, diamondLedger>>
payVars    == <<stripeVars, redisVars, processed, coinVars, tipVars,
                giftsSent, job, stuck, faults, struck>>

TipStatus == {"none", "pending", "completed", "failed", "disputed"}

PayTypeOK ==
    /\ intent \in [Intents -> {"none", "open", "succeeded"}]
    /\ outbox \subseteq Events /\ claims \subseteq Events
    /\ processed \subseteq Events /\ struck \subseteq Events
    /\ adverse \in Nat /\ faults \in Nat
    /\ tipMap \subseteq Tips /\ stuck \subseteq Tips
    /\ mapping \subseteq Purchases
    /\ tip \in [Tips -> TipStatus]
    /\ coins \in Nat /\ diamonds \in Nat /\ giftsSent \in Nat
    /\ pendingRows \in Nat /\ completedRows \in Nat
    /\ diamondLedger \in Int
    /\ job \in [Instances -> [pc  : {"idle", "resolved", "committed"},
                              ev  : Events \cup {IdleJob.ev},
                              tip : Tips \cup {NoTip}]]

PayInit ==
    /\ intent = [i \in Intents |-> "none"]
    /\ outbox = {} /\ claims = {} /\ processed = {} /\ struck = {}
    /\ adverse = 0 /\ faults = 0
    /\ tipMap = {} /\ stuck = {} /\ mapping = {}
    /\ tip = [t \in Tips |-> "none"]
    /\ coins = 0 /\ diamonds = 0 /\ giftsSent = 0
    /\ pendingRows = 0 /\ completedRows = 0
    /\ diamondLedger = 0
    /\ job = [w \in Instances |-> IdleJob]

-----------------------------------------------------------------------------
(***************************************************************************)
(* Requests of the sender, and Stripe.                                     *)
(***************************************************************************)
Started == {t \in Tips : tip[t] # "none"} \cup {p \in Purchases : intent[p] # "none"}
MayStart == Cardinality(Started) < MaxOpen

NextTip(t) ==
    /\ MayStart
    /\ tip[t] = "none" /\ \A s \in Tips : s < t => tip[s] # "none"

\* createPaymentIntent: the intent, the pending tip and both mappings.  The
\* client can only pay once it has the answer, after the last of the writes.
CreateTip(t) ==
    /\ NextTip(t)
    /\ intent' = [intent EXCEPT ![t] = "open"]
    /\ tip' = [tip EXCEPT ![t] = "pending"]
    /\ tipMap' = tipMap \cup {t}
    /\ UNCHANGED <<outbox, adverse, claims, processed, coinVars, diamonds,
                   diamondLedger, giftsSent, job, stuck, faults, struck>>

\* createPaymentIntent, interrupted after the tip and before the mappings: a
\* pending tip whose intent nobody can pay.
CreateTipInterrupted(t) ==
    /\ faults < MaxFaults
    /\ NextTip(t)
    /\ faults' = faults + 1
    /\ tip' = [tip EXCEPT ![t] = "pending"]
    /\ UNCHANGED <<stripeVars, redisVars, processed, coinVars, diamonds,
                   diamondLedger, giftsSent, job, stuck, struck>>

\* createCoinPurchaseIntent: nothing is written to the database.
CreateCoinPurchaseIntent(p) ==
    /\ MayStart /\ intent[p] = "none"
    /\ intent' = [intent EXCEPT ![p] = "open"]
    /\ UNCHANGED <<outbox, adverse, redisVars, processed, coinVars, tipVars,
                   giftsSent, job, stuck, faults, struck>>

\* GiftsService.purchaseCoins: a pending row, not tied to any intent.
PurchaseCoins ==
    /\ pendingRows + completedRows < MaxRows
    /\ pendingRows' = pendingRows + 1
    /\ UNCHANGED <<stripeVars, redisVars, processed, mapping, coins,
                   completedRows, tipVars, giftsSent, job, stuck, faults, struck>>

\* Mutant: the balance is not checked.
SendGiftUnchecked ==
    /\ giftsSent < MaxGifts
    /\ coins' = coins - GiftCost
    /\ diamonds' = diamonds + GiftDiamonds
    /\ diamondLedger' = diamondLedger + GiftDiamonds
    /\ giftsSent' = giftsSent + 1
    /\ UNCHANGED <<stripeVars, redisVars, processed, mapping, pendingRows,
                   completedRows, tip, job, stuck, faults, struck>>

\* GiftsService.sendGift: one transaction, refused when the coins do not suffice.
SendGift ==
    /\ giftsSent < MaxGifts
    /\ coins >= GiftCost
    /\ coins' = coins - GiftCost
    /\ diamonds' = diamonds + GiftDiamonds
    /\ diamondLedger' = diamondLedger + GiftDiamonds
    /\ giftsSent' = giftsSent + 1
    /\ UNCHANGED <<stripeVars, redisVars, processed, mapping, pendingRows,
                   completedRows, tip, job, stuck, faults, struck>>

\* Stripe charges the card of an open intent.
Charge(i) ==
    /\ intent[i] = "open"
    /\ intent' = [intent EXCEPT ![i] = "succeeded"]
    /\ outbox' = outbox \cup {Event("succeeded", i, 0)}
    /\ UNCHANGED <<adverse, redisVars, processed, coinVars, tipVars,
                   giftsSent, job, stuck, faults, struck>>

\* Stripe declines one attempt; the intent stays open and may be paid later.
Decline(t) ==
    /\ intent[t] = "open" /\ adverse < MaxAdverse
    /\ adverse' = adverse + 1
    /\ outbox' = outbox \cup {Event("payment_failed", t, adverse')}
    /\ UNCHANGED <<intent, redisVars, processed, coinVars, tipVars,
                   giftsSent, job, stuck, faults, struck>>

\* The card holder disputes a charge.
Dispute(t) ==
    /\ intent[t] = "succeeded" /\ adverse < MaxAdverse
    /\ adverse' = adverse + 1
    /\ outbox' = outbox \cup {Event("dispute", t, adverse')}
    /\ UNCHANGED <<intent, redisVars, processed, coinVars, tipVars,
                   giftsSent, job, stuck, faults, struck>>

-----------------------------------------------------------------------------
(***************************************************************************)
(* StripeWebhookController.handleWebhook, one execution per instance.      *)
(***************************************************************************)
\* The newest pending tip of the sender: findFirst, orderBy createdAt desc.
PendingTips == {t \in Tips : tip[t] = "pending"}
Newest(t) == t \in PendingTips /\ \A s \in PendingTips : s <= t
NewestPending == IF \E t \in Tips : Newest(t) THEN CHOOSE t \in Tips : Newest(t)
                 ELSE NoTip


\* The tip a handler resolves before it writes.  The handlers of a success and
\* of a dispute fall back to paymentMapping, which always knows the intent; the
\* handler of a failure falls back to the newest pending tip of the sender.
ResolvedTip(e) ==
    IF e.of \in Purchases THEN NoTip
    ELSE IF e.kind = "payment_failed" /\ e.of \notin tipMap THEN NewestPending
    ELSE e.of

\* The SET NX claim, the lookup of the persistent record and of the tip.  A
\* duplicate is answered with 200, whoever holds the claim and whatever became
\* of it.
Receive(w, e) ==
    /\ job[w].pc = "idle"
    /\ e \in outbox
    /\ claims' = claims \cup {e}
    /\ IF e \in claims \cup processed
       THEN outbox' = outbox \ {e} /\ UNCHANGED job
       ELSE /\ job' = [job EXCEPT ![w] = [pc |-> "resolved", ev |-> e,
                                         tip |-> ResolvedTip(e)]]
            /\ UNCHANGED outbox
    /\ UNCHANGED <<intent, adverse, tipMap, processed, coinVars, tipVars,
                   giftsSent, stuck, faults, struck>>

\* Mutant: the unique mapping of the intent does not stop a second credit.
HandleCoinPurchaseSucceededAgain(w) ==
    LET e == job[w].ev IN
    /\ job[w].pc = "resolved" /\ e.kind = "succeeded" /\ e.of \in Purchases
    /\ job' = [job EXCEPT ![w].pc = "committed"]
    /\ mapping' = mapping \cup {e.of}
    /\ coins' = coins + CoinAmount
    /\ pendingRows' = 0
    /\ completedRows' = completedRows + (IF pendingRows = 0 THEN 1 ELSE pendingRows)
    /\ UNCHANGED <<stripeVars, redisVars, processed, tipVars, giftsSent, stuck, faults, struck>>


\* Mutant: a payment without a pending row leaves no row.
HandleCoinPurchaseSucceededRowless(w) ==
    LET e == job[w].ev IN
    /\ job[w].pc = "resolved" /\ e.kind = "succeeded" /\ e.of \in Purchases
    /\ job' = [job EXCEPT ![w].pc = "committed"]
    /\ IF e.of \in mapping
       THEN UNCHANGED coinVars
       ELSE /\ mapping' = mapping \cup {e.of}
            /\ coins' = coins + CoinAmount
            /\ pendingRows' = 0
            /\ completedRows' = completedRows + pendingRows
    /\ UNCHANGED <<stripeVars, redisVars, processed, tipVars, giftsSent, stuck, faults, struck>>

\* Mutant: only a purchase with a pending row is credited.
HandleCoinPurchaseSucceededByRow(w) ==
    LET e == job[w].ev IN
    /\ job[w].pc = "resolved" /\ e.kind = "succeeded" /\ e.of \in Purchases
    /\ job' = [job EXCEPT ![w].pc = "committed"]
    /\ IF e.of \in mapping \/ pendingRows = 0
       THEN UNCHANGED coinVars
       ELSE /\ mapping' = mapping \cup {e.of}
            /\ coins' = coins + CoinAmount
            /\ pendingRows' = 0
            /\ completedRows' = completedRows + (IF pendingRows = 0 THEN 1 ELSE pendingRows)
    /\ UNCHANGED <<stripeVars, redisVars, processed, tipVars, giftsSent, stuck, faults, struck>>

\* handleCoinPurchaseSucceeded: claim paymentMapping, credit, close every
\* pending row of the amount or write a completed one.
HandleCoinPurchaseSucceeded(w) ==
    LET e == job[w].ev IN
    /\ job[w].pc = "resolved" /\ e.kind = "succeeded" /\ e.of \in Purchases
    /\ job' = [job EXCEPT ![w].pc = "committed"]
    /\ IF e.of \in mapping
       THEN UNCHANGED coinVars
       ELSE /\ mapping' = mapping \cup {e.of}
            /\ coins' = coins + CoinAmount
            /\ pendingRows' = 0
            /\ completedRows' = completedRows + (IF pendingRows = 0 THEN 1 ELSE pendingRows)
    /\ UNCHANGED <<stripeVars, redisVars, processed, tipVars, giftsSent, stuck, faults, struck>>

\* Mutant: the status of the tip is not part of the update.
HandleTipPaymentSucceededTwice(w) ==
    LET e == job[w].ev
        t == job[w].tip
    IN
    /\ job[w].pc = "resolved" /\ e.kind = "succeeded" /\ e.of \in Tips
    /\ job' = [job EXCEPT ![w].pc = "committed"]
    /\ tipMap' = tipMap \ {e.of}
    /\ IF tip[t] # "none"
       THEN /\ tip' = [tip EXCEPT ![t] = "completed"]
            /\ diamonds' = diamonds + TipDiamonds
            /\ diamondLedger' = diamondLedger + TipDiamonds
       ELSE UNCHANGED tipVars
    /\ UNCHANGED <<stripeVars, claims, processed, coinVars, giftsSent, stuck, faults, struck>>

\* handleTipPaymentSucceeded: pending to completed, and the diamonds.
HandleTipPaymentSucceeded(w) ==
    LET e == job[w].ev
        t == job[w].tip
    IN
    /\ job[w].pc = "resolved" /\ e.kind = "succeeded" /\ e.of \in Tips
    /\ job' = [job EXCEPT ![w].pc = "committed"]
    /\ tipMap' = tipMap \ {e.of}
    /\ IF tip[t] = "pending"
       THEN /\ tip' = [tip EXCEPT ![t] = "completed"]
            /\ diamonds' = diamonds + TipDiamonds
            /\ diamondLedger' = diamondLedger + TipDiamonds
       ELSE UNCHANGED tipVars
    /\ UNCHANGED <<stripeVars, claims, processed, coinVars, giftsSent, stuck, faults, struck>>

\* handlePaymentIntentFailed: the resolved tip is failed, whatever it was.
HandlePaymentIntentFailed(w) ==
    LET e == job[w].ev
        t == job[w].tip
    IN
    /\ job[w].pc = "resolved" /\ e.kind = "payment_failed"
    /\ job' = [job EXCEPT ![w].pc = "committed"]
    /\ IF t = NoTip
       THEN UNCHANGED <<tip, tipMap>>
       ELSE /\ tip' = [tip EXCEPT ![t] = "failed"]
            /\ tipMap' = tipMap \ {e.of}
    /\ UNCHANGED <<stripeVars, claims, processed, coinVars, diamonds,
                   diamondLedger, giftsSent, stuck, faults, struck>>

\* Mutant: the deduction leaves no ledger row.
HandleDisputeCreatedRowless(w) ==
    LET t == job[w].tip IN
    /\ job[w].pc = "resolved" /\ job[w].ev.kind = "dispute"
    /\ job' = [job EXCEPT ![w].pc = "committed"]
    /\ IF tip[t] = "disputed"
       THEN UNCHANGED tipVars
       ELSE /\ tip' = [tip EXCEPT ![t] = "disputed"]
            /\ diamonds' = IF diamonds >= TipDiamonds THEN diamonds - TipDiamonds ELSE diamonds
            /\ UNCHANGED diamondLedger
    /\ UNCHANGED <<stripeVars, redisVars, processed, coinVars, giftsSent, stuck, faults, struck>>

\* handleDisputeCreated: the status, the diamonds if there are enough, and the
\* ledger row in any case.
HandleDisputeCreated(w) ==
    LET t == job[w].tip IN
    /\ job[w].pc = "resolved" /\ job[w].ev.kind = "dispute"
    /\ job' = [job EXCEPT ![w].pc = "committed"]
    /\ IF tip[t] = "disputed"
       THEN UNCHANGED tipVars
       ELSE /\ tip' = [tip EXCEPT ![t] = "disputed"]
            /\ diamonds' = IF diamonds >= TipDiamonds THEN diamonds - TipDiamonds ELSE diamonds
            /\ diamondLedger' = diamondLedger - TipDiamonds
    /\ UNCHANGED <<stripeVars, redisVars, processed, coinVars, giftsSent, stuck, faults, struck>>

Handle(w) ==
    \/ HandleCoinPurchaseSucceeded(w)
    \/ HandleTipPaymentSucceeded(w)
    \/ HandlePaymentIntentFailed(w)
    \/ HandleDisputeCreated(w)

\* The persistent record is written and the event answered.
Finish(w) ==
    /\ job[w].pc = "committed"
    /\ processed' = processed \cup {job[w].ev}
    /\ outbox' = outbox \ {job[w].ev}
    /\ job' = [job EXCEPT ![w] = IdleJob]
    /\ UNCHANGED <<intent, adverse, redisVars, coinVars, tipVars, giftsSent, stuck, faults, struck>>

-----------------------------------------------------------------------------
(***************************************************************************)
(* Faults.                                                                 *)
(***************************************************************************)
\* A transient error, in the transaction, which rolls back, or after its
\* commit: the claim is released, the answer is an error and Stripe keeps the
\* event.
HandlerFails(w) ==
    /\ faults < MaxFaults /\ job[w].pc # "idle"
    /\ faults' = faults + 1
    /\ claims' = claims \ {job[w].ev}
    /\ struck' = struck \cup {job[w].ev}
    /\ job' = [job EXCEPT ![w] = IdleJob]
    /\ UNCHANGED <<stripeVars, tipMap, processed, coinVars, tipVars, giftsSent, stuck>>

\* The instance dies: nothing releases the claim.
InstanceCrash(w) ==
    /\ faults < MaxFaults /\ job[w].pc # "idle"
    /\ faults' = faults + 1
    /\ struck' = struck \cup {job[w].ev}
    /\ job' = [job EXCEPT ![w] = IdleJob]
    /\ UNCHANGED <<stripeVars, redisVars, processed, coinVars, tipVars, giftsSent, stuck>>

\* Redis loses its keys.
RedisLoss ==
    /\ faults < MaxFaults /\ (claims # {} \/ tipMap # {})
    /\ faults' = faults + 1
    /\ claims' = {} /\ tipMap' = {}
    /\ UNCHANGED <<stripeVars, processed, coinVars, tipVars, giftsSent, job, stuck, struck>>

-----------------------------------------------------------------------------
(***************************************************************************)
(* reconcileTips: the pending tips are read, then failed one by one.  Only *)
(* the handler of a success writes stripePaymentId, with the status, so a  *)
(* pending tip never has one and the branch that asks Stripe is never      *)
(* taken.                                                                  *)
(***************************************************************************)
ReconcileRead ==
    /\ stuck = {} /\ PendingTips # {}
    /\ stuck' = PendingTips
    /\ UNCHANGED <<stripeVars, redisVars, processed, coinVars, tipVars,
                   giftsSent, job, faults, struck>>

ReconcileTip(t) ==
    /\ t \in stuck
    /\ stuck' = stuck \ {t}
    /\ tip' = [tip EXCEPT ![t] = "failed"]
    /\ UNCHANGED <<stripeVars, redisVars, processed, coinVars, diamonds,
                   diamondLedger, giftsSent, job, faults, struck>>

-----------------------------------------------------------------------------
PayNext ==
    \/ \E t \in Tips : CreateTip(t) \/ CreateTipInterrupted(t) \/ Decline(t) \/ Dispute(t)
    \/ \E p \in Purchases : CreateCoinPurchaseIntent(p)
    \/ \E i \in Intents : Charge(i)
    \/ PurchaseCoins \/ SendGift
    \/ \E w \in Instances, e \in outbox : Receive(w, e)
    \/ \E w \in Instances : Handle(w) \/ Finish(w)
    \/ \E w \in Instances : HandlerFails(w) \/ InstanceCrash(w)
    \/ RedisLoss
    \/ ReconcileRead
    \/ \E t \in Tips : ReconcileTip(t)

\* Stripe redelivers what is not answered, and an execution that has started
\* goes on: the event loop runs every pending continuation.
PayFairness ==
    /\ \A p \in Purchases :
          WF_payVars(\E w \in Instances : Receive(w, Event("succeeded", p, 0)))
    /\ \A w \in Instances : WF_payVars(Handle(w) \/ Finish(w))

PaySpec == PayInit /\ [][PayNext]_payVars
FairPaySpec == PaySpec /\ PayFairness

-----------------------------------------------------------------------------
(***************************************************************************)
(* Properties.                                                             *)
(***************************************************************************)
\* Every coin the sender holds or spent comes from a purchase that was charged
\* and is credited exactly once, over redeliveries, concurrent executions,
\* crashes and a Redis that forgets the claims (handleCoinPurchaseSucceeded).
CoinsCreditedOnce ==
    /\ coins + GiftCost * giftsSent = CoinAmount * Cardinality(mapping)
    /\ \A p \in mapping : intent[p] = "succeeded"

\* What auditCoinBalances computes from the PURCHASE and GIFT_SENT rows never
\* falls short of the balance, though pending rows count and one payment
\* closes all of them.
CoinLedgerCovers ==
    coins <= CoinAmount * (pendingRows + completedRows) - GiftCost * giftsSent

\* What auditCoinBalances computes from the diamond rows never exceeds the
\* balance: no row credits what the balance did not receive.
DiamondLedgerBacked == diamondLedger <= diamonds

\* Diamonds are never worth more than the tips that were charged and the gifts
\* that were paid: a tip is credited at most once (handleTipPaymentSucceeded).
DiamondsPaidFor ==
    diamonds <= GiftDiamonds * giftsSent
                + TipDiamonds * Cardinality({t \in Tips : intent[t] = "succeeded"})

\* A charge of coins is credited in the end, whatever Redis loses and however
\* often Stripe repeats itself, unless an execution of its own event failed or
\* died: then a redelivery may have been answered as a duplicate.
ChargedIsCredited ==
    \A p \in Purchases :
        intent[p] = "succeeded"
            ~> (p \in mapping \/ Event("succeeded", p, 0) \in struck)
=============================================================================
