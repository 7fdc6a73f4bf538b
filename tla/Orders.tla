------------------------------- MODULE Orders -------------------------------
(***************************************************************************)
(* Marketplace orders and the stock of one product: CommerceService, the   *)
(* webhook handler of a paid order and the nightly reconciliation of       *)
(* orders.  An order is identified with its PaymentIntent.  Requests read  *)
(* an order and write it later; the writes are transactions.               *)
(***************************************************************************)
EXTENDS Integers, FiniteSets

CONSTANTS Orders,          \* orders the buyers may place
          Requests,        \* concurrent requests of the seller
          Quantity,        \* the units each order asks for
          InitialStock,    \* units of the product at the start
          MaxSellerRequests,  \* bound: requests of the seller
          MaxRedeliveries  \* bound: paid events delivered once more

ASSUME OrdersAssumption ==
    /\ IsFiniteSet(Orders)
    /\ Quantity \in [Orders -> Nat \ {0}]
    /\ InitialStock \in Nat
    /\ MaxSellerRequests \in Nat /\ MaxRedeliveries \in Nat

OrderStatus == {"PENDING", "PAID", "SHIPPED", "DELIVERED", "CANCELLED", "REFUNDED"}
NoRequest == [order |-> "none", from |-> "none", to |-> "none"]
NoAnswer == [order |-> "none", charged |-> FALSE]

VARIABLES
    order,      \* table order: the status, "none" before it exists
    stock,      \* product.stock
    sales,      \* product.salesCount
    charge,     \* Stripe: "none", "open", "succeeded", "canceled"
    paidEvents, \* Stripe: payment_intent.succeeded not yet delivered
    redelivered,\* paid events delivered once more so far
    seller,     \* requests of the seller between their read and their write
    sellerSent, \* requests of the seller so far
    stuckOrders,\* reconcileOrders: the orders it read as stuck
    answer      \* reconcileOrders: what Stripe said of the order in hand

ordVars == <<order, stock, sales, charge, paidEvents, redelivered, seller,
             sellerSent, stuckOrders, answer>>

OrdTypeOK ==
    /\ order \in [Orders -> OrderStatus \cup {"none"}]
    /\ stock \in Nat /\ sales \in Int
    /\ charge \in [Orders -> {"none", "open", "succeeded", "canceled"}]
    /\ paidEvents \subseteq Orders /\ stuckOrders \subseteq Orders
    /\ redelivered \in Nat /\ sellerSent \in Nat
    /\ seller \in [Requests -> {NoRequest} \cup
                     [order : Orders, from : OrderStatus, to : OrderStatus]]
    /\ answer \in {NoAnswer} \cup [order : Orders, charged : BOOLEAN]

OrdInit ==
    /\ order = [o \in Orders |-> "none"]
    /\ stock = InitialStock /\ sales = 0
    /\ charge = [o \in Orders |-> "none"]
    /\ paidEvents = {} /\ stuckOrders = {}
    /\ redelivered = 0 /\ sellerSent = 0
    /\ seller = [r \in Requests |-> NoRequest]
    /\ answer = NoAnswer

-----------------------------------------------------------------------------
\* createOrder up to the PaymentIntent: the stock is checked, not yet taken.
CheckStock(o) ==
    /\ charge[o] = "none" /\ stock >= Quantity[o]
    /\ charge' = [charge EXCEPT ![o] = "open"]
    /\ UNCHANGED <<order, stock, sales, paidEvents, redelivered, seller,
                   sellerSent, stuckOrders, answer>>

\* createOrder, the transaction: the stock is taken if there still is enough,
\* otherwise the intent is cancelled.
PlaceOrder(o) ==
    /\ order[o] = "none" /\ charge[o] = "open"
    /\ IF stock >= Quantity[o]
       THEN /\ stock' = stock - Quantity[o]
            /\ sales' = sales + Quantity[o]
            /\ order' = [order EXCEPT ![o] = "PENDING"]
            /\ UNCHANGED charge
       ELSE /\ charge' = [charge EXCEPT ![o] = "canceled"]
            /\ UNCHANGED <<order, stock, sales>>
    /\ UNCHANGED <<paidEvents, redelivered, seller, sellerSent, stuckOrders, answer>>

\* The buyer pays: nothing cancels the intent of an order that is cancelled.
PayOrder(o) ==
    /\ order[o] # "none" /\ charge[o] = "open"
    /\ charge' = [charge EXCEPT ![o] = "succeeded"]
    /\ paidEvents' = paidEvents \cup {o}
    /\ UNCHANGED <<order, stock, sales, redelivered, seller, sellerSent,
                   stuckOrders, answer>>

\* handleMarketplaceOrderSucceeded: any status but PAID becomes PAID.  An event
\* may come again when the server died before it recorded it.
HandleMarketplaceOrderSucceeded(o) ==
    /\ o \in paidEvents
    /\ order' = [order EXCEPT ![o] = "PAID"]
    /\ \/ /\ paidEvents' = paidEvents \ {o} /\ UNCHANGED redelivered
       \/ /\ redelivered < MaxRedeliveries /\ redelivered' = redelivered + 1
          /\ UNCHANGED paidEvents
    /\ UNCHANGED <<stock, sales, charge, seller, sellerSent, stuckOrders, answer>>

-----------------------------------------------------------------------------
\* Mutant: an order may be shipped before it is paid.
ValidTransitionsUnpaid ==
    [PENDING |-> {"CANCELLED", "SHIPPED"}, PAID |-> {"SHIPPED", "REFUNDED"},
     SHIPPED |-> {"DELIVERED"}, DELIVERED |-> {}, CANCELLED |-> {}, REFUNDED |-> {}]

ValidTransitions ==
    [PENDING |-> {"CANCELLED"}, PAID |-> {"SHIPPED", "REFUNDED"},
     SHIPPED |-> {"DELIVERED"}, DELIVERED |-> {}, CANCELLED |-> {}, REFUNDED |-> {}]

\* updateOrderStatus up to the check of the transition.
UpdateOrderRead(r, o, to) ==
    /\ sellerSent < MaxSellerRequests /\ seller[r] = NoRequest
    /\ order[o] # "none" /\ to \in ValidTransitions[order[o]]
    /\ seller' = [seller EXCEPT ![r] = [order |-> o, from |-> order[o], to |-> to]]
    /\ sellerSent' = sellerSent + 1
    /\ UNCHANGED <<order, stock, sales, charge, paidEvents, redelivered,
                   stuckOrders, answer>>

\* updateOrderStatus, the write: it relies on the status that was read, and
\* gives the units back while the product has sales.
UpdateOrderWrite(r) ==
    LET q == seller[r] IN
    /\ q # NoRequest
    /\ seller' = [seller EXCEPT ![r] = NoRequest]
    /\ order' = [order EXCEPT ![q.order] = q.to]
    /\ IF q.to \in {"CANCELLED", "REFUNDED"} /\ sales > 0
       THEN /\ stock' = stock + Quantity[q.order]
            /\ sales' = sales - Quantity[q.order]
       ELSE UNCHANGED <<stock, sales>>
    /\ UNCHANGED <<charge, paidEvents, redelivered, sellerSent, stuckOrders, answer>>

-----------------------------------------------------------------------------
\* reconcileOrders: the orders it takes for stuck are read once.
ReconcileOrdersRead ==
    /\ stuckOrders = {} /\ answer = NoAnswer
    /\ \E o \in Orders : order[o] = "PENDING"
    /\ stuckOrders' = {o \in Orders : order[o] = "PENDING"}
    /\ UNCHANGED <<order, stock, sales, charge, paidEvents, redelivered, seller,
                   sellerSent, answer>>

\* Stripe is asked about one of them: an intent nobody paid is waiting for a
\* payment method.  The order is skipped when Stripe fails or still processes.
ReconcileOrderAsk(o) ==
    /\ o \in stuckOrders /\ answer = NoAnswer
    /\ answer' \in {NoAnswer, [order |-> o, charged |-> charge[o] = "succeeded"]}
    /\ stuckOrders' = stuckOrders \ {o}
    /\ UNCHANGED <<order, stock, sales, charge, paidEvents, redelivered, seller, sellerSent>>

\* Mutant: the reconciliation cancels and gives nothing back.
ReconcileOrderWriteStockless ==
    LET o == answer.order IN
    /\ answer # NoAnswer
    /\ answer' = NoAnswer
    /\ IF answer.charged
       THEN order' = [order EXCEPT ![o] = "PAID"] /\ UNCHANGED stock
       ELSE /\ order' = [order EXCEPT ![o] = "CANCELLED"]
            /\ UNCHANGED stock
    /\ UNCHANGED <<sales, charge, paidEvents, redelivered, seller, sellerSent, stuckOrders>>

\* The order is marked PAID, or cancelled and its units given back.
ReconcileOrderWrite ==
    LET o == answer.order IN
    /\ answer # NoAnswer
    /\ answer' = NoAnswer
    /\ IF answer.charged
       THEN order' = [order EXCEPT ![o] = "PAID"] /\ UNCHANGED stock
       ELSE /\ order' = [order EXCEPT ![o] = "CANCELLED"]
            /\ stock' = stock + Quantity[o]
    /\ UNCHANGED <<sales, charge, paidEvents, redelivered, seller, sellerSent, stuckOrders>>

OrdNext ==
    \/ \E o \in Orders :
          \/ CheckStock(o) \/ PlaceOrder(o) \/ PayOrder(o)
          \/ HandleMarketplaceOrderSucceeded(o) \/ ReconcileOrderAsk(o)
    \/ \E r \in Requests, o \in Orders, to \in OrderStatus : UpdateOrderRead(r, o, to)
    \/ \E r \in Requests : UpdateOrderWrite(r)
    \/ ReconcileOrdersRead \/ ReconcileOrderWrite

OrdSpec == OrdInit /\ [][OrdNext]_ordVars

-----------------------------------------------------------------------------
Active == {o \in Orders : order[o] \in {"PENDING", "PAID", "SHIPPED", "DELIVERED"}}
UnitsOf(o) == {o} \X (1..Quantity[o])
ActiveUnits == Cardinality(UNION {UnitsOf(o) : o \in Active})

\* No unit gets lost: what is in stock and what is ordered is at least what
\* there was, whichever of a cancellation, a refund, a late payment and the
\* reconciliation come in between (updateOrderStatus restores stock only while
\* salesCount is positive; cancelOrderAndRestoreStock leaves salesCount alone).
UnitsNeverLeak == stock + ActiveUnits >= InitialStock

\* An order that was shipped, delivered or refunded was charged, though the
\* seller's request acts on a status it read before.
ShippedWasCharged ==
    \A o \in Orders :
        order[o] \in {"SHIPPED", "DELIVERED", "REFUNDED"} => charge[o] = "succeeded"
=============================================================================
