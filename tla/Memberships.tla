----------------------------- MODULE Memberships ----------------------------
(***************************************************************************)
(* The paid membership of one user in one tier: PaymentsService (create,   *)
(* cancel and the subscription webhooks), MonetizationService (subscribe,  *)
(* unsubscribe) and reconcileMembershipSubscriptions.  The database has a  *)
(* single row for the pair; Stripe may know several subscriptions for it.  *)
(* Webhooks come in any order, and a handler reads the mapping of the      *)
(* subscription before it writes the row.                                  *)
(***************************************************************************)
EXTENDS Integers, FiniteSets

CONSTANTS Subs,           \* Stripe subscriptions the user may create
          MaxChanges,     \* bound: payments, failures and ends at Stripe
          MaxMemberCalls  \* bound: calls of subscribe, unsubscribe and cancel

ASSUME MembershipsAssumption ==
    IsFiniteSet(Subs) /\ MaxChanges \in Nat /\ MaxMemberCalls \in Nat

NoSub == "none"
StripeStatus == {"incomplete", "active", "past_due", "canceled", "incomplete_expired"}
Ended == {"none", "canceled", "incomplete_expired"}
SubEvents == [kind : {"invoice.paid", "invoice.payment_failed", "updated", "deleted"},
              sub : Subs, status : StripeStatus]
Cancellations == [kind : {"cancelled", "refused"}, sub : Subs,
                  status : StripeStatus]
SubEvent(k, s, st) == [kind |-> k, sub |-> s, status |-> st]

MemberStatus == {"none", "pending", "active", "cancelled", "expired",
                 "past_due", "cancel_pending"}
NoRead == [pc |-> "idle", sub |-> NoSub]

VARIABLES
    sub,        \* Stripe: the status of each subscription
    recorded,   \* createSubscription: "none", "created", "recorded", "mapped"
    subEvents,  \* Stripe: webhooks not yet delivered
    subJobs,    \* handlers, and cancellations, that have not yet written the row
    member,     \* membershipSubscription.status
    endDate,    \* membershipSubscription.endDate: "none", "future", "past"
    mapTo,      \* Redis: the subscription:<id> keys
    mapBack,    \* Redis: the value of subscription:internal:<row>
    nightly,    \* reconcileMembershipSubscriptions, between read and write
    changes, memberCalls

memVars == <<sub, recorded, subEvents, subJobs, member, endDate, mapTo, mapBack,
             nightly, changes, memberCalls>>

MemTypeOK ==
    /\ sub \in [Subs -> StripeStatus \cup {"none"}]
    /\ recorded \in [Subs -> {"none", "created", "recorded", "mapped"}]
    /\ subEvents \subseteq SubEvents /\ subJobs \subseteq SubEvents \cup Cancellations
    /\ member \in MemberStatus /\ endDate \in {"none", "future", "past"}
    /\ mapTo \subseteq Subs /\ mapBack \in Subs \cup {NoSub}
    /\ nightly \in [pc : {"idle", "read"}, sub : Subs \cup {NoSub}]
    /\ changes \in Nat /\ memberCalls \in Nat

MemInit ==
    /\ sub = [s \in Subs |-> "none"] /\ recorded = [s \in Subs |-> "none"]
    /\ subEvents = {} /\ subJobs = {}
    /\ member = "none" /\ endDate = "none"
    /\ mapTo = {} /\ mapBack = NoSub
    /\ nightly = NoRead /\ changes = 0 /\ memberCalls = 0

-----------------------------------------------------------------------------
\* createSubscription, the call to Stripe: no earlier subscription is looked at.
CreateSubscription(s) ==
    /\ recorded[s] = "none"
    /\ recorded' = [recorded EXCEPT ![s] = "created"]
    /\ sub' = [sub EXCEPT ![s] = "incomplete"]
    /\ UNCHANGED <<subEvents, subJobs, member, endDate, mapTo, mapBack, nightly,
                   changes, memberCalls>>

\* createSubscription, the row: pending again, whatever it was.
RecordSubscription(s) ==
    /\ recorded[s] = "created"
    /\ recorded' = [recorded EXCEPT ![s] = "recorded"]
    /\ member' = "pending" /\ endDate' = "none"
    /\ UNCHANGED <<sub, subEvents, subJobs, mapTo, mapBack, nightly, changes, memberCalls>>

StoreSubscriptionMapping(s) ==
    /\ recorded[s] = "recorded"
    /\ recorded' = [recorded EXCEPT ![s] = "mapped"]
    /\ mapTo' = mapTo \cup {s} /\ mapBack' = s
    /\ UNCHANGED <<sub, subEvents, subJobs, member, endDate, nightly, changes, memberCalls>>

\* Stripe: an invoice is paid or fails, an unpaid subscription expires, a
\* subscription ends.
StripeStep(s, next, events) ==
    /\ changes < MaxChanges
    /\ changes' = changes + 1
    /\ sub' = [sub EXCEPT ![s] = next]
    /\ subEvents' = subEvents \cup {SubEvent(k, s, next) : k \in events}
    /\ UNCHANGED <<recorded, subJobs, member, endDate, mapTo, mapBack, nightly, memberCalls>>

InvoicePaid(s) ==
    /\ sub[s] \in {"incomplete", "active", "past_due"}
    /\ StripeStep(s, "active", {"invoice.paid", "updated"})
InvoiceFails(s) ==
    /\ sub[s] = "active"
    /\ StripeStep(s, "past_due", {"invoice.payment_failed", "updated"})
IncompleteExpires(s) ==
    /\ sub[s] = "incomplete" /\ StripeStep(s, "incomplete_expired", {"updated"})
SubscriptionEnds(s) ==
    /\ sub[s] \in {"active", "past_due"} /\ StripeStep(s, "canceled", {"deleted"})

-----------------------------------------------------------------------------
\* The handlers of invoices know the row by the mapping alone: an invoice does
\* not carry the metadata of its subscription.  The others fall back to it.
FindsRow(e) ==
    \/ e.sub \in mapTo
    \/ e.kind \in {"updated", "deleted"} /\ member # "none"

\* An event whose row is not found is answered and forgotten.
ReceiveSubEvent(e) ==
    /\ e \in subEvents
    /\ subEvents' = subEvents \ {e}
    /\ subJobs' = IF FindsRow(e) THEN subJobs \cup {e} ELSE subJobs
    /\ UNCHANGED <<sub, recorded, member, endDate, mapTo, mapBack, nightly,
                   changes, memberCalls>>

HandleSubEvent(e, kind) == e \in subJobs /\ e.kind = kind /\ subJobs' = subJobs \ {e}

\* The end of the period is asked of Stripe; when that fails it is now, which
\* is a period that ends at once.
HandleInvoicePaid(e) ==
    /\ HandleSubEvent(e, "invoice.paid")
    /\ member' = "active" /\ endDate' = "future"
    /\ UNCHANGED <<sub, recorded, subEvents, mapTo, mapBack, nightly, changes, memberCalls>>

HandleInvoicePaymentFailed(e) ==
    /\ HandleSubEvent(e, "invoice.payment_failed")
    /\ member' = "past_due" /\ endDate' = "future"
    /\ UNCHANGED <<sub, recorded, subEvents, mapTo, mapBack, nightly, changes, memberCalls>>

\* A status of Stripe the map does not name counts as active.
HandleSubscriptionUpdated(e) ==
    /\ HandleSubEvent(e, "updated")
    /\ member' = CASE e.status = "past_due" -> "past_due"
                   [] e.status = "canceled" -> "cancelled"
                   [] OTHER -> "active"
    /\ endDate' = "future"
    /\ UNCHANGED <<sub, recorded, subEvents, mapTo, mapBack, nightly, changes, memberCalls>>

\* Both keys go, the one from the row too, whichever subscription it names.
HandleSubscriptionDeleted(e) ==
    /\ HandleSubEvent(e, "deleted")
    /\ member' = "cancelled" /\ endDate' = "past"
    /\ mapTo' = mapTo \ {e.sub} /\ mapBack' = NoSub
    /\ UNCHANGED <<sub, recorded, subEvents, nightly, changes, memberCalls>>

\* cancelSubscription, after Stripe answered.
CancelConfirmed(e) ==
    /\ HandleSubEvent(e, "cancelled")
    /\ member' = "cancelled" /\ endDate' = "past"
    /\ mapTo' = mapTo \ {e.sub} /\ mapBack' = NoSub
    /\ UNCHANGED <<sub, recorded, subEvents, nightly, changes, memberCalls>>

CancelPending(e) ==
    /\ HandleSubEvent(e, "refused")
    /\ member' = "cancel_pending"
    /\ UNCHANGED <<sub, recorded, subEvents, endDate, mapTo, mapBack, nightly,
                   changes, memberCalls>>

WriteRow(e) ==
    \/ HandleInvoicePaid(e) \/ HandleInvoicePaymentFailed(e)
    \/ HandleSubscriptionUpdated(e) \/ HandleSubscriptionDeleted(e)
    \/ CancelConfirmed(e) \/ CancelPending(e)

-----------------------------------------------------------------------------
MemberCall == memberCalls < MaxMemberCalls /\ memberCalls' = memberCalls + 1

\* The caller names the subscription or the row; what Redis has lost is read from
\* paymentMapping, and Redis is given it again.
FindMapping(s) ==
    \/ mapTo' = mapTo \cup {s} /\ UNCHANGED mapBack
    \/ mapBack \in {s, NoSub} /\ mapBack' = s /\ UNCHANGED mapTo

\* cancelSubscription asks Stripe about the subscription it found, which cancels
\* it or refuses, and then writes the row.
CancelSubscription(s) ==
    /\ MemberCall
    /\ recorded[s] = "mapped"
    /\ FindMapping(s)
    /\ \/ /\ sub[s] \notin Ended
          /\ sub' = [sub EXCEPT ![s] = "canceled"]
          /\ subEvents' = subEvents \cup {SubEvent("deleted", s, "canceled")}
          /\ subJobs' = subJobs \cup {SubEvent("cancelled", s, "canceled")}
       \/ /\ subJobs' = subJobs \cup {SubEvent("refused", s, sub[s])}
          /\ UNCHANGED <<sub, subEvents>>
    /\ UNCHANGED <<recorded, member, endDate, nightly, changes>>

\* cancelSubscription of a row for which no Stripe subscription is known.
CancelRow ==
    /\ MemberCall
    /\ member # "none" /\ \A s \in Subs : recorded[s] # "mapped"
    /\ member' = "cancelled" /\ endDate' = "past"
    /\ UNCHANGED <<sub, recorded, subEvents, subJobs, mapTo, mapBack, nightly, changes>>

\* MonetizationService.subscribe and unsubscribe never talk to Stripe.
Subscribe ==
    /\ MemberCall
    /\ ~(member = "active" /\ endDate \in {"none", "future"})
    /\ member' = "pending" /\ endDate' = "future"
    /\ UNCHANGED <<sub, recorded, subEvents, subJobs, mapTo, mapBack, nightly, changes>>

Unsubscribe ==
    /\ MemberCall /\ member = "active"
    /\ member' = "cancelled" /\ endDate' = "past"
    /\ UNCHANGED <<sub, recorded, subEvents, subJobs, mapTo, mapBack, nightly, changes>>

PeriodEnds ==
    /\ endDate = "future"
    /\ endDate' = "past"
    /\ UNCHANGED <<sub, recorded, subEvents, subJobs, member, mapTo, mapBack,
                   nightly, changes, memberCalls>>

-----------------------------------------------------------------------------
\* reconcileMembershipSubscriptions reads the rows that are active and over...
ReconcileMembershipRead ==
    /\ nightly.pc = "idle" /\ member = "active" /\ endDate = "past"
    /\ nightly' = [pc |-> "read", sub |-> mapBack]
    /\ UNCHANGED <<sub, recorded, subEvents, subJobs, member, endDate, mapTo,
                   mapBack, changes, memberCalls>>

\* Mutant: a row without a mapping is left alone.
ReconcileMembershipWriteMapped ==
    LET s == nightly.sub IN
    /\ nightly.pc = "read"
    /\ nightly' = NoRead
    /\ \/ /\ s # NoSub
          /\ CASE sub[s] = "canceled" -> member' = "cancelled" /\ UNCHANGED endDate
               [] sub[s] \in {"active", "past_due"} -> member' = sub[s] /\ endDate' = "future"
               [] OTHER -> member' = "expired" /\ UNCHANGED endDate
       \/ s = NoSub /\ UNCHANGED <<member, endDate>>
    /\ UNCHANGED <<sub, recorded, subEvents, subJobs, mapTo, mapBack, changes, memberCalls>>

\* ...and writes what Stripe says, or "expired" when there is nothing to ask or
\* Stripe does not answer.
ReconcileMembershipWrite ==
    LET s == nightly.sub IN
    /\ nightly.pc = "read"
    /\ nightly' = NoRead
    /\ \/ /\ s # NoSub
          /\ CASE sub[s] = "canceled" -> member' = "cancelled" /\ UNCHANGED endDate
               [] sub[s] \in {"active", "past_due"} -> member' = sub[s] /\ endDate' = "future"
               [] OTHER -> member' = "expired" /\ UNCHANGED endDate
       \/ member' = "expired" /\ UNCHANGED endDate
    /\ UNCHANGED <<sub, recorded, subEvents, subJobs, mapTo, mapBack, changes, memberCalls>>

MemNext ==
    \/ \E s \in Subs :
          \/ CreateSubscription(s) \/ RecordSubscription(s) \/ StoreSubscriptionMapping(s)
          \/ InvoicePaid(s) \/ InvoiceFails(s) \/ IncompleteExpires(s) \/ SubscriptionEnds(s)
          \/ CancelSubscription(s)
    \/ \E e \in subEvents : ReceiveSubEvent(e)
    \/ \E e \in subJobs : WriteRow(e)
    \/ CancelRow \/ Subscribe \/ Unsubscribe \/ PeriodEnds
    \/ ReconcileMembershipRead \/ ReconcileMembershipWrite

\* Time passes, Stripe delivers, a handler that started ends and the job runs
\* every night.
MemFairness ==
    /\ WF_memVars(PeriodEnds)
    /\ WF_memVars(\E e \in subEvents : ReceiveSubEvent(e))
    /\ WF_memVars(\E e \in subJobs : WriteRow(e))
    /\ WF_memVars(ReconcileMembershipRead \/ ReconcileMembershipWrite)

MemSpec == MemInit /\ [][MemNext]_memVars
FairMemSpec == MemSpec /\ MemFairness

-----------------------------------------------------------------------------
\* When every subscription at Stripe has ended the membership does not stay
\* active, though a late invoice.paid or an update to a status the code does
\* not know may have activated it after the end.
MembershipEnds ==
    <>[](\A s \in Subs : sub[s] \in Ended) => <>[](member # "active")
=============================================================================
