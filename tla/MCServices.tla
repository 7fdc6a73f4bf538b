------------------------------ MODULE MCServices ------------------------------
(***************************************************************************)
(* Model-checking module for the components of the API server and the app. *)
(* As modelled they share no state, so a behaviour is one of any of them:  *)
(* "part" says which, and the others stay in their initial states.  In     *)
(* those none of their fair actions is enabled, except the start of the    *)
(* app.                                                                    *)
(***************************************************************************)
EXTENDS Payments, Orders, Follows, Memberships, Presence, Delivery, Publishing,
        PreKeys, SignalSession, TLC

CONSTANTS o1, o2
VARIABLE part

MCQuantity == (o1 :> 1) @@ (o2 :> 2)

svcVars == <<part, payVars, ordVars, folVars, memVars, preVars, dlvVars, pubVars, pkVars,
             sigVars>>

ServicesInit ==
    /\ part \in {"payments", "orders", "follows", "memberships", "presence",
                 "delivery", "publishing", "prekeys", "signal"}
    /\ PayInit /\ OrdInit /\ FolInit /\ MemInit /\ PreInit /\ DlvInit /\ PubInit
    /\ PkInit /\ SigInit
    /\ part # "signal" => \A b \in Bundles : unclaimed[Alice] <= b

ServicesNext ==
    /\ UNCHANGED part
    /\ part # "payments" => UNCHANGED payVars
    /\ part # "orders" => UNCHANGED ordVars
    /\ part # "follows" => UNCHANGED folVars
    /\ part # "memberships" => UNCHANGED memVars
    /\ part # "presence" => UNCHANGED preVars
    /\ part # "delivery" => UNCHANGED dlvVars
    /\ part # "publishing" => UNCHANGED pubVars
    /\ part # "prekeys" => UNCHANGED pkVars
    /\ part # "signal" => UNCHANGED sigVars
    /\ \/ part = "payments" /\ PayNext
       \/ part = "orders" /\ OrdNext
       \/ part = "follows" /\ FolNext
       \/ part = "memberships" /\ MemNext
       \/ part = "presence" /\ PreNext
       \/ part = "delivery" /\ DlvNext
       \/ part = "publishing" /\ PubNext
       \/ part = "prekeys" /\ PkNext
       \/ part = "signal" /\ SigNext

ServicesSpec == ServicesInit /\ [][ServicesNext]_svcVars

FairServicesSpec ==
    /\ ServicesSpec
    /\ PayFairness /\ FolFairness /\ MemFairness /\ PreFairness /\ DlvFairness /\ PubFairness
    /\ WF_pkVars(part = "prekeys" /\ OpenApp) /\ StartFairness

\* BOUND: a fault and a declined or disputed charge together only where there is
\* one tip or purchase.
ServicesBound == Cardinality(Started) <= 1 \/ faults + adverse <= 1

-----------------------------------------------------------------------------
\* The type invariants of the components, for all their handlers at once.
ServicesTypeOK ==
    /\ PayTypeOK /\ OrdTypeOK /\ FolTypeOK /\ MemTypeOK
    /\ PreTypeOK /\ DlvTypeOK /\ PubTypeOK /\ PkTypeOK
    /\ SigTypeOK
=============================================================================
