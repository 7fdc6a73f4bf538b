--------------------------- MODULE SignalProofs ---------------------------
(***************************************************************************)
(* Theorems about PreKeys and SignalSession, for every set of contacts, every *)
(* threshold and number of one-time pre-keys, and conversations of any length. *)
(***************************************************************************)
EXTENDS PreKeys, SignalSession, FiniteSetTheorems, SequenceTheorems, WellFoundedInduction, TLAPS

(***************************************************************************)
(* PreKeys.                                                                *)
(***************************************************************************)

\* Held by the device, given up by it, or made by another phone.
Accounted(k, priv) == k.by = phone => k \in priv \/ k.key \in lost

\* Keys and identities come from the phones there were.
PhoneInv ==
    /\ phone >= 1 /\ srvId <= phone /\ srvSpk.by <= phone
    /\ \A k \in srvOtp : k.by \in 1..phone
    /\ \A u \in uploads : u.key.by <= phone
    /\ \A c \in Contacts : /\ bundle[c].identity <= phone /\ bundle[c].spk.by <= phone
                           /\ bundle[c].otp.by <= phone
                           /\ bundle[c].pc = "sent" => bundle[c].spk.by = bundle[c].identity

\* The signed pre-keys on their way to the server, there, and fetched from it.
SpkInv ==
    /\ Accounted(srvSpk, spkPriv)
    /\ \A u \in uploads : Accounted(u.key, spkPriv)
    /\ \A c \in Contacts : Accounted(bundle[c].spk, spkPriv)

\* The ids of the one-time pre-keys are used once.
OtpIdInv ==
    /\ otpNext >= 1
    /\ \A k \in otpPriv : k.id < otpNext /\ (app.pc = "generate" => k.id < otpNext - 1)

\* The rotation is over when initialize goes on, and nothing that is uploaded
\* then is taken for the one-time pre-key in hand.
StageInv ==
    /\ app.pc \in {"ensure", "replenish", "generate", "upload", "on"}
          => app.rotation \in {"rotated", "over"}
    /\ app.pc = "upload" => \A u \in uploads : u.key.key # app.key

\* The one-time pre-key that waits for its upload.
InHand == Key(otpNext - 1, app.key, phone)

\* A one-time pre-key is in one place: in hand, on the server or with one contact.
OneHolder ==
    /\ app.pc = "upload" => InHand \notin srvOtp
    /\ \A c \in Contacts : /\ bundle[c].otp \notin srvOtp
                           /\ app.pc = "upload" => bundle[c].otp # InHand
    /\ \A c, d \in Contacts : c # d /\ bundle[c].otp = bundle[d].otp => bundle[c].otp = NoKey

OtpInv ==
    /\ app.pc = "upload" => Accounted(InHand, otpPriv)
    /\ \A k \in srvOtp : Accounted(k, otpPriv)
    /\ \A c \in Contacts : Accounted(bundle[c].otp, otpPriv)

PkFinite ==
    IsFiniteSet(srvOtp) /\ IsFiniteSet(uploads) /\ IsFiniteSet(spkPriv) /\ IsFiniteSet(otpPriv)

PkInv == PkTypeOK /\ PkFinite /\ PhoneInv /\ SpkInv /\ OtpIdInv /\ StageInv
         /\ OneHolder /\ OtpInv

Stages == [pc : {"off", "batch1", "registered", "ensure", "replenish", "generate",
                 "upload", "on", "failed"},
           rotation : {"todo", "uploading", "rotated", "over"},
           count : Nat \cup {Unknown}, key : Nat, swept : BOOLEAN]
BundleStates == [pc : {"none", "identity", "spk", "sent", "over"},
                 identity : Nat, spk : Keys, otp : Keys]
UploadStates == [key : Keys, verified : BOOLEAN]

-----------------------------------------------------------------------------
\* What is in use is finite, so there is a number that is not.
LEMMA KeysFinite ==
  ASSUME NEW ks, IsFiniteSet(ks)
  PROVE  IsFiniteSet({k.key : k \in ks})
<1> DEFINE f == [k \in ks |-> k.key]
<1>1. f \in Surjection(ks, {k.key : k \in ks})
  BY DEF Surjection
<1> QED BY <1>1, FS_Surjection

LEMMA PairFinite ==
  ASSUME NEW a, NEW b
  PROVE  IsFiniteSet({a, b})
<1>1. IsFiniteSet({a})
  BY FS_Singleton
<1>2. {a, b} = {a} \cup {b}
  OBVIOUS
<1> QED BY <1>1, <1>2, FS_AddElement

LEMMA SomeNumber ==
  ASSUME NEW used, IsFiniteSet(used)
  PROVE  \E n \in 1..(Cardinality(used) + 1) : n \notin used
<1>1. Cardinality(used) \in Nat
  BY FS_CardinalityType
<1>2. Cardinality(1..(Cardinality(used) + 1)) = Cardinality(used) + 1
  BY <1>1, FS_Interval
<1>3. 1..(Cardinality(used) + 1) \subseteq used
        => Cardinality(1..(Cardinality(used) + 1)) <= Cardinality(used)
  BY FS_Subset
<1> QED BY <1>1, <1>2, <1>3

LEMMA OfferedFinite ==
  ASSUME PkFinite
  PROVE  IsFiniteSet(Offered)
<1> USE PreKeysAssumption DEF PkFinite
<1>1. IsFiniteSet({srvSpk.key, app.key})
  BY PairFinite
<1>2. IsFiniteSet({k.key : k \in srvOtp})
  BY KeysFinite
<1>3. IsFiniteSet({u.key.key : u \in uploads})
  <2> DEFINE f == [u \in uploads |-> u.key.key]
  <2>1. f \in Surjection(uploads, {u.key.key : u \in uploads})
    BY DEF Surjection
  <2> QED BY <2>1, FS_Surjection
<1>4. IsFiniteSet(UNION {{bundle[c].spk.key, bundle[c].otp.key} : c \in Contacts})
  <2> DEFINE sets == {{bundle[c].spk.key, bundle[c].otp.key} : c \in Contacts}
             f == [c \in Contacts |-> {bundle[c].spk.key, bundle[c].otp.key}]
  <2>1. f \in Surjection(Contacts, sets)
    BY DEF Surjection
  <2>2. IsFiniteSet(sets)
    BY <2>1, FS_Surjection
  <2>3. \A c \in Contacts : IsFiniteSet({bundle[c].spk.key, bundle[c].otp.key})
    BY PairFinite
  <2> QED BY <2>2, <2>3, FS_UNION
<1>5. IsFiniteSet({srvSpk.key, app.key} \cup {k.key : k \in srvOtp})
  BY <1>1, <1>2, FS_Union
<1>6. IsFiniteSet(({srvSpk.key, app.key} \cup {k.key : k \in srvOtp})
                   \cup {u.key.key : u \in uploads})
  BY <1>3, <1>5, FS_Union
<1> QED BY <1>4, <1>6, FS_Union DEF Offered

LEMMA FreshNumber ==
  ASSUME PkFinite
  PROVE  /\ Fresh \in Nat \ {0} /\ Fresh \notin Offered
         /\ \A k \in spkPriv \cup otpPriv : k.key # Fresh
<1> DEFINE privs == {k.key : k \in spkPriv \cup otpPriv}
           used == Offered \cup privs
<1>1. IsFiniteSet(used)
  <2>1. IsFiniteSet(spkPriv \cup otpPriv)
    BY FS_Union DEF PkFinite
  <2> QED BY <2>1, OfferedFinite, KeysFinite, FS_Union
<1>2. \E n \in 1..(Cardinality(used) + 1) : n \notin used
  BY <1>1, SomeNumber
<1>3. Cardinality(used) \in Nat
  BY <1>1, FS_CardinalityType
<1>4. Fresh = CHOOSE n \in 1..(Cardinality(used) + 1) : n \notin used
  BY DEF Fresh
<1>5. Fresh \in 1..(Cardinality(used) + 1) /\ Fresh \notin used
  <2> HIDE DEF used
  <2> QED BY <1>2, <1>4
<1>6. Fresh \notin Offered /\ Fresh \notin privs
  BY <1>5
<1>7. Fresh \in Nat \ {0}
  <2> HIDE DEF used
  <2> QED BY <1>3, <1>5
<1> QED BY <1>6, <1>7

-----------------------------------------------------------------------------
LEMMA AppTypes ==
  ASSUME PkTypeOK, NEW u \in uploads, NEW ok \in BOOLEAN, Uploaded(u, ok)
  PROVE  app' \in Stages
BY DEF PkTypeOK, Uploaded, Stages

LEMMA GenerateSpkTypes ==
  ASSUME PkTypeOK, PkFinite, NEW id \in Nat, NEW next \in Stages, GenerateSpk(id, next)
  PROVE  /\ spkPriv' \subseteq Keys /\ lost' \subseteq Nat /\ uploads' \subseteq UploadStates
         /\ app' \in Stages /\ IsFiniteSet(spkPriv') /\ IsFiniteSet(uploads')
<1> DEFINE new == Key(id, Fresh, phone)
           old == {k \in spkPriv : k.id = id}
<1>1. new \in Keys /\ new.key = Fresh /\ Fresh \in Nat
  BY FreshNumber DEF PkTypeOK, Keys, Key
<1>2. /\ spkPriv' = (spkPriv \ old) \cup {new}
      /\ lost' = (lost \ {new.key}) \cup ({k.key : k \in old} \cap Offered)
      /\ uploads' = uploads \cup {[key |-> new, verified |-> FALSE]}
      /\ app' = [next EXCEPT !.key = new.key]
  BY DEF GenerateSpk
<1>3. IsFiniteSet(spkPriv') /\ IsFiniteSet(uploads')
  <2>1. IsFiniteSet(spkPriv \ old)
    BY FS_Subset DEF PkFinite
  <2> QED BY <1>2, <2>1, FS_AddElement DEF PkFinite
<1>4. spkPriv' \subseteq Keys /\ lost' \subseteq Nat
  BY <1>1, <1>2 DEF PkTypeOK, Keys
<1>5. uploads' \subseteq UploadStates
  <2>1. [key |-> new, verified |-> FALSE] \in UploadStates
    <3> HIDE DEF new
    <3> QED BY <1>1 DEF UploadStates
  <2> QED BY <1>2, <2>1 DEF PkTypeOK, UploadStates
<1>6. app' \in Stages
  BY <1>1, <1>2 DEF Stages
<1> QED BY <1>3, <1>4, <1>5, <1>6

LEMMA PkTypeStep ==
  ASSUME PkTypeOK, PkFinite, PhoneInv, OtpIdInv, [PkNext]_pkVars
  PROVE  PkTypeOK' /\ PkFinite'
<1>a. app \in Stages /\ Off \in Stages
  BY DEF PkTypeOK, Stages, Off, Unknown
<1>b. NoKey \in Keys /\ NoBundle \in BundleStates /\ Over \in BundleStates
  BY DEF NoKey, Keys, NoBundle, Over, BundleStates
<1>1. ASSUME OpenApp \/ RegisterIdentity \/ RegistrationRefused \/ KeepSpk
      PROVE  PkTypeOK' /\ PkFinite'
  <2>1. app' \in Stages
    BY <1>1, <1>a DEF OpenApp, RegisterIdentity, RegistrationRefused, KeepSpk, Stages
  <2>2. srvId' \in Nat /\ events' \in Nat
    BY <1>1 DEF OpenApp, RegisterIdentity, RegistrationRefused, KeepSpk, Occurs, PkTypeOK, srvVars
  <2>3. UNCHANGED <<srvSpk, srvOtp, phone, spkMeta, spkPriv, otpNext, otpPriv, sessions, uploads,
                    bundle, lost, tornSpk>>
    BY <1>1 DEF OpenApp, RegisterIdentity, RegistrationRefused, KeepSpk, srvVars
  <2> QED BY <2>1, <2>2, <2>3 DEF PkTypeOK, PkFinite, Stages
<1>2. ASSUME RotateSpk
      PROVE  PkTypeOK' /\ PkFinite'
  <2>1. GenerateSpk(spkMeta + 1, [app EXCEPT !.rotation = "uploading"])
    BY <1>2 DEF RotateSpk
  <2>2. [app EXCEPT !.rotation = "uploading"] \in Stages /\ spkMeta + 1 \in Nat
    BY <1>a DEF Stages, PkTypeOK
  <2>3. events' \in Nat
    BY <1>2 DEF RotateSpk, Occurs, PkTypeOK
  <2>4. UNCHANGED <<srvVars, phone, spkMeta, otpNext, otpPriv, sessions, bundle, tornSpk>>
    BY <1>2 DEF RotateSpk
  <2> HIDE DEF GenerateSpk
  <2> QED BY <2>1, <2>2, <2>3, <2>4, GenerateSpkTypes
          DEF PkTypeOK, PkFinite, Stages, UploadStates, srvVars
<1>3. ASSUME CountOtps
      PROVE  PkTypeOK' /\ PkFinite'
  <2>1. Cardinality(srvOtp) \in Nat
    BY FS_CardinalityType DEF PkFinite
  <2>2. app' \in Stages /\ events' \in Nat
    BY <1>3, <1>a, <2>1 DEF CountOtps, Occurs, Stages, PkTypeOK
  <2>3. UNCHANGED <<srvVars, phone, spkMeta, spkPriv, otpNext, otpPriv, sessions, uploads,
                    bundle, lost, tornSpk>>
    BY <1>3 DEF CountOtps
  <2> QED BY <2>2, <2>3 DEF PkTypeOK, PkFinite, Stages, srvVars
<1>4. ASSUME EnsureSpk
      PROVE  PkTypeOK' /\ PkFinite'
  <2>1. UNCHANGED <<srvVars, phone, spkMeta, otpNext, otpPriv, sessions, bundle, events, tornSpk>>
    BY <1>4 DEF EnsureSpk
  <2>2. CASE GenerateSpk(1, [app EXCEPT !.pc = "ensure"])
    <3>1. [app EXCEPT !.pc = "ensure"] \in Stages
      BY <1>a DEF Stages
    <3> QED BY <2>1, <2>2, <3>1, GenerateSpkTypes
            DEF PkTypeOK, PkFinite, Stages, UploadStates, srvVars
  <2>3. CASE app' = [app EXCEPT !.pc = "replenish"] /\ UNCHANGED <<spkPriv, lost, uploads>>
    <3>1. app' \in Stages
      BY <1>a, <2>3 DEF Stages
    <3> QED BY <2>1, <2>3, <3>1 DEF PkTypeOK, PkFinite, Stages, srvVars
  <2> QED BY <1>4, <2>2, <2>3 DEF EnsureSpk
<1>5. ASSUME ReserveOtpId
      PROVE  PkTypeOK' /\ PkFinite'
  <2>1. app' \in Stages
    BY <1>5, <1>a DEF ReserveOtpId, Stages
  <2>2. otpNext' \in Nat
    BY <1>5 DEF ReserveOtpId, PkTypeOK
  <2> QED BY <1>5, <2>1, <2>2 DEF ReserveOtpId, PkTypeOK, PkFinite, Stages, srvVars
<1>6. ASSUME GenerateOtps
      PROVE  PkTypeOK' /\ PkFinite'
  <2>1. Fresh \in Nat /\ otpNext - 1 \in Nat /\ phone \in Nat
    BY FreshNumber DEF PkTypeOK, OtpIdInv
  <2>2. Key(otpNext - 1, Fresh, phone) \in Keys
    BY <2>1 DEF Key, Keys
  <2>3. /\ otpPriv' = {k \in otpPriv : k.id # otpNext - 1} \cup {Key(otpNext - 1, Fresh, phone)}
        /\ app' = [app EXCEPT !.pc = "upload", !.key = Fresh]
        /\ lost' = lost \ {Fresh}
        /\ UNCHANGED <<srvVars, phone, spkMeta, spkPriv, otpNext, sessions, uploads, bundle,
                       events, tornSpk>>
    BY <1>6 DEF GenerateOtps
  <2>4. app' \in Stages
    BY <1>a, <2>1, <2>3 DEF Stages
  <2>5. otpPriv' \subseteq Keys
    BY <2>2, <2>3 DEF PkTypeOK
  <2>6. IsFiniteSet(otpPriv')
    <3>1. IsFiniteSet({k \in otpPriv : k.id # otpNext - 1})
      BY FS_Subset DEF PkFinite
    <3> QED BY <2>3, <3>1, FS_AddElement
  <2> QED BY <2>3, <2>4, <2>5, <2>6 DEF PkTypeOK, PkFinite, Stages, srvVars
<1>7. ASSUME UploadOtps
      PROVE  PkTypeOK' /\ PkFinite'
  <2> DEFINE new == Key(otpNext - 1, app.key, phone)
  <2>1. new \in Keys
    BY <1>a DEF Key, Keys, PkTypeOK, OtpIdInv, Stages
  <2>2. srvOtp' = srvOtp \/ srvOtp' = srvOtp \cup {new}
    BY <1>7 DEF UploadOtps
  <2>3. srvOtp' \subseteq Keys /\ IsFiniteSet(srvOtp')
    BY <2>1, <2>2, FS_AddElement DEF PkTypeOK, PkFinite
  <2>4. app' \in Stages
    <3>1. \/ app' = [app EXCEPT !.pc = "on", !.key = 0]
          \/ app' = [app EXCEPT !.pc = "failed", !.key = 0]
      BY <1>7 DEF UploadOtps
    <3>2. [app EXCEPT !.pc = "on", !.key = 0] \in Stages
      BY <1>a DEF Stages
    <3>3. [app EXCEPT !.pc = "failed", !.key = 0] \in Stages
      BY <1>a DEF Stages
    <3> QED BY <3>1, <3>2, <3>3
  <2>6. events' \in Nat
    BY <1>7 DEF UploadOtps, Occurs, PkTypeOK
  <2>5. UNCHANGED <<srvId, srvSpk, phone, spkMeta, spkPriv, otpNext, otpPriv,
                    sessions, uploads, bundle, lost, tornSpk>>
    BY <1>7 DEF UploadOtps
  <2> QED BY <2>3, <2>4, <2>5, <2>6 DEF PkTypeOK, PkFinite, Stages
<1>8. ASSUME SweepOtps
      PROVE  PkTypeOK' /\ PkFinite'
  <2>1. app' \in Stages
    BY <1>8, <1>a DEF SweepOtps, Stages
  <2>2. PICK gone \in SUBSET otpPriv : /\ otpPriv' = otpPriv \ gone
                                       /\ lost' = lost \cup ({k.key : k \in gone} \cap Offered)
    BY <1>8 DEF SweepOtps
  <2>3. otpPriv' \subseteq Keys /\ IsFiniteSet(otpPriv') /\ lost' \subseteq Nat
    <3>1. {k.key : k \in gone} \subseteq Nat
      BY DEF PkTypeOK, Keys
    <3> QED BY <2>2, <3>1, FS_Subset DEF PkTypeOK, PkFinite
  <2> QED BY <1>8, <2>1, <2>3 DEF SweepOtps, PkTypeOK, PkFinite, Stages, srvVars
<1>9. ASSUME SpkUploadTimesOut
      PROVE  PkTypeOK' /\ PkFinite'
  <2>1. PICK u \in uploads :
          /\ app.key = u.key.key /\ Occurs
          /\ Uploaded(u, FALSE)
          /\ uploads' \in {uploads, uploads \ {u}}
          /\ UNCHANGED <<srvVars, phone, spkMeta, spkPriv, otpNext, otpPriv, sessions,
                         bundle, lost, tornSpk>>
    BY <1>9 DEF SpkUploadTimesOut
  <2>2. app' \in Stages
    BY <2>1, AppTypes
  <2>3. IsFiniteSet(uploads') /\ uploads' \subseteq uploads
    BY <2>1, FS_Subset DEF PkFinite
  <2>4. events' \in Nat
    BY <2>1 DEF Occurs, PkTypeOK
  <2> QED BY <2>1, <2>2, <2>3, <2>4 DEF PkTypeOK, PkFinite, Stages, srvVars
<1>10. ASSUME NEW u \in uploads, VerifySpk(u)
       PROVE  PkTypeOK' /\ PkFinite'
  <2>1. UNCHANGED <<srvVars, phone, spkMeta, spkPriv, otpNext, otpPriv, sessions,
                    bundle, events, lost, tornSpk>>
    BY <1>10 DEF VerifySpk
  <2>2. app' \in Stages
    BY <1>10, <1>a, AppTypes DEF VerifySpk
  <2>3. uploads' \subseteq UploadStates /\ IsFiniteSet(uploads')
    <3>1. [u EXCEPT !.verified = TRUE] \in UploadStates /\ uploads \subseteq UploadStates
      BY DEF UploadStates, PkTypeOK
    <3>2. IsFiniteSet(uploads \ {u}) /\ IsFiniteSet((uploads \ {u}) \cup {[u EXCEPT !.verified = TRUE]})
      BY FS_Subset, FS_AddElement DEF PkFinite
    <3> QED BY <1>10, <3>1, <3>2 DEF VerifySpk
  <2> QED BY <2>1, <2>2, <2>3 DEF PkTypeOK, PkFinite, Stages, UploadStates, srvVars
<1>11. ASSUME NEW u \in uploads, StoreSpk(u)
       PROVE  PkTypeOK' /\ PkFinite'
  <2>1. UNCHANGED <<srvId, srvOtp, phone, spkPriv, otpNext, otpPriv, sessions,
                    bundle, events, lost>>
    BY <1>11 DEF StoreSpk
  <2>2. app' \in Stages
    BY <1>11, AppTypes DEF StoreSpk
  <2>3. u.key \in Keys /\ u.key.id \in Nat
    BY DEF PkTypeOK, Keys
  <2>4. srvSpk' \in Keys /\ spkMeta' \in Nat /\ tornSpk' \in BOOLEAN
    BY <1>11, <2>3 DEF StoreSpk, PkTypeOK
  <2>5. IsFiniteSet(uploads') /\ uploads' \subseteq uploads
    BY <1>11, FS_Subset DEF PkFinite, StoreSpk
  <2> QED BY <2>1, <2>2, <2>4, <2>5 DEF PkTypeOK, PkFinite, Stages
<1>12. ASSUME NEW c \in Contacts, FetchIdentity(c) \/ FetchSpk(c)
       PROVE  PkTypeOK' /\ PkFinite'
  <2>1. bundle[c] \in BundleStates /\ srvId \in Nat /\ srvSpk \in Keys
    BY DEF PkTypeOK, BundleStates
  <2>2. bundle' \in [Contacts -> BundleStates]
    <3>1. [NoBundle EXCEPT !.pc = "identity", !.identity = srvId] \in BundleStates
      BY <1>b, <2>1 DEF BundleStates
    <3>2. [bundle[c] EXCEPT !.pc = "spk", !.spk = srvSpk] \in BundleStates
      BY <2>1 DEF BundleStates
    <3>3. \E b \in BundleStates : bundle' = [bundle EXCEPT ![c] = b]
      BY <1>12, <1>b, <3>1, <3>2 DEF FetchIdentity, FetchSpk
    <3> QED BY <3>3 DEF PkTypeOK, BundleStates
  <2>3. UNCHANGED <<srvVars, devVars, uploads, events, lost, tornSpk>>
    BY <1>12 DEF FetchIdentity, FetchSpk
  <2> QED BY <2>2, <2>3 DEF PkTypeOK, PkFinite, BundleStates, srvVars, devVars
<1>13. ASSUME NEW c \in Contacts, ClaimOtp(c)
       PROVE  PkTypeOK' /\ PkFinite'
  <2>1. PICK k \in IF srvOtp = {} THEN {NoKey} ELSE srvOtp :
          /\ srvOtp' = srvOtp \ {k}
          /\ bundle' = [bundle EXCEPT ![c] =
                 IF @.spk.by = @.identity THEN [@ EXCEPT !.pc = "sent", !.otp = k] ELSE Over]
    BY <1>13 DEF ClaimOtp
  <2>2. k \in Keys
    BY <1>b DEF PkTypeOK
  <2>3. bundle' \in [Contacts -> BundleStates]
    BY <1>b, <2>1, <2>2 DEF PkTypeOK, BundleStates
  <2>4. srvOtp' \subseteq srvOtp /\ IsFiniteSet(srvOtp')
    BY <2>1, FS_Subset DEF PkFinite
  <2>5. UNCHANGED <<srvId, srvSpk, devVars, uploads, events, lost, tornSpk>>
    BY <1>13 DEF ClaimOtp
  <2> QED BY <2>3, <2>4, <2>5 DEF PkTypeOK, PkFinite, BundleStates, devVars
<1>14. ASSUME NEW c \in Contacts, ReceiveFirstMessage(c)
       PROVE  PkTypeOK' /\ PkFinite'
  <2>1. bundle' = [bundle EXCEPT ![c] = Over] /\ sessions' \in BOOLEAN /\ otpPriv' \subseteq otpPriv
    BY <1>14 DEF ReceiveFirstMessage, PkTypeOK
  <2>2. IsFiniteSet(otpPriv')
    BY <2>1, FS_Subset DEF PkFinite
  <2>3. bundle' \in [Contacts -> BundleStates]
    BY <1>b, <2>1 DEF PkTypeOK, BundleStates
  <2>4. UNCHANGED <<srvVars, phone, spkMeta, spkPriv, otpNext, app, uploads,
                    events, lost, tornSpk>>
    BY <1>14 DEF ReceiveFirstMessage
  <2> QED BY <2>1, <2>2, <2>3, <2>4 DEF PkTypeOK, PkFinite, BundleStates, srvVars
<1>15. CASE NewPhone
  <2>1. /\ spkPriv' = {} /\ otpPriv' = {} /\ otpNext' = 1 /\ spkMeta' = 0 /\ app' = Off
        /\ sessions' = FALSE /\ phone' = phone + 1 /\ events' \in Nat
        /\ UNCHANGED <<srvVars, uploads, bundle, lost, tornSpk>>
    BY <1>15 DEF NewPhone, Occurs, PkTypeOK
  <2>2. PkFinite'
    BY <2>1, FS_EmptySet DEF PkFinite, srvVars
  <2>3. phone' \in Nat /\ spkPriv' \subseteq Keys /\ otpPriv' \subseteq Keys
    BY <2>1 DEF PkTypeOK
  <2> QED BY <1>a, <2>1, <2>2, <2>3 DEF PkTypeOK, Stages, srvVars
<1>16. CASE UNCHANGED pkVars
  BY <1>16 DEF pkVars, srvVars, devVars, PkTypeOK, PkFinite
<1> QED BY <1>1, <1>2, <1>3, <1>4, <1>5, <1>6, <1>7, <1>8, <1>9, <1>10, <1>11, <1>12, <1>13,
           <1>14, <1>15, <1>16 DEF PkNext, Initialize

-----------------------------------------------------------------------------
\* An upload that was verified is of the same key.
LEMMA SameUpload ==
  ASSUME PkTypeOK, NEW u \in uploads, VerifySpk(u) \/ StoreSpk(u)
  PROVE  \A x \in uploads' : x \in uploads \/ x.key = u.key
<1>1. [u EXCEPT !.verified = TRUE].key = u.key
  BY DEF PkTypeOK
<1>2. VerifySpk(u) => uploads' \subseteq uploads \cup {[u EXCEPT !.verified = TRUE]}
  BY DEF VerifySpk
<1>3. StoreSpk(u) => uploads' \subseteq uploads
  BY DEF StoreSpk
<1> QED BY <1>1, <1>2, <1>3

LEMMA PkPhoneStep ==
  ASSUME PkTypeOK, PhoneInv, [PkNext]_pkVars
  PROVE  PhoneInv'
<1> USE DEF PkTypeOK, PhoneInv
<1>1. ASSUME NEW id, NEW next, GenerateSpk(id, next), UNCHANGED <<srvVars, phone, bundle>>
      PROVE  PhoneInv'
  <2>1. uploads' = uploads \cup {[key |-> Key(id, Fresh, phone), verified |-> FALSE]}
    BY <1>1 DEF GenerateSpk
  <2>2. Key(id, Fresh, phone).by <= phone
    BY DEF Key
  <2>3. \A u \in uploads' : u.key.by <= phone
    BY <2>1, <2>2
  <2> QED BY <1>1, <2>3 DEF srvVars
<1>2. CASE RotateSpk
  BY <1>1, <1>2 DEF RotateSpk
<1>3. CASE EnsureSpk
  <2>1. CASE GenerateSpk(1, [app EXCEPT !.pc = "ensure"])
    BY <1>1, <1>3, <2>1 DEF EnsureSpk
  <2>2. CASE UNCHANGED uploads
    BY <1>3, <2>2 DEF EnsureSpk, srvVars
  <2> QED BY <1>3, <2>1, <2>2 DEF EnsureSpk
<1>4. CASE UploadOtps
  <2>1. srvOtp' \subseteq srvOtp \cup {Key(otpNext - 1, app.key, phone)}
    BY <1>4 DEF UploadOtps
  <2>2. Key(otpNext - 1, app.key, phone).by \in 1..phone
    BY DEF Key
  <2> QED BY <1>4, <2>1, <2>2 DEF UploadOtps
<1>5. ASSUME NEW u \in uploads, VerifySpk(u)
      PROVE  PhoneInv'
  <2>1. \A x \in uploads' : x \in uploads \/ x.key = u.key
    BY <1>5, SameUpload
  <2> QED BY <1>5, <2>1 DEF VerifySpk, srvVars
<1>6. ASSUME NEW u \in uploads, StoreSpk(u)
      PROVE  PhoneInv'
  BY <1>6 DEF StoreSpk
<1>7. CASE SpkUploadTimesOut
  BY <1>7 DEF SpkUploadTimesOut, srvVars
<1>8. ASSUME NEW c \in Contacts, FetchIdentity(c) \/ FetchSpk(c)
      PROVE  PhoneInv'
  <2>1. /\ UNCHANGED <<phone, srvId, srvSpk, srvOtp, uploads>>
        /\ \A d \in Contacts \ {c} : bundle'[d] = bundle[d]
    BY <1>8 DEF FetchIdentity, FetchSpk, srvVars, devVars
  <2>2. FetchIdentity(c) => bundle'[c] = [NoBundle EXCEPT !.pc = "identity", !.identity = srvId]
    BY DEF FetchIdentity
  <2>3. FetchSpk(c) => bundle'[c] = NoBundle \/ bundle'[c] = [bundle[c] EXCEPT !.pc = "spk", !.spk = srvSpk]
    BY DEF FetchSpk
  <2>4. /\ bundle'[c].identity <= phone /\ bundle'[c].spk.by <= phone
        /\ bundle'[c].otp.by <= phone /\ bundle'[c].pc # "sent"
    <3>1. /\ bundle[c].identity <= phone /\ bundle[c].spk.by <= phone /\ bundle[c].otp.by <= phone
          /\ srvId <= phone /\ srvSpk.by <= phone /\ 0 <= phone
      OBVIOUS
    <3>2. CASE FetchIdentity(c)
      <4>1. /\ bundle'[c].pc = "identity" /\ bundle'[c].identity = srvId
            /\ bundle'[c].spk = NoKey /\ bundle'[c].otp = NoKey
        BY <2>2, <3>2 DEF NoBundle
      <4> QED BY <3>1, <4>1 DEF NoKey
    <3>3. CASE bundle'[c] = NoBundle
      BY <3>1, <3>3 DEF NoBundle, NoKey
    <3>4. CASE bundle'[c] = [bundle[c] EXCEPT !.pc = "spk", !.spk = srvSpk]
      <4>1. /\ bundle'[c].pc = "spk" /\ bundle'[c].spk = srvSpk
            /\ bundle'[c].otp = bundle[c].otp /\ bundle'[c].identity = bundle[c].identity
        BY <3>4
      <4> QED BY <3>1, <4>1
    <3> QED BY <1>8, <2>3, <3>2, <3>3, <3>4
  <2> QED BY <2>1, <2>4
<1>9. ASSUME NEW c \in Contacts, ClaimOtp(c)
      PROVE  PhoneInv'
  <2>1. PICK k \in IF srvOtp = {} THEN {NoKey} ELSE srvOtp :
          /\ srvOtp' = srvOtp \ {k}
          /\ bundle' = [bundle EXCEPT ![c] =
                 IF @.spk.by = @.identity THEN [@ EXCEPT !.pc = "sent", !.otp = k] ELSE Over]
    BY <1>9 DEF ClaimOtp
  <2>2. k.by <= phone
    BY DEF NoKey
  <2>3. /\ bundle'[c].identity <= phone /\ bundle'[c].spk.by <= phone
        /\ bundle'[c].otp.by <= phone
        /\ bundle'[c].pc = "sent" => bundle'[c].spk.by = bundle'[c].identity
    BY <2>1, <2>2 DEF Over, NoBundle, NoKey
  <2>4. \A d \in Contacts \ {c} : bundle'[d] = bundle[d]
    BY <2>1
  <2> QED BY <1>9, <2>1, <2>3, <2>4 DEF ClaimOtp, devVars
<1>10. ASSUME NEW c \in Contacts, ReceiveFirstMessage(c)
       PROVE  PhoneInv'
  BY <1>10 DEF ReceiveFirstMessage, srvVars, Over, NoBundle, NoKey
<1>11. CASE NewPhone
  <2>1. phone' = phone + 1 /\ UNCHANGED <<srvId, srvSpk, srvOtp, uploads, bundle>>
    BY <1>11 DEF NewPhone, srvVars
  <2>2. \A n \in Int : n <= phone => n <= phone'
    BY <2>1
  <2>3. /\ srvSpk.by \in Nat /\ \A k \in srvOtp : k.by \in Nat
        /\ \A u \in uploads : u.key.by \in Nat
        /\ \A c \in Contacts : {bundle[c].identity, bundle[c].spk.by, bundle[c].otp.by} \subseteq Nat
    BY DEF Keys
  <2> QED BY <2>1, <2>2, <2>3
<1>12. CASE UNCHANGED <<phone, srvId, srvSpk, srvOtp, uploads, bundle>>
  BY <1>12
<1>13. RegisterIdentity => PhoneInv'
  BY DEF RegisterIdentity
<1> QED BY <1>2, <1>3, <1>4, <1>5, <1>6, <1>7, <1>8, <1>9, <1>10, <1>11, <1>12, <1>13
        DEF PkNext, Initialize, pkVars, srvVars, devVars, OpenApp, RegistrationRefused,
            KeepSpk, CountOtps, ReserveOtpId, GenerateOtps, SweepOtps

\* A new signed pre-key is kept, and one it replaces is given up if it was offered.
LEMMA GenerateSpkAccounts ==
  ASSUME PkFinite, NEW id, NEW next, GenerateSpk(id, next), phone' = phone,
         NEW k, k.key \in Offered
  PROVE  Accounted(k, spkPriv) => Accounted(k, spkPriv)'
<1> DEFINE new == Key(id, Fresh, phone)
           old == {x \in spkPriv : x.id = id}
<1>1. /\ spkPriv' = (spkPriv \ old) \cup {new}
      /\ lost' = (lost \ {new.key}) \cup ({x.key : x \in old} \cap Offered)
    BY DEF GenerateSpk
<1>2. k.key # new.key
  BY FreshNumber DEF Key
<1> HIDE DEF new
<1> QED BY <1>1, <1>2 DEF Accounted

LEMMA SpkOffered ==
  /\ srvSpk.key \in Offered
  /\ \A u \in uploads : u.key.key \in Offered
  /\ \A c \in Contacts : bundle[c].spk.key \in Offered
  /\ \A k \in srvOtp : k.key \in Offered
  /\ \A c \in Contacts : bundle[c].otp.key \in Offered
  /\ app.key \in Offered
BY DEF Offered

LEMMA PkSpkStep ==
  ASSUME PkTypeOK, PkFinite, PhoneInv, SpkInv, [PkNext]_pkVars
  PROVE  SpkInv'
<1> USE DEF PkTypeOK, SpkInv
<1>1. ASSUME NEW id, NEW next, GenerateSpk(id, next), UNCHANGED <<srvVars, phone, bundle>>
      PROVE  SpkInv'
  <2>1. /\ uploads' = uploads \cup {[key |-> Key(id, Fresh, phone), verified |-> FALSE]}
        /\ Key(id, Fresh, phone) \in spkPriv'
    BY <1>1 DEF GenerateSpk
  <2>2. \A k : k.key \in Offered /\ Accounted(k, spkPriv) => Accounted(k, spkPriv)'
    BY <1>1, GenerateSpkAccounts
  <2>3. \A u \in uploads' : Accounted(u.key, spkPriv)'
    BY <2>1, <2>2, SpkOffered DEF Accounted
  <2> QED BY <1>1, <2>2, <2>3, SpkOffered DEF srvVars
<1>2. CASE RotateSpk
  BY <1>1, <1>2 DEF RotateSpk
<1>3. CASE EnsureSpk
  <2>1. CASE GenerateSpk(1, [app EXCEPT !.pc = "ensure"])
    BY <1>1, <1>3, <2>1 DEF EnsureSpk
  <2>2. CASE UNCHANGED <<spkPriv, lost, uploads>>
    BY <1>3, <2>2 DEF EnsureSpk, srvVars, Accounted
  <2> QED BY <1>3, <2>1, <2>2 DEF EnsureSpk
<1>4. ASSUME UNCHANGED <<phone, spkPriv>>, lost \cap Offered \subseteq lost',
             srvSpk' = srvSpk \/ \E u \in uploads : srvSpk' = u.key,
             \A u \in uploads' : \E v \in uploads : u.key = v.key,
             \A c \in Contacts : bundle'[c].spk \in {bundle[c].spk, NoKey, srvSpk}
      PROVE  SpkInv'
  <2>1. \A k : k.key \in Offered /\ Accounted(k, spkPriv) => Accounted(k, spkPriv)'
    BY <1>4 DEF Accounted
  <2>2. Accounted(NoKey, spkPriv)'
    BY <1>4 DEF Accounted, NoKey, PhoneInv
  <2> QED BY <1>4, <2>1, <2>2, SpkOffered
<1>5. CASE GenerateOtps
  <2>1. /\ lost' = lost \ {Fresh}
        /\ UNCHANGED <<srvSpk, phone, spkPriv, uploads, bundle>>
    BY <1>5 DEF GenerateOtps, srvVars
  <2> QED BY <1>4, <2>1, FreshNumber
<1>6. CASE SweepOtps
  <2>1. /\ lost \subseteq lost'
        /\ UNCHANGED <<srvSpk, phone, spkPriv, uploads, bundle>>
    BY <1>6 DEF SweepOtps, srvVars
  <2> QED BY <1>4, <2>1
<1>7. ASSUME NEW u \in uploads, VerifySpk(u) \/ StoreSpk(u)
      PROVE  SpkInv'
  <2>1. /\ srvSpk' = srvSpk \/ srvSpk' = u.key
        /\ UNCHANGED <<phone, spkPriv, lost, bundle>>
    BY <1>7 DEF VerifySpk, StoreSpk, srvVars
  <2>2. \A x \in uploads' : x \in uploads \/ x.key = u.key
    BY <1>7, SameUpload
  <2> QED BY <1>4, <2>1, <2>2
<1>8. CASE SpkUploadTimesOut
  <2>1. /\ uploads' \subseteq uploads
        /\ UNCHANGED <<srvSpk, phone, spkPriv, lost, bundle>>
    BY <1>8 DEF SpkUploadTimesOut, srvVars
  <2> QED BY <1>4, <2>1
<1>9. ASSUME NEW c \in Contacts,
             FetchIdentity(c) \/ FetchSpk(c) \/ ClaimOtp(c) \/ ReceiveFirstMessage(c)
      PROVE  SpkInv'
  <2>1. UNCHANGED <<srvSpk, phone, spkPriv, lost, uploads>>
    BY <1>9 DEF FetchIdentity, FetchSpk, ClaimOtp, ReceiveFirstMessage, srvVars, devVars
  <2>2. \A d \in Contacts \ {c} : bundle'[d] = bundle[d]
    BY <1>9 DEF FetchIdentity, FetchSpk, ClaimOtp, ReceiveFirstMessage
  <2>3. bundle'[c].spk \in {bundle[c].spk, NoKey, srvSpk}
    <3>1. FetchIdentity(c) \/ ReceiveFirstMessage(c) => bundle'[c].spk = NoKey
      BY DEF FetchIdentity, ReceiveFirstMessage, Over, NoBundle
    <3>2. FetchSpk(c) => bundle'[c].spk \in {NoKey, srvSpk}
      BY DEF FetchSpk, NoBundle
    <3>3. ClaimOtp(c) => bundle'[c].spk \in {bundle[c].spk, NoKey}
      BY DEF ClaimOtp, Over, NoBundle
    <3> QED BY <1>9, <3>1, <3>2, <3>3
  <2> QED BY <1>4, <2>1, <2>2, <2>3
<1>10. CASE NewPhone
  <2>1. phone' = phone + 1 /\ UNCHANGED <<srvSpk, uploads, bundle>>
    BY <1>10 DEF NewPhone, srvVars
  <2> QED BY <2>1 DEF Accounted, PhoneInv, Keys
<1>11. CASE UNCHANGED <<phone, srvSpk, spkPriv, lost, uploads, bundle>>
  BY <1>4, <1>11
<1> QED BY <1>2, <1>3, <1>5, <1>6, <1>7, <1>8, <1>9, <1>10, <1>11
        DEF PkNext, Initialize, pkVars, srvVars, devVars, OpenApp, RegisterIdentity,
            RegistrationRefused, KeepSpk, CountOtps, ReserveOtpId, UploadOtps

-----------------------------------------------------------------------------
\* The end of an upload: initialize goes on, its rotation is over, or it was
\* not waiting.
LEMMA UploadedStage ==
  ASSUME PkTypeOK, StageInv, NEW u \in uploads, NEW ok \in BOOLEAN, Uploaded(u, ok)
  PROVE  \/ app' = app
         \/ app.pc = "ensure" /\ app'.pc = "replenish" /\ app'.rotation = app.rotation
         \/ app.pc # "upload" /\ app'.pc = app.pc /\ app'.rotation \in {"rotated", "over"}
BY DEF PkTypeOK, StageInv, Uploaded

LEMMA PkStageStep ==
  ASSUME PkTypeOK, PkFinite, StageInv, [PkNext]_pkVars
  PROVE  StageInv'
<1> USE DEF PkTypeOK, StageInv
<1>1. ASSUME app'.pc \notin {"ensure", "replenish", "generate", "upload", "on"}
      PROVE  StageInv'
  BY <1>1
<1>2. ASSUME NEW u \in uploads, NEW ok \in BOOLEAN, Uploaded(u, ok),
             \A x \in uploads' : \E y \in uploads : x.key = y.key
      PROVE  StageInv'
  BY <1>2, UploadedStage
<1>3. CASE OpenApp \/ RegisterIdentity \/ RegistrationRefused \/ NewPhone
  <2>1. app'.pc \in {"batch1", "registered", "failed", "off"}
    <3>1. OpenApp => app'.pc = "batch1"
      BY DEF OpenApp, Off
    <3>2. RegisterIdentity => app'.pc = "registered"
      BY DEF RegisterIdentity
    <3>3. RegistrationRefused => app'.pc = "failed"
      BY DEF RegistrationRefused
    <3>4. NewPhone => app'.pc = "off"
      BY DEF NewPhone, Off
    <3> QED BY <1>3, <3>1, <3>2, <3>3, <3>4
  <2> QED BY <1>1, <2>1
<1>4. CASE RotateSpk
  <2>1. app.rotation = "todo" /\ app'.pc = app.pc
    BY <1>4 DEF RotateSpk, GenerateSpk
  <2> QED BY <1>1, <2>1
<1>5. CASE KeepSpk
  <2>1. app.rotation = "todo" /\ app'.pc = app.pc
    BY <1>5 DEF KeepSpk
  <2> QED BY <1>1, <2>1
<1>6. CASE CountOtps
  <2>1. app'.pc \in {"batch1", "registered"}
    BY <1>6 DEF CountOtps
  <2> QED BY <1>1, <2>1
<1>7. CASE EnsureSpk
  <2>1. app'.pc \in {"ensure", "replenish"} /\ app'.rotation \in {"rotated", "over"}
    BY <1>7 DEF EnsureSpk, GenerateSpk
  <2> QED BY <2>1
<1>8. CASE ReserveOtpId
  <2>1. /\ app.pc = "replenish" /\ app'.pc \in {"generate", "on", "failed"}
        /\ app'.rotation = app.rotation
    BY <1>8 DEF ReserveOtpId
  <2> QED BY <2>1
<1>9. CASE GenerateOtps
  <2>1. /\ app.pc = "generate" /\ app'.rotation = app.rotation /\ app'.key = Fresh
        /\ uploads' = uploads
    BY <1>9 DEF GenerateOtps
  <2> QED BY <2>1, FreshNumber, SpkOffered
<1>10. CASE UploadOtps
  <2>1. app.pc = "upload" /\ app'.pc \in {"on", "failed"} /\ app'.rotation = app.rotation
    BY <1>10 DEF UploadOtps
  <2> QED BY <2>1
<1>11. CASE SweepOtps
  BY <1>11 DEF SweepOtps
<1>12. CASE SpkUploadTimesOut
  <2>1. PICK u \in uploads : Uploaded(u, FALSE) /\ uploads' \in {uploads, uploads \ {u}}
    BY <1>12 DEF SpkUploadTimesOut
  <2> QED BY <1>2, <2>1
<1>13. ASSUME NEW u \in uploads, VerifySpk(u)
       PROVE  StageInv'
  <2>1. \A x \in uploads' : \E y \in uploads : x.key = y.key
    BY <1>13, SameUpload
  <2>2. app' = app \/ Uploaded(u, FALSE)
    BY <1>13 DEF VerifySpk
  <2>3. CASE app' = app
    BY <2>1, <2>3
  <2> QED BY <1>2, <2>1, <2>2, <2>3
<1>14. ASSUME NEW u \in uploads, StoreSpk(u)
       PROVE  StageInv'
  <2>1. uploads' \subseteq uploads /\ Uploaded(u, TRUE)
    BY <1>14 DEF StoreSpk
  <2> QED BY <1>2, <2>1
<1>15. CASE UNCHANGED <<app, uploads>>
  BY <1>15
<1> QED BY <1>3, <1>4, <1>5, <1>6, <1>7, <1>8, <1>9, <1>10, <1>11, <1>12, <1>13, <1>14, <1>15
        DEF PkNext, Initialize, pkVars, devVars, FetchIdentity, FetchSpk, ClaimOtp,
            ReceiveFirstMessage

LEMMA PkOtpIdStep ==
  ASSUME PkTypeOK, PkFinite, OtpIdInv, StageInv, [PkNext]_pkVars
  PROVE  OtpIdInv'
<1> USE DEF PkTypeOK, OtpIdInv
<1>1. ASSUME otpPriv' \subseteq otpPriv, otpNext' = otpNext, app'.pc = "generate" => app.pc = "generate"
      PROVE  OtpIdInv'
  BY <1>1
<1>2. CASE OpenApp \/ RegisterIdentity \/ RegistrationRefused
  BY <1>1, <1>2 DEF OpenApp, RegisterIdentity, RegistrationRefused, Off
<1>3. CASE RotateSpk \/ KeepSpk \/ CountOtps
  <2>1. app'.pc = app.pc /\ UNCHANGED <<otpPriv, otpNext>>
    BY <1>3 DEF RotateSpk, GenerateSpk, KeepSpk, CountOtps
  <2> QED BY <1>1, <2>1
<1>4. CASE EnsureSpk
  <2>1. app'.pc \in {"ensure", "replenish"} /\ UNCHANGED <<otpPriv, otpNext>>
    BY <1>4 DEF EnsureSpk, GenerateSpk
  <2> QED BY <1>1, <2>1
<1>5. CASE ReserveOtpId
  <2>1. \/ otpNext' = otpNext + 1
        \/ otpNext' = otpNext /\ app'.pc \in {"on", "failed"}
    BY <1>5 DEF ReserveOtpId
  <2>2. otpPriv' = otpPriv /\ \A k \in otpPriv : k.id \in Nat
    BY <1>5 DEF ReserveOtpId, Keys
  <2> QED BY <2>1, <2>2
<1>6. CASE GenerateOtps
  <2>1. /\ otpPriv' \subseteq otpPriv \cup {Key(otpNext - 1, Fresh, phone)}
        /\ otpNext' = otpNext /\ app'.pc = "upload"
    BY <1>6 DEF GenerateOtps
  <2>2. Key(otpNext - 1, Fresh, phone).id < otpNext
    BY DEF Key
  <2> QED BY <2>1, <2>2
<1>7. CASE UploadOtps
  <2>1. app'.pc \in {"on", "failed"} /\ UNCHANGED <<otpPriv, otpNext>>
    BY <1>7 DEF UploadOtps
  <2> QED BY <1>1, <2>1
<1>8. CASE SweepOtps
  <2>1. app'.pc = app.pc /\ otpNext' = otpNext /\ otpPriv' \subseteq otpPriv
    BY <1>8 DEF SweepOtps
  <2> QED BY <1>1, <2>1
<1>9. ASSUME NEW u \in uploads, NEW ok \in BOOLEAN, Uploaded(u, ok), UNCHANGED <<otpPriv, otpNext>>
      PROVE  OtpIdInv'
  BY <1>1, <1>9, UploadedStage
<1>10. CASE SpkUploadTimesOut
  BY <1>9, <1>10 DEF SpkUploadTimesOut
<1>11. ASSUME NEW u \in uploads, VerifySpk(u) \/ StoreSpk(u)
       PROVE  OtpIdInv'
  <2>1. app' = app \/ Uploaded(u, TRUE) \/ Uploaded(u, FALSE)
    BY <1>11 DEF VerifySpk, StoreSpk
  <2>2. UNCHANGED <<otpPriv, otpNext>>
    BY <1>11 DEF VerifySpk, StoreSpk
  <2> QED BY <1>1, <1>9, <2>1, <2>2
<1>12. ASSUME NEW c \in Contacts, ReceiveFirstMessage(c)
       PROVE  OtpIdInv'
  BY <1>1, <1>12 DEF ReceiveFirstMessage
<1>13. CASE NewPhone
  BY <1>13 DEF NewPhone
<1>14. CASE UNCHANGED <<app, otpPriv, otpNext>>
  BY <1>1, <1>14
<1> QED BY <1>2, <1>3, <1>4, <1>5, <1>6, <1>7, <1>8, <1>10, <1>11, <1>12, <1>13, <1>14
        DEF PkNext, Initialize, pkVars, devVars, FetchIdentity, FetchSpk, ClaimOtp

-----------------------------------------------------------------------------
\* What a step must leave alone, so that the one-time pre-keys stay where they
\* are; a bundle may be given up.
OtpFrame ==
    /\ app'.pc = "upload" => app.pc = "upload" /\ InHand' = InHand
    /\ srvOtp' \subseteq srvOtp
    /\ \A c \in Contacts : bundle'[c].otp \in {bundle[c].otp, NoKey}

LEMMA NoKeyStored ==
  ASSUME PhoneInv
  PROVE  NoKey \notin srvOtp /\ NoKey.by # phone /\ (app.pc = "upload" => InHand # NoKey)
BY DEF PhoneInv, NoKey, InHand, Key

LEMMA HolderFrame ==
  ASSUME PhoneInv, OneHolder, OtpFrame
  PROVE  OneHolder'
<1>1. app'.pc = "upload" => InHand' \notin srvOtp'
  BY DEF OneHolder, OtpFrame
<1>2. ASSUME NEW c \in Contacts
      PROVE  bundle'[c].otp \notin srvOtp' /\ (app'.pc = "upload" => bundle'[c].otp # InHand')
  BY NoKeyStored DEF OneHolder, OtpFrame
<1>3. ASSUME NEW c \in Contacts, NEW d \in Contacts, c # d, bundle'[c].otp = bundle'[d].otp
      PROVE  bundle'[c].otp = NoKey
  BY <1>3 DEF OneHolder, OtpFrame
<1> QED BY <1>1, <1>2, <1>3 DEF OneHolder

\* ... and what they are accounted for by.
LEMMA AccountFrame ==
  ASSUME PhoneInv, OtpInv, OtpFrame, phone' = phone,
         \A k : k.key \in Offered /\ k \in otpPriv =>
                  k \in otpPriv' \/ k.key \in lost'
                  \/ (k \notin srvOtp' /\ (app'.pc = "upload" => k # InHand')
                      /\ \A c \in Contacts : bundle'[c].otp # k),
         lost \cap Offered \subseteq lost'
  PROVE  OtpInv'
<1>1. \A k \in srvOtp : k.key \in Offered
  BY SpkOffered
<1>2. \A c \in Contacts : bundle[c].otp.key \in Offered
  BY SpkOffered
<1>3. app.pc = "upload" => InHand.key \in Offered
  BY SpkOffered DEF InHand, Key
<1>4. app'.pc = "upload" => Accounted(InHand, otpPriv)'
  BY <1>3 DEF OtpInv, OtpFrame, Accounted
<1>5. \A k \in srvOtp' : Accounted(k, otpPriv)'
  BY <1>1 DEF OtpInv, OtpFrame, Accounted
<1>6. ASSUME NEW c \in Contacts
      PROVE  Accounted(bundle[c].otp, otpPriv)'
  <2>1. CASE bundle'[c].otp = NoKey
    BY <2>1, NoKeyStored DEF Accounted
  <2>2. CASE bundle'[c].otp = bundle[c].otp
    BY <1>2, <2>2 DEF OtpInv, OtpFrame, Accounted
  <2> QED BY <2>1, <2>2 DEF OtpFrame
<1> QED BY <1>4, <1>5, <1>6 DEF OtpInv

LEMMA PkHolderStep ==
  ASSUME PkTypeOK, PkFinite, PhoneInv, OtpIdInv, StageInv, OneHolder, OtpInv, [PkNext]_pkVars
  PROVE  OneHolder' /\ OtpInv'
<1> USE DEF PkTypeOK
<1>1. ASSUME OtpFrame, UNCHANGED <<phone, otpPriv>>, lost \cap Offered \subseteq lost'
      PROVE  OneHolder' /\ OtpInv'
  BY <1>1, HolderFrame, AccountFrame
<1>2. ASSUME app'.pc # "upload", UNCHANGED <<srvOtp, bundle, phone, otpPriv>>,
             lost \cap Offered \subseteq lost'
      PROVE  OneHolder' /\ OtpInv'
  BY <1>1, <1>2 DEF OtpFrame
<1>3. CASE OpenApp \/ RegisterIdentity \/ RegistrationRefused \/ CountOtps
  <2>1. app'.pc # "upload"
    <3>1. OpenApp => app'.pc = "batch1"
      BY DEF OpenApp, Off
    <3>2. RegisterIdentity => app'.pc = "registered"
      BY DEF RegisterIdentity
    <3>3. RegistrationRefused => app'.pc = "failed"
      BY DEF RegistrationRefused
    <3>4. CountOtps => app'.pc = app.pc /\ app.pc # "upload"
      BY DEF CountOtps
    <3> QED BY <1>3, <3>1, <3>2, <3>3, <3>4
  <2>2. UNCHANGED <<srvOtp, bundle, phone, otpPriv, lost>>
    BY <1>3 DEF OpenApp, RegisterIdentity, RegistrationRefused, CountOtps, srvVars
  <2> QED BY <1>2, <2>1, <2>2
<1>4. ASSUME NEW id, NEW next, GenerateSpk(id, next)
      PROVE  lost \cap Offered \subseteq lost'
  <2>1. lost' = (lost \ {Key(id, Fresh, phone).key})
                  \cup ({k.key : k \in {x \in spkPriv : x.id = id}} \cap Offered)
    BY <1>4 DEF GenerateSpk
  <2>2. Key(id, Fresh, phone).key \notin Offered
    BY FreshNumber DEF Key
  <2> QED BY <2>1, <2>2
<1>5. CASE RotateSpk \/ KeepSpk
  <2>1. app'.pc = app.pc /\ app.rotation = "todo" /\ UNCHANGED <<srvOtp, bundle, phone, otpPriv>>
    BY <1>5 DEF RotateSpk, GenerateSpk, KeepSpk, srvVars
  <2>2. lost \cap Offered \subseteq lost'
    BY <1>4, <1>5 DEF RotateSpk, KeepSpk
  <2> QED BY <1>2, <2>1, <2>2 DEF StageInv
<1>6. CASE EnsureSpk
  <2>1. app'.pc \in {"ensure", "replenish"} /\ UNCHANGED <<srvOtp, bundle, phone, otpPriv>>
    BY <1>6 DEF EnsureSpk, GenerateSpk, srvVars
  <2>2. lost \cap Offered \subseteq lost'
    BY <1>4, <1>6 DEF EnsureSpk
  <2> QED BY <1>2, <2>1, <2>2
<1>7. CASE ReserveOtpId
  <2>1. app'.pc \in {"generate", "on", "failed"} /\ UNCHANGED <<srvOtp, bundle, phone, otpPriv, lost>>
    BY <1>7 DEF ReserveOtpId, srvVars
  <2> QED BY <1>2, <2>1
<1>8. CASE GenerateOtps
  <2> DEFINE new == Key(otpNext - 1, Fresh, phone)
  <2>1. /\ otpPriv' = {k \in otpPriv : k.id # otpNext - 1} \cup {new}
        /\ app' = [app EXCEPT !.pc = "upload", !.key = Fresh]
        /\ lost' = lost \ {Fresh} /\ app.pc = "generate"
        /\ UNCHANGED <<srvOtp, bundle, phone, otpNext>>
    BY <1>8 DEF GenerateOtps, srvVars
  <2>2. InHand' = new /\ new.key = Fresh
    BY <2>1 DEF InHand, Key
  <2>3. otpPriv \subseteq otpPriv'
    BY <2>1 DEF OtpIdInv
  <2>4. \A k : k.key \in Offered /\ Accounted(k, otpPriv) => Accounted(k, otpPriv)' /\ k # new
    BY <2>1, <2>2, <2>3, FreshNumber DEF Accounted
  <2> HIDE DEF new
  <2>5. new \notin srvOtp /\ \A c \in Contacts : bundle[c].otp # new
    BY <2>2, SpkOffered, FreshNumber
  <2>6. OneHolder'
    BY <2>1, <2>2, <2>5 DEF OneHolder
  <2>7. Accounted(InHand, otpPriv)'
    BY <2>1, <2>2 DEF Accounted
  <2>8. OtpInv'
    <3>1. \A k \in srvOtp : Accounted(k, otpPriv)'
      BY <2>4, SpkOffered DEF OtpInv
    <3>2. \A c \in Contacts : Accounted(bundle[c].otp, otpPriv)'
      <4> TAKE c \in Contacts
      <4>1. bundle'[c].otp = bundle[c].otp
        BY <2>1
      <4>2. Accounted(bundle[c].otp, otpPriv) /\ bundle[c].otp.key \in Offered
        BY SpkOffered DEF OtpInv
      <4> QED BY <2>4, <4>1, <4>2 DEF Accounted
    <3> QED BY <2>1, <2>7, <3>1, <3>2 DEF OtpInv
  <2> QED BY <2>6, <2>8
<1>9. CASE UploadOtps
  <2>1. /\ app.pc = "upload" /\ app'.pc \in {"on", "failed"}
        /\ srvOtp' \subseteq srvOtp \cup {InHand}
        /\ UNCHANGED <<bundle, phone, otpPriv, lost>>
    BY <1>9 DEF UploadOtps, InHand
  <2>2. OneHolder'
    BY <2>1 DEF OneHolder
  <2>3. OtpInv'
    BY <2>1 DEF OtpInv, Accounted
  <2> QED BY <2>2, <2>3
<1>10. CASE SweepOtps
  <2>1. /\ app' = [app EXCEPT !.swept = TRUE]
        /\ UNCHANGED <<srvOtp, bundle, phone, otpNext>>
    BY <1>10 DEF SweepOtps, srvVars
  <2>2. PICK gone \in SUBSET otpPriv : /\ otpPriv' = otpPriv \ gone
                                       /\ lost' = lost \cup ({k.key : k \in gone} \cap Offered)
    BY <1>10 DEF SweepOtps
  <2>3. OtpFrame
    BY <2>1 DEF OtpFrame, InHand
  <2>4. \A k : k.key \in Offered /\ k \in otpPriv => k \in otpPriv' \/ k.key \in lost'
    BY <2>2
  <2> QED BY <2>1, <2>2, <2>3, <2>4, HolderFrame, AccountFrame
<1>11. ASSUME NEW u \in uploads, NEW ok \in BOOLEAN, Uploaded(u, ok) \/ app' = app,
              UNCHANGED <<srvOtp, bundle, phone, otpNext, otpPriv, lost>>
       PROVE  OneHolder' /\ OtpInv'
  <2>1. app' = app \/ app'.pc # "upload"
    BY <1>11, UploadedStage
  <2>2. CASE app' = app
    BY <1>1, <1>11, <2>2 DEF OtpFrame, InHand
  <2> QED BY <1>2, <1>11, <2>1, <2>2
<1>12. CASE SpkUploadTimesOut
  <2>1. PICK u \in uploads : Uploaded(u, FALSE)
    BY <1>12 DEF SpkUploadTimesOut
  <2>2. UNCHANGED <<srvOtp, bundle, phone, otpNext, otpPriv, lost>>
    BY <1>12 DEF SpkUploadTimesOut, srvVars
  <2> QED BY <1>11, <2>1, <2>2
<1>13. ASSUME NEW u \in uploads, VerifySpk(u) \/ StoreSpk(u)
       PROVE  OneHolder' /\ OtpInv'
  <2>1. Uploaded(u, FALSE) \/ Uploaded(u, TRUE) \/ app' = app
    BY <1>13 DEF VerifySpk, StoreSpk
  <2>2. UNCHANGED <<srvOtp, bundle, phone, otpNext, otpPriv, lost>>
    BY <1>13 DEF VerifySpk, StoreSpk, srvVars
  <2> QED BY <1>11, <2>1, <2>2
<1>14. ASSUME NEW c \in Contacts, FetchIdentity(c) \/ FetchSpk(c)
       PROVE  OneHolder' /\ OtpInv'
  <2>1. UNCHANGED <<srvOtp, app, phone, otpNext, otpPriv, lost>>
    BY <1>14 DEF FetchIdentity, FetchSpk, srvVars, devVars
  <2>2. \A d \in Contacts \ {c} : bundle'[d] = bundle[d]
    BY <1>14 DEF FetchIdentity, FetchSpk
  <2>3. bundle'[c].otp \in {bundle[c].otp, NoKey}
    <3>1. FetchIdentity(c) => bundle'[c].otp = NoKey
      BY DEF FetchIdentity, NoBundle
    <3>2. FetchSpk(c) => bundle'[c].otp \in {bundle[c].otp, NoKey}
      BY DEF FetchSpk, NoBundle
    <3> QED BY <1>14, <3>1, <3>2
  <2> QED BY <1>1, <2>1, <2>2, <2>3 DEF OtpFrame, InHand
<1>15. ASSUME NEW c \in Contacts, ClaimOtp(c)
       PROVE  OneHolder' /\ OtpInv'
  <2>1. PICK k \in IF srvOtp = {} THEN {NoKey} ELSE srvOtp :
          /\ srvOtp' = srvOtp \ {k}
          /\ bundle' = [bundle EXCEPT ![c] =
                 IF @.spk.by = @.identity THEN [@ EXCEPT !.pc = "sent", !.otp = k] ELSE Over]
    BY <1>15 DEF ClaimOtp
  <2>2. UNCHANGED <<app, phone, otpNext, otpPriv, lost>> /\ InHand' = InHand
    BY <1>15 DEF ClaimOtp, devVars, InHand
  <2>3. \A d \in Contacts \ {c} : bundle'[d] = bundle[d]
    BY <2>1
  <2>4. bundle'[c].otp \in {k, NoKey}
    BY <2>1 DEF Over, NoBundle
  <2>5. k \in srvOtp \/ k = NoKey
    OBVIOUS
  <2>6. OneHolder'
    <3>1. app'.pc = "upload" => InHand' \notin srvOtp'
      BY <2>1, <2>2 DEF OneHolder
    <3>2. ASSUME NEW d \in Contacts
          PROVE  bundle'[d].otp \notin srvOtp' /\ (app'.pc = "upload" => bundle'[d].otp # InHand')
      BY <2>1, <2>2, <2>3, <2>4, <2>5, NoKeyStored DEF OneHolder
    <3>3. ASSUME NEW d \in Contacts, NEW e \in Contacts, d # e, bundle'[d].otp = bundle'[e].otp
          PROVE  bundle'[d].otp = NoKey
      BY <2>3, <2>4, <2>5, <3>3 DEF OneHolder
    <3> QED BY <3>1, <3>2, <3>3 DEF OneHolder
  <2>7. OtpInv'
    <3>1. \A x : Accounted(x, otpPriv) => Accounted(x, otpPriv)'
      BY <2>2 DEF Accounted
    <3>2. Accounted(NoKey, otpPriv)
      BY NoKeyStored DEF Accounted
    <3> QED BY <2>1, <2>2, <2>3, <2>4, <2>5, <3>1, <3>2 DEF OtpInv
  <2> QED BY <2>6, <2>7
<1>16. ASSUME NEW c \in Contacts, ReceiveFirstMessage(c)
       PROVE  OneHolder' /\ OtpInv'
  <2>1. /\ UNCHANGED <<srvOtp, app, phone, otpNext, lost>> /\ InHand' = InHand
        /\ bundle' = [bundle EXCEPT ![c] = Over]
        /\ otpPriv' = otpPriv \/ otpPriv' = otpPriv \ {bundle[c].otp}
    BY <1>16 DEF ReceiveFirstMessage, srvVars, InHand
  <2>2. /\ bundle'[c].otp = NoKey
        /\ \A d \in Contacts \ {c} : bundle'[d] = bundle[d]
    BY <2>1 DEF Over, NoBundle
  <2>3. OtpFrame
    BY <2>1, <2>2 DEF OtpFrame
  <2>4. CASE otpPriv' = otpPriv
    BY <1>1, <2>1, <2>3, <2>4
  <2>5. CASE otpPriv' = otpPriv \ {bundle[c].otp}
    <3>1. CASE bundle[c].otp = NoKey
      <4>1. \A k : k.by = phone /\ k \in otpPriv => k \in otpPriv'
        BY <2>5, <3>1, NoKeyStored
      <4>2. OtpInv'
        BY <2>1, <2>2, <4>1, NoKeyStored DEF OtpInv, Accounted
      <4> QED BY <2>3, <4>2, HolderFrame
    <3>2. CASE bundle[c].otp # NoKey
      <4>1. bundle[c].otp \notin srvOtp' /\ (app'.pc = "upload" => bundle[c].otp # InHand')
        BY <2>1 DEF OneHolder
      <4>2. \A d \in Contacts : bundle'[d].otp # bundle[c].otp
        BY <2>2, <3>2 DEF OneHolder
      <4> QED BY <2>1, <2>3, <2>5, <4>1, <4>2, HolderFrame, AccountFrame
    <3> QED BY <3>1, <3>2
  <2> QED BY <2>1, <2>4, <2>5
<1>17. CASE NewPhone
  <2>1. phone' = phone + 1 /\ app'.pc = "off" /\ UNCHANGED <<srvOtp, bundle>>
    BY <1>17 DEF NewPhone, srvVars, Off
  <2>2. OneHolder'
    BY <2>1 DEF OneHolder
  <2>3. OtpInv'
    BY <2>1 DEF OtpInv, Accounted, PhoneInv, Keys
  <2> QED BY <2>2, <2>3
<1>18. CASE UNCHANGED pkVars
  BY <1>1, <1>18 DEF OtpFrame, InHand, pkVars, srvVars, devVars
<1> QED BY <1>3, <1>5, <1>6, <1>7, <1>8, <1>9, <1>10, <1>12, <1>13, <1>14, <1>15, <1>16, <1>17,
           <1>18 DEF PkNext, Initialize

LEMMA PkInitInv == PkInit => PkInv
<1> SUFFICES ASSUME PkInit PROVE PkInv
  OBVIOUS
<1>1. PkTypeOK
  BY DEF PkInit, PkTypeOK, NoKey, NoBundle, Keys, Off, Unknown
<1>2. PkFinite
  BY FS_EmptySet DEF PkInit, PkFinite
<1>3. PhoneInv /\ SpkInv /\ OtpIdInv /\ StageInv
  BY DEF PkInit, PhoneInv, SpkInv, OtpIdInv, StageInv, Accounted, NoKey, NoBundle, Off
<1>4. OneHolder /\ OtpInv
  BY DEF PkInit, OneHolder, OtpInv, Accounted, NoKey, NoBundle, Off
<1> QED BY <1>1, <1>2, <1>3, <1>4 DEF PkInv

-----------------------------------------------------------------------------
\* The inductive invariant: every key a contact may still write with is held by
\* the device, was given up by it, or is of an old phone; and a one-time pre-key
\* is in one place only, so that one contact's message does not use up another's.
THEOREM PkInvariant == PkSpec => []PkInv
<1>1. PkInv /\ [PkNext]_pkVars => PkInv'
  BY PkTypeStep, PkPhoneStep, PkSpkStep, PkOtpIdStep, PkStageStep, PkHolderStep DEF PkInv
<1> QED BY <1>1, PkInitInv, PTL DEF PkSpec

\* The variables of PreKeys keep their types.
THEOREM PkTypeCorrect == PkSpec => []PkTypeOK
BY PkInvariant, PTL DEF PkInv

\* Whatever starts are cut short, uploads come late and phones change: the
\* device can answer the first message of every contact whose bundle is its own.
THEOREM ContactAnswerable == PkSpec => []FirstContactAnswerable
<1>1. PkInv => FirstContactAnswerable
  BY DEF PkInv, PhoneInv, SpkInv, OtpInv, Accounted, FirstContactAnswerable
<1> QED BY <1>1, PkInvariant, PTL

-----------------------------------------------------------------------------
(***************************************************************************)
(* SignalSession.                                                          *)
(***************************************************************************)

RatchetKeys == [by : Parties, n : Nat]
Secrets == [eph : RatchetKeys, otp : Nat]
Chains == Seq(Secrets \cup SUBSET RatchetKeys)
ChainStates == [chain : Chains, n : Nat]
SkippedKeys == [rk : RatchetKeys, n : Nat, chain : Chains]
SessionRecords ==
  [root : Chains, send : ChainStates, recv : ChainStates, mine : RatchetKeys, theirs : RatchetKeys,
   pn : Nat, skipped : SUBSET SkippedKeys, est : BOOLEAN]
Messages ==
  [from : Parties, chain : Chains, n : Nat, rk : RatchetKeys, pn : Nat, prekey : BOOLEAN, otp : Nat]

\* A chain of the session of a secret starts with the secret.
Begins(chain, secret) == Len(chain) > 0 /\ chain[1] = secret

\* The chains of a session: no receiving chain is longer than the root, and no
\* skipped key is of a later place than the receiving chain has reached.
Shaped(s) ==
  /\ Begins(s.root, s.root[1]) /\ s.root[1] \in Secrets
  /\ Begins(s.send.chain, s.root[1])
  /\ s.recv = NoChain \/ Begins(s.recv.chain, s.root[1])
  /\ Len(s.recv.chain) <= Len(s.root)
  /\ \A sk \in s.skipped : /\ Begins(sk.chain, s.root[1])
                           /\ Len(sk.chain) <= Len(s.recv.chain)
                           /\ sk.chain = s.recv.chain => sk.n < s.recv.n

\* A session that has decrypted a message cannot do it again.
Spent(s, m) ==
  /\ \A sk \in s.skipped : ~(sk.chain = m.chain /\ sk.n = m.n /\ sk.rk = m.rk)
  /\ Len(m.chain) <= Len(s.recv.chain)
  /\ m.chain = s.recv.chain => m.n < s.recv.n

-----------------------------------------------------------------------------
\* What a session has become when it decrypts a message.
Advanced(s, t, m, k) ==
  /\ t.root[1] = s.root[1] /\ t.est = s.est
  /\ \/ t.mine = s.mine /\ t.theirs = s.theirs /\ t.send = s.send /\ t.root = s.root /\ t.pn = s.pn
     \/ t.mine = k /\ t.theirs = m.rk

LEMMA PeerOf == \A p \in Parties : Peer(p) \in Parties /\ Peer(p) # p /\ Peer(Peer(p)) = p
BY SignalAssumption DEF Parties, Peer

LEMMA NoSessionType == NoSession \in SessionRecords /\ NoChain \in ChainStates
BY DEF NoSession, SessionRecords, NoChain, ChainStates, Chains, SignedPreKey, RatchetKey, RatchetKeys,
   Parties

LEMMA Skipping ==
  ASSUME NEW s \in SessionRecords, Shaped(s), NEW to \in Nat, s.recv # NoChain,
         NEW t, t = SkipMessageKeys(s, to)
  PROVE  /\ t \in SessionRecords /\ Shaped(t) /\ t.recv.chain = s.recv.chain
         /\ t.recv.n = IF to < s.recv.n THEN s.recv.n ELSE to
         /\ t.root = s.root /\ t.est = s.est /\ t.mine = s.mine /\ t.theirs = s.theirs
         /\ t.send = s.send /\ t.pn = s.pn
         /\ \A x \in Messages : Spent(s, x) => Spent(t, x)
<1> DEFINE new == {[rk |-> s.theirs, n |-> i, chain |-> s.recv.chain] : i \in s.recv.n..(to - 1)}
<1>1. CASE to < s.recv.n
  BY <1>1 DEF SkipMessageKeys
<1>2. CASE ~(to < s.recv.n)
  <2>1. /\ t.recv = [chain |-> s.recv.chain, n |-> to] /\ t.skipped = s.skipped \cup new
        /\ t.root = s.root /\ t.est = s.est /\ t.mine = s.mine /\ t.theirs = s.theirs
        /\ t.send = s.send /\ t.pn = s.pn
        /\ t = [t EXCEPT !.est = t.est]
    BY <1>2 DEF SkipMessageKeys, SessionRecords, ChainStates
  <2>2. new \subseteq SkippedKeys /\ \A x \in new : /\ x.chain = s.recv.chain
                                                  /\ x.n \in s.recv.n..(to - 1)
    BY DEF SkippedKeys, SessionRecords, ChainStates
  <2>3. t \in SessionRecords
    BY <2>1, <2>2, <1>2 DEF SkipMessageKeys, SessionRecords, ChainStates
  <2>4. Shaped(t)
    BY <2>1, <2>2, <1>2 DEF Shaped, Begins, NoChain, SessionRecords, ChainStates, SkippedKeys, Chains
  <2>5. ASSUME NEW x \in Messages, Spent(s, x) PROVE Spent(t, x)
    BY <2>1, <2>2, <1>2, <2>5 DEF Spent, SessionRecords, ChainStates, Messages
  <2> QED BY <2>1, <2>3, <2>4, <2>5, <1>2
<1> QED BY <1>1, <1>2


LEMMA Ratcheting ==
  ASSUME NEW s \in SessionRecords, Shaped(s), NEW rk \in RatchetKeys, NEW k \in RatchetKeys,
         NEW t, t = DhRatchetStep(s, rk, k)
  PROVE  /\ t \in SessionRecords /\ Shaped(t)
         /\ t.root[1] = s.root[1] /\ t.est = s.est /\ t.mine = k /\ t.theirs = rk
         /\ t.skipped = s.skipped /\ Len(t.recv.chain) = Len(s.root) + 1 /\ t.recv # NoChain
         /\ \A x \in Messages : Spent(s, x) => Spent(t, x)
<1> DEFINE link == {s.mine, rk}
           received == Append(s.root, link)
           link2 == {k, rk}
           root == Append(received, link2)
<1>1. link \in SUBSET RatchetKeys /\ link2 \in SUBSET RatchetKeys /\ s.root \in Chains
  BY DEF SessionRecords
<1>2. /\ received \in Chains /\ Len(received) = Len(s.root) + 1 /\ received[1] = s.root[1]
      /\ root \in Chains /\ Len(root) = Len(s.root) + 2 /\ root[1] = s.root[1]
  <2> HIDE DEF link, link2
  <2> QED BY <1>1 DEF Chains, Shaped, Begins
<1>3. /\ t.pn = s.send.n /\ t.theirs = rk /\ t.recv = [chain |-> received, n |-> 0]
      /\ t.mine = k /\ t.root = root /\ t.send = [chain |-> root, n |-> 0]
      /\ t.skipped = s.skipped /\ t.est = s.est
  BY DEF DhRatchetStep, SessionRecords
<1> HIDE DEF received, root, link, link2
<1>4. t \in SessionRecords
  <2>1. DhRatchetStep(s, rk, k) = [s EXCEPT !.pn = s.send.n, !.theirs = rk, !.recv = [chain |-> received, n |-> 0],
                 !.mine = k, !.root = root, !.send = [chain |-> root, n |-> 0]]
    BY DEF DhRatchetStep, received, root, link, link2
  <2>2. /\ s.send.n \in Nat
        /\ [chain |-> received, n |-> 0] \in ChainStates /\ [chain |-> root, n |-> 0] \in ChainStates
    BY <1>2 DEF SessionRecords, ChainStates
  <2> QED BY <2>1, <2>2, <1>2 DEF SessionRecords
<1>5. Shaped(t)
  BY <1>2, <1>3 DEF Shaped, Begins, SessionRecords, SkippedKeys, Chains
<1>6. ASSUME NEW x \in Messages, Spent(s, x) PROVE Spent(t, x)
  BY <1>2, <1>3, <1>6 DEF Spent, Shaped, Begins, SessionRecords, ChainStates, Messages, Chains
<1>7. t.recv # NoChain
  BY <1>2, <1>3 DEF NoChain, Chains, SessionRecords, Shaped, Begins
<1> QED BY <1>2, <1>3, <1>4, <1>5, <1>6, <1>7

\* A decryption succeeds with a session of the message's secret only, and once.
LEMMA Decrypting ==
  ASSUME NEW s \in SessionRecords, s # Zeroed => Shaped(s), NEW m \in Messages, Len(m.chain) > 0,
         NEW k \in RatchetKeys, NEW t \in RatchetDecrypt(s, m, k)
  PROVE  /\ s # Zeroed /\ s.root[1] = SecretOf(m) /\ ~Spent(s, m)
         /\ t \in SessionRecords /\ Shaped(t) /\ Advanced(s, t, m, k)
         /\ \A x \in Messages : x = m \/ Spent(s, x) => Spent(t, x)
<1> DEFINE stored == {sk \in s.skipped : sk.rk = m.rk /\ sk.n = m.n}
           r == NextRatchet(s, m, k)
           u == SkipMessageKeys(r, m.n)
<1>0. SecretOf(m) = m.chain[1]
  BY DEF SecretOf
<1>1. CASE stored # {}
  <2>1. PICK sk \in s.skipped : sk.rk = m.rk /\ sk.n = m.n /\ sk.chain = m.chain
                                /\ t = [s EXCEPT !.skipped = s.skipped \ {sk}]
    BY <1>1 DEF RatchetDecrypt
  <2>2. s # Zeroed
    BY DEF Zeroed, NoSession
  <2>3. /\ t.skipped = s.skipped \ {sk} /\ t.recv = s.recv /\ t.root = s.root /\ t.est = s.est
        /\ t.mine = s.mine /\ t.theirs = s.theirs /\ t.send = s.send /\ t.pn = s.pn
        /\ t \in SessionRecords
    BY <2>1 DEF SessionRecords
  <2>4. Shaped(t)
    BY <2>2, <2>3 DEF Shaped
  <2>5. Begins(m.chain, s.root[1]) /\ Len(m.chain) <= Len(s.recv.chain)
        /\ (m.chain = s.recv.chain => m.n < s.recv.n)
    BY <2>1, <2>2 DEF Shaped
  <2>6. Spent(t, m)
    BY <2>1, <2>3, <2>5 DEF Spent, SessionRecords, SkippedKeys
  <2>7. ASSUME NEW x \in Messages, Spent(s, x) PROVE Spent(t, x)
    BY <2>3, <2>7 DEF Spent
  <2> QED BY <1>0, <2>1, <2>2, <2>3, <2>4, <2>5, <2>6, <2>7 DEF Begins, Advanced, Spent
<1>2. CASE stored = {}
  <2>1. s # Zeroed /\ u.recv # NoChain /\ u.recv = [chain |-> m.chain, n |-> m.n]
        /\ t = [u EXCEPT !.recv.n = u.recv.n + 1]
    BY <1>2 DEF RatchetDecrypt
  <2>2. Shaped(s) /\ m.rk \in RatchetKeys /\ m.n \in Nat /\ m.pn \in Nat
    BY <2>1 DEF Messages
  <2>3. /\ r \in SessionRecords /\ Shaped(r) /\ Advanced(s, r, m, k) /\ r.recv # NoChain
        /\ \A x \in Messages : Spent(s, x) => Spent(r, x)
        /\ m.rk # s.theirs => Len(r.recv.chain) = Len(s.root) + 1
        /\ m.rk = s.theirs => r = s
    <3>1. CASE m.rk = s.theirs
      <4>1. r = s
        BY <3>1 DEF NextRatchet
      <4>2. u.recv.chain = s.recv.chain
        BY <4>1 DEF SkipMessageKeys, SessionRecords, ChainStates
      <4>3. s.recv # NoChain
        BY <2>1, <4>2 DEF NoChain
      <4> QED BY <3>1, <4>1, <4>3, <2>2 DEF Advanced
    <3>2. CASE m.rk # s.theirs
      <4> DEFINE v == IF s.recv = NoChain THEN s ELSE SkipMessageKeys(s, m.pn)
      <4>1. /\ v \in SessionRecords /\ Shaped(v) /\ v.root = s.root /\ v.est = s.est
            /\ \A x \in Messages : Spent(s, x) => Spent(v, x)
        BY <2>2, Skipping
      <4>2. r = DhRatchetStep(v, m.rk, k)
        BY <3>2 DEF NextRatchet
      <4> HIDE DEF v, r
      <4>3. /\ r \in SessionRecords /\ Shaped(r) /\ r.root[1] = v.root[1] /\ r.est = v.est
            /\ r.mine = k /\ r.theirs = m.rk /\ Len(r.recv.chain) = Len(v.root) + 1
            /\ r.recv # NoChain /\ \A x \in Messages : Spent(v, x) => Spent(r, x)
        BY <4>1, <4>2, <2>2, Ratcheting
      <4> QED BY <3>2, <4>1, <4>3 DEF Advanced
    <3> QED BY <3>1, <3>2
  <2>4. /\ u \in SessionRecords /\ Shaped(u) /\ u.recv.chain = r.recv.chain
        /\ u.recv.n = (IF m.n < r.recv.n THEN r.recv.n ELSE m.n)
        /\ u.root = r.root /\ u.est = r.est /\ u.mine = r.mine /\ u.theirs = r.theirs
        /\ u.send = r.send /\ u.pn = r.pn
        /\ \A x \in Messages : Spent(r, x) => Spent(u, x)
    <3> HIDE DEF r
    <3> QED BY <2>2, <2>3, Skipping
  <2>5. r.recv.chain = m.chain /\ r.recv.n <= m.n /\ u.recv.n = m.n
    BY <2>1, <2>2, <2>3, <2>4 DEF SessionRecords, ChainStates
  <2>6. /\ t.recv = [chain |-> m.chain, n |-> m.n + 1] /\ t.skipped = u.skipped
        /\ t.root = u.root /\ t.est = u.est /\ t.mine = u.mine /\ t.theirs = u.theirs
        /\ t.send = u.send /\ t.pn = u.pn /\ t \in SessionRecords
    <3>1. [chain |-> m.chain, n |-> m.n + 1] \in ChainStates
      BY <2>2 DEF Messages, ChainStates
    <3> HIDE DEF u
    <3> QED BY <2>1, <2>2, <2>4, <3>1 DEF SessionRecords, ChainStates
  <2>7. Shaped(t)
    <3>1. Begins(u.recv.chain, u.root[1]) /\ u.recv.chain = m.chain /\ u.recv.n = m.n
      BY <2>1, <2>4 DEF Shaped
    <3>2. m.n \in Nat /\ \A sk \in u.skipped : sk.n \in Nat
      BY <2>2, <2>4 DEF SessionRecords, SkippedKeys
    <3> HIDE DEF u
    <3> QED BY <2>4, <2>6, <3>1, <3>2 DEF Shaped
  <2>8. Begins(m.chain, s.root[1])
    BY <2>1, <2>3, <2>4 DEF Shaped, Advanced
  <2>9. ASSUME NEW x \in Messages, x = m \/ Spent(u, x) PROVE Spent(t, x)
    <3>1. x.n \in Nat /\ Len(m.chain) \in Nat
      BY DEF Messages, Chains
    <3> HIDE DEF u
    <3> QED BY <2>1, <2>2, <2>4, <2>6, <2>9, <3>1 DEF Spent, Shaped, SessionRecords, SkippedKeys
  <2>10. ~Spent(s, m)
    BY <2>2, <2>3, <2>5 DEF Spent, Shaped, SessionRecords, ChainStates, Chains
  <2> HIDE DEF u, r
  <2> QED BY <1>0, <2>1, <2>3, <2>4, <2>6, <2>7, <2>8, <2>9, <2>10 DEF Advanced, Begins
<1> QED BY <1>1, <1>2

-----------------------------------------------------------------------------
(* The session records: which session of a person goes to which place.     *)

\* The places of a record with the active session a and the previous ones q.
Slots(q) == 0..Len(q)
SessionAt(a, q, i) == IF i = 0 THEN a ELSE q[i]

\* From record a, q to b, t: every session but the one of the place "new" was
\* there before, in a place of its own that is not in "used".
Moves(a, q, b, t, new, used) ==
  /\ \A j \in Slots(t) \ {new} : SessionAt(b, t, j) # Zeroed =>
        \E i \in Slots(q) \ used : SessionAt(a, q, i) = SessionAt(b, t, j)
  /\ \A j1, j2 \in Slots(t) \ {new} :
        j1 # j2 /\ SessionAt(b, t, j1) # Zeroed /\ SessionAt(b, t, j2) # Zeroed =>
        \E i1, i2 \in Slots(q) \ used : /\ i1 # i2 /\ SessionAt(a, q, i1) = SessionAt(b, t, j1)
                                        /\ SessionAt(a, q, i2) = SessionAt(b, t, j2)

MadeSecret(secret, r) == secret.eph.n \in 1..r[secret.eph.by]

SessionOK(p, s, r) ==
  /\ s \in SessionRecords /\ Shaped(s)
  /\ s.mine.by = p /\ s.mine.n \in 1..r[p]
  /\ s.theirs.by = Peer(p) /\ s.theirs.n <= r[Peer(p)]
  /\ MadeSecret(s.root[1], r)

MessageOK(m, r) ==
  /\ Len(m.chain) > 0 /\ SecretOf(m) \in Secrets /\ MadeSecret(SecretOf(m), r)
  /\ m.rk.by = m.from /\ m.rk.n \in 1..r[m.from]
  /\ m.otp # 0 => m.prekey

SigShape ==
  /\ active \in [Parties -> SessionRecords] /\ previous \in [Parties -> Seq(SessionRecords)]
  /\ ratchets \in [Parties -> Nat] /\ unclaimed \in [Parties -> Nat]
  /\ otpPrivate \in [Parties -> SUBSET Nat]
  /\ composing \in [Parties -> [pc : {"idle", "initiate", "prekey", "encrypt"}, otp : Nat]]
  /\ sent \subseteq Messages /\ handled \subseteq sent /\ opened \subseteq sent \ handled
  /\ unreadable \subseteq sent /\ reads \in [sent -> Nat] /\ reopens \in Nat

RecordsInv ==
  \A p \in Parties :
    /\ active[p] = NoSession => previous[p] = <<>>
    /\ Len(previous[p]) <= MaxPrevious
    /\ composing[p].pc \in {"prekey", "encrypt"} \/ active[p].est => active[p] # NoSession
    /\ composing[p].pc # "prekey" => composing[p].otp = 0

SessionsInv ==
  \A p \in Parties : \A i \in Slots(previous[p]) :
    SessionAt(active[p], previous[p], i) # Zeroed =>
      SessionOK(p, SessionAt(active[p], previous[p], i), ratchets)

MessagesInv == \A m \in sent : MessageOK(m, ratchets)

SigInv == SigShape /\ RecordsInv /\ SessionsInv /\ MessagesInv

LEMMA CappedKeeps ==
  ASSUME NEW S, NEW q \in Seq(S)
  PROVE  /\ Capped(q) \in Seq(S) /\ Len(Capped(q)) <= MaxPrevious
         /\ \E d \in Nat : \A i \in 1..Len(Capped(q)) :
               i + d \in 1..Len(q) /\ Capped(q)[i] = q[i + d]
<1> MaxPrevious \in Nat
  BY SignalAssumption
<1>1. CASE Len(q) > MaxPrevious
  <2> DEFINE d == Len(q) - MaxPrevious
             t == SubSeq(q, d + 1, Len(q))
  <2>1. d \in Nat /\ d + 1 \in 1..(Len(q) + 1) /\ Capped(q) = t
    BY <1>1 DEF Capped
  <2>2. \A i \in (d + 1)..Len(q) : q[i] \in S
    BY <2>1
  <2> HIDE DEF d
  <2>3. /\ t \in Seq(S) /\ Len(t) = IF d + 1 <= Len(q) THEN Len(q) - (d + 1) + 1 ELSE 0
        /\ \A i \in 1..(Len(q) - (d + 1) + 1) : t[i] = q[d + 1 + i - 1]
    BY <2>1, <2>2, SubSeqProperties
  <2> HIDE DEF t
  <2>4. Len(t) = MaxPrevious
    BY <2>1, <2>3 DEF d
  <2>5. ASSUME NEW i \in 1..Len(t) PROVE i + d \in 1..Len(q) /\ t[i] = q[i + d]
    <3>1. i \in 1..(Len(q) - (d + 1) + 1) /\ i + d \in 1..Len(q)
      BY <2>1, <2>4 DEF d
    <3>2. d + 1 + i - 1 = i + d
      BY <2>1
    <3> QED BY <2>3, <3>1, <3>2
  <2>6. \E e \in Nat : \A i \in 1..Len(t) : i + e \in 1..Len(q) /\ t[i] = q[i + e]
    BY <2>1, <2>5
  <2>7. Len(t) <= MaxPrevious /\ t \in Seq(S)
    BY <2>3, <2>4
  <2>8. Capped(q) = t
    BY <2>1
  <2> QED BY ONLY <2>6, <2>7, <2>8
<1>2. CASE ~(Len(q) > MaxPrevious)
  <2>1. Capped(q) = q
    BY <1>2 DEF Capped
  <2>2. \A i \in 1..Len(q) : i + 0 \in 1..Len(q) /\ q[i] = q[i + 0]
    OBVIOUS
  <2> QED BY <1>2, <2>1, <2>2
<1> QED BY <1>1, <1>2

Moved(q, i) == Append(SubSeq(q, 1, i - 1) \o SubSeq(q, i + 1, Len(q)), Zeroed)

LEMMA MovedKeeps ==
  ASSUME NEW S, NEW q \in Seq(S), NEW i \in 1..Len(q), Zeroed \in S
  PROVE  /\ Moved(q, i) \in Seq(S) /\ Len(Moved(q, i)) = Len(q) /\ Moved(q, i)[Len(q)] = Zeroed
         /\ \A j \in 1..(Len(q) - 1) : Moved(q, i)[j] = IF j < i THEN q[j] ELSE q[j + 1]
<1> DEFINE z == Zeroed
           t == Moved(q, i)
           a == SubSeq(q, 1, i - 1)
           b == SubSeq(q, i + 1, Len(q))
<1> Len(q) \in Nat /\ i \in Int
  OBVIOUS
<1>1. a \in Seq(S) /\ Len(a) = i - 1 /\ \A j \in 1..(i - 1) : a[j] = q[j]
  OBVIOUS
<1>2. /\ b \in Seq(S) /\ Len(b) = IF i + 1 <= Len(q) THEN Len(q) - (i + 1) + 1 ELSE 0
      /\ \A j \in 1..(Len(q) - (i + 1) + 1) : b[j] = q[i + 1 + j - 1]
  <2>1. \A j \in (i + 1)..Len(q) : q[j] \in S
    OBVIOUS
  <2>2. i + 1 \in Int
    OBVIOUS
  <2> QED BY <2>1, <2>2, SubSeqProperties
<1> HIDE DEF a, b
<1>3. Len(b) = Len(q) - i
  BY <1>2
<1> DEFINE c == a \o b
<1>4. /\ c \in Seq(S) /\ Len(c) = Len(q) - 1
      /\ \A j \in 1..(Len(q) - 1) : c[j] = IF j <= i - 1 THEN a[j] ELSE b[j - (i - 1)]
  <2>1. Len(a) + Len(b) = Len(q) - 1 /\ Len(a) = i - 1
    BY <1>1, <1>3
  <2>2. a \in Seq(S) /\ b \in Seq(S)
    BY <1>1, <1>2
  <2>3. /\ c \in Seq(S) /\ Len(c) = Len(a) + Len(b)
        /\ \A j \in 1..(Len(a) + Len(b)) : c[j] = IF j <= Len(a) THEN a[j] ELSE b[j - Len(a)]
    BY <2>2, ConcatProperties
  <2> HIDE DEF c
  <2> QED BY ONLY <2>1, <2>3
<1>5. t = Append(c, z)
  BY DEF a, b, Moved
<1> HIDE DEF c, t, z
<1>6. ASSUME NEW j \in 1..(Len(q) - 1)
      PROVE  c[j] = IF j < i THEN q[j] ELSE q[j + 1]
  <2>1. CASE j < i
    BY <1>1, <1>4, <2>1
  <2>2. CASE ~(j < i)
    <3> DEFINE l == j - (i - 1)
    <3>1. l \in 1..(Len(q) - (i + 1) + 1) /\ i + 1 + l - 1 = j + 1 /\ ~(j <= i - 1)
      BY <2>2
    <3> HIDE DEF l
    <3>2. b[l] = q[j + 1]
      BY <1>2, <3>1
    <3> QED BY <1>4, <2>2, <3>1, <3>2 DEF l
  <2> QED BY <2>1, <2>2
<1>7. t \in Seq(S) /\ Len(t) = Len(c) + 1 /\ t[Len(c) + 1] = z /\ \A j \in 1..Len(c) : t[j] = c[j]
  <2>1. c \in Seq(S) /\ z \in S
    BY <1>4 DEF z
  <2>2. Append(c, z) \in Seq(S) /\ Len(Append(c, z)) = Len(c) + 1
        /\ Append(c, z)[Len(c) + 1] = z /\ \A j \in 1..Len(c) : Append(c, z)[j] = c[j]
    BY ONLY <2>1
  <2> QED BY ONLY <1>5, <2>2
<1>8. Len(c) + 1 = Len(q)
  BY <1>4
<1> QED BY <1>4, <1>6, <1>7, <1>8 DEF t, z

LEMMA MovesByPlace ==
  ASSUME NEW a, NEW q, NEW b, NEW t, NEW new, NEW used, NEW from,
         \A j \in Slots(t) \ {new} : SessionAt(b, t, j) # Zeroed =>
            from[j] \in Slots(q) \ used /\ SessionAt(a, q, from[j]) = SessionAt(b, t, j),
         \A i, j \in Slots(t) \ {new} :
            i # j /\ SessionAt(b, t, i) # Zeroed /\ SessionAt(b, t, j) # Zeroed => from[i] # from[j]
  PROVE  Moves(a, q, b, t, new, used)
BY DEF Moves

\* A new session comes last, and may not be kept at all.
LEMMA MovesLast ==
  ASSUME NEW S, NEW q \in Seq(S), NEW a \in S, NEW x \in S, NEW t, t = Capped(Append(q, x))
  PROVE  \E new \in Nat : Moves(a, q, a, t, new, {}) /\ (new \in Slots(t) => SessionAt(a, t, new) = x)
<1> DEFINE l == Append(q, x)
<1>1. /\ l \in Seq(S) /\ Len(l) = Len(q) + 1 /\ Len(q) \in Nat
      /\ l[Len(q) + 1] = x /\ \A i \in 1..Len(q) : l[i] = q[i]
  OBVIOUS
<1>2. t = Capped(l)
  OBVIOUS
<1> HIDE DEF l
<1>3. t \in Seq(S) /\ Len(t) \in Nat
  BY <1>1, <1>2, CappedKeeps
<1>4. PICK d \in Nat : \A i \in 1..Len(t) : i + d \in 1..(Len(q) + 1) /\ t[i] = l[i + d]
  <2>1. \E d \in Nat : \A i \in 1..Len(Capped(l)) :
              i + d \in 1..Len(l) /\ Capped(l)[i] = l[i + d]
    BY <1>1, CappedKeeps
  <2>2. Capped(l) = t /\ Len(l) = Len(q) + 1
    BY <1>1, <1>2
  <2> QED BY ONLY <2>1, <2>2
<1> DEFINE new == IF Len(q) + 1 - d > 0 THEN Len(q) + 1 - d ELSE Len(t) + 1
           from == [j \in Slots(t) |-> IF j = 0 THEN 0 ELSE j + d]
<1>5. new \in Nat /\ new # 0 /\ \A j \in Slots(t) : j + d = Len(q) + 1 /\ j # 0 => j = new
  BY <1>1, <1>3 DEF Slots
<1>6. ASSUME new \in Slots(t) PROVE SessionAt(a, t, new) = x
  <2>1. new \in 1..Len(t) /\ new + d = Len(q) + 1
    BY <1>1, <1>3, <1>4, <1>6 DEF Slots
  <2> HIDE DEF new
  <2> QED BY <1>1, <1>4, <2>1 DEF SessionAt
<1> HIDE DEF new
<1>7. ASSUME NEW j \in Slots(t) \ {new}
      PROVE  from[j] \in Slots(q) \ {} /\ SessionAt(a, q, from[j]) = SessionAt(a, t, j)
  <2>1. CASE j = 0
    BY <1>1, <2>1 DEF SessionAt, Slots
  <2>2. CASE j # 0
    <3>1. j \in 1..Len(t) /\ from[j] = j + d /\ j + d # Len(q) + 1
      BY <1>3, <1>5, <2>2 DEF Slots
    <3>2. j + d \in 1..Len(q) /\ t[j] = q[j + d]
      BY <1>1, <1>4, <3>1
    <3> QED BY <1>1, <2>2, <3>1, <3>2 DEF SessionAt, Slots
  <2> QED BY <2>1, <2>2
<1>8. ASSUME NEW i \in Slots(t), NEW j \in Slots(t), i # j PROVE from[i] # from[j]
  BY <1>3, <1>8 DEF Slots
<1> HIDE DEF from
<1>9. Moves(a, q, a, t, new, {})
  BY <1>7, <1>8, MovesByPlace
<1> QED BY <1>5, <1>6, <1>9

\* The active session comes last, and a new one is the active one.
LEMMA MovesActive ==
  ASSUME NEW S, NEW q \in Seq(S), NEW a \in S, NEW b, NEW t, t = Capped(Append(q, a))
  PROVE  Moves(a, q, b, t, 0, {})
<1> DEFINE l == Append(q, a)
<1>1. /\ l \in Seq(S) /\ Len(l) = Len(q) + 1 /\ Len(q) \in Nat
      /\ l[Len(q) + 1] = a /\ \A i \in 1..Len(q) : l[i] = q[i]
  OBVIOUS
<1>2. t = Capped(l)
  OBVIOUS
<1> HIDE DEF l
<1>3. t \in Seq(S) /\ Len(t) \in Nat
  BY <1>1, <1>2, CappedKeeps
<1>4. PICK d \in Nat : \A i \in 1..Len(t) : i + d \in 1..(Len(q) + 1) /\ t[i] = l[i + d]
  <2>1. \E d \in Nat : \A i \in 1..Len(Capped(l)) :
              i + d \in 1..Len(l) /\ Capped(l)[i] = l[i + d]
    BY <1>1, CappedKeeps
  <2>2. Capped(l) = t /\ Len(l) = Len(q) + 1
    BY <1>1, <1>2
  <2> QED BY ONLY <2>1, <2>2
<1> DEFINE from == [j \in Slots(t) |-> IF j + d = Len(q) + 1 THEN 0 ELSE j + d]
<1>5. ASSUME NEW j \in Slots(t) \ {0}
      PROVE  from[j] \in Slots(q) \ {} /\ SessionAt(a, q, from[j]) = SessionAt(b, t, j)
  <2>1. j \in 1..Len(t) /\ j + d \in 1..(Len(q) + 1) /\ t[j] = l[j + d]
    BY <1>3, <1>4 DEF Slots
  <2>2. CASE j + d = Len(q) + 1
    BY <1>1, <2>1, <2>2 DEF SessionAt, Slots
  <2>3. CASE j + d # Len(q) + 1
    <3>1. j + d \in 1..Len(q) /\ t[j] = q[j + d] /\ from[j] = j + d
      BY <1>1, <2>1, <2>3
    <3> QED BY <1>1, <2>1, <3>1 DEF SessionAt, Slots
  <2> QED BY <2>2, <2>3
<1>6. ASSUME NEW i \in Slots(t) \ {0}, NEW j \in Slots(t) \ {0}, i # j PROVE from[i] # from[j]
  <2>1. i + d \in 1..(Len(q) + 1) /\ j + d \in 1..(Len(q) + 1) /\ i \in Nat /\ j \in Nat
    BY <1>3, <1>4 DEF Slots
  <2> QED BY <1>1, <1>6, <2>1
<1> HIDE DEF from
<1> QED BY <1>5, <1>6, MovesByPlace

\* The previous session i becomes the active one; its old place is zeroed.
LEMMA MovesBack ==
  ASSUME NEW S, NEW q \in Seq(S), NEW a, NEW b, NEW i \in 1..Len(q), NEW t \in Seq(S),
         Len(t) = Len(q), t[Len(q)] = Zeroed,
         \A j \in 1..(Len(q) - 1) : t[j] = IF j < i THEN q[j] ELSE q[j + 1]
  PROVE  Moves(a, q, b, t, 0, {i})
<1>2. Len(q) \in Nat
  OBVIOUS
<1> DEFINE from == [j \in Slots(t) |-> IF j < i THEN j ELSE j + 1]
<1>3. ASSUME NEW j \in Slots(t) \ {0}, SessionAt(b, t, j) # Zeroed
      PROVE  from[j] \in Slots(q) \ {i} /\ SessionAt(a, q, from[j]) = SessionAt(b, t, j)
  <2>1. j \in 1..(Len(q) - 1)
    BY <1>2, <1>3 DEF Slots, SessionAt
  <2> QED BY <1>2, <2>1 DEF Slots, SessionAt
<1>4. ASSUME NEW k \in Slots(t) \ {0}, NEW j \in Slots(t) \ {0}, k # j PROVE from[k] # from[j]
  BY <1>2, <1>4 DEF Slots
<1> HIDE DEF from
<1> QED BY <1>3, <1>4, MovesByPlace

-----------------------------------------------------------------------------
(* What each action makes of the records.                                   *)

Session(p, i) == SessionAt(active[p], previous[p], i)
Record(p, new, used) == Moves(active[p], previous[p], active'[p], previous'[p], new, used)
RecordOK(p) == previous'[p] \in Seq(SessionRecords) /\ Len(previous'[p]) <= MaxPrevious
Others(p) ==
  /\ \A q \in Parties \ {p} : active'[q] = active[q] /\ previous'[q] = previous[q]
  /\ active' = [q \in Parties |-> active'[q]] /\ previous' = [q \in Parties |-> previous'[q]]

LEMMA NewInitiator ==
  ASSUME NEW p, NEW S, NEW s, s = InitiatorSession(p, S)
  PROVE  s = [root |-> <<S>>, send |-> [chain |-> <<S>>, n |-> 0], recv |-> NoChain,
              mine |-> S.eph, theirs |-> SignedPreKey(Peer(p)), pn |-> 0, skipped |-> {},
              est |-> FALSE]
BY DEF InitiatorSession, NoSession, NoChain

LEMMA NewResponder ==
  ASSUME NEW S, NEW k, NEW root, root = <<S, {k, S.eph}>>, NEW s, s = ResponderSession(S, k)
  PROVE  s = [root |-> root, send |-> [chain |-> root, n |-> 0],
              recv |-> [chain |-> <<S>>, n |-> 0],
              mine |-> k, theirs |-> S.eph, pn |-> 0, skipped |-> {}, est |-> FALSE]
BY DEF ResponderSession, NoSession, NoChain

LEMMA NewSessions ==
  ASSUME NEW p \in Parties, NEW S \in Secrets, NEW k \in RatchetKeys, NEW r2 \in [Parties -> Nat]
  PROVE  /\ S.eph = RatchetKey(p, r2[p]) /\ r2[p] > 0 =>
                SessionOK(p, InitiatorSession(p, S), r2)
         /\ S.eph.by = Peer(p) /\ S.eph.n \in 1..r2[Peer(p)] /\ k = RatchetKey(p, r2[p]) /\ r2[p] > 0 =>
                SessionOK(p, ResponderSession(S, k), r2)
<1>1. /\ <<S>> \in Chains /\ Len(<<S>>) = 1 /\ <<S>>[1] = S
      /\ <<S, {k, S.eph}>> \in Chains /\ Len(<<S, {k, S.eph}>>) = 2 /\ <<S, {k, S.eph}>>[1] = S
      /\ S.eph \in RatchetKeys /\ Peer(p) \in Parties /\ p \in Parties
  <2>1. {k, S.eph} \in SUBSET RatchetKeys
    BY DEF Secrets
  <2> DEFINE l == {k, S.eph}
  <2> HIDE DEF l
  <2>2. <<S>> \in Chains /\ <<S, l>> \in Chains /\ Len(<<S, l>>) = 2 /\ <<S, l>>[1] = S
    BY <2>1 DEF Chains, l
  <2> QED BY <2>2, PeerOf DEF l, Secrets
<1>2. NoSession \in SessionRecords /\ NoSession.skipped = {} /\ NoSession.recv = NoChain
      /\ NoSession.send = NoChain /\ NoChain = [chain |-> <<>>, n |-> 0]
  BY NoSessionType DEF NoSession, NoChain
<1>3. ASSUME S.eph = RatchetKey(p, r2[p]), r2[p] > 0
      PROVE  SessionOK(p, InitiatorSession(p, S), r2)
  <2> DEFINE s == InitiatorSession(p, S)
  <2>1. /\ s.root = <<S>> /\ s.send = [chain |-> <<S>>, n |-> 0] /\ s.recv = NoChain
        /\ s.mine = S.eph /\ s.theirs = SignedPreKey(Peer(p)) /\ s.skipped = {}
        /\ s \in SessionRecords
    <3>1. [chain |-> <<S>>, n |-> 0] \in ChainStates /\ SignedPreKey(Peer(p)) \in RatchetKeys
      BY <1>1 DEF ChainStates, SignedPreKey, RatchetKey, RatchetKeys
    <3>2. s = [root |-> <<S>>, send |-> [chain |-> <<S>>, n |-> 0], recv |-> NoChain,
               mine |-> S.eph, theirs |-> SignedPreKey(Peer(p)), pn |-> 0, skipped |-> {},
               est |-> FALSE]
      BY NewInitiator
    <3>3. NoChain \in ChainStates
      BY NoSessionType
    <3> HIDE DEF s
    <3> QED BY <1>1, <3>1, <3>2, <3>3 DEF SessionRecords
  <2> HIDE DEF s
  <2>2. Shaped(s)
    BY <1>1, <2>1, <1>2 DEF Shaped, Begins
  <2> QED BY <1>1, <2>1, <2>2, <1>3
          DEF SessionOK, MadeSecret, RatchetKey, SignedPreKey, s
<1>4. ASSUME S.eph.by = Peer(p), S.eph.n \in 1..r2[Peer(p)], k = RatchetKey(p, r2[p]), r2[p] > 0
      PROVE  SessionOK(p, ResponderSession(S, k), r2)
  <2> DEFINE s == ResponderSession(S, k)
             root == <<S, {k, S.eph}>>
  <2>1. /\ s.root = root /\ s.send = [chain |-> root, n |-> 0]
        /\ s.recv = [chain |-> <<S>>, n |-> 0]
        /\ s.mine = k /\ s.theirs = S.eph /\ s.skipped = {}
        /\ s \in SessionRecords
    <3>1. [chain |-> <<S>>, n |-> 0] \in ChainStates /\ [chain |-> root, n |-> 0] \in ChainStates
          /\ root \in Chains
      BY <1>1 DEF ChainStates
    <3>2. s = [root |-> root, send |-> [chain |-> root, n |-> 0],
               recv |-> [chain |-> <<S>>, n |-> 0],
               mine |-> k, theirs |-> S.eph, pn |-> 0, skipped |-> {}, est |-> FALSE]
      BY NewResponder
    <3> HIDE DEF s, root
    <3> QED BY <1>1, <3>1, <3>2 DEF SessionRecords
  <2>2. Shaped(s)
    <3> HIDE DEF s
    <3> QED BY <1>1, <2>1, <1>2 DEF Shaped, Begins
  <2> HIDE DEF s
  <2> QED BY <1>1, <2>1, <2>2, <1>4 DEF SessionOK, MadeSecret, RatchetKey, s
<1> QED BY <1>3, <1>4

LEMMA NextKeys ==
  ASSUME SigShape, NEW p \in Parties
  PROVE  /\ NextKey(p) \in RatchetKeys /\ NextKey(p).by = p /\ NextKey(p).n = ratchets[p] + 1
         /\ \A o \in Nat : /\ Secret(NextKey(p), o) \in Secrets
                           /\ Secret(NextKey(p), o).eph = NextKey(p)
                           /\ Secret(NextKey(p), o).otp = o
BY DEF SigShape, NextKey, RatchetKey, RatchetKeys, Secret, Secrets

\* CreateInitiatorSession: the new session is the active one of a new record,
\* or the last of the previous ones, if it is kept at all.
LEMMA InitiatorRecord ==
  ASSUME SigShape, RecordsInv, NEW p \in Parties, CreateInitiatorSession(p),
         NEW s, s = InitiatorSession(p, Secret(NextKey(p), unclaimed[Peer(p)])),
         s \in SessionRecords
  PROVE  /\ \E new \in Nat : /\ Record(p, new, {})
                             /\ new \in Slots(previous'[p]) =>
                                   SessionAt(active'[p], previous'[p], new) = s
         /\ RecordOK(p) /\ Others(p)
         /\ IF active[p] = NoSession THEN active'[p] = s /\ previous'[p] = previous[p]
            ELSE active'[p] = active[p]
<1>1. /\ previous[p] \in Seq(SessionRecords) /\ active[p] \in SessionRecords
      /\ previous = [x \in Parties |-> previous[x]] /\ active = [x \in Parties |-> active[x]]
      /\ Len(previous[p]) <= MaxPrevious
  BY DEF SigShape, RecordsInv
<1>2. CASE active[p] = NoSession
  <2>1. active' = [active EXCEPT ![p] = s] /\ previous' = previous
    BY <1>2 DEF CreateInitiatorSession
  <2>2. Moves(active[p], previous[p], s, previous[p], 0, {})
    BY DEF Moves, SessionAt, Slots
  <2> QED BY <1>1, <1>2, <2>1, <2>2 DEF Record, RecordOK, Others, SessionAt
<1>3. CASE active[p] # NoSession
  <2> DEFINE t == Capped(Append(previous[p], s))
  <2>1. previous' = [previous EXCEPT ![p] = t] /\ active' = active
    BY <1>3 DEF CreateInitiatorSession
  <2>2. \E new \in Nat : /\ Moves(active[p], previous[p], active[p], t, new, {})
                         /\ new \in Slots(t) => SessionAt(active[p], t, new) = s
    BY <1>1, MovesLast
  <2>3. t \in Seq(SessionRecords) /\ Len(t) <= MaxPrevious
    <3>1. Append(previous[p], s) \in Seq(SessionRecords)
      BY <1>1
    <3> QED BY <3>1, CappedKeeps
  <2> HIDE DEF t
  <2> QED BY <1>1, <1>3, <2>1, <2>2, <2>3 DEF Record, RecordOK, Others
<1> QED BY <1>2, <1>3

\* createResponderSession: the new session is the active one, and the old one
\* the last of the previous ones.
LEMMA ResponderRecord ==
  ASSUME SigShape, RecordsInv, NEW m \in sent, CreateResponderSession(m),
         NEW p, p = Peer(m.from), m.otp \in otpPrivate[p] \cup {0}
  PROVE  /\ p \in Parties /\ Record(p, 0, {}) /\ RecordOK(p) /\ Others(p)
         /\ active'[p] = ResponderSession(Secret(m.rk, m.otp), NextKey(p))
<1>1. p \in Parties
  BY PeerOf DEF SigShape, Messages
<1>2. /\ previous[p] \in Seq(SessionRecords) /\ active[p] \in SessionRecords
      /\ previous = [x \in Parties |-> previous[x]] /\ active = [x \in Parties |-> active[x]]
      /\ Len(previous[p]) <= MaxPrevious
  BY <1>1 DEF SigShape, RecordsInv
<1> DEFINE s == ResponderSession(Secret(m.rk, m.otp), NextKey(p))
           t == IF active[p] = NoSession THEN previous[p]
                ELSE Capped(Append(previous[p], active[p]))
<1>3. active' = [active EXCEPT ![p] = s]
      /\ previous' = IF active[p] = NoSession THEN previous
                           ELSE [previous EXCEPT ![p] = Capped(Append(@, active[p]))]
  BY DEF CreateResponderSession
<1>4. previous' = [previous EXCEPT ![p] = t] \/ (previous' = previous /\ t = previous[p])
  BY <1>3
<1>5. Moves(active[p], previous[p], s, t, 0, {})
  <2>1. CASE active[p] = NoSession
    BY <2>1 DEF Moves, SessionAt, Slots
  <2>2. CASE active[p] # NoSession
    BY <2>2, <1>2, MovesActive
  <2> QED BY <2>1, <2>2
<1>6. t \in Seq(SessionRecords) /\ Len(t) <= MaxPrevious
  <2>1. Append(previous[p], active[p]) \in Seq(SessionRecords)
    BY <1>2
  <2> QED BY <1>2, <2>1, CappedKeeps
<1> HIDE DEF t, s
<1>7. active'[p] = s /\ previous'[p] = t
  BY <1>1, <1>2, <1>3, <1>4
<1>8. Others(p)
  BY <1>2, <1>3, <1>4 DEF Others
<1> QED BY <1>1, <1>5, <1>6, <1>7, <1>8 DEF Record, RecordOK, s

\* encryptMessage: the active session moves on.
LEMMA EncryptRecord ==
  ASSUME SigShape, RecordsInv, NEW p \in Parties, EncryptMessage(p)
  PROVE  /\ Record(p, 0, {0}) /\ RecordOK(p) /\ Others(p)
         /\ active'[p] = [active[p] EXCEPT !.send.n = @ + 1]
<1>1. active' = [active EXCEPT ![p].send.n = @ + 1] /\ previous' = previous
      /\ previous = [x \in Parties |-> previous[x]] /\ active = [x \in Parties |-> active[x]]
  BY DEF EncryptMessage, SigShape
<1>2. Moves(active[p], previous[p], active'[p], previous[p], 0, {0})
  BY DEF Moves, SessionAt, Slots
<1> QED BY <1>1, <1>2 DEF Record, RecordOK, Others, SigShape, RecordsInv

\* A decryption: the session that did it is the active one.
LEMMA DecryptRecord ==
  ASSUME SigShape, RecordsInv, NEW m \in sent, DecryptActive(m) \/ DecryptPrevious(m),
         NEW p, p = Peer(m.from)
  PROVE  /\ p \in Parties /\ RecordOK(p) /\ Others(p)
         /\ \E i \in Slots(previous[p]) : \E s \in RatchetDecrypt(Session(p, i), m, NextKey(p)) :
               Establish(p, m, s) /\ Record(p, 0, {i}) /\ active'[p] = [s EXCEPT !.est = TRUE]
<1>1. p \in Parties
  BY PeerOf DEF SigShape, Messages
<1> DEFINE q == previous[p]
<1>2. /\ q \in Seq(SessionRecords) /\ active[p] \in SessionRecords /\ Len(q) \in Nat
      /\ previous = [x \in Parties |-> previous[x]] /\ active = [x \in Parties |-> active[x]]
      /\ Len(q) <= MaxPrevious
  BY <1>1 DEF SigShape, RecordsInv
<1>3. CASE DecryptActive(m)
  <2>1. PICK s \in RatchetDecrypt(active[p], m, NextKey(p)) : Establish(p, m, s)
    BY <1>3 DEF DecryptActive
  <2>2. previous' = previous /\ active' = [active EXCEPT ![p] = [s EXCEPT !.est = TRUE]]
    BY <1>3, <2>1 DEF DecryptActive, Establish
  <2>3. Moves(active[p], q, active'[p], q, 0, {0})
    BY DEF Moves, SessionAt, Slots
  <2>4. 0 \in Slots(q) /\ Session(p, 0) = active[p]
    BY <1>2 DEF Slots, Session, SessionAt
  <2> QED BY <1>1, <1>2, <2>1, <2>2, <2>3, <2>4 DEF Record, RecordOK, Others
<1>4. CASE DecryptPrevious(m)
  <2>1. PICK i \in DOMAIN q : /\ \E s \in RatchetDecrypt(q[i], m, NextKey(p)) : Establish(p, m, s)
          /\ previous' = [previous EXCEPT ![p] =
                Moved(q, i)]
    BY <1>4 DEF DecryptPrevious, Moved
  <2>2. PICK s \in RatchetDecrypt(q[i], m, NextKey(p)) : Establish(p, m, s)
    BY <2>1
  <2>3. active' = [active EXCEPT ![p] = [s EXCEPT !.est = TRUE]]
    BY <2>2 DEF Establish
  <2> DEFINE t == Moved(q, i)
  <2>4. i \in 1..Len(q) /\ Zeroed \in SessionRecords
    BY <1>2, NoSessionType DEF Zeroed
  <2>5. /\ t \in Seq(SessionRecords) /\ Len(t) = Len(q) /\ t[Len(q)] = Zeroed
        /\ \A j \in 1..(Len(q) - 1) : t[j] = IF j < i THEN q[j] ELSE q[j + 1]
    BY <1>2, <2>4, MovedKeeps
  <2>6. previous' = [previous EXCEPT ![p] = t]
    BY <2>1
  <2> HIDE DEF t
  <2>7. Moves(active[p], q, active'[p], t, 0, {i})
    BY <1>2, <2>4, <2>5, MovesBack
  <2>8. i \in Slots(q) /\ Session(p, i) = q[i]
    BY <1>2, <2>4 DEF Slots, Session, SessionAt
  <2>9. RecordOK(p) /\ Others(p) /\ Record(p, 0, {i}) /\ active'[p] = [s EXCEPT !.est = TRUE]
    BY <1>1, <1>2, <2>3, <2>5, <2>6, <2>7 DEF Record, RecordOK, Others
  <2> QED BY <1>1, <2>2, <2>8, <2>9
<1> QED BY <1>3, <1>4

-----------------------------------------------------------------------------
(* Types, and what keys and chains a session or message can have.           *)

Grows(r, t) == r \in [Parties -> Nat] /\ t \in [Parties -> Nat] /\ \A p \in Parties : r[p] <= t[p]

LEMMA Growing ==
  ASSUME NEW r, NEW t, Grows(r, t)
  PROVE  /\ \A p \in Parties : \A s : SessionOK(p, s, r) => SessionOK(p, s, t)
         /\ \A m \in Messages : MessageOK(m, r) => MessageOK(m, t)
<1>1. ASSUME NEW x \in Secrets, MadeSecret(x, r) PROVE MadeSecret(x, t)
  BY <1>1 DEF MadeSecret, Secrets, RatchetKeys, Grows
<1>2. ASSUME NEW p \in Parties, NEW s, SessionOK(p, s, r) PROVE SessionOK(p, s, t)
  <2>1. s \in SessionRecords /\ Shaped(s) /\ s.root[1] \in Secrets /\ MadeSecret(s.root[1], t)
    BY <1>1, <1>2 DEF SessionOK, Shaped
  <2>2. s.mine.n \in Nat /\ s.theirs.n \in Nat /\ Peer(p) \in Parties
    BY <2>1, PeerOf DEF SessionRecords, RatchetKeys
  <2> QED BY <1>2, <2>1, <2>2 DEF SessionOK, Grows
<1>3. ASSUME NEW m \in Messages, MessageOK(m, r) PROVE MessageOK(m, t)
  BY <1>1, <1>3 DEF MessageOK, Messages, RatchetKeys, Grows
<1> QED BY <1>2, <1>3

LEMMA SessionsKept ==
  ASSUME SessionsInv, NEW p \in Parties, NEW new, NEW used, Record(p, new, used), Others(p),
         Grows(ratchets, ratchets'),
         new \in Slots(previous'[p]) =>
            SessionOK(p, SessionAt(active'[p], previous'[p], new), ratchets')
  PROVE  SessionsInv'
<1> SUFFICES ASSUME NEW q \in Parties, NEW j \in Slots(previous'[q]),
                    SessionAt(active'[q], previous'[q], j) # Zeroed
             PROVE  SessionOK(q, SessionAt(active'[q], previous'[q], j), ratchets')
  BY DEF SessionsInv
<1>1. CASE q # p
  BY <1>1, Growing DEF SessionsInv, Others
<1>2. CASE q = p /\ j # new
  BY <1>2, Growing DEF SessionsInv, Record, Moves
<1> QED BY <1>1, <1>2

LEMMA SigInitInv == SigInit => SigInv
<1> SUFFICES ASSUME SigInit PROVE SigInv
  OBVIOUS
<1>1. PICK b \in Bundles : unclaimed = [p \in Parties |-> b]
  BY DEF SigInit
<1>2. b \in Nat /\ MaxPrevious \in Nat
  BY SignalAssumption
<1>3. \A p \in Parties : /\ active[p] = NoSession /\ previous[p] = <<>> /\ composing[p] = Idle
                         /\ otpPrivate[p] = 1..b
  BY <1>1 DEF SigInit
<1>4. SigShape
  <2>1. previous \in [Parties -> Seq(SessionRecords)] /\ active \in [Parties -> SessionRecords]
    BY NoSessionType DEF SigInit
  <2>2. reads \in [sent -> Nat]
    BY DEF SigInit
  <2>3. otpPrivate \in [Parties -> SUBSET Nat] /\ unclaimed \in [Parties -> Nat]
    BY <1>1, <1>2 DEF SigInit
  <2> QED BY <2>1, <2>2, <2>3 DEF SigInit, SigShape, Idle
<1>5. RecordsInv
  BY <1>2, <1>3 DEF RecordsInv, Idle, NoSession
<1>6. SessionsInv
  BY <1>3 DEF SessionsInv, Slots, SessionAt, Zeroed
<1>7. MessagesInv
  BY DEF MessagesInv, SigInit
<1> QED BY <1>4, <1>5, <1>6, <1>7 DEF SigInv

LEMMA Keep ==
  ASSUME SigInv, UNCHANGED recVars, SigShape',
         \A p \in Parties : /\ composing'[p].pc \in {"prekey", "encrypt"} =>
                                  composing[p].pc \in {"prekey", "encrypt"} \/ active[p].est
                            /\ composing'[p].pc # "prekey" => composing'[p].otp = 0,
         sent' = sent
  PROVE  SigInv'
BY DEF SigInv, RecordsInv, SessionsInv, MessagesInv, recVars

LEMMA SigStep == SigInv /\ [SigNext]_sigVars => SigInv'
<1> SUFFICES ASSUME SigInv, [SigNext]_sigVars PROVE SigInv'
  OBVIOUS
<1> USE DEF SigInv
<1>1. ASSUME NEW p \in Parties, ComposeMessage(p)
      PROVE  SigInv'
  <2>1. SigShape'
    BY <1>1 DEF ComposeMessage, SigShape, recVars
  <2>2. \A q \in Parties : /\ composing'[q].pc \in {"prekey", "encrypt"} =>
                                  composing[q].pc \in {"prekey", "encrypt"} \/ active[q].est
                           /\ composing'[q].pc # "prekey" => composing'[q].otp = 0
    BY <1>1 DEF ComposeMessage, SigShape, RecordsInv
  <2> QED BY <1>1, <2>1, <2>2, Keep DEF ComposeMessage
<1>2. ASSUME NEW p \in Parties, CreateInitiatorSession(p)
      PROVE  SigInv'
  <2> DEFINE s == InitiatorSession(p, Secret(NextKey(p), unclaimed[Peer(p)]))
             o == unclaimed[Peer(p)]
  <2>1. /\ composing' = [composing EXCEPT ![p] = [pc |-> "prekey", otp |-> o]]
        /\ unclaimed' = [unclaimed EXCEPT ![Peer(p)] = IF o = 0 THEN 0 ELSE o - 1]
        /\ ratchets' = [ratchets EXCEPT ![p] = @ + 1]
        /\ UNCHANGED <<otpPrivate, sent, opened, handled, reopens, reads, unreadable>>
    BY <1>2 DEF CreateInitiatorSession
  <2>2. Grows(ratchets, ratchets') /\ ratchets'[p] = ratchets[p] + 1
    BY <2>1 DEF SigShape, Grows
  <2>3. o \in Nat /\ Secret(NextKey(p), o) \in Secrets
        /\ Secret(NextKey(p), o).eph = RatchetKey(p, ratchets'[p]) /\ ratchets'[p] > 0
    BY <2>2, NextKeys, PeerOf DEF SigShape, NextKey
  <2>4. SessionOK(p, s, ratchets')
    <3>1. Secret(NextKey(p), o).eph \in RatchetKeys /\ ratchets' \in [Parties -> Nat]
      BY <2>2, <2>3 DEF Secrets, Grows
    <3> QED BY <2>3, <3>1, NewSessions
  <2> HIDE DEF s
  <2>5. /\ \E new \in Nat : /\ Record(p, new, {})
                            /\ new \in Slots(previous'[p]) =>
                                  SessionAt(active'[p], previous'[p], new) = s
        /\ RecordOK(p) /\ Others(p)
        /\ IF active[p] = NoSession THEN active'[p] = s /\ previous'[p] = previous[p]
            ELSE active'[p] = active[p]
    BY <1>2, <2>4, InitiatorRecord DEF SessionOK, s
  <2>6. s \in SessionRecords /\ s # NoSession
    BY <2>4 DEF SessionOK, Shaped, Begins, NoSession
  <2>7. SigShape'
    <3>1. previous' \in [Parties -> Seq(SessionRecords)] /\ active' \in [Parties -> SessionRecords]
      BY <2>5, <2>6 DEF SigShape, Others, RecordOK
    <3>2. composing' \in [Parties -> [pc : {"idle", "initiate", "prekey", "encrypt"}, otp : Nat]]
          /\ unclaimed' \in [Parties -> Nat]
      <4>1. [pc |-> "prekey", otp |-> o] \in [pc : {"idle", "initiate", "prekey", "encrypt"}, otp : Nat]
            /\ (IF o = 0 THEN 0 ELSE o - 1) \in Nat
        BY <2>3
      <4> DEFINE x == [pc |-> "prekey", otp |-> o]
                 y == IF o = 0 THEN 0 ELSE o - 1
      <4>2. composing' = [composing EXCEPT ![p] = x] /\ unclaimed' = [unclaimed EXCEPT ![Peer(p)] = y]
        BY <2>1
      <4> HIDE DEF x, y
      <4> QED BY <4>1, <4>2 DEF SigShape, x, y
    <3> QED BY <2>1, <2>2, <3>1, <3>2 DEF SigShape, Grows
  <2>8. SessionsInv'
    <3>1. PICK new \in Nat : /\ Record(p, new, {})
                             /\ new \in Slots(previous'[p]) =>
                                  SessionAt(active'[p], previous'[p], new) = s
      BY <2>5
    <3> QED BY <2>2, <2>4, <2>5, <3>1, SessionsKept
  <2>9. RecordsInv'
    <3> SUFFICES ASSUME NEW q \in Parties
                 PROVE  /\ active'[q] = NoSession => previous'[q] = <<>>
                        /\ Len(previous'[q]) <= MaxPrevious
                        /\ composing'[q].pc \in {"prekey", "encrypt"} \/ active'[q].est => active'[q] # NoSession
                        /\ composing'[q].pc # "prekey" => composing'[q].otp = 0
      BY DEF RecordsInv
    <3>1. CASE q = p
      BY <2>1, <2>5, <2>6, <3>1 DEF RecordsInv, RecordOK, SigShape
    <3>2. CASE q # p
      BY <2>1, <2>5, <3>2 DEF RecordsInv, Others, SigShape
    <3> QED BY <3>1, <3>2
  <2>10. MessagesInv'
    BY <2>1, <2>2, Growing DEF MessagesInv, SigShape
  <2> QED BY <2>7, <2>8, <2>9, <2>10
<1>3. ASSUME NEW p \in Parties, EncryptMessage(p)
      PROVE  SigInv'
  <2> DEFINE a == active[p]
             s == [a EXCEPT !.send.n = @ + 1]
             m == [from |-> p, chain |-> a.send.chain, n |-> a.send.n, rk |-> a.mine, pn |-> a.pn,
                   prekey |-> composing[p].pc = "prekey", otp |-> composing[p].otp]
  <2>1. /\ composing[p].pc \in {"encrypt", "prekey"}
        /\ composing' = [composing EXCEPT ![p] = Idle] /\ sent' = sent \cup {m}
        /\ reads' = [x \in sent' |-> IF x \in sent THEN reads[x] ELSE 0]
        /\ UNCHANGED <<ratchets, unclaimed, otpPrivate, opened, handled, reopens, unreadable>>
    BY <1>3 DEF EncryptMessage
  <2>2. Record(p, 0, {0}) /\ RecordOK(p) /\ Others(p) /\ active'[p] = s
    BY <1>3, EncryptRecord
  <2>3. SessionOK(p, a, ratchets)
    <3>1. a # NoSession /\ 0 \in Slots(previous[p]) /\ SessionAt(active[p], previous[p], 0) = a
      BY <2>1 DEF RecordsInv, Slots, SessionAt, SigShape
    <3> QED BY <3>1 DEF SessionsInv, Zeroed
  <2> HIDE DEF a
  <2>4. SessionOK(p, s, ratchets)
    <3>1. a.send \in ChainStates /\ [a.send EXCEPT !.n = @ + 1] \in ChainStates
          /\ [a.send EXCEPT !.n = @ + 1].chain = a.send.chain
      BY <2>3 DEF SessionOK, SessionRecords, ChainStates
    <3> DEFINE send == [a.send EXCEPT !.n = @ + 1]
    <3>2. s = [a EXCEPT !.send = send]
      BY <2>3 DEF SessionOK, SessionRecords
    <3> HIDE DEF s, send
    <3>3. /\ s \in SessionRecords /\ s.root = a.root /\ s.recv = a.recv /\ s.skipped = a.skipped
          /\ s.mine = a.mine /\ s.theirs = a.theirs /\ s.send.chain = a.send.chain
      BY <2>3, <3>1, <3>2 DEF SessionOK, SessionRecords, send
    <3> QED BY <2>3, <3>3 DEF SessionOK, Shaped
  <2>5. m \in Messages /\ MessageOK(m, ratchets)
    <3>1. m \in Messages
      BY <2>3 DEF SessionOK, SessionRecords, ChainStates, Messages, SigShape
    <3>2. m.otp # 0 => m.prekey
      BY DEF RecordsInv
    <3> QED BY <2>3, <3>1, <3>2 DEF SessionOK, Shaped, Begins, MessageOK, SecretOf
  <2> HIDE DEF s, m
  <2>6. SigShape'
    <3>1. previous' \in [Parties -> Seq(SessionRecords)] /\ active' \in [Parties -> SessionRecords]
      BY <1>3, <2>2, <2>4 DEF SigShape, Others, RecordOK, EncryptMessage, SessionOK
    <3>2. reads' \in [sent' -> Nat]
      BY <2>1 DEF SigShape
    <3>3. composing' \in [Parties -> [pc : {"idle", "initiate", "prekey", "encrypt"}, otp : Nat]]
      BY <2>1 DEF SigShape, Idle
    <3> QED BY <2>1, <2>5, <3>1, <3>2, <3>3 DEF SigShape
  <2>7. SessionsInv'
    <3>1. SessionAt(active'[p], previous'[p], 0) = s /\ Grows(ratchets, ratchets')
      BY <2>1, <2>2 DEF SessionAt, Grows, SigShape
    <3> QED BY <2>1, <2>2, <2>4, <3>1, SessionsKept
  <2>8. RecordsInv'
    <3>1. s # NoSession
      BY <2>4 DEF SessionOK, Shaped, Begins, NoSession
    <3> SUFFICES ASSUME NEW q \in Parties
                 PROVE  /\ active'[q] = NoSession => previous'[q] = <<>>
                        /\ Len(previous'[q]) <= MaxPrevious
                        /\ composing'[q].pc \in {"prekey", "encrypt"} \/ active'[q].est => active'[q] # NoSession
                        /\ composing'[q].pc # "prekey" => composing'[q].otp = 0
      BY DEF RecordsInv
    <3>2. CASE q = p
      BY <2>1, <2>2, <3>1, <3>2 DEF RecordsInv, RecordOK, SigShape, Idle
    <3>3. CASE q # p
      BY <2>1, <2>2, <3>3 DEF RecordsInv, Others, SigShape
    <3> QED BY <3>2, <3>3
  <2>9. MessagesInv'
    BY <2>1, <2>5 DEF MessagesInv
  <2> QED BY <2>6, <2>7, <2>8, <2>9
<1>4. ASSUME NEW p \in Parties, Reopen(p)
      PROVE  SigInv'
  <2>1. SigShape'
    BY <1>4 DEF Reopen, SigShape, recVars
  <2> QED BY <1>4, <2>1, Keep DEF Reopen, RecordsInv
<1>5. ASSUME NEW m \in sent, CreateResponderSession(m)
      PROVE  SigInv'
  <2> DEFINE p == Peer(m.from)
             S == Secret(m.rk, m.otp)
             s == ResponderSession(S, NextKey(p))
  <2>1. m \in Messages /\ p \in Parties /\ Peer(p) = m.from /\ MessageOK(m, ratchets)
    BY PeerOf DEF SigShape, MessagesInv, Messages
  <2>2. CASE m.otp \in otpPrivate[p] \cup {0}
    <3>1. /\ opened' = opened \cup {m} /\ m \notin handled
          /\ ratchets' = [ratchets EXCEPT ![p] = @ + 1]
          /\ UNCHANGED <<unclaimed, otpPrivate, composing, sent, handled, reopens, reads, unreadable>>
      BY <1>5, <2>2 DEF CreateResponderSession
    <3>2. Grows(ratchets, ratchets') /\ ratchets'[p] = ratchets[p] + 1 /\ ratchets'[p] > 0
          /\ ratchets'[Peer(p)] = ratchets[Peer(p)]
      BY <2>1, <3>1, PeerOf DEF SigShape, Grows
    <3>3. Record(p, 0, {}) /\ RecordOK(p) /\ Others(p) /\ active'[p] = s
      BY <1>5, <2>2, ResponderRecord
    <3>4. SessionOK(p, s, ratchets')
      <4>1. S \in Secrets /\ S.eph = m.rk
        BY <2>1 DEF Secret, Secrets, Messages
      <4>2. NextKey(p) \in RatchetKeys /\ NextKey(p) = RatchetKey(p, ratchets'[p])
        BY <2>1, <3>2, NextKeys DEF NextKey
      <4> HIDE DEF S, p
      <4> QED BY <2>1, <3>2, <4>1, <4>2, NewSessions DEF Grows, MessageOK
    <3> HIDE DEF s, p
    <3>5. s \in SessionRecords /\ s # NoSession
      BY <3>4 DEF SessionOK, Shaped, Begins, NoSession
    <3>6. SigShape'
      <4>1. previous' \in [Parties -> Seq(SessionRecords)] /\ active' \in [Parties -> SessionRecords]
        BY <3>3, <3>5 DEF SigShape, Others, RecordOK
      <4> QED BY <3>1, <3>2, <4>1 DEF SigShape, Grows
    <3>7. SessionsInv'
      <4>1. SessionAt(active'[p], previous'[p], 0) = s
        BY <3>3 DEF SessionAt
      <4> QED BY <2>1, <3>2, <3>3, <3>4, <4>1, SessionsKept
    <3>8. RecordsInv'
      <4> SUFFICES ASSUME NEW q \in Parties
                   PROVE  /\ active'[q] = NoSession => previous'[q] = <<>>
                          /\ Len(previous'[q]) <= MaxPrevious
                          /\ composing'[q].pc \in {"prekey", "encrypt"} \/ active'[q].est => active'[q] # NoSession
                          /\ composing'[q].pc # "prekey" => composing'[q].otp = 0
        BY DEF RecordsInv
      <4>1. CASE q = p
        BY <3>1, <3>3, <3>5, <4>1 DEF RecordsInv, RecordOK
      <4>2. CASE q # p
        BY <3>1, <3>3, <4>2 DEF RecordsInv, Others
      <4> QED BY <4>1, <4>2
    <3>9. MessagesInv'
      BY <3>1, <3>2, Growing DEF MessagesInv, SigShape
    <3> QED BY <3>6, <3>7, <3>8, <3>9
  <2>3. CASE m.otp \notin otpPrivate[p] \cup {0}
    <3>1. /\ handled' = handled \cup {m} /\ m \notin opened
          /\ UNCHANGED <<recVars, opened, unclaimed, otpPrivate, composing, sent, reopens, reads,
                         unreadable>>
      BY <1>5, <2>3 DEF CreateResponderSession
    <3>2. SigShape'
      BY <3>1 DEF SigShape, recVars
    <3> QED BY <3>1, <3>2, Keep DEF RecordsInv
  <2> QED BY <2>2, <2>3
<1>6. ASSUME NEW m \in sent, DecryptMessage(m), DecryptActive(m) \/ DecryptPrevious(m)
      PROVE  SigInv'
  <2> DEFINE p == Peer(m.from)
  <2>1. m \in Messages /\ p \in Parties /\ Peer(p) = m.from /\ MessageOK(m, ratchets)
    BY PeerOf DEF SigShape, MessagesInv, Messages
  <2>2. /\ RecordOK(p) /\ Others(p)
        /\ \E i \in Slots(previous[p]) : \E s \in RatchetDecrypt(Session(p, i), m, NextKey(p)) :
               Establish(p, m, s) /\ Record(p, 0, {i}) /\ active'[p] = [s EXCEPT !.est = TRUE]
    BY <1>6, DecryptRecord
  <2> HIDE DEF p
  <2>i. PICK i \in Slots(previous[p]) :
               \E s \in RatchetDecrypt(Session(p, i), m, NextKey(p)) :
                 Establish(p, m, s) /\ Record(p, 0, {i}) /\ active'[p] = [s EXCEPT !.est = TRUE]
    BY <2>2
  <2>3. PICK s \in RatchetDecrypt(Session(p, i), m, NextKey(p)) :
            Establish(p, m, s) /\ Record(p, 0, {i}) /\ active'[p] = [s EXCEPT !.est = TRUE]
    BY <2>i
  <2> DEFINE old == Session(p, i)
             new == [s EXCEPT !.est = TRUE]
  <2>4. old \in SessionRecords /\ (old # Zeroed => SessionOK(p, old, ratchets))
    BY <2>1 DEF SigShape, SessionsInv, Session, SessionAt, Slots
  <2> HIDE DEF old
  <2>5. /\ old # Zeroed /\ old.root[1] = SecretOf(m) /\ s \in SessionRecords /\ Shaped(s)
        /\ Advanced(old, s, m, NextKey(p)) /\ NextKey(p) \in RatchetKeys
    <3>1. NextKey(p) \in RatchetKeys
      BY <2>1, NextKeys
    <3>2. s \in RatchetDecrypt(old, m, NextKey(p)) /\ (old # Zeroed => Shaped(old)) /\ Len(m.chain) > 0
      BY <2>1, <2>4 DEF old, SessionOK, MessageOK
    <3> QED BY <2>1, <2>4, <3>1, <3>2, Decrypting
  <2>6. /\ ratchets' = [ratchets EXCEPT ![p] = IF s.mine = NextKey(p) THEN @ + 1 ELSE @]
        /\ reads' = [reads EXCEPT ![m] = @ + 1]
        /\ otpPrivate' = [otpPrivate EXCEPT ![p] = IF m.prekey /\ ~s.est THEN @ \ {m.otp} ELSE @]
        /\ handled' = handled \cup {m} /\ opened' = opened \ {m}
        /\ UNCHANGED <<unclaimed, composing, sent, reopens, unreadable>>
    BY <1>6, <2>3 DEF Establish, DecryptMessage
  <2>7. Grows(ratchets, ratchets')
        /\ ratchets'[p] = IF s.mine = NextKey(p) THEN ratchets[p] + 1 ELSE ratchets[p]
    BY <2>1, <2>6 DEF SigShape, Grows
  <2>8. SessionOK(p, new, ratchets')
    <3>1. SessionOK(p, old, ratchets')
      BY <2>1, <2>4, <2>5, <2>7, Growing
    <3>2. /\ new \in SessionRecords /\ new.root = s.root /\ new.recv = s.recv /\ new.mine = s.mine
          /\ new.theirs = s.theirs /\ new.skipped = s.skipped /\ new.send = s.send
      BY <2>5 DEF SessionRecords
    <3> HIDE DEF new
    <3>3. Shaped(new)
      BY <2>5, <3>2 DEF Shaped
    <3>4. new.mine.by = p /\ new.mine.n \in 1..ratchets'[p]
      <4>1. CASE s.mine = NextKey(p)
        BY <2>1, <2>7, <3>2, <4>1, NextKeys DEF SigShape
      <4>2. CASE s.mine # NextKey(p)
        BY <2>5, <3>1, <3>2, <4>2 DEF Advanced, SessionOK
      <4> QED BY <4>1, <4>2
    <3>5. new.theirs.by = Peer(p) /\ new.theirs.n <= ratchets'[Peer(p)]
      <4>1. MessageOK(m, ratchets')
        BY <2>1, <2>7, Growing
      <4>2. m.rk.by = Peer(p) /\ m.rk.n <= ratchets'[Peer(p)]
        BY <2>1, <4>1, <2>7, PeerOf DEF MessageOK, Messages, RatchetKeys, Grows
      <4> QED BY <2>5, <3>1, <3>2, <4>2 DEF Advanced, SessionOK
    <3> QED BY <2>5, <3>1, <3>2, <3>3, <3>4, <3>5 DEF SessionOK, Advanced
  <2> HIDE DEF new
  <2>9. SigShape'
    <3>1. previous' \in [Parties -> Seq(SessionRecords)] /\ active' \in [Parties -> SessionRecords]
      BY <2>2, <2>3, <2>8 DEF SigShape, Others, RecordOK, SessionOK, new
    <3>2. reads' \in [sent' -> Nat] /\ otpPrivate' \in [Parties -> SUBSET Nat]
      BY <2>1, <2>6 DEF SigShape
    <3> QED BY <2>6, <2>7, <3>1, <3>2 DEF SigShape, Grows
  <2>10. SessionsInv'
    <3>1. SessionAt(active'[p], previous'[p], 0) = new
      BY <2>3 DEF SessionAt, new
    <3> QED BY <2>1, <2>2, <2>3, <2>7, <2>8, <3>1, SessionsKept
  <2>11. RecordsInv'
    <3>1. active'[p] # NoSession
      BY <2>3, <2>8 DEF SessionOK, Shaped, Begins, NoSession, new
    <3> SUFFICES ASSUME NEW q \in Parties
                 PROVE  /\ active'[q] = NoSession => previous'[q] = <<>>
                        /\ Len(previous'[q]) <= MaxPrevious
                        /\ composing'[q].pc \in {"prekey", "encrypt"} \/ active'[q].est => active'[q] # NoSession
                        /\ composing'[q].pc # "prekey" => composing'[q].otp = 0
      BY DEF RecordsInv
    <3>2. CASE q = p
      BY <2>2, <2>6, <3>1, <3>2 DEF RecordsInv, RecordOK
    <3>3. CASE q # p
      BY <2>2, <2>6, <3>3 DEF RecordsInv, Others
    <3> QED BY <3>2, <3>3
  <2>12. MessagesInv'
    BY <2>6, <2>7, Growing DEF MessagesInv, SigShape
  <2> QED BY <2>9, <2>10, <2>11, <2>12
<1>7. ASSUME NEW m \in sent, DecryptMessage(m), DecryptFails(m)
      PROVE  SigInv'
  <2>1. /\ handled' = handled \cup {m} /\ opened' = opened \ {m}
        /\ unreadable' = unreadable \/ unreadable' = unreadable \cup {m}
        /\ UNCHANGED <<recVars, otpPrivate, reads, unclaimed, composing, sent, reopens>>
    BY <1>7 DEF DecryptFails, DecryptMessage
  <2>2. SigShape'
    BY <2>1 DEF SigShape, recVars
  <2> QED BY <2>1, <2>2, Keep DEF RecordsInv
<1>8. CASE UNCHANGED sigVars
  BY <1>8 DEF sigVars, recVars, SigShape, RecordsInv, SessionsInv, MessagesInv
<1>9. ASSUME NEW m \in sent, DecryptMessage(m)
      PROVE  DecryptActive(m) \/ DecryptPrevious(m) \/ DecryptFails(m)
  BY <1>9 DEF DecryptMessage
<1> HIDE DEF SigInv
<1> QED BY <1>1, <1>2, <1>3, <1>4, <1>5, <1>6, <1>7, <1>8, <1>9 DEF SigNext

\* The inductive invariant: every session has the shape of a ratchet that began
\* with its secret, with keys that were made, and so has every message; a record
\* that is empty has no previous sessions, and sends and answers only with one.
THEOREM SigInvariant == SigSpec => []SigInv
BY SigInitInv, SigStep, PTL DEF SigSpec

\* The variables of SignalSession keep their types: every session of a person is
\* with the other one, and between keys that they made.
THEOREM SigTypeCorrect == SigSpec => []SigTypeOK
<1>1. SigInv => SigTypeOK
  <2> SUFFICES ASSUME SigInv PROVE SigTypeOK
    OBVIOUS
  <2>1. ASSUME NEW p \in Parties, NEW s \in Live(p)
        PROVE  SessionOK(p, s, ratchets)
    <3>1. PICK i \in Slots(previous[p]) : s = SessionAt(active[p], previous[p], i) /\ s # Zeroed
      <4>1. DOMAIN previous[p] = 1..Len(previous[p]) /\ Len(previous[p]) \in Nat
        BY DEF SigInv, SigShape
      <4> QED BY <4>1 DEF Live, Slots, SessionAt
    <3> QED BY <3>1 DEF SigInv, SessionsInv
  <2>2. ASSUME NEW p \in Parties, NEW s \in Live(p)
        PROVE  /\ s.mine.by = p /\ s.mine.n \in 1..ratchets[p]
               /\ s.theirs.by = Peer(p) /\ s.theirs.n <= ratchets[Peer(p)]
               /\ {s.send.n, s.recv.n, s.pn} \subseteq Nat
    BY <2>1 DEF SessionOK, SessionRecords, ChainStates
  <2> QED BY <2>2 DEF SigInv, SigShape, RecordsInv, SigTypeOK
<1> QED BY <1>1, SigInvariant, PTL
-----------------------------------------------------------------------------
(* A message decrypts once.                                                 *)

\* The sessions of the record of a and q, and whether one place at most has one
\* of the secret.
LiveIn(a, q) == {SessionAt(a, q, i) : i \in Slots(q)} \ {Zeroed}
IsOf(a, q, i, secret) == SessionAt(a, q, i) # Zeroed /\ SessionAt(a, q, i).root[1] = secret
Single(a, q, secret) ==
  \A i, j \in Slots(q) : IsOf(a, q, i, secret) /\ IsOf(a, q, j, secret) => i = j

Lives == [p \in Parties |-> LiveIn(active[p], previous[p])]
Singles == [p \in Parties |-> {x \in Secrets : Single(active[p], previous[p], x)}]

\* A secret p has a session of, or has written a message with.
Uses(L, msgs, p, secret) ==
  \/ \E s \in L[p] : s.root[1] = secret
  \/ \E m \in msgs : m.from = p /\ SecretOf(m) = secret

\* The message that makes the responder's session of its own secret.
Original(m) == m.prekey /\ SecretOf(m) = Secret(m.rk, m.otp)

\* Secrets whose sessions cannot be made again: there was a one-time pre-key,
\* and the first message deletes it.
Tracked(secret, out) == secret.otp # 0 /\ secret \notin out
Made(msgs, p, secret) ==
  \/ secret.eph.by = p
  \/ \E m \in msgs : m.from = Peer(p) /\ Original(m) /\ SecretOf(m) = secret

\* A ratchet key belongs to one secret only.
KeysOnce(L, msgs) ==
  \A p \in Parties : \A s \in L[p] : \A secret \in Secrets :
    Uses(L, msgs, p, secret) /\ secret.eph = s.mine => secret = s.root[1]

OriginOnce(L, msgs) ==
  \A m \in msgs : m.prekey /\ Uses(L, msgs, m.from, Secret(m.rk, m.otp)) => Original(m)

\* The server hands out a one-time pre-key once.
ClaimOnce(L, msgs, comp, free) ==
  \A p \in Parties :
    /\ \A m \in msgs : m.from = p /\ m.otp # 0 => m.otp > free[Peer(p)] /\ m.otp # comp[p].otp
    /\ comp[p].otp # 0 => comp[p].otp > free[Peer(p)]
    /\ \A s \in L[p] : s.root[1].eph.by = p =>
          s.root[1].otp = 0 \/ s.root[1].otp > free[Peer(p)]

MessageOnce(msgs) ==
  \A m1, m2 \in msgs : m1.from = m2.from /\ m1.otp # 0 /\ m1.otp = m2.otp => m1 = m2

\* An original message is the first of its session.
SendsFirst(L, comp) ==
  \A p \in Parties : \A s \in L[p] :
    comp[p].otp # 0 /\ s.root[1] = Secret(s.mine, comp[p].otp) =>
        s.send = [chain |-> <<s.root[1]>>, n |-> 0]
SentFirst(msgs) ==
  \A m \in msgs : m.otp # 0 /\ Original(m) => m.n = 0 /\ m.chain = <<SecretOf(m)>>

\* A responder's session was made by a message, and is as it was made until it
\* decrypts one.
Untouched(s) ==
  /\ s.recv = [chain |-> <<s.root[1]>>, n |-> 0] /\ s.skipped = {}
  /\ s.theirs = s.root[1].eph
RespondersOnce(L, msgs) ==
  \A p \in Parties : \A s \in L[p] : s.root[1].eph.by = Peer(p) =>
    /\ \E m \in msgs : m.from = Peer(p) /\ m.prekey /\ Secret(m.rk, m.otp) = s.root[1]
    /\ s.est \/ Untouched(s)

SinglesOnce(singles, msgs, out) ==
  \A p \in Parties, secret \in Secrets :
    Tracked(secret, out) /\ Made(msgs, p, secret) => secret \in singles[p]

\* The session an original message has made is there to decrypt it, or has
\* decrypted one and lost the one-time pre-key.
OpenedOnce(L, msgs, priv, open, out) ==
  \A m \in msgs : \A s \in L[Peer(m.from)] :
    Original(m) /\ Tracked(SecretOf(m), out) /\ s.root[1] = SecretOf(m) =>
        IF s.est THEN m.otp \notin priv[Peer(m.from)] ELSE m \in open

\* A message that was read is spent, and its session is not made again.
ReadOnce(L, msgs, read, priv, out) ==
  \A m \in msgs : read[m] > 0 /\ Tracked(SecretOf(m), out) =>
    /\ read[m] = 1
    /\ SecretOf(m).eph.by = m.from =>
         Made(msgs, Peer(m.from), SecretOf(m)) /\ SecretOf(m).otp \notin priv[Peer(m.from)]
    /\ \A s \in L[Peer(m.from)] : s.root[1] = SecretOf(m) => Spent(s, m)

OnceInv ==
  /\ KeysOnce(Lives, sent) /\ OriginOnce(Lives, sent)
  /\ ClaimOnce(Lives, sent, composing, unclaimed)
  /\ MessageOnce(sent) /\ SendsFirst(Lives, composing) /\ SentFirst(sent)
  /\ RespondersOnce(Lives, sent) /\ SinglesOnce(Singles, sent, outrun)
  /\ OpenedOnce(Lives, sent, otpPrivate, opened, outrun)
  /\ ReadOnce(Lives, sent, reads, otpPrivate, outrun)

-----------------------------------------------------------------------------
\* What a step makes of the sessions of a record.
LEMMA MovesLive ==
  ASSUME NEW a, NEW q, NEW b, NEW t, NEW new, NEW used, Moves(a, q, b, t, new, used),
         NEW x, new \in Slots(t) => SessionAt(b, t, new) = x
  PROVE  /\ LiveIn(b, t) \subseteq LiveIn(a, q) \cup {x}
         /\ \A secret : x.root[1] # secret /\ Single(a, q, secret) => Single(b, t, secret)
         /\ \A secret : (\A s \in LiveIn(a, q) : s.root[1] # secret) =>
               Single(a, q, secret) /\ Single(b, t, secret)
<1>1. ASSUME NEW j \in Slots(t), SessionAt(b, t, j) # Zeroed
      PROVE  (j = new /\ SessionAt(b, t, j) = x) \/ SessionAt(b, t, j) \in LiveIn(a, q)
  BY <1>1 DEF Moves, LiveIn
<1>2. LiveIn(b, t) \subseteq LiveIn(a, q) \cup {x}
  BY <1>1 DEF LiveIn
<1>3. ASSUME NEW secret, x.root[1] # secret, Single(a, q, secret),
             NEW i \in Slots(t), NEW j \in Slots(t), IsOf(b, t, i, secret), IsOf(b, t, j, secret)
      PROVE  i = j
  <2>1. i # new /\ j # new
    BY <1>3 DEF IsOf
  <2> QED BY <1>3, <2>1 DEF Moves, IsOf, Single
<1>4. ASSUME NEW secret, \A s \in LiveIn(a, q) : s.root[1] # secret,
             NEW i \in Slots(t), NEW j \in Slots(t), IsOf(b, t, i, secret), IsOf(b, t, j, secret)
      PROVE  i = j
  BY <1>1, <1>4 DEF IsOf
<1>5. ASSUME NEW secret, \A s \in LiveIn(a, q) : s.root[1] # secret
      PROVE  Single(a, q, secret)
  BY <1>5 DEF Single, IsOf, LiveIn
<1> QED BY <1>2, <1>3, <1>4, <1>5 DEF Single

\* ... and of the one it takes from place i, to be x in the new place.
LEMMA MovesOne ==
  ASSUME NEW a, NEW q, NEW b, NEW t, NEW new, NEW i \in Slots(q), Moves(a, q, b, t, new, {i}),
         NEW x, new \in Slots(t), SessionAt(b, t, new) = x, NEW secret,
         IsOf(a, q, i, secret), Single(a, q, secret), x.root[1] = secret
  PROVE  /\ Single(b, t, secret)
         /\ \A s \in LiveIn(b, t) : s.root[1] = secret => s = x
<1>1. ASSUME NEW j \in Slots(t), IsOf(b, t, j, secret) PROVE j = new
  <2> SUFFICES ASSUME j # new PROVE FALSE
    OBVIOUS
  <2>1. PICK k \in Slots(q) \ {i} : SessionAt(a, q, k) = SessionAt(b, t, j)
    BY <1>1 DEF Moves, IsOf
  <2> QED BY <1>1, <2>1 DEF IsOf, Single
<1>2. Single(b, t, secret)
  BY <1>1 DEF Single
<1>3. \A s \in LiveIn(b, t) : s.root[1] = secret => s = x
  BY <1>1 DEF LiveIn, IsOf
<1> QED BY <1>2, <1>3

\* What a step of p makes of the sessions, with the session x in the place "new".
LEMMA RecordLives ==
  ASSUME NEW p \in Parties, NEW new, NEW used, Record(p, new, used), Others(p), NEW x,
         new \in Slots(previous'[p]) => SessionAt(active'[p], previous'[p], new) = x
  PROVE  /\ \A q \in Parties \ {p} : Lives'[q] = Lives[q] /\ Singles'[q] = Singles[q]
         /\ Lives'[p] \subseteq Lives[p] \cup {x}
         /\ \A secret \in Secrets : x.root[1] # secret /\ secret \in Singles[p] =>
               secret \in Singles'[p]
         /\ \A secret \in Secrets : (\A s \in Lives[p] : s.root[1] # secret) =>
               secret \in Singles[p] /\ secret \in Singles'[p]
<1>1. Moves(active[p], previous[p], active'[p], previous'[p], new, used)
  BY DEF Record
<1>2. /\ \A q \in Parties : Lives[q] = LiveIn(active[q], previous[q])
      /\ \A q \in Parties : Lives'[q] = LiveIn(active'[q], previous'[q])
      /\ \A q \in Parties : \A secret \in Secrets :
            /\ secret \in Singles[q] <=> Single(active[q], previous[q], secret)
            /\ secret \in Singles'[q] <=> Single(active'[q], previous'[q], secret)
  BY DEF Lives, Singles
<1>3. \A q \in Parties \ {p} : Lives'[q] = Lives[q]
  BY <1>2 DEF Others
<1>4. \A q \in Parties \ {p} : Singles'[q] = Singles[q]
  BY DEF Others, Singles
<1> QED BY <1>1, <1>2, <1>3, <1>4, MovesLive

\* A step that changes the session of place i to x, of the same secret.
LEMMA RecordChanged ==
  ASSUME NEW p \in Parties, NEW new, NEW i \in Slots(previous[p]), Record(p, new, {i}), Others(p),
         NEW x, new \in Slots(previous'[p]), SessionAt(active'[p], previous'[p], new) = x,
         Session(p, i) # Zeroed, x.root[1] = Session(p, i).root[1], x.root[1] \in Secrets
  PROVE  /\ \A secret \in Secrets : secret \in Singles[p] => secret \in Singles'[p]
         /\ x.root[1] \in Singles[p] =>
               \A s \in Lives'[p] : s.root[1] = x.root[1] => s = x
         /\ Session(p, i) \in Lives[p]
<1>1. /\ \A q \in Parties : Lives[q] = LiveIn(active[q], previous[q])
      /\ \A q \in Parties : Lives'[q] = LiveIn(active'[q], previous'[q])
      /\ \A q \in Parties : \A secret \in Secrets :
            /\ secret \in Singles[q] <=> Single(active[q], previous[q], secret)
            /\ secret \in Singles'[q] <=> Single(active'[q], previous'[q], secret)
  BY DEF Lives, Singles
<1>2. Moves(active[p], previous[p], active'[p], previous'[p], new, {i})
  BY DEF Record
<1>3. IsOf(active[p], previous[p], i, x.root[1])
  BY DEF IsOf, Session
<1>4. x.root[1] \in Singles[p] => /\ x.root[1] \in Singles'[p]
                                  /\ \A s \in Lives'[p] : s.root[1] = x.root[1] => s = x
  BY <1>1, <1>2, <1>3, MovesOne
<1>5. \A secret \in Secrets : x.root[1] # secret /\ secret \in Singles[p] => secret \in Singles'[p]
  BY RecordLives
<1>6. Session(p, i) \in Lives[p]
  BY <1>1 DEF LiveIn, Session
<1> QED BY <1>4, <1>5, <1>6

-----------------------------------------------------------------------------
LEMMA TwoParties == \A p, q \in Parties : q # p => q = Peer(p) /\ Peer(q) = p
BY SignalAssumption DEF Parties, Peer

LEMMA LivesOK ==
  ASSUME SigInv, NEW p \in Parties, NEW s \in Lives[p]
  PROVE  SessionOK(p, s, ratchets) /\ s.root[1] \in Secrets /\ s # Zeroed
<1>1. Lives[p] = LiveIn(active[p], previous[p])
  BY DEF Lives
<1>2. PICK i \in Slots(previous[p]) : s = SessionAt(active[p], previous[p], i) /\ s # Zeroed
  BY <1>1 DEF LiveIn
<1> QED BY <1>2 DEF SigInv, SessionsInv, SessionOK, Shaped

LEMMA SentOK ==
  ASSUME SigInv, NEW m \in sent
  PROVE  /\ m \in Messages /\ MessageOK(m, ratchets) /\ m.from \in Parties
         /\ Peer(m.from) \in Parties /\ Peer(m.from) # m.from /\ Peer(Peer(m.from)) = m.from
         /\ m.rk \in RatchetKeys /\ m.otp \in Nat /\ Secret(m.rk, m.otp) \in Secrets
         /\ Secret(m.rk, m.otp).eph = m.rk /\ Secret(m.rk, m.otp).otp = m.otp
         /\ m.rk.by = m.from /\ SecretOf(m) \in Secrets /\ reads[m] \in Nat
BY PeerOf DEF SigInv, SigShape, MessagesInv, MessageOK, Messages, Secret, Secrets

\* The keys of a secret in use were made.
LEMMA UsesMade ==
  ASSUME SigInv, NEW p \in Parties, NEW secret, Uses(Lives, sent, p, secret)
  PROVE  secret \in Secrets /\ MadeSecret(secret, ratchets)
         /\ \A q \in Parties : secret.eph # NextKey(q)
<1>1. secret \in Secrets /\ MadeSecret(secret, ratchets)
  BY LivesOK, SentOK DEF Uses, SessionOK, MessageOK
<1>2. ASSUME NEW q \in Parties, secret.eph = NextKey(q) PROVE FALSE
  <2>1. secret.eph.by = q /\ secret.eph.n = ratchets[q] + 1 /\ ratchets[q] \in Nat
    BY <1>2, NextKeys DEF SigInv, SigShape
  <2> QED BY <1>1, <2>1 DEF MadeSecret
<1> QED BY <1>1, <1>2

\* Steps that leave the sessions, the messages and the one-time pre-keys alone.
LEMMA QuietOnce ==
  ASSUME OnceInv, UNCHANGED <<recVars, sent, unclaimed, otpPrivate, opened, reads, outrun>>,
         \A p \in Parties : composing'[p].otp = composing[p].otp
  PROVE  OnceInv'
<1>1. Lives' = Lives /\ Singles' = Singles
  BY DEF recVars, Lives, Singles
<1>2. ClaimOnce(Lives', sent', composing', unclaimed')
  <2>1. ClaimOnce(Lives, sent, composing, unclaimed)
    BY DEF OnceInv
  <2> QED BY <1>1, <2>1 DEF ClaimOnce
<1>3. SendsFirst(Lives', composing')
  <2>1. SendsFirst(Lives, composing)
    BY DEF OnceInv
  <2> QED BY <1>1, <2>1 DEF SendsFirst
<1> QED BY <1>1, <1>2, <1>3 DEF OnceInv

LEMMA OnceInitInv == SigInit => OnceInv
<1> SUFFICES ASSUME SigInit PROVE OnceInv
  OBVIOUS
<1>1. sent = {} /\ \A p \in Parties : active[p] = Zeroed /\ previous[p] = <<>>
                                      /\ composing[p].otp = 0
  BY DEF SigInit, Zeroed, Idle
<1>2. ASSUME NEW p \in Parties
      PROVE  Lives[p] = {} /\ \A x \in Secrets : x \in Singles[p]
  <2>1. \A i \in Slots(previous[p]) : SessionAt(active[p], previous[p], i) = Zeroed
    BY <1>1 DEF Slots, SessionAt
  <2>2. LiveIn(active[p], previous[p]) = {}
    BY <2>1 DEF LiveIn
  <2>3. \A x \in Secrets : Single(active[p], previous[p], x)
    BY <2>1 DEF Single, IsOf
  <2> QED BY <2>2, <2>3 DEF Lives, Singles
<1>3. KeysOnce(Lives, sent) /\ RespondersOnce(Lives, sent) /\ SinglesOnce(Singles, sent, outrun)
      /\ SendsFirst(Lives, composing)
  BY <1>2 DEF KeysOnce, RespondersOnce, SinglesOnce, SendsFirst
<1>4. ClaimOnce(Lives, sent, composing, unclaimed)
  BY <1>1, <1>2 DEF ClaimOnce
<1>5. /\ OriginOnce(Lives, sent) /\ MessageOnce(sent) /\ SentFirst(sent)
      /\ OpenedOnce(Lives, sent, otpPrivate, opened, outrun)
      /\ ReadOnce(Lives, sent, reads, otpPrivate, outrun)
  BY <1>1 DEF OriginOnce, MessageOnce, SentFirst, OpenedOnce, ReadOnce
<1> QED BY <1>3, <1>4, <1>5 DEF OnceInv

-----------------------------------------------------------------------------
LEMMA InitiatorOnce ==
  ASSUME SigInv, OnceInv, NEW p \in Parties, CreateInitiatorSession(p)
  PROVE  OnceInv'
<1> DEFINE o == unclaimed[Peer(p)]
           S == Secret(NextKey(p), o)
           s == InitiatorSession(p, S)
<1>1. /\ composing' = [composing EXCEPT ![p] = [pc |-> "prekey", otp |-> o]]
      /\ unclaimed' = [unclaimed EXCEPT ![Peer(p)] = IF o = 0 THEN 0 ELSE o - 1]
      /\ UNCHANGED <<otpPrivate, sent, opened, reads, outrun>>
  BY DEF CreateInitiatorSession
<1>2. o \in Nat /\ S \in Secrets /\ S.eph = NextKey(p) /\ S.otp = o /\ NextKey(p) \in RatchetKeys
      /\ NextKey(p).by = p /\ NextKey(p).n = ratchets[p] + 1 /\ Peer(p) \in Parties /\ Peer(p) # p
      /\ Peer(Peer(p)) = p
  BY NextKeys, PeerOf DEF SigInv, SigShape
<1>3. s = [root |-> <<S>>, send |-> [chain |-> <<S>>, n |-> 0], recv |-> NoChain,
           mine |-> S.eph, theirs |-> SignedPreKey(Peer(p)), pn |-> 0, skipped |-> {},
           est |-> FALSE]
  BY NewInitiator
<1>5. s \in SessionRecords
  <2>1. ratchets' \in [Parties -> Nat] /\ S.eph = RatchetKey(p, ratchets'[p]) /\ ratchets'[p] > 0
    BY <1>2 DEF CreateInitiatorSession, SigInv, SigShape, NextKey
  <2> HIDE DEF S, s, o
  <2>2. SessionOK(p, s, ratchets')
    BY <1>2, <2>1, NewSessions DEF s
  <2> QED BY <2>2 DEF SessionOK
<1>6. /\ \E new \in Nat : /\ Record(p, new, {})
                          /\ new \in Slots(previous'[p]) =>
                                   SessionAt(active'[p], previous'[p], new) = s
      /\ Others(p)
  BY <1>5, InitiatorRecord DEF SigInv
<1> HIDE DEF s, S, o
<1>4. s.root[1] = S /\ s.send = [chain |-> <<S>>, n |-> 0] /\ s.mine = NextKey(p)
  BY <1>2, <1>3
<1>7. PICK new \in Nat : Record(p, new, {}) /\ (new \in Slots(previous'[p]) =>
                                   SessionAt(active'[p], previous'[p], new) = s)
  BY <1>6
<1>8. /\ \A q \in Parties \ {p} : Lives'[q] = Lives[q] /\ Singles'[q] = Singles[q]
      /\ Lives'[p] \subseteq Lives[p] \cup {s}
      /\ \A x \in Secrets : S # x /\ x \in Singles[p] => x \in Singles'[p]
      /\ (\A y \in Lives[p] : y.root[1] # S) => S \in Singles'[p]
  BY <1>2, <1>4, <1>6, <1>7, RecordLives
<1>9. \A q \in Parties : \A x : Uses(Lives, sent, q, x) => x # S
  BY <1>2, UsesMade
<1>10. \A q \in Parties : \A y \in Lives[q] : y.root[1] # S /\ y.mine # NextKey(p)
  <2> SUFFICES ASSUME NEW q \in Parties, NEW y \in Lives[q]
               PROVE  y.root[1] # S /\ y.mine # NextKey(p)
    OBVIOUS
  <2>1. y.mine.by = q /\ y.mine.n <= ratchets[q]
    BY LivesOK DEF SessionOK
  <2> QED BY <1>2, <1>9, <2>1 DEF Uses, SigInv, SigShape
<1>11. \A q \in Parties : \A x : Uses(Lives', sent, q, x) => Uses(Lives, sent, q, x) \/ (q = p /\ x = S)
  BY <1>4, <1>8 DEF Uses
<1>12. KeysOnce(Lives', sent)
  <2>1. KeysOnce(Lives, sent)
    BY DEF OnceInv
  <2> SUFFICES ASSUME NEW q \in Parties, NEW y \in Lives'[q], NEW x \in Secrets,
                      Uses(Lives', sent, q, x), x.eph = y.mine
               PROVE  x = y.root[1]
    BY DEF KeysOnce
  <2>2. CASE q = p /\ y = s
    BY <1>2, <1>4, <1>11, <2>2, UsesMade
  <2>3. CASE y \in Lives[q]
    BY <1>2, <1>10, <1>11, <2>1, <2>3 DEF KeysOnce
  <2> QED BY <1>8, <2>2, <2>3
<1>13. OriginOnce(Lives', sent)
  <2>1. OriginOnce(Lives, sent)
    BY DEF OnceInv
  <2> SUFFICES ASSUME NEW m \in sent, m.prekey, Uses(Lives', sent, m.from, Secret(m.rk, m.otp))
               PROVE  Original(m)
    BY DEF OriginOnce
  <2>2. Secret(m.rk, m.otp).eph.n <= ratchets[m.from] /\ Secret(m.rk, m.otp).eph.by = m.from
    BY SentOK DEF MessageOK
  <2>3. Secret(m.rk, m.otp) # S
    BY <1>2, <2>2 DEF SigInv, SigShape
  <2> QED BY <1>11, <2>1, <2>3, SentOK DEF OriginOnce
<1>14. ClaimOnce(Lives', sent, composing', unclaimed')
  <2>1. ClaimOnce(Lives, sent, composing, unclaimed)
    BY DEF OnceInv
  <2> SUFFICES ASSUME NEW q \in Parties
               PROVE  /\ \A m \in sent : m.from = q /\ m.otp # 0 =>
                            m.otp > unclaimed'[Peer(q)] /\ m.otp # composing'[q].otp
                      /\ composing'[q].otp # 0 => composing'[q].otp > unclaimed'[Peer(q)]
                      /\ \A y \in Lives'[q] : y.root[1].eph.by = q =>
                            y.root[1].otp = 0 \/ y.root[1].otp > unclaimed'[Peer(q)]
    BY DEF ClaimOnce
  <2>2. CASE q = p
    <3>1. unclaimed'[Peer(q)] = (IF o = 0 THEN 0 ELSE o - 1) /\ composing'[q].otp = o
      BY <1>1, <1>2, <2>2 DEF SigInv, SigShape
    <3>2. \A m \in sent : m.from = q /\ m.otp # 0 => m.otp > o /\ m.otp \in Nat
      BY <2>1, <2>2, SentOK DEF ClaimOnce, o
    <3>3. \A y \in Lives[q] : y.root[1].eph.by = q => y.root[1].otp = 0 \/ y.root[1].otp > o
      BY <2>1, <2>2 DEF ClaimOnce, o
    <3>4. \A y \in Lives[q] : y.root[1].otp \in Nat
      BY LivesOK DEF Secrets
    <3> QED BY <1>2, <1>4, <1>8, <2>2, <3>1, <3>2, <3>3, <3>4
  <2>3. CASE q # p
    <3>1. unclaimed'[Peer(q)] = unclaimed[Peer(q)] /\ composing'[q] = composing[q]
      BY <1>1, <1>2, <2>3, TwoParties DEF SigInv, SigShape
    <3> QED BY <1>8, <2>1, <2>3, <3>1 DEF ClaimOnce
  <2> QED BY <2>2, <2>3
<1>15. MessageOnce(sent) /\ SentFirst(sent)
  BY DEF OnceInv
<1>16. SendsFirst(Lives', composing')
  <2>1. SendsFirst(Lives, composing) /\ ClaimOnce(Lives, sent, composing, unclaimed)
    BY DEF OnceInv
  <2> SUFFICES ASSUME NEW q \in Parties, NEW y \in Lives'[q], composing'[q].otp # 0,
                      y.root[1] = Secret(y.mine, composing'[q].otp)
               PROVE  y.send = [chain |-> <<y.root[1]>>, n |-> 0]
    BY DEF SendsFirst
  <2>2. CASE q = p /\ y = s
    BY <1>4, <2>2
  <2>3. CASE q = p /\ y \in Lives[q]
    <3>1. composing'[q].otp = o
      BY <1>1, <2>3 DEF SigInv, SigShape
    <3>2. y.root[1].eph.by = q /\ y.root[1].otp = o
      BY <2>3, <3>1, LivesOK DEF Secret, SessionOK
    <3> QED BY <1>2, <2>1, <2>3, <3>1, <3>2 DEF ClaimOnce, o
  <2>4. CASE q # p
    <3>1. composing'[q] = composing[q] /\ Lives'[q] = Lives[q]
      BY <1>1, <1>8, <2>4 DEF SigInv, SigShape
    <3> QED BY <2>1, <3>1 DEF SendsFirst
  <2> QED BY <1>8, <2>2, <2>3, <2>4
<1>17. RespondersOnce(Lives', sent)
  <2>1. RespondersOnce(Lives, sent)
    BY DEF OnceInv
  <2>2. \A q \in Parties : \A y \in Lives'[q] : y.root[1].eph.by = Peer(q) => y \in Lives[q]
    BY <1>2, <1>4, <1>8
  <2> QED BY <2>1, <2>2 DEF RespondersOnce
<1>18. SinglesOnce(Singles', sent, outrun)
  <2>1. SinglesOnce(Singles, sent, outrun)
    BY DEF OnceInv
  <2>2. S \in Singles'[p]
    BY <1>8, <1>10
  <2> QED BY <1>8, <2>1, <2>2 DEF SinglesOnce
<1>19. \A m \in sent : \A y \in Lives'[Peer(m.from)] : y.root[1] = SecretOf(m) => y \in Lives[Peer(m.from)]
  <2> SUFFICES ASSUME NEW m \in sent, SecretOf(m) = S PROVE FALSE
    BY <1>4, <1>8, SentOK
  <2> QED BY <1>9, SentOK DEF Uses
<1>20. OpenedOnce(Lives', sent, otpPrivate, opened, outrun)
  <2>1. OpenedOnce(Lives, sent, otpPrivate, opened, outrun)
    BY DEF OnceInv
  <2> QED BY <1>19, <2>1 DEF OpenedOnce
<1>21. ReadOnce(Lives', sent, reads, otpPrivate, outrun)
  <2>1. ReadOnce(Lives, sent, reads, otpPrivate, outrun)
    BY DEF OnceInv
  <2> QED BY <1>19, <2>1 DEF ReadOnce
<1> QED BY <1>1, <1>12, <1>13, <1>14, <1>15, <1>16, <1>17, <1>18, <1>20, <1>21 DEF OnceInv

-----------------------------------------------------------------------------
LEMMA ResponderOnce ==
  ASSUME SigInv, OnceInv, NEW m \in sent, CreateResponderSession(m),
         m.otp \in otpPrivate[Peer(m.from)] \cup {0}
  PROVE  OnceInv'
<1> DEFINE p == Peer(m.from)
           S == Secret(m.rk, m.otp)
           k == NextKey(p)
           s == ResponderSession(S, k)
<1>1. /\ opened' = opened \cup {m} /\ m \notin opened /\ m.prekey
      /\ UNCHANGED <<otpPrivate, composing, unclaimed, sent, reads, outrun>>
  BY DEF CreateResponderSession
<1>2. /\ p \in Parties /\ m.from \in Parties /\ m.from # p /\ Peer(p) = m.from
      /\ S \in Secrets /\ S.eph = m.rk /\ S.otp = m.otp /\ m.rk.by = m.from
      /\ k \in RatchetKeys /\ k.by = p
  BY SentOK, NextKeys DEF SigInv
<1>3. Record(p, 0, {}) /\ Others(p) /\ active'[p] = s
  BY ResponderRecord DEF SigInv
<1>4. /\ s.root[1] = S /\ s.mine = k /\ s.theirs = S.eph /\ s.skipped = {}
      /\ s.recv = [chain |-> <<S>>, n |-> 0] /\ ~s.est
  <2> DEFINE root == <<S, {k, S.eph}>>
  <2>1. s = [root |-> root, send |-> [chain |-> root, n |-> 0],
             recv |-> [chain |-> <<S>>, n |-> 0],
             mine |-> k, theirs |-> S.eph, pn |-> 0, skipped |-> {}, est |-> FALSE]
    BY NewResponder
  <2>2. root[1] = S
    OBVIOUS
  <2> HIDE DEF s, root, S, k
  <2> QED BY <2>1, <2>2
<1> HIDE DEF s, S, k
<1>5. Untouched(s)
  BY <1>4 DEF Untouched
<1>8. /\ \A q \in Parties \ {p} : Lives'[q] = Lives[q] /\ Singles'[q] = Singles[q]
      /\ Lives'[p] \subseteq Lives[p] \cup {s}
      /\ \A x \in Secrets : S # x /\ x \in Singles[p] => x \in Singles'[p]
      /\ (\A y \in Lives[p] : y.root[1] # S) => S \in Singles'[p]
  <2>1. SessionAt(active'[p], previous'[p], 0) = s
    BY <1>3 DEF SessionAt
  <2> QED BY <1>2, <1>3, <1>4, <2>1, RecordLives
<1>9. \A q \in Parties : \A x : Uses(Lives, sent, q, x) => x.eph # k
  BY <1>2, UsesMade DEF k
<1>11. \A q \in Parties : \A x :
          Uses(Lives', sent, q, x) => Uses(Lives, sent, q, x) \/ (q = p /\ x = S)
  BY <1>4, <1>8 DEF Uses
<1>12. KeysOnce(Lives', sent)
  <2>1. KeysOnce(Lives, sent)
    BY DEF OnceInv
  <2> SUFFICES ASSUME NEW q \in Parties, NEW y \in Lives'[q], NEW x \in Secrets,
                      Uses(Lives', sent, q, x), x.eph = y.mine
               PROVE  x = y.root[1]
    BY DEF KeysOnce
  <2>2. CASE q = p /\ y = s
    BY <1>2, <1>4, <1>9, <1>11, <2>2
  <2>3. CASE y \in Lives[q]
    <3>1. y.mine.by = q
      BY <2>3, LivesOK DEF SessionOK
    <3> QED BY <1>2, <1>11, <2>1, <2>3, <3>1 DEF KeysOnce
  <2> QED BY <1>8, <2>2, <2>3
<1>13. OriginOnce(Lives', sent)
  <2>1. OriginOnce(Lives, sent)
    BY DEF OnceInv
  <2> SUFFICES ASSUME NEW m1 \in sent, m1.prekey, Uses(Lives', sent, m1.from, Secret(m1.rk, m1.otp))
               PROVE  Original(m1)
    BY DEF OriginOnce
  <2>2. Secret(m1.rk, m1.otp).eph.by = m1.from /\ m1.from \in Parties
    BY SentOK
  <2>3. ~(m1.from = p /\ Secret(m1.rk, m1.otp) = S)
    BY <1>2, <2>2
  <2> QED BY <1>11, <2>1, <2>2, <2>3 DEF OriginOnce
<1>14. ClaimOnce(Lives', sent, composing, unclaimed)
  <2>1. ClaimOnce(Lives, sent, composing, unclaimed)
    BY DEF OnceInv
  <2>2. \A q \in Parties : \A y \in Lives'[q] : y.root[1].eph.by = q => y \in Lives[q]
    BY <1>2, <1>4, <1>8
  <2> QED BY <2>1, <2>2 DEF ClaimOnce
<1>15. MessageOnce(sent) /\ SentFirst(sent)
  BY DEF OnceInv
<1>16. SendsFirst(Lives', composing)
  <2>1. SendsFirst(Lives, composing)
    BY DEF OnceInv
  <2> SUFFICES ASSUME NEW q \in Parties, NEW y \in Lives'[q], composing[q].otp # 0,
                      y.root[1] = Secret(y.mine, composing[q].otp)
               PROVE  y.send = [chain |-> <<y.root[1]>>, n |-> 0]
    BY DEF SendsFirst
  <2>2. y # s \/ q # p
    <3>1. Secret(y.mine, composing[q].otp).eph = y.mine
      BY DEF Secret
    <3> QED BY <1>2, <1>4, <3>1
  <2> QED BY <1>8, <2>1, <2>2 DEF SendsFirst
<1>17. RespondersOnce(Lives', sent)
  <2>1. RespondersOnce(Lives, sent)
    BY DEF OnceInv
  <2> SUFFICES ASSUME NEW q \in Parties, NEW y \in Lives'[q], y.root[1].eph.by = Peer(q)
               PROVE  /\ \E x \in sent : x.from = Peer(q) /\ x.prekey
                                         /\ Secret(x.rk, x.otp) = y.root[1]
                      /\ y.est \/ Untouched(y)
    BY DEF RespondersOnce
  <2>2. CASE q = p /\ y = s
    <3>1. m.from = Peer(q) /\ m.prekey /\ Secret(m.rk, m.otp) = y.root[1]
      BY <1>1, <1>2, <1>4, <2>2 DEF S
    <3> QED BY <1>5, <2>2, <3>1
  <2>3. CASE y \in Lives[q]
    BY <2>1, <2>3 DEF RespondersOnce
  <2> QED BY <1>8, <2>2, <2>3
\* A one-time pre-key that is still there has not made a session before.
<1>6. ASSUME Tracked(S, outrun), Made(sent, p, S), NEW y \in Lives[p], y.root[1] = S
      PROVE  FALSE
  <2>1. PICK m0 \in sent : m0.from = m.from /\ Original(m0) /\ SecretOf(m0) = S
    BY <1>2, <1>6 DEF Made
  <2>2. m0.otp = m.otp /\ m.otp # 0
    BY <1>2, <1>6, <2>1, SentOK DEF Tracked, Original
  <2>3. m0 = m
    BY <2>1, <2>2 DEF OnceInv, MessageOnce
  <2>4. IF y.est THEN m.otp \notin otpPrivate[p] ELSE m \in opened
    BY <1>6, <2>1, <2>3 DEF OnceInv, OpenedOnce
  <2> QED BY <1>1, <2>2, <2>4
<1>18. SinglesOnce(Singles', sent, outrun)
  <2>1. SinglesOnce(Singles, sent, outrun)
    BY DEF OnceInv
  <2> QED BY <1>6, <1>8, <2>1 DEF SinglesOnce
<1>19. OpenedOnce(Lives', sent, otpPrivate, opened', outrun)
  <2>1. OpenedOnce(Lives, sent, otpPrivate, opened, outrun)
    BY DEF OnceInv
  <2> SUFFICES ASSUME NEW m1 \in sent, NEW y \in Lives'[Peer(m1.from)], Original(m1),
                      Tracked(SecretOf(m1), outrun), y.root[1] = SecretOf(m1)
               PROVE  IF y.est THEN m1.otp \notin otpPrivate[Peer(m1.from)] ELSE m1 \in opened'
    BY DEF OpenedOnce
  <2>2. CASE y \in Lives[Peer(m1.from)]
    BY <1>1, <2>1, <2>2 DEF OpenedOnce
  <2>3. CASE Peer(m1.from) = p /\ y = s
    <3>1. Secret(m1.rk, m1.otp) = S /\ m1.from = m.from
      BY <1>2, <1>4, <2>3, SentOK DEF Original
    <3>2. m1.otp = m.otp /\ m1.otp # 0
      BY <1>2, <1>4, <2>3, <3>1, SentOK DEF Tracked
    <3>3. m1 = m
      BY <3>1, <3>2 DEF OnceInv, MessageOnce
    <3> QED BY <1>1, <1>4, <2>3, <3>3
  <2> QED BY <1>8, <2>2, <2>3, SentOK
<1>20. ReadOnce(Lives', sent, reads, otpPrivate, outrun)
  <2>1. ReadOnce(Lives, sent, reads, otpPrivate, outrun)
    BY DEF OnceInv
  <2>2. ASSUME NEW m1 \in sent, reads[m1] > 0, Tracked(SecretOf(m1), outrun),
               NEW y \in Lives'[Peer(m1.from)], y.root[1] = SecretOf(m1)
        PROVE  y \in Lives[Peer(m1.from)]
    <3> SUFFICES ASSUME Peer(m1.from) = p, y = s PROVE FALSE
      BY <1>8, SentOK
    <3>1. m1.from = m.from /\ SecretOf(m1) = S
      BY <1>2, <1>4, <2>2, SentOK
    <3>2. S.otp \notin otpPrivate[p] /\ S.otp # 0
      BY <1>2, <2>1, <2>2, <3>1 DEF ReadOnce, Tracked
    <3> QED BY <1>2, <3>2
  <2> QED BY <2>1, <2>2 DEF ReadOnce
<1> QED BY <1>1, <1>12, <1>13, <1>14, <1>15, <1>16, <1>17, <1>18, <1>19, <1>20 DEF OnceInv

-----------------------------------------------------------------------------
LEMMA EncryptOnce ==
  ASSUME SigInv, OnceInv, NEW p \in Parties, EncryptMessage(p)
  PROVE  OnceInv'
<1> DEFINE s == active[p]
           t == [s EXCEPT !.send.n = @ + 1]
           o == composing[p].otp
           m == [from |-> p, chain |-> s.send.chain, n |-> s.send.n, rk |-> s.mine, pn |-> s.pn,
                 prekey |-> composing[p].pc = "prekey", otp |-> o]
<1>1. /\ composing' = [composing EXCEPT ![p] = Idle] /\ sent' = sent \cup {m}
      /\ reads' = [x \in sent' |-> IF x \in sent THEN reads[x] ELSE 0]
      /\ UNCHANGED <<unclaimed, otpPrivate, opened, outrun>>
  BY DEF EncryptMessage
<1>2. /\ Record(p, 0, {0}) /\ Others(p) /\ active'[p] = t
      /\ s # NoSession /\ s \in SessionRecords
  BY EncryptRecord DEF SigInv, RecordsInv, EncryptMessage, SigShape
<1>3. Session(p, 0) = s /\ 0 \in Slots(previous[p]) /\ 0 \in Slots(previous'[p])
      /\ SessionAt(active'[p], previous'[p], 0) = t
  BY <1>2, EncryptRecord DEF Session, SessionAt, Slots, SigInv, SigShape, RecordOK
<1>4. /\ t.root = s.root /\ t.recv = s.recv /\ t.skipped = s.skipped /\ t.mine = s.mine
      /\ t.theirs = s.theirs /\ t.est = s.est
  BY <1>2 DEF SessionRecords
<1>5. m.from = p /\ m.rk = s.mine /\ m.otp = o /\ m.n = s.send.n /\ m.chain = s.send.chain
  OBVIOUS
<1>6. SessionOK(p, s, ratchets) /\ s.root[1] \in Secrets /\ o \in Nat
  <2>1. SessionAt(active[p], previous[p], 0) = s /\ s # Zeroed
    BY <1>2 DEF SessionAt, Zeroed
  <2>2. SessionOK(p, s, ratchets)
    BY <1>3, <2>1 DEF SigInv, SessionsInv
  <2>3. o \in Nat
    BY DEF SigInv, SigShape
  <2> QED BY <2>2, <2>3 DEF SessionOK, Shaped
<1>7. SecretOf(m) = s.root[1]
  BY <1>5, <1>6 DEF SecretOf, SessionOK, Shaped, Begins
<1> HIDE DEF s, t, o, m
<1>8. /\ \A q \in Parties \ {p} : Lives'[q] = Lives[q] /\ Singles'[q] = Singles[q]
      /\ Lives'[p] \subseteq Lives[p] \cup {t} /\ s \in Lives[p]
      /\ \A x \in Secrets : x \in Singles[p] => x \in Singles'[p]
      /\ \A q \in Parties : \A x \in Secrets : (\A y \in Lives[q] : y.root[1] # x) =>
            x \in Singles[q]
  <2>1. s # Zeroed
    BY <1>2 DEF Zeroed
  <2>2. \A q \in Parties : \A x \in Secrets : (\A y \in Lives[q] : y.root[1] # x) =>
            x \in Singles[q]
    BY DEF Lives, Singles, LiveIn, Single, IsOf
  <2>3. /\ \A q \in Parties \ {p} : Lives'[q] = Lives[q] /\ Singles'[q] = Singles[q]
        /\ Lives'[p] \subseteq Lives[p] \cup {t}
    BY <1>2, <1>3, RecordLives
  <2>4. s \in Lives[p] /\ \A x \in Secrets : x \in Singles[p] => x \in Singles'[p]
    BY <1>2, <1>3, <1>4, <1>6, <2>1, RecordChanged
  <2> QED BY <2>2, <2>3, <2>4
\* The sessions say what they said before, except for the place in the sending chain.
<1> DEFINE Alike(y, z) ==
             /\ y.root = z.root /\ y.recv = z.recv /\ y.skipped = z.skipped /\ y.mine = z.mine
             /\ y.theirs = z.theirs /\ y.est = z.est
<1>9. \A q \in Parties : \A y \in Lives'[q] : \E z \in Lives[q] : Alike(y, z)
  BY <1>4, <1>8
<1>10. /\ o # 0 => o > unclaimed[Peer(p)]
       /\ \A x \in sent : x.from = p /\ x.otp # 0 => x.otp # o
  BY DEF OnceInv, ClaimOnce, o
<1>11. \A q \in Parties : \A x : Uses(Lives', sent', q, x) => Uses(Lives, sent, q, x)
  BY <1>1, <1>5, <1>7, <1>8, <1>9 DEF Uses
<1>12. KeysOnce(Lives', sent')
  <2>1. KeysOnce(Lives, sent)
    BY DEF OnceInv
  <2> QED BY <1>9, <1>11, <2>1 DEF KeysOnce
<1>13. OriginOnce(Lives', sent')
  <2>1. OriginOnce(Lives, sent) /\ KeysOnce(Lives, sent)
    BY DEF OnceInv
  <2> SUFFICES ASSUME NEW x \in sent', x.prekey, Uses(Lives', sent', x.from, Secret(x.rk, x.otp))
               PROVE  Original(x)
    BY DEF OriginOnce
  <2>2. CASE x \in sent
    BY <1>11, <2>1, <2>2, SentOK DEF OriginOnce
  <2>3. CASE x = m
    <3>1. Uses(Lives, sent, p, Secret(s.mine, o))
      BY <1>5, <1>11, <2>3
    <3>2. Secret(s.mine, o) \in Secrets /\ Secret(s.mine, o).eph = s.mine
      BY <1>2, <1>6 DEF SessionRecords, Secret, Secrets
    <3>3. Secret(s.mine, o) = s.root[1]
      BY <1>8, <2>1, <3>1, <3>2 DEF KeysOnce
    <3> QED BY <1>5, <1>7, <2>3, <3>3 DEF Original
  <2> QED BY <1>1, <2>2, <2>3
<1>14. ClaimOnce(Lives', sent', composing', unclaimed')
  <2>1. ClaimOnce(Lives, sent, composing, unclaimed)
    BY DEF OnceInv
  <2>2. \A q \in Parties : composing'[q].otp = IF q = p THEN 0 ELSE composing[q].otp
    BY <1>1 DEF SigInv, SigShape, Idle
  <2>3. ASSUME NEW x \in sent', x.otp # 0, x.from \in Parties
        PROVE  x.otp > unclaimed'[Peer(x.from)] /\ x.otp # composing'[x.from].otp
    BY <1>1, <1>5, <1>10, <2>1, <2>2, <2>3 DEF ClaimOnce
  <2> QED BY <1>1, <1>9, <2>1, <2>2, <2>3 DEF ClaimOnce
<1>15. MessageOnce(sent')
  BY <1>1, <1>5, <1>10 DEF OnceInv, MessageOnce
<1>16. SendsFirst(Lives', composing')
  <2>1. SendsFirst(Lives, composing)
    BY DEF OnceInv
  <2>2. \A q \in Parties : composing'[q].otp = IF q = p THEN 0 ELSE composing[q].otp
    BY <1>1 DEF SigInv, SigShape, Idle
  <2> QED BY <1>8, <2>1, <2>2 DEF SendsFirst
<1>17. SentFirst(sent')
  <2>1. SentFirst(sent) /\ SendsFirst(Lives, composing)
    BY DEF OnceInv
  <2> SUFFICES ASSUME NEW x \in sent', x.otp # 0, Original(x)
               PROVE  x.n = 0 /\ x.chain = <<SecretOf(x)>>
    BY DEF SentFirst
  <2>2. CASE x = m
    <3>1. o # 0 /\ s.root[1] = Secret(s.mine, o)
      BY <1>5, <1>7, <2>2 DEF Original
    <3>2. s.send = [chain |-> <<s.root[1]>>, n |-> 0]
      BY <1>8, <2>1, <3>1 DEF SendsFirst, o
    <3> QED BY <1>5, <1>7, <2>2, <3>2
  <2> QED BY <1>1, <2>1, <2>2 DEF SentFirst
<1>18. RespondersOnce(Lives', sent')
  <2>1. RespondersOnce(Lives, sent)
    BY DEF OnceInv
  <2> SUFFICES ASSUME NEW q \in Parties, NEW y \in Lives'[q], y.root[1].eph.by = Peer(q)
               PROVE  /\ \E x \in sent' : x.from = Peer(q) /\ x.prekey
                                          /\ Secret(x.rk, x.otp) = y.root[1]
                      /\ y.est \/ Untouched(y)
    BY DEF RespondersOnce
  <2>2. PICK z \in Lives[q] : Alike(y, z)
    BY <1>9
  <2>3. z.root[1].eph.by = Peer(q)
    BY <2>2
  <2> QED BY <1>1, <2>1, <2>2, <2>3 DEF RespondersOnce, Untouched
\* The other one has no session of the secret of a new original message.
<1>19. ASSUME Original(m), o # 0, NEW y \in Lives[Peer(p)], y.root[1] = SecretOf(m)
       PROVE  FALSE
  <2>1. y.root[1] = Secret(s.mine, o) /\ Secret(s.mine, o).eph.by = p /\ Secret(s.mine, o).otp = o
    BY <1>5, <1>6, <1>19 DEF Original, Secret, SessionOK
  <2>2. Peer(p) \in Parties /\ Peer(Peer(p)) = p
    BY PeerOf
  <2>3. PICK x \in sent : x.from = p /\ Secret(x.rk, x.otp) = Secret(s.mine, o)
    BY <1>19, <2>1, <2>2 DEF OnceInv, RespondersOnce
  <2> QED BY <1>10, <1>19, <2>1, <2>3, SentOK
<1>20. SinglesOnce(Singles', sent', outrun')
  <2>1. SinglesOnce(Singles, sent, outrun)
    BY DEF OnceInv
  <2> SUFFICES ASSUME NEW q \in Parties, NEW x \in Secrets, Tracked(x, outrun), Made(sent', q, x)
               PROVE  x \in Singles'[q]
    BY <1>1 DEF SinglesOnce
  <2>2. CASE Made(sent, q, x)
    BY <1>8, <2>1, <2>2 DEF SinglesOnce
  <2>3. CASE ~Made(sent, q, x)
    <3>1. p = Peer(q) /\ Original(m) /\ SecretOf(m) = x
      BY <1>1, <1>5, <2>3 DEF Made
    <3>2. q = Peer(p) /\ q # p
      BY <3>1, PeerOf
    <3>3. o # 0
      <4>1. x = Secret(s.mine, o)
        BY <1>5, <3>1 DEF Original
      <4> QED BY <4>1 DEF Tracked, Secret
    <3>4. \A y \in Lives[q] : y.root[1] # x
      BY <1>19, <3>1, <3>2, <3>3
    <3> QED BY <1>8, <3>2, <3>4
  <2> QED BY <2>2, <2>3
<1>21. OpenedOnce(Lives', sent', otpPrivate', opened', outrun')
  <2>1. OpenedOnce(Lives, sent, otpPrivate, opened, outrun)
    BY DEF OnceInv
  <2> SUFFICES ASSUME NEW x \in sent', NEW y \in Lives'[Peer(x.from)], Original(x),
                      Tracked(SecretOf(x), outrun), y.root[1] = SecretOf(x)
               PROVE  IF y.est THEN x.otp \notin otpPrivate[Peer(x.from)] ELSE x \in opened
    BY <1>1 DEF OpenedOnce
  <2>2. CASE x \in sent
    <3>1. PICK z \in Lives[Peer(x.from)] : Alike(y, z)
      BY <1>9, <2>2, SentOK
    <3> QED BY <2>1, <2>2, <3>1 DEF OpenedOnce
  <2>3. CASE x = m
    <3>1. Peer(p) \in Parties /\ Peer(p) # p
      BY PeerOf
    <3>2. o # 0
      <4>1. SecretOf(m) = Secret(s.mine, o)
        BY <1>5, <2>3 DEF Original
      <4> QED BY <2>3, <4>1 DEF Tracked, Secret
    <3>3. y \in Lives[Peer(p)]
      BY <1>5, <1>8, <2>3, <3>1
    <3> QED BY <1>19, <2>3, <3>2, <3>3
  <2> QED BY <1>1, <2>2, <2>3
<1>22. ReadOnce(Lives', sent', reads', otpPrivate', outrun')
  <2>1. ReadOnce(Lives, sent, reads, otpPrivate, outrun)
    BY DEF OnceInv
  <2> SUFFICES ASSUME NEW x \in sent', reads'[x] > 0, Tracked(SecretOf(x), outrun)
               PROVE  /\ reads'[x] = 1
                      /\ SecretOf(x).eph.by = x.from =>
                           /\ Made(sent', Peer(x.from), SecretOf(x))
                           /\ SecretOf(x).otp \notin otpPrivate[Peer(x.from)]
                      /\ \A y \in Lives'[Peer(x.from)] : y.root[1] = SecretOf(x) => Spent(y, x)
    BY <1>1 DEF ReadOnce
  <2>2. x \in sent /\ reads'[x] = reads[x]
    BY <1>1
  <2>3. SecretOf(x).eph.by = x.from => /\ Made(sent', Peer(x.from), SecretOf(x))
                                       /\ SecretOf(x).otp \notin otpPrivate[Peer(x.from)]
    BY <1>1, <2>1, <2>2 DEF ReadOnce, Made
  <2>4. ASSUME NEW y \in Lives'[Peer(x.from)], y.root[1] = SecretOf(x)
        PROVE  Spent(y, x)
    <3>1. PICK z \in Lives[Peer(x.from)] : Alike(y, z)
      BY <1>9, <2>2, SentOK
    <3>2. Spent(z, x)
      BY <2>1, <2>2, <2>4, <3>1 DEF ReadOnce
    <3> QED BY <3>1, <3>2 DEF Spent
  <2> QED BY <2>1, <2>2, <2>3, <2>4 DEF ReadOnce
<1> QED BY <1>12, <1>13, <1>14, <1>15, <1>16, <1>17, <1>18, <1>20, <1>21, <1>22 DEF OnceInv

-----------------------------------------------------------------------------
LEMMA DecryptOnce ==
  ASSUME SigInv, OnceInv, NEW m \in sent, DecryptMessage(m),
         DecryptActive(m) \/ DecryptPrevious(m)
  PROVE  OnceInv'
<1> DEFINE p == Peer(m.from)
           k == NextKey(p)
           S == SecretOf(m)
<1>1. /\ opened' = opened \ {m} /\ UNCHANGED <<composing, unclaimed, sent>>
  BY DEF DecryptMessage
<1>2. /\ p \in Parties /\ m.from \in Parties /\ m.from # p /\ Peer(p) = m.from /\ S \in Secrets
      /\ m \in Messages /\ Len(m.chain) > 0 /\ k \in RatchetKeys /\ k.by = p
      /\ m.otp # 0 => m.prekey
  BY SentOK, NextKeys DEF SigInv, MessageOK
<1>3. PICK i \in Slots(previous[p]) : \E s \in RatchetDecrypt(Session(p, i), m, k) :
         Establish(p, m, s) /\ Record(p, 0, {i}) /\ active'[p] = [s EXCEPT !.est = TRUE]
  BY DecryptRecord DEF SigInv
<1>4. PICK t \in RatchetDecrypt(Session(p, i), m, k) :
         Establish(p, m, t) /\ Record(p, 0, {i}) /\ active'[p] = [t EXCEPT !.est = TRUE]
  BY <1>3
<1>5. Others(p) /\ RecordOK(p)
  BY DecryptRecord DEF SigInv
<1> DEFINE s == Session(p, i)
           x == [t EXCEPT !.est = TRUE]
<1>6. s \in SessionRecords /\ (s # Zeroed => Shaped(s) /\ SessionOK(p, s, ratchets))
  <2>1. s # Zeroed => SessionOK(p, s, ratchets)
    BY <1>2 DEF SigInv, SessionsInv, Session
  <2> QED BY <2>1, NoSessionType DEF SessionOK, Zeroed
<1>7. /\ s # Zeroed /\ s.root[1] = S /\ ~Spent(s, m)
      /\ t \in SessionRecords /\ Shaped(t) /\ Advanced(s, t, m, k)
      /\ \A m1 \in Messages : m1 = m \/ Spent(s, m1) => Spent(t, m1)
  <2> HIDE DEF s, k, S
  <2>1. t \in RatchetDecrypt(s, m, k)
    BY <1>4 DEF s
  <2> QED BY <1>2, <1>6, <2>1, Decrypting DEF S
<1>8. /\ x.root = t.root /\ x.send = t.send /\ x.mine = t.mine /\ x.est
      /\ \A m1 : Spent(t, m1) => Spent(x, m1)
  BY <1>7 DEF SessionRecords, Spent
<1>9. /\ otpPrivate' = [otpPrivate EXCEPT ![p] = IF m.prekey /\ ~t.est THEN @ \ {m.otp} ELSE @]
      /\ outrun' = IF ~t.est /\ S.eph.by = m.from /\ m.otp # S.otp THEN outrun \cup {S} ELSE outrun
      /\ reads' = [reads EXCEPT ![m] = @ + 1]
  BY <1>4 DEF Establish
<1> HIDE DEF s, x, S, k
<1>10. x.root[1] = S /\ t.est = s.est /\ t.root[1] = S
  BY <1>7, <1>8 DEF Advanced
<1>11. /\ \A q \in Parties \ {p} : Lives'[q] = Lives[q] /\ Singles'[q] = Singles[q]
       /\ Lives'[p] \subseteq Lives[p] \cup {x} /\ s \in Lives[p]
       /\ \A y \in Secrets : y \in Singles[p] => y \in Singles'[p]
       /\ S \in Singles[p] => \A y \in Lives'[p] : y.root[1] = S => y = x
  <2>1. 0 \in Slots(previous'[p]) /\ SessionAt(active'[p], previous'[p], 0) = x
    BY <1>4, <1>5 DEF Slots, SessionAt, x, RecordOK
  <2>2. Session(p, i) # Zeroed /\ x.root[1] = Session(p, i).root[1] /\ x.root[1] \in Secrets
    BY <1>2, <1>7, <1>10 DEF s
  <2>3. /\ \A q \in Parties \ {p} : Lives'[q] = Lives[q] /\ Singles'[q] = Singles[q]
        /\ Lives'[p] \subseteq Lives[p] \cup {x}
    BY <1>2, <1>4, <1>5, <2>1, RecordLives
  <2>4. /\ \A y \in Secrets : y \in Singles[p] => y \in Singles'[p]
        /\ x.root[1] \in Singles[p] => \A y \in Lives'[p] : y.root[1] = x.root[1] => y = x
        /\ Session(p, i) \in Lives[p]
    BY <1>2, <1>4, <1>5, <2>1, <2>2, RecordChanged
  <2> QED BY <1>10, <2>3, <2>4 DEF s
<1>12. \A q \in Parties : \A y : Uses(Lives', sent, q, y) => Uses(Lives, sent, q, y)
  BY <1>7, <1>10, <1>11 DEF Uses
<1>13. \A q \in Parties : \A y : Uses(Lives, sent, q, y) => y \in Secrets /\ y.eph # k
  BY <1>2, UsesMade DEF k
<1>14. /\ Uses(Lives, sent, p, S) /\ Uses(Lives, sent, m.from, S)
       /\ (x.mine = s.mine /\ x.send = s.send) \/ x.mine = k
  BY <1>7, <1>8, <1>11 DEF Uses, Advanced, S
<1>15. KeysOnce(Lives', sent)
  <2>1. KeysOnce(Lives, sent)
    BY DEF OnceInv
  <2> SUFFICES ASSUME NEW q \in Parties, NEW y \in Lives'[q], NEW z \in Secrets,
                      Uses(Lives', sent, q, z), z.eph = y.mine
               PROVE  z = y.root[1]
    BY DEF KeysOnce
  <2>2. Uses(Lives, sent, q, z)
    BY <1>12
  <2>3. CASE q = p /\ y = x
    BY <1>7, <1>10, <1>11, <1>13, <1>14, <2>1, <2>2, <2>3 DEF KeysOnce
  <2>4. CASE y \in Lives[q]
    BY <2>1, <2>2, <2>4 DEF KeysOnce
  <2> QED BY <1>11, <2>3, <2>4
<1>16. OriginOnce(Lives', sent)
  <2>1. OriginOnce(Lives, sent)
    BY DEF OnceInv
  <2> QED BY <1>12, <2>1, SentOK DEF OriginOnce
\* Every session is of the secret of one that was there.
<1>17. \A q \in Parties : \A y \in Lives'[q] : \E z \in Lives[q] : y.root[1] = z.root[1]
  BY <1>7, <1>10, <1>11
<1>18. ClaimOnce(Lives', sent, composing, unclaimed)
  <2>1. ClaimOnce(Lives, sent, composing, unclaimed)
    BY DEF OnceInv
  <2> QED BY <1>17, <2>1 DEF ClaimOnce
<1>19. MessageOnce(sent) /\ SentFirst(sent)
  BY DEF OnceInv
<1>20. SendsFirst(Lives', composing)
  <2>1. SendsFirst(Lives, composing)
    BY DEF OnceInv
  <2> SUFFICES ASSUME NEW q \in Parties, NEW y \in Lives'[q], composing[q].otp # 0,
                      y.root[1] = Secret(y.mine, composing[q].otp)
               PROVE  y.send = [chain |-> <<y.root[1]>>, n |-> 0]
    BY DEF SendsFirst
  <2>2. CASE q = p /\ y = x
    <3>1. S.eph = x.mine
      BY <1>10, <2>2 DEF Secret
    <3>2. x.mine = s.mine /\ x.send = s.send
      BY <1>2, <1>13, <1>14, <3>1
    <3> QED BY <1>7, <1>10, <1>11, <2>1, <2>2, <3>2 DEF SendsFirst
  <2>3. CASE y \in Lives[q]
    BY <2>1, <2>3 DEF SendsFirst
  <2> QED BY <1>11, <2>2, <2>3
<1>21. RespondersOnce(Lives', sent)
  <2>1. RespondersOnce(Lives, sent)
    BY DEF OnceInv
  <2> SUFFICES ASSUME NEW q \in Parties, NEW y \in Lives'[q], y.root[1].eph.by = Peer(q)
               PROVE  /\ \E z \in sent : z.from = Peer(q) /\ z.prekey
                                         /\ Secret(z.rk, z.otp) = y.root[1]
                      /\ y.est \/ Untouched(y)
    BY DEF RespondersOnce
  <2>2. CASE q = p /\ y = x
    BY <1>7, <1>8, <1>10, <1>11, <2>1, <2>2 DEF RespondersOnce
  <2>3. CASE y \in Lives[q]
    BY <2>1, <2>3 DEF RespondersOnce
  <2> QED BY <1>11, <2>2, <2>3
<1>22. \A y : Tracked(y, outrun') => Tracked(y, outrun)
  BY <1>9 DEF Tracked
<1>23. SinglesOnce(Singles', sent, outrun')
  <2>1. SinglesOnce(Singles, sent, outrun)
    BY DEF OnceInv
  <2> QED BY <1>11, <1>22, <2>1 DEF SinglesOnce
\* The message that made the session.
<1>24. ASSUME Tracked(S, outrun'), S.eph.by = m.from
       PROVE  Made(sent, p, S) /\ S.otp \notin otpPrivate'[p]
  <2>1. PICK m0 \in sent : m0.from = m.from /\ m0.prekey /\ Secret(m0.rk, m0.otp) = S
    BY <1>2, <1>7, <1>11, <1>24 DEF OnceInv, RespondersOnce
  <2>2. Original(m0) /\ SecretOf(m0) = S
    <3>1. Original(m0)
      BY <1>14, <2>1 DEF OnceInv, OriginOnce
    <3> QED BY <2>1, <3>1 DEF Original
  <2>3. Made(sent, p, S)
    BY <1>2, <2>1, <2>2 DEF Made
  <2>4. CASE s.est
    <3>1. m0.otp \notin otpPrivate[p] /\ m0.otp = S.otp
      BY <1>2, <1>7, <1>11, <1>22, <1>24, <2>1, <2>2, <2>4, SentOK DEF OnceInv, OpenedOnce
    <3> QED BY <1>2, <1>9, <2>3, <3>1 DEF SigInv, SigShape
  <2>5. CASE ~s.est
    <3>1. m.otp = S.otp /\ m.otp # 0
      BY <1>9, <1>10, <1>24, <2>5 DEF Tracked
    <3> QED BY <1>2, <1>9, <1>10, <2>3, <2>5, <3>1 DEF SigInv, SigShape
  <2> QED BY <2>4, <2>5
<1>25. otpPrivate'[p] \subseteq otpPrivate[p]
       /\ \A q \in Parties \ {p} : otpPrivate'[q] = otpPrivate[q]
  BY <1>9 DEF SigInv, SigShape
<1>26. OpenedOnce(Lives', sent, otpPrivate', opened', outrun')
  <2>1. OpenedOnce(Lives, sent, otpPrivate, opened, outrun)
    BY DEF OnceInv
  <2> SUFFICES ASSUME NEW m1 \in sent, NEW y \in Lives'[Peer(m1.from)], Original(m1),
                      Tracked(SecretOf(m1), outrun'), y.root[1] = SecretOf(m1)
               PROVE  IF y.est THEN m1.otp \notin otpPrivate'[Peer(m1.from)] ELSE m1 \in opened'
    BY DEF OpenedOnce
  <2>2. CASE Peer(m1.from) # p
    <3>1. y \in Lives[Peer(m1.from)] /\ m1 # m
      BY <1>11, <2>2, SentOK
    <3> QED BY <1>1, <1>22, <1>25, <2>1, <2>2, <3>1, SentOK DEF OpenedOnce
  <2>3. CASE Peer(m1.from) = p /\ SecretOf(m1) = S
    <3>1. m1.from = m.from /\ S.eph.by = m.from /\ S.otp = m1.otp
      BY <1>2, <2>3, SentOK DEF Original
    <3>2. S \in Singles[p]
      BY <1>2, <1>22, <1>24, <2>3, <3>1 DEF OnceInv, SinglesOnce
    <3>3. y = x
      BY <1>11, <2>3, <3>2
    <3> QED BY <1>8, <1>24, <2>3, <3>1, <3>3
  <2>4. CASE Peer(m1.from) = p /\ SecretOf(m1) # S
    <3>1. y \in Lives[p] /\ m1 # m
      BY <1>10, <1>11, <2>4 DEF S
    <3> QED BY <1>1, <1>22, <1>25, <2>1, <2>4, <3>1 DEF OpenedOnce
  <2> QED BY <2>2, <2>3, <2>4
<1>27. ReadOnce(Lives', sent, reads', otpPrivate', outrun')
  <2>1. ReadOnce(Lives, sent, reads, otpPrivate, outrun)
    BY DEF OnceInv
  <2>2. reads'[m] = reads[m] + 1 /\ reads[m] \in Nat /\ \A m1 \in sent \ {m} : reads'[m1] = reads[m1]
    BY <1>9, SentOK DEF SigInv, SigShape
  <2> SUFFICES ASSUME NEW m1 \in sent, reads'[m1] > 0, Tracked(SecretOf(m1), outrun')
               PROVE  /\ reads'[m1] = 1
                      /\ SecretOf(m1).eph.by = m1.from =>
                           /\ Made(sent, Peer(m1.from), SecretOf(m1))
                           /\ SecretOf(m1).otp \notin otpPrivate'[Peer(m1.from)]
                      /\ \A y \in Lives'[Peer(m1.from)] : y.root[1] = SecretOf(m1) => Spent(y, m1)
    BY DEF ReadOnce
  <2>3. CASE m1 # m
    <3>1. /\ reads[m1] = 1
          /\ SecretOf(m1).eph.by = m1.from =>
                /\ Made(sent, Peer(m1.from), SecretOf(m1))
                /\ SecretOf(m1).otp \notin otpPrivate[Peer(m1.from)]
          /\ \A y \in Lives[Peer(m1.from)] : y.root[1] = SecretOf(m1) => Spent(y, m1)
      BY <1>22, <2>1, <2>2, <2>3 DEF ReadOnce
    <3>2. ASSUME NEW y \in Lives'[Peer(m1.from)], y.root[1] = SecretOf(m1)
          PROVE  Spent(y, m1)
      <4>1. CASE Peer(m1.from) = p /\ y = x
        <5>1. Spent(s, m1)
          BY <1>7, <1>10, <1>11, <3>1, <3>2, <4>1
        <5> QED BY <1>7, <1>8, <4>1, <5>1, SentOK
      <4>2. CASE y \in Lives[Peer(m1.from)]
        BY <3>1, <3>2, <4>2
      <4> QED BY <1>11, <4>1, <4>2, SentOK
    <3> QED BY <1>25, <2>2, <2>3, <3>1, <3>2, SentOK
  <2>4. CASE m1 = m
    <3>1. reads[m] = 0
      <4> SUFFICES ASSUME reads[m] > 0 PROVE FALSE
        BY <2>2
      <4>1. Tracked(S, outrun)
        BY <1>22, <2>4 DEF S
      <4>2. Spent(s, m)
        BY <1>7, <1>11, <2>1, <4>1 DEF ReadOnce, S
      <4> QED BY <1>7, <4>2
    <3>2. S \in Singles[p]
      <4>1. Tracked(S, outrun) /\ Tracked(S, outrun')
        BY <1>22, <2>4 DEF S
      <4>2. S.eph.by = p \/ S.eph.by = m.from
        BY <1>2, TwoParties DEF Secrets, RatchetKeys
      <4>3. Made(sent, p, S)
        BY <1>24, <4>1, <4>2 DEF Made
      <4> QED BY <1>2, <4>1, <4>3 DEF OnceInv, SinglesOnce
    <3>3. \A y \in Lives'[p] : y.root[1] = S => Spent(y, m)
      BY <1>2, <1>7, <1>8, <1>11, <3>2
    <3> QED BY <1>24, <2>2, <2>4, <3>1, <3>3 DEF S
  <2> QED BY <2>3, <2>4
<1> QED BY <1>1, <1>15, <1>16, <1>18, <1>19, <1>20, <1>21, <1>23, <1>26, <1>27 DEF OnceInv

-----------------------------------------------------------------------------
LEMMA LeastNumber ==
  ASSUME NEW T \in SUBSET Nat, T # {}
  PROVE  \E m \in T : \A n \in T : m <= n
<1>1. PICK m \in T : \A n \in T : ~(<<n, m>> \in OpToRel(<, Nat))
  BY NatLessThanWellFounded, WFMin
<1>2. \A n \in T : ~(n < m)
  BY <1>1 DEF OpToRel
<1> QED BY <1>2

\* If a previous session decrypts a message, the last of those that do wins.
LEMMA NoneDecrypts ==
  ASSUME SigInv, NEW m \in sent, DecryptFails(m), NEW s \in Lives[Peer(m.from)]
  PROVE  RatchetDecrypt(s, m, NextKey(Peer(m.from))) = {}
<1> DEFINE p == Peer(m.from)
           q == previous[p]
           Works(i) == RatchetDecrypt(q[i], m, NextKey(p)) # {}
<1>1. p \in Parties /\ q \in Seq(SessionRecords) /\ Len(q) \in Nat /\ DOMAIN q = 1..Len(q)
  BY SentOK DEF SigInv, SigShape
<1>2. \A i \in 1..Len(q) : ~Works(i)
  <2> SUFFICES ASSUME NEW j \in 1..Len(q), Works(j) PROVE FALSE
    OBVIOUS
  <2> DEFINE T == {Len(q) - i : i \in {n \in 1..Len(q) : Works(n)}}
  <2> HIDE DEF Works
  <2>1. T \in SUBSET Nat /\ T # {}
    <3>1. \A i \in 1..Len(q) : Len(q) - i \in Nat
      BY <1>1
    <3>2. Len(q) - j \in T
      OBVIOUS
    <3> QED BY <3>1, <3>2
  <2>2. PICK n \in T : \A l \in T : n <= l
    <3> HIDE DEF T
    <3> QED BY <2>1, LeastNumber
  <2>3. PICK i \in 1..Len(q) : Works(i) /\ n = Len(q) - i
    BY <2>2
  <2>4. \A l \in 1..Len(q) : l > i => ~Works(l)
    <3> SUFFICES ASSUME NEW l \in 1..Len(q), l > i, Works(l) PROVE FALSE
      OBVIOUS
    <3>1. Len(q) - l \in T
      OBVIOUS
    <3>2. Len(q) - i <= Len(q) - l
      BY <2>2, <2>3, <3>1
    <3> QED BY <1>1, <3>2
  <2>5. Wins(p, m, i)
    BY <1>1, <2>3, <2>4 DEF Wins, DecryptFails, Works
  <2> QED BY <1>1, <2>5 DEF DecryptFails
<1>3. RatchetDecrypt(active[p], m, NextKey(p)) = {}
  BY DEF DecryptFails
<1>4. Lives[p] = LiveIn(active[p], q)
  BY <1>1 DEF Lives
<1>5. PICK i \in Slots(q) : s = SessionAt(active[p], q, i)
  BY <1>4 DEF LiveIn
<1>6. i = 0 \/ i \in 1..Len(q)
  BY <1>1 DEF Slots
<1> QED BY <1>2, <1>3, <1>5, <1>6 DEF SessionAt

\* A session nothing was decrypted with decrypts the first message of its secret.
LEMMA FirstDecrypts ==
  ASSUME NEW s \in SessionRecords, Untouched(s), NEW m, m.n = 0, m.chain = <<s.root[1]>>,
         m.rk = s.root[1].eph, s # Zeroed, NEW k
  PROVE  RatchetDecrypt(s, m, k) # {}
<1> DEFINE t == SkipMessageKeys(NextRatchet(s, m, k), m.n)
<1>1. s.skipped = {} /\ NextRatchet(s, m, k) = s
  BY DEF Untouched, NextRatchet
<1>2. t.recv = [chain |-> <<s.root[1]>>, n |-> 0]
  <2>1. s.recv.n = 0 /\ s.recv = [chain |-> <<s.root[1]>>, n |-> 0]
    BY DEF Untouched
  <2>2. ~(m.n < s.recv.n) /\ t = SkipMessageKeys(s, m.n)
    BY <1>1, <2>1
  <2>3. t.recv = [s.recv EXCEPT !.n = m.n]
    <3> HIDE DEF t
    <3> QED BY <2>2 DEF SkipMessageKeys, SessionRecords
  <2> HIDE DEF t
  <2> QED BY <2>1, <2>3
<1>3. t.recv # NoChain
  <2>1. Len(<<s.root[1]>>) = 1 /\ Len(NoChain.chain) = 0
    BY DEF NoChain
  <2>2. t.recv.chain = <<s.root[1]>>
    BY <1>2
  <2> HIDE DEF t
  <2> QED BY ONLY <2>1, <2>2
<1> HIDE DEF t
<1> QED BY <1>1, <1>2, <1>3 DEF RatchetDecrypt, t

LEMMA FailsOnce ==
  ASSUME SigInv, OnceInv, NEW m \in sent, DecryptMessage(m), DecryptFails(m)
  PROVE  OnceInv'
<1>1. /\ opened' = opened \ {m}
      /\ UNCHANGED <<recVars, composing, unclaimed, sent, otpPrivate, outrun, reads>>
  BY DEF DecryptMessage, DecryptFails
<1>2. Lives' = Lives /\ Singles' = Singles
  BY <1>1 DEF recVars, Lives, Singles
<1>3. ASSUME NEW s \in Lives[Peer(m.from)], Original(m), SecretOf(m).otp # 0,
             s.root[1] = SecretOf(m), ~s.est
      PROVE  FALSE
  <2>1. m.rk = s.root[1].eph /\ m.otp # 0 /\ s.root[1].eph.by = m.from
    BY <1>3, SentOK DEF Original
  <2>2. Untouched(s)
    BY <1>3, <2>1, SentOK DEF OnceInv, RespondersOnce
  <2>3. m.n = 0 /\ m.chain = <<s.root[1]>>
    BY <1>3, <2>1 DEF OnceInv, SentFirst
  <2>4. s \in SessionRecords /\ s # Zeroed
    BY LivesOK, SentOK DEF SessionOK
  <2> QED BY <2>1, <2>2, <2>3, <2>4, FirstDecrypts, NoneDecrypts
<1>4. OpenedOnce(Lives, sent, otpPrivate, opened', outrun)
  BY <1>1, <1>3 DEF OnceInv, OpenedOnce, Tracked
<1> QED BY <1>1, <1>2, <1>4 DEF OnceInv

LEMMA OnceStep == SigInv /\ OnceInv /\ [SigNext]_sigVars => OnceInv'
<1> SUFFICES ASSUME SigInv, OnceInv, [SigNext]_sigVars PROVE OnceInv'
  OBVIOUS
<1>1. ASSUME NEW p \in Parties, ComposeMessage(p) PROVE OnceInv'
  <2>1. /\ composing' = [composing EXCEPT ![p].pc = IF active[p].est THEN "encrypt" ELSE "initiate"]
        /\ UNCHANGED <<recVars, sent, unclaimed, otpPrivate, opened, reads, outrun>>
    BY <1>1 DEF ComposeMessage
  <2>2. \A q \in Parties : composing'[q].otp = composing[q].otp
    BY <2>1 DEF SigInv, SigShape
  <2> QED BY <2>1, <2>2, QuietOnce
<1>2. ASSUME NEW p \in Parties, CreateInitiatorSession(p) PROVE OnceInv'
  BY <1>2, InitiatorOnce
<1>3. ASSUME NEW p \in Parties, EncryptMessage(p) PROVE OnceInv'
  BY <1>3, EncryptOnce
<1>4. ASSUME NEW p \in Parties, Reopen(p) PROVE OnceInv'
  BY <1>4, QuietOnce DEF Reopen
<1>5. ASSUME NEW m \in sent, CreateResponderSession(m) PROVE OnceInv'
  <2>1. CASE m.otp \in otpPrivate[Peer(m.from)] \cup {0}
    BY <1>5, <2>1, ResponderOnce
  <2>2. CASE ~(m.otp \in otpPrivate[Peer(m.from)] \cup {0})
    BY <1>5, <2>2, QuietOnce DEF CreateResponderSession
  <2> QED BY <2>1, <2>2
<1>6. ASSUME NEW m \in sent, DecryptMessage(m) PROVE OnceInv'
  <2>1. DecryptActive(m) \/ DecryptPrevious(m) \/ DecryptFails(m)
    BY <1>6 DEF DecryptMessage
  <2> QED BY <1>6, <2>1, DecryptOnce, FailsOnce
<1>7. CASE UNCHANGED sigVars
  BY <1>7, QuietOnce DEF sigVars
<1> QED BY <1>1, <1>2, <1>3, <1>4, <1>5, <1>6, <1>7 DEF SigNext

\* The second inductive invariant: a ratchet key is of one secret, a one-time
\* pre-key is in one message, and of a secret with one, whose first message was
\* not overtaken, a person has one session at most, which has spent every message
\* it decrypted; once it is established no message can make it again.
THEOREM OnceInvariant == SigSpec => []OnceInv
BY SigInvariant, OnceInitInv, OnceStep, PTL DEF SigSpec

\* A message decrypts once, in conversations of any length and with any number of
\* previous sessions: fallbacks, promotions, zeroed sessions and conversations
\* opened again do not let a message key be used twice, unless the session was
\* made without a one-time pre-key or by a message that did not delete it.
THEOREM MessagesDecryptOnce == SigSpec => []DecryptsOnce
<1>1. SigInv /\ OnceInv => DecryptsOnce
  <2> SUFFICES ASSUME SigInv, OnceInv, NEW m \in sent, reads[m] > 1,
                      Tracked(SecretOf(m), outrun)
               PROVE  FALSE
    BY DEF DecryptsOnce, Tracked
  <2>1. reads[m] = 1
    BY SentOK DEF OnceInv, ReadOnce
  <2> QED BY <2>1
<1> QED BY <1>1, SigInvariant, OnceInvariant, PTL

-----------------------------------------------------------------------------
(* A message decrypts as long as its session is there.                      *)

\* The chains of a session: it writes with its root, and reads with what the
\* root was before its own last key, or with nothing before the first answer.
Linked(s) ==
  /\ s.send.chain = s.root
  /\ IF Len(s.root) = 1
     THEN s.recv = NoChain /\ s.mine = s.root[1].eph /\ s.theirs.n = 0
     ELSE s.root = Append(s.recv.chain, {s.mine, s.theirs})
  /\ \A sk \in s.skipped : /\ sk.rk.n <= s.theirs.n
                           /\ sk.rk.n = s.theirs.n => sk.chain = s.recv.chain

\* Of the two sessions of a secret, t is the one that has turned the ratchet last.
Ahead(t, s) ==
  /\ t.root = Append(s.root, {t.mine, s.mine})
  /\ t.theirs = s.mine /\ t.mine.n > s.theirs.n /\ t.recv.n <= s.send.n

\* What the writer's session says of a message: it is of its chain, of the one
\* before, or older.
Wrote(s, m) ==
  \/ m.chain = s.root /\ m.rk = s.mine /\ m.pn = s.pn /\ m.n < s.send.n
  \/ /\ Len(m.chain) + 2 <= Len(s.root)
     /\ Len(m.chain) + 2 = Len(s.root) => m.n < s.pn

\* ... and the reader's: it is of the chain to come, of its chain, or older.
Coming(s, m) == m.chain = Append(s.root, {s.mine, m.rk}) /\ m.rk.n > s.theirs.n
Current(s, m) == m.chain = s.recv.chain /\ m.rk = s.theirs
Older(s, m) == Len(m.chain) + 1 < Len(s.root) /\ m.rk.n < s.theirs.n
Awaits(s, m) == Coming(s, m) \/ Current(s, m) \/ Older(s, m)

KeyOf(m) == [rk |-> m.rk, n |-> m.n, chain |-> m.chain]
CanRead(s, m) == Coming(s, m) \/ (Current(s, m) /\ m.n >= s.recv.n) \/ KeyOf(m) \in s.skipped

\* Messages of a chain have numbers of their own, and the next chain tells how
\* many there were.
InOrder(m1, m2) ==
  /\ Len(m1.chain) = Len(m2.chain) =>
        m1.chain = m2.chain /\ m1.rk = m2.rk /\ m1.pn = m2.pn /\ (m1.n = m2.n => m1 = m2)
  /\ Len(m1.chain) + 2 = Len(m2.chain) => m1.n < m2.pn

UniqueSessions(singles, twice) == \A p \in Parties, x \in Secrets \ twice : x \in singles[p]

\* Before the responder has made a session there is the initiator's first chain only.
FirstChains(L, msgs, made, twice) ==
  /\ twice \subseteq made
  /\ \A p \in Parties : \A s \in L[p] :
        s.root[1] \in made \/ (s.root[1].eph.by = p /\ Len(s.root) = 1)
  /\ \A m \in msgs :
        \/ SecretOf(m) \in made
        \/ SecretOf(m).eph.by = m.from /\ Len(m.chain) = 1 /\ m.rk = SecretOf(m).eph

LinkedAll(L, twice) == \A p \in Parties : \A s \in L[p] : s.root[1] \notin twice => Linked(s)
Paired(L, twice) ==
  \A p \in Parties : \A s \in L[p], t \in L[Peer(p)] :
    s.root[1] = t.root[1] /\ s.root[1] \notin twice => Ahead(s, t) \/ Ahead(t, s)
WroteAll(L, msgs, twice) ==
  \A p \in Parties : \A s \in L[p], m \in msgs :
    m.from = p /\ SecretOf(m) = s.root[1] /\ s.root[1] \notin twice => Wrote(s, m)
AwaitsAll(L, msgs, read, twice) ==
  \A p \in Parties : \A s \in L[p], m \in msgs :
    m.from = Peer(p) /\ SecretOf(m) = s.root[1] /\ s.root[1] \notin twice =>
      Awaits(s, m) /\ (read[m] = 0 => CanRead(s, m))
OrderAll(msgs, twice) ==
  \A m1, m2 \in msgs :
    m1.from = m2.from /\ SecretOf(m1) = SecretOf(m2) /\ SecretOf(m1) \notin twice =>
      InOrder(m1, m2)

AgreeInv ==
  /\ UniqueSessions(Singles, forked) /\ FirstChains(Lives, sent, answered, forked)
  /\ LinkedAll(Lives, forked) /\ Paired(Lives, forked) /\ WroteAll(Lives, sent, forked)
  /\ AwaitsAll(Lives, sent, reads, forked) /\ OrderAll(sent, forked)
  /\ ReadableWithSession

-----------------------------------------------------------------------------
(* What decrypting a message makes of a session.                            *)

KeysBelow(rk, chain, from, to) == {[rk |-> rk, n |-> i, chain |-> chain] : i \in from..(to - 1)}
SamePlace(s, t) ==
  t.root = s.root /\ t.send = s.send /\ t.mine = s.mine /\ t.theirs = s.theirs /\ t.pn = s.pn

\* It had the key, it reads on in its chain, or it turns the ratchet.
TakesStored(s, t, m) ==
  /\ SamePlace(s, t) /\ t.recv = s.recv
  /\ KeyOf(m) \in s.skipped /\ t.skipped = s.skipped \ {KeyOf(m)}
TakesCurrent(s, t, m) ==
  /\ SamePlace(s, t) /\ t.recv = [chain |-> m.chain, n |-> m.n + 1]
  /\ Current(s, m) /\ m.n >= s.recv.n
  /\ t.skipped = s.skipped \cup KeysBelow(s.theirs, s.recv.chain, s.recv.n, m.n)
TakesComing(s, t, m, k) ==
  /\ m.chain = Append(s.root, {s.mine, m.rk}) /\ t.root = Append(m.chain, {k, m.rk})
  /\ t.send = [chain |-> t.root, n |-> 0] /\ t.mine = k /\ t.theirs = m.rk /\ t.pn = s.send.n
  /\ t.recv = [chain |-> m.chain, n |-> m.n + 1]
  /\ t.skipped = s.skipped \cup KeysBelow(m.rk, m.chain, 0, m.n)
                           \cup IF s.recv = NoChain THEN {}
                                ELSE KeysBelow(s.theirs, s.recv.chain, s.recv.n, m.pn)
Takes(s, t, m, k) == TakesStored(s, t, m) \/ TakesCurrent(s, t, m) \/ TakesComing(s, t, m, k)

\* What SkipMessageKeys and NextRatchet return.
Skipped(s, to, t) ==
  /\ SamePlace(s, t) /\ t.recv.chain = s.recv.chain /\ t.recv \in ChainStates
  /\ t.recv.n = IF to < s.recv.n THEN s.recv.n ELSE to
  /\ t.skipped = s.skipped \cup KeysBelow(s.theirs, s.recv.chain, s.recv.n, to)
  /\ t \in SessionRecords
Turned(s, m, k, r) ==
  /\ r \in SessionRecords /\ r.mine = k /\ r.theirs = m.rk /\ r.pn = s.send.n
  /\ r.recv = [chain |-> Append(s.root, {s.mine, m.rk}), n |-> 0]
  /\ r.root = Append(Append(s.root, {s.mine, m.rk}), {k, m.rk})
  /\ r.send = [chain |-> r.root, n |-> 0]
  /\ r.skipped = s.skipped \cup IF s.recv = NoChain THEN {}
                                ELSE KeysBelow(s.theirs, s.recv.chain, s.recv.n, m.pn)

LEMMA SkippedKeysAre ==
  ASSUME NEW s \in SessionRecords, NEW to \in Nat
  PROVE  Skipped(s, to, SkipMessageKeys(s, to))
<1> DEFINE t == SkipMessageKeys(s, to)
<1>0. s.recv.n \in Nat /\ s.recv.chain \in Chains /\ s.theirs \in RatchetKeys
  BY DEF SessionRecords, ChainStates
<1>1. CASE to < s.recv.n
  <2>1. KeysBelow(s.theirs, s.recv.chain, s.recv.n, to) = {}
    BY <1>0, <1>1 DEF KeysBelow
  <2> QED BY <1>1, <2>1 DEF SkipMessageKeys, Skipped, SamePlace, SessionRecords
<1>2. CASE ~(to < s.recv.n)
  <2> DEFINE new == KeysBelow(s.theirs, s.recv.chain, s.recv.n, to)
             r == [s.recv EXCEPT !.n = to]
  <2>1. t = [s EXCEPT !.skipped = s.skipped \cup new, !.recv = r]
    BY <1>2 DEF SkipMessageKeys, SessionRecords, ChainStates, KeysBelow
  <2>2. new \subseteq SkippedKeys
    BY <1>0 DEF SkippedKeys, KeysBelow
  <2>3. r \in ChainStates /\ r.chain = s.recv.chain /\ r.n = to
    BY DEF SessionRecords, ChainStates
  <2> HIDE DEF new, r, t
  <2>4. /\ t.root = s.root /\ t.send = s.send /\ t.mine = s.mine /\ t.theirs = s.theirs
        /\ t.pn = s.pn /\ t.recv = r /\ t.skipped = s.skipped \cup new /\ t \in SessionRecords
    BY <2>1, <2>2, <2>3 DEF SessionRecords
  <2>5. Skipped(s, to, t)
    BY <1>2, <2>3, <2>4 DEF Skipped, SamePlace, new
  <2> QED BY <2>5 DEF t
<1> QED BY <1>1, <1>2

\* The session after the ratchet was turned for m, and before m is looked for.
LEMMA Turning ==
  ASSUME NEW s \in SessionRecords, NEW m \in Messages, NEW k \in RatchetKeys, m.rk # s.theirs
  PROVE  Turned(s, m, k, NextRatchet(s, m, k))
<1> DEFINE r == NextRatchet(s, m, k)
<1> DEFINE v == IF s.recv = NoChain THEN s ELSE SkipMessageKeys(s, m.pn)
           link == {s.mine, m.rk}
           received == Append(s.root, link)
           link2 == {k, m.rk}
           root == Append(received, link2)
<1>1. m.rk \in RatchetKeys /\ m.pn \in Nat
  BY DEF Messages
<1>2. /\ v \in SessionRecords /\ SamePlace(s, v)
      /\ v.skipped = s.skipped \cup IF s.recv = NoChain THEN {}
                                    ELSE KeysBelow(s.theirs, s.recv.chain, s.recv.n, m.pn)
  BY <1>1, SkippedKeysAre DEF SamePlace, Skipped
<1>3. r = DhRatchetStep(v, m.rk, k)
  BY DEF NextRatchet
<1> HIDE DEF v, r
<1>4. r = [v EXCEPT !.pn = v.send.n, !.theirs = m.rk, !.recv = [chain |-> received, n |-> 0],
                    !.mine = k, !.root = root, !.send = [chain |-> root, n |-> 0]]
  BY <1>2, <1>3 DEF DhRatchetStep, SamePlace
<1>5. link \in SUBSET RatchetKeys /\ link2 \in SUBSET RatchetKeys /\ s.root \in Chains
  BY <1>1 DEF SessionRecords
<1>6. received \in Chains /\ root \in Chains
  <2> HIDE DEF link, link2
  <2> QED BY <1>5 DEF Chains
<1>7. v.send.n \in Nat /\ [chain |-> received, n |-> 0] \in ChainStates
      /\ [chain |-> root, n |-> 0] \in ChainStates
  BY <1>2, <1>6 DEF SessionRecords, ChainStates
<1> HIDE DEF received, root
<1>8. /\ r \in SessionRecords /\ r.mine = k /\ r.theirs = m.rk /\ r.pn = v.send.n
      /\ r.recv = [chain |-> received, n |-> 0] /\ r.root = root
      /\ r.send = [chain |-> root, n |-> 0] /\ r.skipped = v.skipped
  BY <1>1, <1>2, <1>4, <1>6, <1>7 DEF SessionRecords
<1>9. v.send.n = s.send.n
  BY <1>2 DEF SamePlace
<1>10. Turned(s, m, k, r)
  BY <1>2, <1>8, <1>9 DEF Turned, received, root
<1> QED BY <1>10 DEF r

LEMMA KeyOfIs ==
  ASSUME NEW m, NEW sk \in SkippedKeys
  PROVE  sk.rk = m.rk /\ sk.n = m.n /\ sk.chain = m.chain <=> sk = KeyOf(m)
BY DEF KeyOf, SkippedKeys

LEMMA Taking ==
  ASSUME NEW s \in SessionRecords, NEW m \in Messages, Len(m.chain) > 0, NEW k \in RatchetKeys,
         NEW t \in RatchetDecrypt(s, m, k)
  PROVE  Takes(s, t, m, k)
<1> DEFINE stored == {sk \in s.skipped : sk.rk = m.rk /\ sk.n = m.n}
           r == NextRatchet(s, m, k)
           u == SkipMessageKeys(r, m.n)
<1>0. m.n \in Nat /\ m.pn \in Nat /\ s.skipped \subseteq SkippedKeys /\ s.recv \in ChainStates
  BY DEF Messages, SessionRecords
<1>1. CASE stored # {}
  <2>1. PICK sk \in s.skipped : sk.rk = m.rk /\ sk.n = m.n /\ sk.chain = m.chain
                                /\ t = [s EXCEPT !.skipped = s.skipped \ {sk}]
    BY <1>1 DEF RatchetDecrypt
  <2>2. sk = KeyOf(m)
    BY <1>0, <2>1, KeyOfIs
  <2>3. /\ t.skipped = s.skipped \ {sk} /\ t.recv = s.recv /\ t.root = s.root
        /\ t.mine = s.mine /\ t.theirs = s.theirs /\ t.send = s.send /\ t.pn = s.pn
    BY <2>1 DEF SessionRecords
  <2> QED BY <2>1, <2>2, <2>3 DEF Takes, TakesStored, SamePlace
<1>2. CASE stored = {}
  <2>1. u.recv = [chain |-> m.chain, n |-> m.n] /\ t = [u EXCEPT !.recv.n = u.recv.n + 1]
    BY <1>2 DEF RatchetDecrypt
  <2>2. r \in SessionRecords
    BY Turning DEF NextRatchet, Turned
  <2>3. Skipped(r, m.n, u)
    BY <1>0, <2>2, SkippedKeysAre
  <2>4. /\ t.recv = [chain |-> m.chain, n |-> m.n + 1] /\ t.skipped = u.skipped
        /\ t.root = u.root /\ t.mine = u.mine /\ t.theirs = u.theirs
        /\ t.send = u.send /\ t.pn = u.pn
    <3> HIDE DEF u
    <3> QED BY <2>1, <2>3 DEF Skipped, SessionRecords, ChainStates
  <2>5. r.recv.chain = m.chain /\ ~(m.n < r.recv.n)
    <3>1. u.recv.chain = m.chain /\ u.recv.n = m.n /\ r.recv.n \in Nat
      BY <2>1, <2>2 DEF SessionRecords, ChainStates
    <3> HIDE DEF u, r
    <3> QED BY <1>0, <2>3, <3>1 DEF Skipped
  <2> HIDE DEF u
  <2>6. CASE m.rk = s.theirs
    <3>1. r = s
      BY <2>6 DEF NextRatchet
    <3>2. m.n >= s.recv.n
      BY <1>0, <2>5, <3>1 DEF ChainStates
    <3> QED BY <2>3, <2>4, <2>5, <2>6, <3>1, <3>2
            DEF Takes, TakesCurrent, SamePlace, Current, Skipped
  <2>7. CASE m.rk # s.theirs
    <3>1. Turned(s, m, k, r)
      BY <2>7, Turning
    <3> HIDE DEF r
    <3>2. m.chain = Append(s.root, {s.mine, m.rk}) /\ r.recv.n = 0
      BY <2>5, <3>1 DEF Turned
    <3> QED BY <2>3, <2>4, <2>5, <3>1, <3>2 DEF Takes, TakesComing, SamePlace, Skipped, Turned
  <2> QED BY <2>6, <2>7
<1> QED BY <1>1, <1>2

\* A message a session can read does decrypt with it.
LEMMA ReadableDecrypts ==
  ASSUME NEW s \in SessionRecords, s # Zeroed, Linked(s), NEW m \in Messages, Len(m.chain) > 0,
         NEW k \in RatchetKeys, CanRead(s, m)
  PROVE  RatchetDecrypt(s, m, k) # {}
<1> DEFINE stored == {sk \in s.skipped : sk.rk = m.rk /\ sk.n = m.n}
           r == NextRatchet(s, m, k)
           u == SkipMessageKeys(r, m.n)
<1>0. m.n \in Nat /\ s.skipped \subseteq SkippedKeys /\ s.recv \in ChainStates
  BY DEF Messages, SessionRecords
<1>1. CASE KeyOf(m) \in s.skipped
  <2> DEFINE sk == KeyOf(m)
             t == [s EXCEPT !.skipped = s.skipped \ {sk}]
  <2>1. sk \in stored /\ sk.chain = m.chain
    BY <1>1 DEF KeyOf
  <2>2. t \in {[s EXCEPT !.skipped = @ \ {x}] : x \in {y \in stored : y.chain = m.chain}}
    <3> HIDE DEF sk
    <3> QED BY <2>1
  <2> QED BY <2>1, <2>2 DEF RatchetDecrypt
<1>2. CASE KeyOf(m) \notin s.skipped
  <2>1. stored = {}
    <3> SUFFICES ASSUME NEW sk \in s.skipped, sk.rk = m.rk, sk.n = m.n PROVE FALSE
      OBVIOUS
    <3>1. sk.rk.n \in Nat /\ s.theirs.n \in Nat
      BY <1>0 DEF SkippedKeys, SessionRecords, RatchetKeys
    <3>2. Current(s, m)
      BY <1>2, <3>1 DEF CanRead, Coming, Linked
    <3>3. sk.chain = m.chain
      BY <3>2 DEF Current, Linked
    <3> QED BY <1>0, <1>2, <3>3, KeyOfIs
  <2>2. r \in SessionRecords /\ r.recv.chain = m.chain /\ r.recv.n <= m.n
    <3>1. CASE Coming(s, m)
      <4>1. m.rk # s.theirs
        BY <3>1 DEF Coming, SessionRecords, RatchetKeys
      <4>2. Turned(s, m, k, r)
        BY <4>1, Turning
      <4> HIDE DEF r
      <4> QED BY <1>0, <3>1, <4>2 DEF Coming, Turned
    <3>2. CASE Current(s, m) /\ m.n >= s.recv.n
      BY <1>0, <3>2 DEF Current, NextRatchet, ChainStates
    <3> QED BY <1>2, <3>1, <3>2 DEF CanRead
  <2>3. u.recv = [chain |-> m.chain, n |-> m.n]
    <3>1. Skipped(r, m.n, u)
      BY <1>0, <2>2, SkippedKeysAre
    <3>2. r.recv.n \in Nat
      BY <2>2 DEF SessionRecords, ChainStates
    <3> HIDE DEF r, u
    <3> QED BY <1>0, <2>2, <3>1, <3>2 DEF ChainStates, Skipped
  <2>4. u.recv # NoChain
    <3>1. Len(NoChain.chain) = 0 /\ u.recv.chain = m.chain
      BY <2>3 DEF NoChain
    <3> HIDE DEF u
    <3> QED BY ONLY <3>1, Len(m.chain) > 0
  <2> HIDE DEF u
  <2> QED BY <2>1, <2>3, <2>4 DEF RatchetDecrypt, u
<1> QED BY <1>1, <1>2

-----------------------------------------------------------------------------
(* What reading a message keeps.                                            *)

\* A session as SigInv has it, and its chains.
Good(s) == s \in SessionRecords /\ Shaped(s) /\ Linked(s)
Written(m) == m \in Messages /\ Len(m.chain) > 0

LEMMA AppendOnce ==
  ASSUME NEW c \in Chains, NEW d \in Chains, NEW x \in SUBSET RatchetKeys,
         NEW y \in SUBSET RatchetKeys
  PROVE  /\ Append(c, x) \in Chains /\ Len(Append(c, x)) = Len(c) + 1 /\ Len(c) \in Nat
         /\ Append(c, x) = Append(d, y) => c = d /\ x = y
<1>1. x \in Secrets \cup SUBSET RatchetKeys /\ y \in Secrets \cup SUBSET RatchetKeys
  OBVIOUS
<1> DEFINE S == Secrets \cup SUBSET RatchetKeys
<1> HIDE DEF S
<1>2. c \in Seq(S) /\ d \in Seq(S) /\ x \in S /\ y \in S
  BY <1>1 DEF S, Chains
<1>3. Append(c, x) \in Seq(S) /\ Len(Append(c, x)) = Len(c) + 1 /\ Len(c) \in Nat
  BY <1>2
<1>4. ASSUME Append(c, x) = Append(d, y) PROVE c = d /\ x = y
  <2>1. Len(c) = Len(d) /\ Append(c, x)[Len(c) + 1] = x /\ Append(d, y)[Len(d) + 1] = y
    BY <1>2, <1>4, AppendProperties
  <2>2. \A i \in 1..Len(c) : c[i] = d[i]
    BY <1>2, <1>4, <2>1, AppendProperties
  <2> QED BY <1>2, <1>4, <2>1, <2>2, SeqEqual
<1> QED BY <1>3, <1>4 DEF Chains, S

LEMMA Lengths ==
  ASSUME NEW s, Good(s), NEW m, Written(m)
  PROVE  /\ Len(s.root) \in Nat /\ Len(m.chain) \in Nat /\ Len(s.root) > 0
         /\ Current(s, m) => /\ Len(m.chain) + 1 = Len(s.root) /\ s.recv # NoChain
                             /\ s.root = Append(m.chain, {s.mine, s.theirs})
         /\ m.chain = Append(s.root, {s.mine, m.rk}) => Len(m.chain) = Len(s.root) + 1
         /\ Older(s, m) => Len(m.chain) + 1 < Len(s.root)
<1>1. s.root \in Chains /\ m.chain \in Chains /\ s.recv.chain \in Chains
      /\ {s.mine, m.rk} \in SUBSET RatchetKeys /\ {s.mine, s.theirs} \in SUBSET RatchetKeys
  BY DEF Good, Written, SessionRecords, Messages, ChainStates
<1>2. Len(s.root) \in Nat /\ Len(m.chain) \in Nat /\ Len(s.root) > 0
  BY <1>1, AppendOnce DEF Good, Shaped, Begins
<1>3. ASSUME Current(s, m)
      PROVE  /\ Len(m.chain) + 1 = Len(s.root) /\ s.recv # NoChain
             /\ s.root = Append(m.chain, {s.mine, s.theirs})
  <2>1. s.recv # NoChain
    <3>1. Len(NoChain.chain) = 0 /\ s.recv.chain = m.chain /\ Len(m.chain) > 0
      BY <1>3 DEF NoChain, Current, Written
    <3> QED BY ONLY <3>1
  <2>2. s.root = Append(s.recv.chain, {s.mine, s.theirs})
    BY <2>1 DEF Good, Linked
  <2>3. s.root = Append(m.chain, {s.mine, s.theirs})
    BY <1>3, <2>2 DEF Current
  <2> QED BY <1>1, <2>1, <2>3, AppendOnce
<1>4. m.chain = Append(s.root, {s.mine, m.rk}) => Len(m.chain) = Len(s.root) + 1
  BY <1>1, AppendOnce
<1> QED BY <1>2, <1>3, <1>4 DEF Older

LEMMA TakesTheComing ==
  ASSUME NEW s, Good(s), NEW m, Written(m), NEW k, NEW t, TakesComing(s, t, m, k), Awaits(s, m)
  PROVE  Coming(s, m) /\ Len(m.chain) = Len(s.root) + 1
<1>1. Len(m.chain) = Len(s.root) + 1
  BY Lengths DEF TakesComing
<1>2. ~Current(s, m) /\ ~Older(s, m)
  BY <1>1, Lengths
<1> QED BY <1>1, <1>2 DEF Awaits

LEMMA LinkedTakes ==
  ASSUME NEW s, Good(s), NEW m, Written(m), NEW k \in RatchetKeys, NEW t, Takes(s, t, m, k),
         Awaits(s, m)
  PROVE  Linked(t)
<1>1. CASE TakesStored(s, t, m)
  BY <1>1 DEF TakesStored, SamePlace, Linked, Good
<1>2. CASE TakesCurrent(s, t, m)
  <2>1. /\ t.root = s.root /\ t.send = s.send /\ t.mine = s.mine /\ t.theirs = s.theirs
        /\ t.recv.chain = s.recv.chain
        /\ t.skipped = s.skipped \cup KeysBelow(s.theirs, s.recv.chain, s.recv.n, m.n)
    BY <1>2 DEF TakesCurrent, SamePlace, Current
  <2>2. Len(s.root) # 1 /\ s.theirs.n \in Nat
    <3>1. Len(m.chain) + 1 = Len(s.root) /\ Len(m.chain) \in Nat /\ Len(m.chain) > 0
      BY <1>2, Lengths DEF TakesCurrent, Written
    <3>2. Len(s.root) # 1
      <4> DEFINE a == Len(m.chain)
                 b == Len(s.root)
      <4>1. a + 1 = b /\ a \in Nat /\ a > 0
        BY <3>1
      <4> HIDE DEF a, b
      <4>2. b # 1
        BY <4>1
      <4> QED BY <4>2 DEF b
    <3> QED BY <3>2 DEF Good, SessionRecords, RatchetKeys
  <2>3. \A sk \in t.skipped : sk \in s.skipped \/ (sk.rk = s.theirs /\ sk.chain = s.recv.chain)
    BY <2>1 DEF KeysBelow
  <2> QED BY <2>1, <2>2, <2>3 DEF Linked, Good
<1>3. CASE TakesComing(s, t, m, k)
  <2>1. Coming(s, m) /\ Len(m.chain) = Len(s.root) + 1
    BY <1>3, TakesTheComing
  <2>2. m.chain \in Chains /\ {k, m.rk} \in SUBSET RatchetKeys
    BY DEF Written, Messages
  <2>3. Len(t.root) = Len(m.chain) + 1 /\ Len(m.chain) \in Nat
    BY <1>3, <2>2, AppendOnce DEF TakesComing
  <2>4. t.send.chain = t.root /\ t.root = Append(t.recv.chain, {t.mine, t.theirs})
    BY <1>3 DEF TakesComing
  <2>5. s.theirs.n \in Nat /\ m.rk.n \in Nat /\ m.rk.n > s.theirs.n
        /\ \A sk \in s.skipped : sk.rk.n \in Nat
    BY <2>1 DEF Coming, Good, Written, SessionRecords, RatchetKeys, Messages, SkippedKeys
  <2>6. \A sk \in t.skipped : \/ sk \in s.skipped \/ sk.rk = s.theirs
                              \/ sk.rk = m.rk /\ sk.chain = m.chain
    BY <1>3 DEF TakesComing, KeysBelow
  <2>7. t.theirs = m.rk /\ t.recv.chain = m.chain
    BY <1>3 DEF TakesComing
  <2>8. \A sk \in t.skipped : /\ sk.rk.n <= t.theirs.n
                              /\ sk.rk.n = t.theirs.n => sk.chain = t.recv.chain
    BY <2>5, <2>6, <2>7 DEF Good, Linked
  <2> QED BY <2>1, <2>3, <2>4, <2>8, Lengths DEF Linked, Written
<1> QED BY <1>1, <1>2, <1>3 DEF Takes

\* What else the session awaits, and can read, is so afterwards.
LEMMA AwaitsTakes ==
  ASSUME NEW s, Good(s), NEW m, Written(m), NEW k \in RatchetKeys, NEW t, Takes(s, t, m, k),
         Awaits(s, m), NEW m2, Written(m2), Awaits(s, m2), InOrder(m, m2), InOrder(m2, m)
  PROVE  Awaits(t, m2) /\ (m2 # m /\ CanRead(s, m2) => CanRead(t, m2))
<1>0. /\ m.n \in Nat /\ m2.n \in Nat /\ s.recv.n \in Nat /\ m.pn \in Nat
      /\ Len(m.chain) \in Nat /\ Len(m2.chain) \in Nat
  BY Lengths DEF Written, Messages, Good, SessionRecords, ChainStates
<1>k. \A rk, chain : \A a, b \in Nat :
        m2.rk = rk /\ m2.chain = chain /\ a <= m2.n /\ m2.n < b =>
          KeyOf(m2) \in KeysBelow(rk, chain, a, b)
  BY <1>0 DEF KeyOf, KeysBelow
<1>1. CASE TakesStored(s, t, m)
  <2>1. t.root = s.root /\ t.mine = s.mine /\ t.theirs = s.theirs /\ t.recv = s.recv
        /\ t.skipped = s.skipped \ {KeyOf(m)}
    BY <1>1 DEF TakesStored, SamePlace
  <2>2. KeyOf(m2) = KeyOf(m) => m2 = m
    <3>1. KeyOf(m2) = KeyOf(m) => m2.n = m.n /\ m2.chain = m.chain
      BY DEF KeyOf
    <3> QED BY <3>1 DEF InOrder
  <2> QED BY <2>1, <2>2 DEF Awaits, CanRead, Coming, Current, Older
<1>2. CASE TakesCurrent(s, t, m)
  <2>1. /\ t.root = s.root /\ t.mine = s.mine /\ t.theirs = s.theirs
        /\ t.recv.chain = s.recv.chain /\ t.recv.n = m.n + 1 /\ m.chain = s.recv.chain
        /\ t.skipped = s.skipped \cup KeysBelow(s.theirs, s.recv.chain, s.recv.n, m.n)
    BY <1>2 DEF TakesCurrent, SamePlace, Current
  <2>2. Awaits(t, m2)
    BY <2>1 DEF Awaits, Coming, Current, Older
  <2>3. ASSUME m2 # m, Current(s, m2), m2.n >= s.recv.n PROVE CanRead(t, m2)
    <3>1. m2.n # m.n
      BY <2>1, <2>3 DEF InOrder, Current
    <3>2. CASE m2.n > m.n
      BY <1>0, <2>1, <2>3, <3>2 DEF CanRead, Current
    <3>3. CASE m2.n < m.n
      <4>1. KeyOf(m2) \in KeysBelow(s.theirs, s.recv.chain, s.recv.n, m.n)
        BY <1>0, <1>k, <2>3, <3>3 DEF Current
      <4> QED BY <2>1, <4>1 DEF CanRead
    <3> QED BY <1>0, <3>1, <3>2, <3>3
  <2>4. Coming(s, m2) \/ KeyOf(m2) \in s.skipped => CanRead(t, m2)
    BY <2>1 DEF CanRead, Coming
  <2> QED BY <2>2, <2>3, <2>4 DEF CanRead
<1>3. CASE TakesComing(s, t, m, k)
  <2>1. Coming(s, m) /\ Len(m.chain) = Len(s.root) + 1
    BY <1>3, TakesTheComing
  <2>2. Len(t.root) = Len(s.root) + 2 /\ Len(s.root) \in Nat
    <3>1. m.chain \in Chains /\ {k, m.rk} \in SUBSET RatchetKeys
      BY DEF Written, Messages
    <3> QED BY <1>0, <1>3, <2>1, <3>1, AppendOnce, Lengths DEF TakesComing
  <2>3. /\ t.theirs = m.rk /\ t.recv.chain = m.chain /\ t.recv.n = m.n + 1
        /\ s.skipped \subseteq t.skipped /\ KeysBelow(m.rk, m.chain, 0, m.n) \subseteq t.skipped
        /\ s.recv # NoChain =>
              KeysBelow(s.theirs, s.recv.chain, s.recv.n, m.pn) \subseteq t.skipped
    BY <1>3 DEF TakesComing
  <2>4. s.theirs.n \in Nat /\ m.rk.n \in Nat /\ m2.rk.n \in Nat /\ s.theirs.n < m.rk.n
    BY <2>1 DEF Coming, Good, Written, SessionRecords, RatchetKeys, Messages
  <2>5. CASE Coming(s, m2)
    <3>1. Len(m2.chain) = Len(m.chain)
      BY <2>1, <2>5, Lengths DEF Coming
    <3>2. m2.chain = m.chain /\ m2.rk = m.rk /\ (m2.n = m.n => m2 = m)
      BY <3>1 DEF InOrder
    <3>3. Current(t, m2)
      BY <2>3, <3>2 DEF Current
    <3>4. m2.n < m.n => KeyOf(m2) \in t.skipped
      BY <1>0, <1>k, <2>3, <3>2
    <3> QED BY <1>0, <2>3, <3>2, <3>3, <3>4 DEF Awaits, CanRead
  <2>6. CASE Current(s, m2)
    <3>1. Len(m2.chain) + 1 = Len(s.root) /\ s.recv # NoChain
      BY <2>6, Lengths
    <3>2. m2.n < m.pn
      BY <1>0, <2>1, <2>2, <3>1 DEF InOrder
    <3>3. Older(t, m2)
      BY <1>0, <2>2, <2>3, <2>4, <2>6, <3>1 DEF Older, Current
    <3>4. m2.n >= s.recv.n => KeyOf(m2) \in t.skipped
      BY <1>0, <1>k, <2>3, <2>6, <3>1, <3>2 DEF Current
    <3>5. ~Coming(s, m2)
      BY <1>0, <2>2, <3>1, Lengths DEF Coming
    <3> QED BY <2>3, <3>3, <3>4, <3>5 DEF Awaits, CanRead
  <2>7. CASE Older(s, m2)
    <3>1. Older(t, m2)
      BY <1>0, <2>2, <2>3, <2>4, <2>7 DEF Older
    <3>2. ~Coming(s, m2) /\ ~Current(s, m2)
      BY <1>0, <2>2, <2>7, Lengths DEF Coming, Older
    <3> QED BY <2>3, <3>1, <3>2 DEF Awaits, CanRead
  <2> QED BY <2>5, <2>6, <2>7 DEF Awaits
<1> QED BY <1>1, <1>2, <1>3 DEF Takes

LEMMA WroteTakes ==
  ASSUME NEW s, Good(s), NEW m, Written(m), NEW k \in RatchetKeys, NEW t, Takes(s, t, m, k),
         Awaits(s, m), NEW m2, Written(m2), Wrote(s, m2)
  PROVE  Wrote(t, m2)
<1>1. CASE SamePlace(s, t)
  BY <1>1 DEF SamePlace, Wrote
<1>2. CASE TakesComing(s, t, m, k)
  <2>1. Len(t.root) = Len(s.root) + 2 /\ Len(s.root) \in Nat /\ Len(m2.chain) \in Nat
    <3>1. m.chain \in Chains /\ {k, m.rk} \in SUBSET RatchetKeys /\ Len(m.chain) = Len(s.root) + 1
      BY <1>2, TakesTheComing DEF Written, Messages
    <3> QED BY <1>2, <3>1, AppendOnce, Lengths DEF TakesComing
  <2>2. t.pn = s.send.n
    BY <1>2 DEF TakesComing
  <2> QED BY <2>1, <2>2 DEF Wrote
<1> QED BY <1>1, <1>2 DEF Takes, TakesStored, TakesCurrent

\* The ratchets still agree: with w, the session of the writer.
LEMMA AheadTakes ==
  ASSUME NEW s, Good(s), NEW m, Written(m), NEW k \in RatchetKeys, NEW t, Takes(s, t, m, k),
         Awaits(s, m), NEW w, Good(w), Wrote(w, m), Ahead(s, w) \/ Ahead(w, s), k.n > w.theirs.n
  PROVE  Ahead(t, w) \/ Ahead(w, t)
<1>0. /\ m.n \in Nat /\ w.send.n \in Nat /\ Len(m.chain) \in Nat
      /\ Len(s.root) \in Nat /\ Len(w.root) \in Nat
  BY Lengths DEF Written, Messages, Good, SessionRecords, ChainStates
<1>1. /\ Ahead(s, w) => Len(s.root) = Len(w.root) + 1
      /\ Ahead(w, s) => Len(w.root) = Len(s.root) + 1
  <2>1. s.root \in Chains /\ w.root \in Chains /\ {s.mine, w.mine} \in SUBSET RatchetKeys
        /\ {w.mine, s.mine} \in SUBSET RatchetKeys
    BY DEF Good, SessionRecords
  <2> QED BY <2>1, AppendOnce DEF Ahead
<1>2. CASE TakesStored(s, t, m)
  BY <1>2 DEF TakesStored, SamePlace, Ahead
<1>3. CASE TakesCurrent(s, t, m)
  <2>1. SamePlace(s, t) /\ t.recv.n = m.n + 1 /\ Current(s, m)
    BY <1>3 DEF TakesCurrent
  <2>2. CASE Ahead(w, s)
    BY <2>1, <2>2 DEF SamePlace, Ahead
  <2>3. CASE Ahead(s, w)
    <3>1. Len(m.chain) = Len(w.root)
      BY <1>0, <1>1, <2>1, <2>3, Lengths
    <3>2. m.n < w.send.n
      BY <1>0, <3>1 DEF Wrote
    <3> QED BY <1>0, <2>1, <2>3, <3>2 DEF SamePlace, Ahead
  <2> QED BY <2>2, <2>3
<1>4. CASE TakesComing(s, t, m, k)
  <2>1. Len(m.chain) = Len(s.root) + 1
    BY <1>4, TakesTheComing
  <2>2. m.chain = w.root /\ m.rk = w.mine /\ m.n < w.send.n
    BY <1>0, <1>1, <2>1 DEF Wrote
  <2>3. /\ t.root = Append(m.chain, {k, m.rk}) /\ t.mine = k /\ t.theirs = m.rk
        /\ t.recv.n = m.n + 1
    BY <1>4 DEF TakesComing
  <2> QED BY <1>0, <2>2, <2>3 DEF Ahead
<1> QED BY <1>2, <1>3, <1>4 DEF Takes

-----------------------------------------------------------------------------
(* What writing a message keeps.                                            *)

\* s writes m, and is t then.
Writes(s, t, m) ==
  /\ m.chain = s.send.chain /\ m.n = s.send.n /\ m.rk = s.mine /\ m.pn = s.pn
  /\ t.root = s.root /\ t.send.chain = s.send.chain /\ t.send.n = s.send.n + 1
  /\ t.recv = s.recv /\ t.mine = s.mine /\ t.theirs = s.theirs /\ t.pn = s.pn
  /\ t.skipped = s.skipped

LEMMA LinkedWrites ==
  ASSUME NEW s, Good(s), NEW m, NEW t, Writes(s, t, m)
  PROVE  Linked(t)
BY DEF Writes, Linked, Good

LEMMA WroteWrites ==
  ASSUME NEW s, Good(s), NEW m, Written(m), NEW t, Writes(s, t, m), NEW m2, Written(m2)
  PROVE  /\ Wrote(t, m)
         /\ Wrote(s, m2) => Wrote(t, m2) /\ InOrder(m2, m) /\ InOrder(m, m2)
<1>1. /\ m.chain = s.root /\ s.send.n \in Nat /\ m2.n \in Nat
      /\ Len(s.root) \in Nat /\ Len(m2.chain) \in Nat
  BY Lengths DEF Good, Linked, Writes, Written, Messages, SessionRecords, ChainStates
<1>2. Wrote(t, m)
  BY <1>1 DEF Writes, Wrote
<1>3. ASSUME Wrote(s, m2) PROVE Wrote(t, m2) /\ InOrder(m2, m) /\ InOrder(m, m2)
  <2>1. CASE m2.chain = s.root /\ m2.rk = s.mine /\ m2.pn = s.pn /\ m2.n < s.send.n
    BY <1>1, <2>1 DEF Writes, Wrote, InOrder
  <2>2. CASE Len(m2.chain) + 2 <= Len(s.root) /\ (Len(m2.chain) + 2 = Len(s.root) => m2.n < s.pn)
    BY <1>1, <2>2 DEF Writes, Wrote, InOrder
  <2> QED BY <1>3, <2>1, <2>2 DEF Wrote
<1> QED BY <1>2, <1>3

\* The session of the reader awaits it, and can read it.
LEMMA AwaitsWrites ==
  ASSUME NEW s, Good(s), NEW m, Written(m), NEW t, Writes(s, t, m), NEW w, Good(w),
         Ahead(s, w) \/ Ahead(w, s)
  PROVE  /\ Awaits(w, m) /\ CanRead(w, m)
         /\ Ahead(t, w) \/ Ahead(w, t)
<1>1. /\ m.chain = s.root /\ s.send.n \in Nat /\ w.recv.n \in Nat /\ m.n = s.send.n
      /\ m.rk = s.mine
  BY DEF Good, Linked, Writes, SessionRecords, ChainStates
<1>2. CASE Ahead(s, w)
  <2>1. Coming(w, m)
    BY <1>1, <1>2 DEF Ahead, Coming
  <2> QED BY <1>2, <2>1 DEF Awaits, CanRead, Ahead, Writes
<1>3. CASE Ahead(w, s)
  <2>1. w.recv.chain = s.root
    <3>1. s.root \in Chains /\ w.recv.chain \in Chains /\ {w.mine, s.mine} \in SUBSET RatchetKeys
          /\ {w.mine, w.theirs} \in SUBSET RatchetKeys
      BY DEF Good, SessionRecords, ChainStates
    <3>2. Len(w.root) # 1
      <4>1. Len(w.root) = Len(s.root) + 1 /\ Len(s.root) > 0 /\ Len(s.root) \in Nat
        BY <1>3, <3>1, AppendOnce, Lengths DEF Ahead
      <4> QED BY <4>1
    <3>3. Append(w.recv.chain, {w.mine, w.theirs}) = Append(s.root, {w.mine, s.mine})
      BY <1>3, <3>2 DEF Good, Linked, Ahead
    <3> DEFINE x == {w.mine, w.theirs}
               y == {w.mine, s.mine}
               c == w.recv.chain
               d == s.root
    <3>4. /\ Append(c, x) = Append(d, y) /\ x \in SUBSET RatchetKeys /\ y \in SUBSET RatchetKeys
          /\ c \in Chains /\ d \in Chains
      BY <3>1, <3>3
    <3> HIDE DEF x, y, c, d
    <3>5. c = d
      BY <3>4, AppendOnce
    <3> QED BY <3>5 DEF c, d
  <2>2. Current(w, m) /\ m.n >= w.recv.n
    BY <1>1, <1>3, <2>1 DEF Ahead, Current
  <2>3. Ahead(w, t)
    BY <1>1, <1>3 DEF Ahead, Writes
  <2> QED BY <2>2, <2>3 DEF Awaits, CanRead
<1> QED BY <1>2, <1>3

-----------------------------------------------------------------------------
LEMMA GoodLives ==
  ASSUME SigInv, AgreeInv, NEW p \in Parties, NEW s \in Lives[p], s.root[1] \notin forked
  PROVE  Good(s) /\ s # Zeroed /\ s.root[1] \in Secrets
BY LivesOK DEF AgreeInv, LinkedAll, Good, SessionOK

LEMMA WrittenSent == ASSUME SigInv, NEW m \in sent PROVE Written(m)
BY SentOK DEF Written, MessageOK

\* Steps that leave the sessions, the messages and what was read alone.
LEMMA QuietAgree ==
  ASSUME AgreeInv, UNCHANGED <<recVars, sent, reads, answered, forked, unreadable>>
  PROVE  AgreeInv'
<1>1. Lives' = Lives /\ Singles' = Singles
  BY DEF recVars, Lives, Singles
<1> QED BY <1>1 DEF AgreeInv, ReadableWithSession

LEMMA AgreeInitInv == SigInit => AgreeInv
<1> SUFFICES ASSUME SigInit PROVE AgreeInv
  OBVIOUS
<1>1. sent = {} /\ unreadable = {} /\ forked = {} /\ \A p \in Parties : active[p] = Zeroed /\ previous[p] = <<>>
  BY DEF SigInit, Zeroed
<1>2. ASSUME NEW p \in Parties
      PROVE  Lives[p] = {} /\ \A x \in Secrets : x \in Singles[p]
  <2>1. \A i \in Slots(previous[p]) : SessionAt(active[p], previous[p], i) = Zeroed
    BY <1>1 DEF Slots, SessionAt
  <2>2. LiveIn(active[p], previous[p]) = {}
    BY <2>1 DEF LiveIn
  <2>3. \A x \in Secrets : Single(active[p], previous[p], x)
    BY <2>1 DEF Single, IsOf
  <2> QED BY <2>2, <2>3 DEF Lives, Singles
<1>3. UniqueSessions(Singles, forked) /\ LinkedAll(Lives, forked) /\ Paired(Lives, forked)
  BY <1>2 DEF UniqueSessions, LinkedAll, Paired
<1>4. /\ FirstChains(Lives, sent, answered, forked) /\ WroteAll(Lives, sent, forked)
      /\ AwaitsAll(Lives, sent, reads, forked) /\ OrderAll(sent, forked) /\ ReadableWithSession
  BY <1>1, <1>2 DEF FirstChains, WroteAll, AwaitsAll, OrderAll, ReadableWithSession
<1> QED BY <1>3, <1>4 DEF AgreeInv

LEMMA InitiatorAgree ==
  ASSUME SigInv, AgreeInv, NEW p \in Parties, CreateInitiatorSession(p)
  PROVE  AgreeInv'
<1> DEFINE o == unclaimed[Peer(p)]
           S == Secret(NextKey(p), o)
           s == InitiatorSession(p, S)
<1>1. UNCHANGED <<sent, reads, answered, forked, unreadable>>
  BY DEF CreateInitiatorSession
<1>2. o \in Nat /\ S \in Secrets /\ S.eph = NextKey(p) /\ S.eph.by = p /\ Peer(p) \in Parties
  BY NextKeys, PeerOf DEF SigInv, SigShape
<1>3. /\ s.root = <<S>> /\ s.root[1] = S /\ Len(s.root) = 1 /\ s.send.chain = <<S>>
      /\ s.recv = NoChain /\ s.mine = S.eph /\ s.theirs.n = 0 /\ s.skipped = {}
      /\ s \in SessionRecords
  <2>1. s = [root |-> <<S>>, send |-> [chain |-> <<S>>, n |-> 0], recv |-> NoChain,
             mine |-> S.eph, theirs |-> SignedPreKey(Peer(p)), pn |-> 0, skipped |-> {},
             est |-> FALSE]
    BY NewInitiator
  <2>2. SignedPreKey(Peer(p)).n = 0 /\ SignedPreKey(Peer(p)) \in RatchetKeys /\ S.eph \in RatchetKeys
    BY <1>2 DEF SignedPreKey, RatchetKey, RatchetKeys, Secrets
  <2>3. <<S>> \in Chains /\ Len(<<S>>) = 1 /\ <<S>>[1] = S
    <3> HIDE DEF S
    <3> QED BY <1>2 DEF Chains
  <2>4. NoChain \in ChainStates /\ [chain |-> <<S>>, n |-> 0] \in ChainStates
    BY <2>3, NoSessionType DEF ChainStates
  <2> HIDE DEF s, S
  <2> QED BY <2>1, <2>2, <2>3, <2>4 DEF SessionRecords
<1>4. PICK new \in Nat : /\ Record(p, new, {})
                         /\ new \in Slots(previous'[p]) => SessionAt(active'[p], previous'[p], new) = s
  BY <1>3, InitiatorRecord DEF SigInv
<1>5. Others(p)
  BY <1>3, InitiatorRecord DEF SigInv
<1> HIDE DEF s, S, o
<1>6. /\ \A q \in Parties \ {p} : Lives'[q] = Lives[q] /\ Singles'[q] = Singles[q]
      /\ Lives'[p] \subseteq Lives[p] \cup {s}
      /\ \A x \in Secrets : S # x /\ x \in Singles[p] => x \in Singles'[p]
      /\ (\A y \in Lives[p] : y.root[1] # S) => S \in Singles'[p]
  BY <1>2, <1>3, <1>4, <1>5, RecordLives
<1>7. /\ \A q \in Parties : \A y \in Lives[q] : y.root[1] # S
      /\ \A m \in sent : SecretOf(m) # S
  <2>1. \A q \in Parties : ~Uses(Lives, sent, q, S)
    BY <1>2, UsesMade
  <2> QED BY <2>1, SentOK DEF Uses
<1>8. \A q \in Parties : \A y \in Lives'[q] : y \in Lives[q] \/ (q = p /\ y = s)
  BY <1>6
<1>9. UniqueSessions(Singles', forked')
  BY <1>1, <1>6, <1>7 DEF AgreeInv, UniqueSessions
<1>10. FirstChains(Lives', sent', answered', forked')
  <2>1. FirstChains(Lives, sent, answered, forked)
    BY DEF AgreeInv
  <2>2. \A q \in Parties : \A y \in Lives'[q] :
          y.root[1] \in answered \/ (y.root[1].eph.by = q /\ Len(y.root) = 1)
    <3>1. s.root[1].eph.by = p /\ Len(s.root) = 1
      BY <1>2, <1>3
    <3> QED BY <1>8, <2>1, <3>1 DEF FirstChains
  <2> QED BY <1>1, <2>1, <2>2 DEF FirstChains
<1>11. LinkedAll(Lives', forked')
  BY <1>1, <1>3, <1>8 DEF AgreeInv, LinkedAll, Linked
<1>12. Paired(Lives', forked')
  BY <1>1, <1>3, <1>7, <1>8, PeerOf DEF AgreeInv, Paired
<1>13. WroteAll(Lives', sent', forked')
  BY <1>1, <1>3, <1>7, <1>8 DEF AgreeInv, WroteAll
<1>14. AwaitsAll(Lives', sent', reads', forked')
  BY <1>1, <1>3, <1>7, <1>8 DEF AgreeInv, AwaitsAll
<1>15. OrderAll(sent', forked') /\ ReadableWithSession'
  BY <1>1 DEF AgreeInv, ReadableWithSession
<1> QED BY <1>9, <1>10, <1>11, <1>12, <1>13, <1>14, <1>15 DEF AgreeInv

-----------------------------------------------------------------------------
LEMMA ResponderAgree ==
  ASSUME SigInv, AgreeInv, NEW m \in sent, CreateResponderSession(m),
         m.otp \in otpPrivate[Peer(m.from)] \cup {0}
  PROVE  AgreeInv'
<1> DEFINE p == Peer(m.from)
           S == Secret(m.rk, m.otp)
           k == NextKey(p)
           s == ResponderSession(S, k)
<1>1. /\ answered' = answered \cup {S} /\ forked' = forked \cup (answered \cap {S})
      /\ UNCHANGED <<sent, reads, unreadable>>
  BY DEF CreateResponderSession
<1>2. /\ p \in Parties /\ m.from \in Parties /\ m.from # p /\ Peer(p) = m.from
      /\ S \in Secrets /\ S.eph = m.rk /\ S.eph.by = m.from
      /\ k \in RatchetKeys /\ k.n > 0
  <2>1. k.n = ratchets[p] + 1 /\ ratchets[p] \in Nat
    BY SentOK, NextKeys DEF SigInv, SigShape
  <2> HIDE DEF k
  <2>2. k.n > 0
    BY <2>1
  <2> QED BY <2>2, SentOK, NextKeys DEF SigInv, k
<1>3. Record(p, 0, {}) /\ Others(p) /\ active'[p] = s
  BY ResponderRecord DEF SigInv
<1>4. /\ s.root = Append(<<S>>, {k, S.eph}) /\ s.root[1] = S /\ s.send.chain = s.root
      /\ s.recv = [chain |-> <<S>>, n |-> 0] /\ s.mine = k /\ s.theirs = S.eph /\ s.skipped = {}
      /\ Len(s.root) = 2
  <2> DEFINE link == {k, S.eph}
             root == <<S, link>>
  <2>1. s = [root |-> root, send |-> [chain |-> root, n |-> 0],
             recv |-> [chain |-> <<S>>, n |-> 0],
             mine |-> k, theirs |-> S.eph, pn |-> 0, skipped |-> {}, est |-> FALSE]
    BY NewResponder
  <2> HIDE DEF S, k, link, s
  <2>2. root[1] = S /\ Len(root) = 2 /\ root = Append(<<S>>, link)
    OBVIOUS
  <2> HIDE DEF root
  <2> QED BY <2>1, <2>2 DEF link
<1> HIDE DEF s, S, k
<1>5. /\ \A q \in Parties \ {p} : Lives'[q] = Lives[q] /\ Singles'[q] = Singles[q]
      /\ Lives'[p] \subseteq Lives[p] \cup {s}
      /\ \A x \in Secrets : S # x /\ x \in Singles[p] => x \in Singles'[p]
      /\ (\A y \in Lives[p] : y.root[1] # S) => S \in Singles'[p]
  <2>1. SessionAt(active'[p], previous'[p], 0) = s
    BY <1>3 DEF SessionAt
  <2> QED BY <1>2, <1>3, <1>4, <2>1, RecordLives
<1>6. \A q \in Parties : \A y \in Lives'[q] : y \in Lives[q] \/ (q = p /\ y = s)
  BY <1>5
\* While no session of S was made before, the initiator has read nothing.
<1>7. ASSUME S \notin forked'
      PROVE  /\ \A y \in Lives[p] : y.root[1] # S
             /\ \A y \in Lives[m.from] : y.root[1] = S =>
                   y.root = <<S>> /\ y.mine = S.eph /\ y.theirs.n = 0
             /\ \A m2 \in sent : SecretOf(m2) = S =>
                   m2.from = m.from /\ m2.chain = <<S>> /\ m2.rk = S.eph
  <2>1. S \notin answered /\ S \notin forked
    BY <1>1, <1>7
  <2>2. \A q \in Parties : \A y \in Lives[q] : y.root[1] = S => q = m.from /\ Len(y.root) = 1
    BY <1>2, <2>1 DEF AgreeInv, FirstChains
  <2>3. \A m2 \in sent : SecretOf(m2) = S => m2.from = m.from /\ Len(m2.chain) = 1 /\ m2.rk = S.eph
    BY <1>2, <2>1 DEF AgreeInv, FirstChains
  <2>4. ASSUME NEW c \in Chains, Len(c) = 1, c[1] = S PROVE c = <<S>>
    BY <2>4 DEF Chains
  <2>5. ASSUME NEW y \in Lives[m.from], y.root[1] = S
        PROVE  y.root = <<S>> /\ y.mine = S.eph /\ y.theirs.n = 0
    <3>1. Good(y) /\ Len(y.root) = 1 /\ y.root \in Chains
      BY <1>2, <2>1, <2>2, <2>5, GoodLives DEF Good, SessionRecords
    <3> QED BY <2>4, <2>5, <3>1 DEF Good, Linked
  <2>6. ASSUME NEW m2 \in sent, SecretOf(m2) = S PROVE m2.chain = <<S>>
    BY <2>3, <2>4, <2>6, SentOK DEF SecretOf, Messages
  <2> QED BY <1>2, <2>2, <2>3, <2>5, <2>6
<1>8. UniqueSessions(Singles', forked')
  <2>1. UniqueSessions(Singles, forked)
    BY DEF AgreeInv
  <2> SUFFICES ASSUME NEW q \in Parties, NEW x \in Secrets \ forked' PROVE x \in Singles'[q]
    BY DEF UniqueSessions
  <2>2. x \in Singles[q]
    BY <1>1, <2>1 DEF UniqueSessions
  <2> QED BY <1>5, <1>7, <2>2
<1>9. FirstChains(Lives', sent', answered', forked')
  BY <1>1, <1>4, <1>6 DEF AgreeInv, FirstChains
<1>10. LinkedAll(Lives', forked')
  <2>1. Linked(s)
    BY <1>4 DEF Linked
  <2> QED BY <1>1, <1>6, <2>1 DEF AgreeInv, LinkedAll
<1>11. Paired(Lives', forked')
  <2>1. Paired(Lives, forked)
    BY DEF AgreeInv
  <2>2. ASSUME NEW y \in Lives[m.from], y.root[1] = S, S \notin forked' PROVE Ahead(s, y)
    <3>1. y.root = <<S>> /\ y.mine = S.eph /\ y.theirs.n = 0 /\ y.send.n \in Nat
      <4>1. Good(y)
        BY <1>1, <1>2, <2>2, GoodLives
      <4> QED BY <1>7, <2>2, <4>1 DEF Good, SessionRecords, ChainStates
    <3>2. s.recv.n = 0 /\ s.mine.n > 0
      BY <1>2, <1>4
    <3> QED BY <1>4, <3>1, <3>2 DEF Ahead
  <2> SUFFICES ASSUME NEW q \in Parties, NEW y \in Lives'[q], NEW z \in Lives'[Peer(q)],
                      y.root[1] = z.root[1], y.root[1] \notin forked'
               PROVE  Ahead(y, z) \/ Ahead(z, y)
    BY DEF Paired
  <2>3. CASE y \in Lives[q] /\ z \in Lives[Peer(q)]
    BY <1>1, <2>1, <2>3 DEF Paired
  <2>4. CASE q = p /\ y = s
    BY <1>2, <1>4, <1>5, <2>2, <2>4
  <2>5. CASE Peer(q) = p /\ z = s
    <3>1. q = m.from /\ q # p
      BY <1>2, <2>5, PeerOf
    <3> QED BY <1>2, <1>4, <1>5, <2>2, <2>5, <3>1
  <2> QED BY <1>6, <2>3, <2>4, <2>5, PeerOf
<1>12. WroteAll(Lives', sent', forked')
  <2>1. WroteAll(Lives, sent, forked)
    BY DEF AgreeInv
  <2> QED BY <1>1, <1>2, <1>4, <1>6, <1>7, <2>1 DEF WroteAll
<1>13. AwaitsAll(Lives', sent', reads', forked')
  <2>1. AwaitsAll(Lives, sent, reads, forked)
    BY DEF AgreeInv
  <2>2. ASSUME NEW m2 \in sent, SecretOf(m2) = S, S \notin forked'
        PROVE  Awaits(s, m2) /\ CanRead(s, m2)
    <3>1. Current(s, m2)
      BY <1>4, <1>7, <2>2 DEF Current
    <3>2. m2.n \in Nat /\ s.recv.n = 0
      BY <1>4, SentOK DEF Messages
    <3> QED BY <3>1, <3>2 DEF Awaits, CanRead
  <2> QED BY <1>1, <1>4, <1>6, <2>1, <2>2 DEF AwaitsAll
<1>14. OrderAll(sent', forked') /\ ReadableWithSession'
  BY <1>1 DEF AgreeInv, OrderAll, ReadableWithSession
<1> QED BY <1>8, <1>9, <1>10, <1>11, <1>12, <1>13, <1>14 DEF AgreeInv

-----------------------------------------------------------------------------
LEMMA EncryptAgree ==
  ASSUME SigInv, AgreeInv, NEW p \in Parties, EncryptMessage(p)
  PROVE  AgreeInv'
<1> DEFINE s == active[p]
           t == [s EXCEPT !.send.n = @ + 1]
           m == [from |-> p, chain |-> s.send.chain, n |-> s.send.n, rk |-> s.mine, pn |-> s.pn,
                 prekey |-> composing[p].pc = "prekey", otp |-> composing[p].otp]
           S == s.root[1]
<1>1. /\ sent' = sent \cup {m} /\ reads' = [x \in sent' |-> IF x \in sent THEN reads[x] ELSE 0]
      /\ UNCHANGED <<answered, forked, unreadable>>
  BY DEF EncryptMessage
<1>2. /\ Record(p, 0, {0}) /\ Others(p) /\ active'[p] = t
      /\ s # NoSession /\ s \in SessionRecords
  BY EncryptRecord DEF SigInv, RecordsInv, EncryptMessage, SigShape
<1>3. Session(p, 0) = s /\ 0 \in Slots(previous[p]) /\ 0 \in Slots(previous'[p])
      /\ SessionAt(active'[p], previous'[p], 0) = t
  BY <1>2, EncryptRecord DEF Session, SessionAt, Slots, SigInv, SigShape, RecordOK
<1>4. Writes(s, t, m) /\ t.root[1] = S
  BY <1>2 DEF SessionRecords, ChainStates, Writes
<1>5. SessionOK(p, s, ratchets) /\ S \in Secrets
  <2>1. SessionAt(active[p], previous[p], 0) = s /\ s # Zeroed
    BY <1>2 DEF SessionAt, Zeroed
  <2>2. SessionOK(p, s, ratchets)
    BY <1>3, <2>1 DEF SigInv, SessionsInv
  <2> QED BY <2>2 DEF SessionOK, Shaped
<1>6. m.from = p /\ SecretOf(m) = S /\ Written(m)
  <2>1. m \in Messages
    BY <1>5 DEF SessionOK, SessionRecords, ChainStates, Messages, SigInv, SigShape
  <2> QED BY <1>5, <2>1 DEF SecretOf, SessionOK, Shaped, Begins, Written
<1>7. s # Zeroed
  BY <1>2 DEF Zeroed
<1> HIDE DEF s, t, m, S
<1>8. /\ \A q \in Parties \ {p} : Lives'[q] = Lives[q] /\ Singles'[q] = Singles[q]
      /\ Lives'[p] \subseteq Lives[p] \cup {t} /\ s \in Lives[p]
      /\ \A x \in Secrets : x \in Singles[p] => x \in Singles'[p]
      /\ S \in Singles[p] => \A y \in Lives'[p] : y.root[1] = S => y = t
  <2>1. /\ \A q \in Parties \ {p} : Lives'[q] = Lives[q] /\ Singles'[q] = Singles[q]
        /\ Lives'[p] \subseteq Lives[p] \cup {t}
    BY <1>2, <1>3, RecordLives
  <2>2. t.root[1] = Session(p, 0).root[1] /\ Session(p, 0) # Zeroed /\ t.root[1] \in Secrets
    BY <1>3, <1>4, <1>5, <1>7 DEF S
  <2>3. /\ s \in Lives[p] /\ \A x \in Secrets : x \in Singles[p] => x \in Singles'[p]
        /\ S \in Singles[p] => \A y \in Lives'[p] : y.root[1] = S => y = t
    BY <1>2, <1>3, <1>4, <2>2, RecordChanged
  <2> QED BY <2>1, <2>3
<1>9. \A q \in Parties : \A y \in Lives'[q] : y \in Lives[q] \/ (q = p /\ y = t)
  BY <1>8
<1>10. (S \notin forked => Good(s)) /\ Peer(p) \in Parties /\ Peer(p) # p /\ Peer(Peer(p)) = p
  BY <1>8, GoodLives, PeerOf DEF S
\* Of a secret that is not forked, s was the only session, and now t is.
<1>11. S \notin forked => \A y \in Lives'[p] : y.root[1] = S => y = t
  BY <1>5, <1>8 DEF AgreeInv, UniqueSessions
<1>12. UniqueSessions(Singles', forked')
  BY <1>1, <1>8 DEF AgreeInv, UniqueSessions
<1>13. FirstChains(Lives', sent', answered', forked')
  <2>1. FirstChains(Lives, sent, answered, forked)
    BY DEF AgreeInv
  <2>2. t.root = s.root
    BY <1>4 DEF Writes
  <2>3. S \in answered \/ (S.eph.by = p /\ Len(s.root) = 1)
    BY <1>8, <2>1 DEF FirstChains, S
  <2>4. S \in answered \/ (Len(m.chain) = 1 /\ m.rk = S.eph)
    <3>1. S \notin answered => Linked(s)
      BY <1>10, <2>1 DEF FirstChains, Good
    <3> QED BY <1>4, <2>3, <3>1 DEF Writes, Linked, S
  <2>5. \A q \in Parties : \A y \in Lives'[q] :
          y.root[1] \in answered \/ (y.root[1].eph.by = q /\ Len(y.root) = 1)
    BY <1>4, <1>9, <2>1, <2>2, <2>3 DEF FirstChains
  <2> QED BY <1>1, <1>6, <2>1, <2>3, <2>4, <2>5 DEF FirstChains
<1>14. LinkedAll(Lives', forked')
  <2>1. S \notin forked => Linked(t)
    BY <1>4, <1>10, LinkedWrites
  <2> QED BY <1>1, <1>4, <1>9, <2>1 DEF AgreeInv, LinkedAll
<1>15. ASSUME NEW w \in Lives[Peer(p)], w.root[1] = S, S \notin forked
       PROVE  /\ Awaits(w, m) /\ CanRead(w, m)
              /\ Ahead(t, w) \/ Ahead(w, t)
  <2>1. Ahead(s, w) \/ Ahead(w, s)
    BY <1>8, <1>15 DEF AgreeInv, Paired, S
  <2>2. Good(w)
    BY <1>10, <1>15, GoodLives
  <2> QED BY <1>4, <1>6, <1>10, <1>15, <2>1, <2>2, AwaitsWrites
<1>16. Paired(Lives', forked')
  <2>1. Paired(Lives, forked)
    BY DEF AgreeInv
  <2> SUFFICES ASSUME NEW q \in Parties, NEW y \in Lives'[q], NEW z \in Lives'[Peer(q)],
                      y.root[1] = z.root[1], y.root[1] \notin forked
               PROVE  Ahead(y, z) \/ Ahead(z, y)
    BY <1>1 DEF Paired
  <2>2. CASE q = p /\ y = t
    BY <1>4, <1>8, <1>10, <1>15, <2>2
  <2>3. CASE Peer(q) = p /\ z = t
    <3>1. q = Peer(p) /\ q # p
      BY <1>10, <2>3, PeerOf
    <3> QED BY <1>4, <1>8, <1>15, <2>3, <3>1
  <2>4. CASE y \in Lives[q] /\ z \in Lives[Peer(q)]
    BY <2>1, <2>4 DEF Paired
  <2> QED BY <1>9, <2>2, <2>3, <2>4, PeerOf
<1>17. ASSUME NEW m2 \in sent, m2.from = p, SecretOf(m2) = S, S \notin forked
       PROVE  Wrote(t, m2) /\ InOrder(m, m2) /\ InOrder(m2, m)
  <2>1. Wrote(s, m2)
    BY <1>8, <1>17 DEF AgreeInv, WroteAll, S
  <2> QED BY <1>4, <1>6, <1>10, <1>17, <2>1, WrittenSent, WroteWrites
<1>18. ASSUME S \notin forked PROVE Wrote(t, m) /\ InOrder(m, m)
  <2>1. Wrote(t, m)
    BY <1>4, <1>6, <1>10, <1>18, WroteWrites
  <2>2. Len(m.chain) \in Nat
    BY <1>6, <1>10, <1>18, Lengths
  <2> QED BY <2>1, <2>2 DEF InOrder
<1>19. WroteAll(Lives', sent', forked')
  <2>1. WroteAll(Lives, sent, forked)
    BY DEF AgreeInv
  <2> SUFFICES ASSUME NEW q \in Parties, NEW y \in Lives'[q], NEW m2 \in sent',
                      m2.from = q, SecretOf(m2) = y.root[1], y.root[1] \notin forked
               PROVE  Wrote(y, m2)
    BY <1>1 DEF WroteAll
  <2>2. CASE q = p /\ y = t
    BY <1>1, <1>4, <1>17, <1>18, <2>2
  <2>3. CASE y \in Lives[q] /\ m2 \in sent
    BY <2>1, <2>3 DEF WroteAll
  <2>4. CASE y \in Lives[q] /\ m2 = m
    BY <1>6, <1>11, <1>18, <2>4
  <2> QED BY <1>1, <1>9, <2>2, <2>3, <2>4
<1>20. AwaitsAll(Lives', sent', reads', forked')
  <2>1. AwaitsAll(Lives, sent, reads, forked)
    BY DEF AgreeInv
  <2> SUFFICES ASSUME NEW q \in Parties, NEW y \in Lives'[q], NEW m2 \in sent',
                      m2.from = Peer(q), SecretOf(m2) = y.root[1], y.root[1] \notin forked
               PROVE  Awaits(y, m2) /\ (reads'[m2] = 0 => CanRead(y, m2))
    BY <1>1 DEF AwaitsAll
  <2>2. CASE m2 \in sent
    <3>1. reads'[m2] = reads[m2]
      BY <1>1, <2>2
    <3>2. CASE y \in Lives[q]
      BY <2>1, <2>2, <3>1, <3>2 DEF AwaitsAll
    <3>3. CASE q = p /\ y = t
      <4>1. Awaits(s, m2) /\ (reads[m2] = 0 => CanRead(s, m2))
        BY <1>4, <1>8, <2>1, <2>2, <3>3 DEF AwaitsAll, S
      <4> QED BY <1>4, <3>1, <3>3, <4>1
              DEF Writes, Awaits, CanRead, Coming, Current, Older
    <3> QED BY <1>9, <3>2, <3>3
  <2>3. CASE m2 = m
    <3>1. q = Peer(p) /\ y \in Lives[q]
      BY <1>6, <1>8, <1>10, <2>3, PeerOf
    <3> QED BY <1>6, <1>15, <2>3, <3>1
  <2> QED BY <1>1, <2>2, <2>3
<1>21. OrderAll(sent', forked')
  <2>1. OrderAll(sent, forked)
    BY DEF AgreeInv
  <2> QED BY <1>1, <1>6, <1>17, <1>18, <2>1 DEF OrderAll
<1>22. ReadableWithSession'
  BY <1>1 DEF AgreeInv, ReadableWithSession
<1> QED BY <1>12, <1>13, <1>14, <1>16, <1>19, <1>20, <1>21, <1>22 DEF AgreeInv

-----------------------------------------------------------------------------
LEMMA DecryptAgree ==
  ASSUME SigInv, AgreeInv, NEW m \in sent, DecryptMessage(m),
         DecryptActive(m) \/ DecryptPrevious(m)
  PROVE  AgreeInv'
<1> DEFINE p == Peer(m.from)
           k == NextKey(p)
           S == SecretOf(m)
<1>1. UNCHANGED <<sent, answered, forked>>
  BY DEF DecryptMessage
<1>2. /\ p \in Parties /\ m.from \in Parties /\ m.from # p /\ Peer(p) = m.from /\ S \in Secrets
      /\ Written(m) /\ m \in Messages /\ Len(m.chain) > 0
      /\ k \in RatchetKeys /\ k.n = ratchets[p] + 1 /\ ratchets[p] \in Nat
  <2>1. k \in RatchetKeys /\ k.n = ratchets[p] + 1 /\ ratchets[p] \in Nat
    BY SentOK, NextKeys DEF SigInv, SigShape
  <2> HIDE DEF k
  <2> QED BY <2>1, SentOK, WrittenSent DEF MessageOK
<1>3. PICK i \in Slots(previous[p]) : \E s \in RatchetDecrypt(Session(p, i), m, k) :
         Establish(p, m, s) /\ Record(p, 0, {i}) /\ active'[p] = [s EXCEPT !.est = TRUE]
  BY DecryptRecord DEF SigInv
<1>4. PICK t \in RatchetDecrypt(Session(p, i), m, k) :
         Establish(p, m, t) /\ Record(p, 0, {i}) /\ active'[p] = [t EXCEPT !.est = TRUE]
  BY <1>3
<1>5. Others(p) /\ RecordOK(p)
  BY DecryptRecord DEF SigInv
<1> DEFINE s == Session(p, i)
           x == [t EXCEPT !.est = TRUE]
<1>6. s \in SessionRecords /\ (s # Zeroed => Shaped(s))
  <2>1. s # Zeroed => SessionOK(p, s, ratchets)
    BY <1>2 DEF SigInv, SessionsInv, Session
  <2> QED BY <2>1, NoSessionType DEF SessionOK, Zeroed
<1>7. /\ s # Zeroed /\ s.root[1] = S /\ t.root[1] = S /\ t \in SessionRecords
      /\ Takes(s, t, m, k)
  <2> HIDE DEF s, k, S
  <2>1. t \in RatchetDecrypt(s, m, k)
    BY <1>4 DEF s
  <2> QED BY <1>2, <1>6, <2>1, Decrypting, Taking DEF S, Advanced
\* What the invariant says of a session does not depend on est.
<1>8. /\ x.root = t.root /\ x.send = t.send /\ x.recv = t.recv /\ x.mine = t.mine
      /\ x.theirs = t.theirs /\ x.pn = t.pn /\ x.skipped = t.skipped
  BY <1>7 DEF SessionRecords
<1>9. reads' = [reads EXCEPT ![m] = @ + 1] /\ unreadable' = unreadable
  BY <1>4 DEF Establish
<1> HIDE DEF s, x, S, k
<1>10. Takes(s, x, m, k) /\ x.root[1] = S
  BY <1>7, <1>8 DEF Takes, TakesStored, TakesCurrent, TakesComing, SamePlace
<1>11. /\ \A q \in Parties \ {p} : Lives'[q] = Lives[q] /\ Singles'[q] = Singles[q]
       /\ Lives'[p] \subseteq Lives[p] \cup {x} /\ s \in Lives[p]
       /\ \A y \in Secrets : y \in Singles[p] => y \in Singles'[p]
       /\ S \in Singles[p] => \A y \in Lives'[p] : y.root[1] = S => y = x
  <2>1. 0 \in Slots(previous'[p]) /\ SessionAt(active'[p], previous'[p], 0) = x
    BY <1>4, <1>5 DEF Slots, SessionAt, x, RecordOK
  <2>2. Session(p, i) # Zeroed /\ x.root[1] = Session(p, i).root[1] /\ x.root[1] \in Secrets
    BY <1>2, <1>7, <1>10 DEF s
  <2>3. /\ \A q \in Parties \ {p} : Lives'[q] = Lives[q] /\ Singles'[q] = Singles[q]
        /\ Lives'[p] \subseteq Lives[p] \cup {x}
    BY <1>2, <1>4, <1>5, <2>1, RecordLives
  <2>4. /\ \A y \in Secrets : y \in Singles[p] => y \in Singles'[p]
        /\ x.root[1] \in Singles[p] => \A y \in Lives'[p] : y.root[1] = x.root[1] => y = x
        /\ Session(p, i) \in Lives[p]
    BY <1>2, <1>4, <1>5, <2>1, <2>2, RecordChanged
  <2> QED BY <1>10, <2>3, <2>4 DEF s
<1>12. \A q \in Parties : \A y \in Lives'[q] : y \in Lives[q] \/ (q = p /\ y = x)
  BY <1>11
<1>13. S \notin forked => \A y \in Lives'[p] : y.root[1] = S => y = x
  BY <1>2, <1>11 DEF AgreeInv, UniqueSessions
<1>14. S \notin forked => Good(s) /\ Awaits(s, m)
  BY <1>2, <1>7, <1>11, GoodLives DEF AgreeInv, AwaitsAll, S
<1>15. UniqueSessions(Singles', forked')
  BY <1>1, <1>11 DEF AgreeInv, UniqueSessions
<1>16. FirstChains(Lives', sent', answered', forked')
  <2>1. FirstChains(Lives, sent, answered, forked)
    BY DEF AgreeInv
\* It was written by the one, and the session is of the other.
  <2>2. S \in answered
    BY <1>2, <1>7, <1>11, <2>1 DEF FirstChains, S
  <2> QED BY <1>1, <1>10, <1>12, <2>1, <2>2 DEF FirstChains
<1>17. LinkedAll(Lives', forked')
  <2>1. S \notin forked => Linked(x)
    BY <1>2, <1>10, <1>14, LinkedTakes
  <2> QED BY <1>1, <1>10, <1>12, <2>1 DEF AgreeInv, LinkedAll
<1>18. Paired(Lives', forked')
  <2>1. Paired(Lives, forked)
    BY DEF AgreeInv
  <2>2. ASSUME NEW w \in Lives[m.from], w.root[1] = S, S \notin forked
        PROVE  Ahead(x, w) \/ Ahead(w, x)
    <3>1. Ahead(s, w) \/ Ahead(w, s)
      BY <1>2, <1>7, <1>11, <2>1, <2>2 DEF Paired
    <3>2. Good(w) /\ Wrote(w, m)
      BY <1>2, <2>2, GoodLives DEF AgreeInv, WroteAll, S
    <3>3. k.n > w.theirs.n
      <4>1. w.theirs.n <= ratchets[p] /\ w.theirs.n \in Nat
        BY <1>2, LivesOK DEF SessionOK, SessionRecords, RatchetKeys
      <4> QED BY <1>2, <4>1
    <3> QED BY <1>2, <1>10, <1>14, <2>2, <3>1, <3>2, <3>3, AheadTakes
  <2> SUFFICES ASSUME NEW q \in Parties, NEW y \in Lives'[q], NEW z \in Lives'[Peer(q)],
                      y.root[1] = z.root[1], y.root[1] \notin forked
               PROVE  Ahead(y, z) \/ Ahead(z, y)
    BY <1>1 DEF Paired
  <2>3. CASE q = p /\ y = x
    BY <1>2, <1>10, <1>11, <2>2, <2>3
  <2>4. CASE Peer(q) = p /\ z = x
    <3>1. q = m.from /\ q # p
      BY <1>2, <2>4, PeerOf
    <3> QED BY <1>2, <1>10, <1>11, <2>2, <2>4, <3>1
  <2>5. CASE y \in Lives[q] /\ z \in Lives[Peer(q)]
    BY <2>1, <2>5 DEF Paired
  <2> QED BY <1>12, <2>3, <2>4, <2>5, PeerOf
<1>19. WroteAll(Lives', sent', forked')
  <2>1. WroteAll(Lives, sent, forked)
    BY DEF AgreeInv
  <2>2. ASSUME NEW m2 \in sent, m2.from = p, SecretOf(m2) = S, S \notin forked
        PROVE  Wrote(x, m2)
    <3>1. Wrote(s, m2)
      BY <1>2, <1>7, <1>11, <2>1, <2>2 DEF WroteAll
    <3> QED BY <1>2, <1>10, <1>14, <2>2, <3>1, WroteTakes, WrittenSent
  <2> QED BY <1>1, <1>10, <1>12, <2>1, <2>2 DEF WroteAll
<1>20. AwaitsAll(Lives', sent', reads', forked')
  <2>1. AwaitsAll(Lives, sent, reads, forked)
    BY DEF AgreeInv
  <2>2. /\ reads'[m] > 0
        /\ \A m2 \in sent : m2 # m => reads'[m2] = reads[m2]
    BY <1>9, SentOK DEF SigInv, SigShape
  <2>3. ASSUME NEW m2 \in sent, m2.from = m.from, SecretOf(m2) = S, S \notin forked
        PROVE  Awaits(x, m2) /\ (reads'[m2] = 0 => CanRead(x, m2))
    <3>1. Awaits(s, m2) /\ (reads[m2] = 0 => CanRead(s, m2))
      BY <1>2, <1>7, <1>11, <2>1, <2>3 DEF AwaitsAll
    <3>2. InOrder(m, m2) /\ InOrder(m2, m)
      BY <2>3 DEF AgreeInv, OrderAll, S
    <3>3. Awaits(x, m2) /\ (m2 # m /\ CanRead(s, m2) => CanRead(x, m2))
      BY <1>2, <1>10, <1>14, <2>3, <3>1, <3>2, AwaitsTakes, WrittenSent
    <3>4. reads'[m2] = 0 => m2 # m /\ reads[m2] = 0
      BY <2>2
    <3> QED BY <3>1, <3>3, <3>4
  <2> SUFFICES ASSUME NEW q \in Parties, NEW y \in Lives'[q], NEW m2 \in sent,
                      m2.from = Peer(q), SecretOf(m2) = y.root[1], y.root[1] \notin forked
               PROVE  Awaits(y, m2) /\ (reads'[m2] = 0 => CanRead(y, m2))
    BY <1>1 DEF AwaitsAll
  <2>4. CASE q = p /\ y = x
    BY <1>2, <1>10, <2>3, <2>4
  <2>5. CASE y \in Lives[q]
    <3>1. Awaits(y, m2) /\ (reads[m2] = 0 => CanRead(y, m2))
      BY <2>1, <2>5 DEF AwaitsAll
    <3>2. reads'[m2] = 0 => reads[m2] = 0
      BY <2>2
    <3> QED BY <3>1, <3>2
  <2> QED BY <1>12, <2>4, <2>5
<1>21. OrderAll(sent', forked') /\ ReadableWithSession'
  BY <1>1, <1>9 DEF AgreeInv, ReadableWithSession
<1> QED BY <1>15, <1>16, <1>17, <1>18, <1>19, <1>20, <1>21 DEF AgreeInv

\* A message that was not read decrypts with the session of its secret.
LEMMA SessionDecrypts ==
  ASSUME SigInv, AgreeInv, NEW m \in sent, reads[m] = 0, SecretOf(m) \notin forked,
         NEW s \in Lives[Peer(m.from)], s.root[1] = SecretOf(m)
  PROVE  RatchetDecrypt(s, m, NextKey(Peer(m.from))) # {}
<1> DEFINE p == Peer(m.from)
<1>1. p \in Parties /\ Peer(p) = m.from /\ Written(m) /\ NextKey(p) \in RatchetKeys
  BY SentOK, WrittenSent, NextKeys DEF SigInv
<1>2. CanRead(s, m)
  BY <1>1 DEF AgreeInv, AwaitsAll
<1>3. Good(s) /\ s # Zeroed
  BY <1>1, GoodLives
<1> QED BY <1>1, <1>2, <1>3, ReadableDecrypts DEF Good, Written

\* A message that was not read and whose session is there does not fail.
LEMMA FailsAgree ==
  ASSUME SigInv, AgreeInv, NEW m \in sent, DecryptMessage(m), DecryptFails(m)
  PROVE  AgreeInv'
<1> DEFINE p == Peer(m.from)
<1>1. /\ unreadable' = IF reads[m] = 0 /\ HasSession(p, SecretOf(m))
                       THEN unreadable \cup {m} ELSE unreadable
      /\ UNCHANGED <<recVars, sent, answered, forked, reads>>
  BY DEF DecryptMessage, DecryptFails
<1>2. Lives' = Lives /\ Singles' = Singles
  BY <1>1 DEF recVars, Lives, Singles
<1>3. p \in Parties /\ Peer(p) = m.from /\ Written(m) /\ NextKey(p) \in RatchetKeys
  BY SentOK, WrittenSent, NextKeys DEF SigInv
<1>4. ASSUME reads[m] = 0, SecretOf(m) \notin forked, HasSession(p, SecretOf(m)) PROVE FALSE
  <2>1. PICK s \in Live(p) : s.root[1] = SecretOf(m)
    BY <1>4 DEF HasSession
  <2>2. s \in Lives[p]
    <3>1. previous[p] \in Seq(SessionRecords)
      BY <1>3 DEF SigInv, SigShape
    <3>2. DOMAIN previous[p] = 1..Len(previous[p]) /\ Len(previous[p]) \in Nat
      BY <3>1
    <3>3. s # Zeroed /\ (s = active[p] \/ \E i \in DOMAIN previous[p] : s = previous[p][i])
      BY DEF Live
    <3>4. \E i \in Slots(previous[p]) : s = SessionAt(active[p], previous[p], i)
      BY <3>2, <3>3 DEF Slots, SessionAt
    <3> QED BY <1>3, <3>3, <3>4 DEF Lives, LiveIn
  <2> QED BY <1>4, <2>1, <2>2, NoneDecrypts, SessionDecrypts
<1>5. ReadableWithSession'
  BY <1>1, <1>4 DEF AgreeInv, ReadableWithSession
<1>6. /\ UniqueSessions(Singles, forked) /\ FirstChains(Lives, sent, answered, forked)
      /\ LinkedAll(Lives, forked) /\ Paired(Lives, forked) /\ WroteAll(Lives, sent, forked)
      /\ AwaitsAll(Lives, sent, reads, forked) /\ OrderAll(sent, forked)
  BY DEF AgreeInv
<1> QED BY <1>1, <1>2, <1>5, <1>6 DEF AgreeInv

LEMMA AgreeStep == SigInv /\ AgreeInv /\ [SigNext]_sigVars => AgreeInv'
<1> SUFFICES ASSUME SigInv, AgreeInv, [SigNext]_sigVars PROVE AgreeInv'
  OBVIOUS
<1>1. ASSUME NEW p \in Parties, ComposeMessage(p) PROVE AgreeInv'
  BY <1>1, QuietAgree DEF ComposeMessage
<1>2. ASSUME NEW p \in Parties, CreateInitiatorSession(p) PROVE AgreeInv'
  BY <1>2, InitiatorAgree
<1>3. ASSUME NEW p \in Parties, EncryptMessage(p) PROVE AgreeInv'
  BY <1>3, EncryptAgree
<1>4. ASSUME NEW p \in Parties, Reopen(p) PROVE AgreeInv'
  BY <1>4, QuietAgree DEF Reopen
<1>5. ASSUME NEW m \in sent, CreateResponderSession(m) PROVE AgreeInv'
  <2>1. CASE m.otp \in otpPrivate[Peer(m.from)] \cup {0}
    BY <1>5, <2>1, ResponderAgree
  <2>2. CASE ~(m.otp \in otpPrivate[Peer(m.from)] \cup {0})
    BY <1>5, <2>2, QuietAgree DEF CreateResponderSession
  <2> QED BY <2>1, <2>2
<1>6. ASSUME NEW m \in sent, DecryptMessage(m) PROVE AgreeInv'
  <2>1. DecryptActive(m) \/ DecryptPrevious(m) \/ DecryptFails(m)
    BY <1>6 DEF DecryptMessage
  <2> QED BY <1>6, <2>1, DecryptAgree, FailsAgree
<1>7. CASE UNCHANGED sigVars
  BY <1>7, QuietAgree DEF sigVars
<1> QED BY <1>1, <1>2, <1>3, <1>4, <1>5, <1>6, <1>7 DEF SigNext

\* The third inductive invariant: of a secret the responder made one session of,
\* the sessions of the two people are one turn of the ratchet apart; every message
\* is of a chain the reader is to turn to, is reading, or has left with the keys of
\* what it had not read; and the next chain tells how long the one before was.
THEOREM AgreeInvariant == SigSpec => []AgreeInv
BY SigInvariant, AgreeInitInv, AgreeStep, PTL DEF SigSpec

\* A message decrypts as long as the receiver has a session of its secret, active
\* or previous, and never made two: in conversations of any length, in whatever
\* order messages come, are lost and come again, whoever started the session.
THEOREM MessagesDecrypt == SigSpec => []ReadableWithSession
BY AgreeInvariant, PTL DEF AgreeInv

-----------------------------------------------------------------------------
(* One starter: no session a message needs falls out of the record.         *)

\* The record of a and q has a session of the secret, with fewer than n previous
\* sessions after it.
Near(a, q, secret, n) ==
  \E i \in Slots(q) : IsOf(a, q, i, secret) /\ (i = 0 \/ Len(q) - i < n)

\* The one-time pre-keys of messages not yet answered, and those to come, are there.
PreKeysLeft(priv, free, comp, msgs, done) ==
  /\ \A p \in Parties :
        /\ 1..free[p] \subseteq priv[p]
        /\ comp[p].pc = "prekey" => comp[p].otp \in priv[Peer(p)] \ {0}
  /\ \A m \in msgs \ done : m.prekey => m.otp \in priv[Peer(m.from)] \ {0}

\* Each session of a responder was made by a message of its own.
AnsweredOnce(made, done, twice) ==
  /\ \A x \in made : \E m \in done : m.prekey /\ x = Secret(m.rk, m.otp)
  /\ twice = {}

\* What was not handled was not read.
ReadHandled(msgs, done, read) == \A m \in msgs \ done : read[m] = 0

\* Nobody has started, ...
NothingStarted ==
  sent = {} /\ \A p \in Parties : active[p] = NoSession /\ composing[p].pc # "prekey"

\* ... or p alone has, and both write with the session of the secret it made
\* first.  The other has it among its last sessions, no further down than there
\* are messages with a session made and not yet decrypted.
StartedBy(p) ==
  LET S == active[p].root[1]
      r == Peer(p)
  IN
  /\ active[p] # NoSession /\ HasStarted(p) /\ ~HasStarted(r)
  /\ S.otp # 0 /\ S.eph.by = p
  /\ \A m \in sent : SecretOf(m) = S
  /\ S \in answered => Near(active[r], previous[r], S, Cardinality(opened))
  /\ S \notin answered =>
        /\ active[r] = NoSession /\ opened = {}
        /\ ~active[p].est /\ composing[p].pc # "encrypt"
        /\ \A m \in sent : m.from = p /\ m.prekey

Undisturbed ==
  /\ IsFiniteSet(opened) /\ \A m \in opened : m.prekey
  /\ PreKeysLeft(otpPrivate, unclaimed, composing, sent, handled \cup opened)
  /\ AnsweredOnce(answered, handled \cup opened, forked)
  /\ ReadHandled(sent, handled, reads) /\ missed = {}

StarterInv ==
  ~strained => Undisturbed /\ (NothingStarted \/ \E p \in Parties : StartedBy(p))

LEMMA CappedLast ==
  ASSUME NEW T, NEW l \in Seq(T), NEW i \in 1..Len(l), Len(l) - i < MaxPrevious
  PROVE  /\ Len(Capped(l)) \in Nat
         /\ i - (Len(l) - Len(Capped(l))) \in 1..Len(Capped(l))
         /\ Capped(l)[i - (Len(l) - Len(Capped(l)))] = l[i]
<1> MaxPrevious \in Nat /\ Len(l) \in Nat
  BY SignalAssumption
<1>1. CASE Len(l) > MaxPrevious
  <2> DEFINE d == Len(l) - MaxPrevious
             t == SubSeq(l, d + 1, Len(l))
  <2>1. d \in Nat /\ d + 1 \in 1..(Len(l) + 1) /\ Capped(l) = t /\ d = Len(l) - MaxPrevious
    BY <1>1 DEF Capped
  <2>2. \A j \in (d + 1)..Len(l) : l[j] \in T
    BY <2>1
  <2> HIDE DEF d
  <2>3. /\ t \in Seq(T) /\ Len(t) = IF d + 1 <= Len(l) THEN Len(l) - (d + 1) + 1 ELSE 0
        /\ \A j \in 1..(Len(l) - (d + 1) + 1) : t[j] = l[d + 1 + j - 1]
    BY <2>1, <2>2, SubSeqProperties
  <2> HIDE DEF t
  <2>4. Len(t) = MaxPrevious /\ Len(l) - Len(t) = d
    BY <2>1, <2>3
  <2>5. i - d \in 1..Len(t) /\ i - d \in 1..(Len(l) - (d + 1) + 1) /\ d + 1 + (i - d) - 1 = i
    BY <2>1, <2>4
  <2>6. t[i - d] = l[i]
    BY <2>3, <2>5
  <2> QED BY <2>1, <2>4, <2>5, <2>6
<1>2. CASE ~(Len(l) > MaxPrevious)
  BY <1>2 DEF Capped
<1> QED BY <1>1, <1>2

\* A session that is pushed down is one place further down, and kept if it has a place.
LEMMA NearPushed ==
  ASSUME NEW T, NEW q \in Seq(T), NEW a \in T, NEW b, NEW secret, NEW n \in Nat,
         n < MaxPrevious, Near(a, q, secret, n)
  PROVE  Near(b, Capped(Append(q, a)), secret, n + 1)
<1> DEFINE l == Append(q, a)
           t == Capped(l)
<1>1. /\ l \in Seq(T) /\ Len(l) = Len(q) + 1 /\ Len(q) \in Nat
      /\ l[Len(q) + 1] = a /\ \A i \in 1..Len(q) : l[i] = q[i]
  OBVIOUS
<1> HIDE DEF l
<1>2. MaxPrevious \in Nat
  BY SignalAssumption
<1>3. PICK i \in Slots(q) : IsOf(a, q, i, secret) /\ (i = 0 \/ Len(q) - i < n)
  BY DEF Near
<1> DEFINE k == IF i = 0 THEN Len(q) + 1 ELSE i
           j == k - (Len(l) - Len(t))
<1>4. /\ k \in 1..Len(l) /\ l[k] = SessionAt(a, q, i) /\ k \in Nat
      /\ Len(l) - k < MaxPrevious /\ Len(l) - k < n + 1
  <2>1. CASE i = 0
    BY <1>1, <1>2, <2>1 DEF SessionAt
  <2>2. CASE i # 0
    <3>1. i \in 1..Len(q) /\ Len(q) - i < n /\ k = i
      BY <1>1, <1>3, <2>2 DEF Slots
    <3>2. SessionAt(a, q, i) = q[i]
      BY <2>2 DEF SessionAt
    <3> HIDE DEF k
    <3> QED BY <1>1, <1>2, <3>1, <3>2
  <2> QED BY <2>1, <2>2
<1> HIDE DEF k
<1>5. Len(t) \in Nat /\ j \in 1..Len(t) /\ t[j] = l[k]
  BY <1>1, <1>4, CappedLast
<1>6. Len(t) - j < n + 1
  <2> HIDE DEF t
  <2> QED BY <1>1, <1>4, <1>5
<1> HIDE DEF t, j
<1>7. j \in Slots(t) /\ SessionAt(b, t, j) = SessionAt(a, q, i)
  BY <1>4, <1>5 DEF Slots, SessionAt
<1>8. Near(b, t, secret, n + 1)
  BY <1>3, <1>6, <1>7 DEF Near, IsOf
<1> QED BY <1>8 DEF t, l

\* The session of the place 0 is the active one.
LEMMA NearActive ==
  ASSUME NEW T, NEW q \in Seq(T), NEW a, NEW secret, NEW n \in Nat
  PROVE  /\ a # Zeroed /\ a.root[1] = secret => Near(a, q, secret, n)
         /\ Near(a, q, secret, 0) => a # Zeroed /\ a.root[1] = secret
BY DEF Near, Slots, SessionAt, IsOf

LEMMA NearLives ==
  ASSUME SigInv, NEW p \in Parties, NEW secret, NEW n \in Nat,
         Near(active[p], previous[p], secret, n)
  PROVE  active[p] # NoSession /\ \E s \in Lives[p] : s.root[1] = secret
<1>1. PICK i \in Slots(previous[p]) : IsOf(active[p], previous[p], i, secret)
  BY DEF Near
<1>2. SessionAt(active[p], previous[p], i) \in Lives[p]
  BY <1>1 DEF Lives, LiveIn, IsOf
<1>3. active[p] # NoSession
  <2>1. active[p] = NoSession => previous[p] = <<>>
    BY DEF SigInv, RecordsInv
  <2>2. previous[p] = <<>> => i = 0
    BY DEF Slots
  <2> QED BY <1>1, <2>1, <2>2 DEF IsOf, SessionAt, Zeroed
<1> QED BY <1>1, <1>2, <1>3 DEF IsOf

-----------------------------------------------------------------------------
LEMMA StarterInit == SigInit => StarterInv
<1> SUFFICES ASSUME SigInit PROVE StarterInv
  OBVIOUS
<1>1. /\ sent = {} /\ opened = {} /\ handled = {} /\ answered = {} /\ forked = {} /\ missed = {}
      /\ otpPrivate = [p \in Parties |-> 1..unclaimed[p]]
      /\ \A p \in Parties : active[p] = NoSession /\ composing[p].pc = "idle"
  BY DEF SigInit, Idle
<1>2. PreKeysLeft(otpPrivate, unclaimed, composing, sent, handled \cup opened)
  BY <1>1 DEF PreKeysLeft
<1>3. Undisturbed
  BY <1>1, <1>2, FS_EmptySet DEF Undisturbed, AnsweredOnce, ReadHandled
<1> QED BY <1>1, <1>3 DEF StarterInv, NothingStarted

\* Steps that leave all alone but who composes a message.
LEMMA QuietStarter ==
  ASSUME StarterInv, UNCHANGED <<recVars, unclaimed, otpPrivate, sent, opened, handled, reads,
                                 answered, forked, missed, strained>>,
         \A p \in Parties :
            /\ composing'[p].pc = "prekey" <=> composing[p].pc = "prekey"
            /\ composing'[p].otp = composing[p].otp
            /\ composing'[p].pc = "encrypt" => composing[p].pc = "encrypt" \/ active[p].est
  PROVE  StarterInv'
<1> SUFFICES ASSUME ~strained PROVE StarterInv'
  BY DEF StarterInv
<1>1. PreKeysLeft(otpPrivate, unclaimed, composing', sent, handled \cup opened)
  BY DEF StarterInv, Undisturbed, PreKeysLeft
<1>2. Undisturbed'
  BY <1>1 DEF StarterInv, Undisturbed
<1>3. ASSUME NothingStarted PROVE NothingStarted'
  BY <1>3 DEF NothingStarted, recVars
<1>4. ASSUME NEW p \in Parties, StartedBy(p) PROVE StartedBy(p)'
  <2>1. Peer(p) \in Parties
    BY PeerOf
  <2>2. HasStarted(p)' /\ ~HasStarted(Peer(p))'
    BY <1>4, <2>1 DEF StartedBy, HasStarted
  <2> QED BY <1>4, <2>2 DEF StartedBy, recVars
<1> QED BY <1>2, <1>3, <1>4 DEF StarterInv

\* CreateInitiatorSession: the first of them makes p the starter; the later ones
\* add previous sessions nobody writes with.
LEMMA StarterInitiator ==
  ASSUME SigInv, OnceInv, StarterInv, NEW p \in Parties, CreateInitiatorSession(p)
  PROVE  StarterInv'
<1> DEFINE r == Peer(p)
           otp == unclaimed[r]
           S == Secret(NextKey(p), otp)
           s == InitiatorSession(p, S)
<1> SUFFICES ASSUME ~strained' PROVE StarterInv'
  BY DEF StarterInv
<1>1. r \in Parties /\ r # p /\ Peer(r) = p /\ otp \in Nat
  BY PeerOf DEF SigInv, SigShape
<1>2. /\ ~strained /\ otp # 0 /\ ~HasStarted(r)
      /\ composing' = [composing EXCEPT ![p] = [pc |-> "prekey", otp |-> otp]]
      /\ unclaimed' = [unclaimed EXCEPT ![r] = IF otp = 0 THEN 0 ELSE otp - 1]
      /\ UNCHANGED <<otpPrivate, sent, opened, handled, reads, answered, forked, missed>>
  BY DEF CreateInitiatorSession
<1>3. /\ composing'[p] = [pc |-> "prekey", otp |-> otp]
      /\ \A q \in Parties \ {p} : composing'[q] = composing[q]
      /\ unclaimed'[r] = otp - 1 /\ \A q \in Parties \ {r} : unclaimed'[q] = unclaimed[q]
  BY <1>1, <1>2 DEF SigInv, SigShape
<1>4. Undisturbed
  BY <1>2 DEF StarterInv
<1>5. PreKeysLeft(otpPrivate, unclaimed', composing', sent, handled \cup opened)
  <2>1. PreKeysLeft(otpPrivate, unclaimed, composing, sent, handled \cup opened)
    BY <1>4 DEF Undisturbed
  <2>2. ASSUME NEW q \in Parties PROVE 1..unclaimed'[q] \subseteq otpPrivate[q]
    BY <1>1, <1>3, <2>1 DEF PreKeysLeft
  <2>3. otp \in 1..unclaimed[r]
    BY <1>1, <1>2
  <2>4. ASSUME NEW q \in Parties, composing'[q].pc = "prekey"
        PROVE  composing'[q].otp \in otpPrivate[Peer(q)] \ {0}
    <3>1. CASE q = p
      BY <1>1, <1>2, <1>3, <2>1, <2>3, <3>1 DEF PreKeysLeft
    <3>2. CASE q # p
      BY <1>3, <2>1, <2>4, <3>2 DEF PreKeysLeft
    <3> QED BY <3>1, <3>2
  <2> QED BY <2>1, <2>2, <2>4 DEF PreKeysLeft
<1>6. Undisturbed'
  BY <1>2, <1>4, <1>5 DEF Undisturbed
<1>7. HasStarted(p)' /\ ~HasStarted(r)'
  BY <1>1, <1>2, <1>3 DEF HasStarted
<1>8. /\ S \in Secrets /\ S.eph = NextKey(p) /\ NextKey(p).by = p /\ S.otp = otp
  BY <1>1, NextKeys DEF SigInv
<1>9. ASSUME NothingStarted PROVE StartedBy(p)'
  <2>1. active[p] = NoSession /\ active[r] = NoSession /\ sent = {}
    BY <1>1, <1>9 DEF NothingStarted
  <2>2. active' = [active EXCEPT ![p] = s]
    BY <2>1 DEF CreateInitiatorSession
  <2>3. s.root = <<S>> /\ ~s.est /\ s.root[1] = S /\ s # NoSession
    <3>1. s.root = <<S>> /\ ~s.est
      <4> HIDE DEF S
      <4> QED BY NewInitiator
    <3> HIDE DEF s, S
    <3>2. NoSession.root = <<>> /\ <<S>> # <<>>
      BY DEF NoSession
    <3> QED BY <3>1, <3>2
  <2> HIDE DEF s, S
  <2>4. active'[p] = s /\ active'[r] = NoSession
    BY <1>1, <2>1, <2>2 DEF SigInv, SigShape
  <2>5. opened = {} /\ handled = {} /\ answered = {}
    <3>1. opened = {} /\ handled = {}
      BY <2>1 DEF SigInv, SigShape
    <3> QED BY <1>4, <3>1 DEF Undisturbed, AnsweredOnce
  <2>6. composing'[p].pc = "prekey"
    BY <1>3
  <2> QED BY <1>2, <1>7, <1>8, <2>1, <2>3, <2>4, <2>5, <2>6 DEF StartedBy
<1>10. ASSUME NEW q \in Parties, StartedBy(q) PROVE StartedBy(q)'
  <2>1. q = p
    <3> SUFFICES ASSUME q # p PROVE FALSE
      OBVIOUS
    <3>1. q = r
      BY TwoParties
    <3> QED BY <1>2, <1>10, <3>1 DEF StartedBy
  <2>2. active' = active /\ previous'[r] = previous[r]
    <3>1. active[p] # NoSession
      BY <1>10, <2>1 DEF StartedBy
    <3> QED BY <1>1, <3>1 DEF CreateInitiatorSession, SigInv, SigShape
  <2>3. composing'[p].pc # "encrypt"
    BY <1>3
  <2> HIDE DEF otp
  <2> QED BY <1>2, <1>7, <1>10, <2>1, <2>2, <2>3 DEF StartedBy
<1> QED BY <1>2, <1>6, <1>9, <1>10 DEF StarterInv

\* EncryptMessage: both write with the session of the starter's first secret, for
\* the other writes only when no session was made since it last decrypted.
LEMMA StarterEncrypt ==
  ASSUME SigInv, StarterInv, NEW q \in Parties, EncryptMessage(q)
  PROVE  StarterInv'
<1> DEFINE s == active[q]
           m == [from |-> q, chain |-> s.send.chain, n |-> s.send.n, rk |-> s.mine, pn |-> s.pn,
                 prekey |-> composing[q].pc = "prekey", otp |-> composing[q].otp]
<1> SUFFICES ASSUME ~strained' PROVE StarterInv'
  BY DEF StarterInv
<1>1. /\ composing[q].pc \in {"encrypt", "prekey"} /\ ~strained
      /\ composing' = [composing EXCEPT ![q] = Idle] /\ active' = [active EXCEPT ![q].send.n = @ + 1]
      /\ sent' = sent \cup {m} /\ reads' = [x \in sent' |-> IF x \in sent THEN reads[x] ELSE 0]
      /\ \A x \in opened : x.from # Peer(q)
      /\ UNCHANGED <<previous, unclaimed, otpPrivate, opened, handled, answered, forked, missed>>
  BY DEF EncryptMessage
<1>2. /\ composing'[q].pc = "idle" /\ \A p \in Parties \ {q} : composing'[p] = composing[p]
      /\ active'[q] = [s EXCEPT !.send.n = @ + 1] /\ \A p \in Parties \ {q} : active'[p] = active[p]
      /\ s \in SessionRecords /\ previous[q] \in Seq(SessionRecords)
  BY <1>1 DEF SigInv, SigShape, Idle
<1>3. s # NoSession /\ s # Zeroed
  BY <1>1 DEF SigInv, RecordsInv, Zeroed
<1>4. /\ active'[q].root = s.root /\ active'[q].est = s.est /\ active'[q] # NoSession
      /\ s.send.chain[1] = s.root[1]
  <2>1. s \in Lives[q]
    <3>1. 0 \in Slots(previous[q]) /\ SessionAt(active[q], previous[q], 0) = s
      BY <1>2 DEF Slots, SessionAt
    <3> HIDE DEF m, s
    <3> QED BY <1>3, <3>1 DEF Lives, LiveIn
  <2>2. Len(s.root) > 0 /\ s.send.chain[1] = s.root[1]
    BY <2>1, LivesOK DEF SessionOK, Shaped, Begins
  <2>3. active'[q].root = s.root /\ active'[q].est = s.est
    BY <1>2 DEF SessionRecords
  <2>4. Len(NoSession.root) = 0
    BY DEF NoSession
  <2> QED BY <2>2, <2>3, <2>4
<1>5. /\ m.from = q /\ SecretOf(m) = s.root[1] /\ m.otp = composing[q].otp
      /\ m.prekey => composing[q].pc = "prekey"
      /\ ~m.prekey => composing[q].pc = "encrypt"
  BY <1>1, <1>4 DEF SecretOf
<1> HIDE DEF m, s
<1>6. Undisturbed
  BY <1>1 DEF StarterInv
<1>7. PreKeysLeft(otpPrivate, unclaimed, composing', sent', handled \cup opened)
  <2>1. PreKeysLeft(otpPrivate, unclaimed, composing, sent, handled \cup opened)
    BY <1>6 DEF Undisturbed
  <2>2. ASSUME NEW p \in Parties, composing'[p].pc = "prekey"
        PROVE  composing'[p].otp \in otpPrivate[Peer(p)] \ {0}
    BY <1>2, <2>1, <2>2 DEF PreKeysLeft
  <2>3. m.prekey => m.otp \in otpPrivate[Peer(m.from)] \ {0}
    BY <1>5, <2>1 DEF PreKeysLeft
  <2> QED BY <1>1, <2>1, <2>2, <2>3 DEF PreKeysLeft
<1>8. ReadHandled(sent', handled, reads')
  BY <1>1, <1>6 DEF Undisturbed, ReadHandled
<1>9. Undisturbed'
  BY <1>1, <1>6, <1>7, <1>8 DEF Undisturbed
<1>10. ~NothingStarted
  BY <1>3 DEF NothingStarted, s
<1>11. PICK a \in Parties : StartedBy(a)
  BY <1>1, <1>10 DEF StarterInv
<1> DEFINE S == active[a].root[1]
           r == Peer(a)
<1>12. /\ r \in Parties /\ r # a /\ Peer(r) = a
       /\ active[a] # NoSession /\ HasStarted(a) /\ ~HasStarted(r)
       /\ S.otp # 0 /\ S.eph.by = a
       /\ \A x \in sent : SecretOf(x) = S
       /\ S \in answered => Near(active[r], previous[r], S, Cardinality(opened))
       /\ S \notin answered =>
            /\ active[r] = NoSession /\ opened = {}
            /\ ~active[a].est /\ composing[a].pc # "encrypt"
            /\ \A x \in sent : x.from = a /\ x.prekey
  BY <1>11, PeerOf DEF StartedBy
<1>13. CASE q = a
  <2>1. active'[a].root[1] = S /\ active'[a].est = active[a].est /\ active'[r] = active[r]
    BY <1>2, <1>4, <1>12, <1>13 DEF s
  <2>2. HasStarted(a)'
    BY <1>1, <1>5, <1>12, <1>13 DEF HasStarted
  <2>3. ~HasStarted(r)'
    BY <1>1, <1>2, <1>5, <1>12, <1>13 DEF HasStarted
  <2>4. SecretOf(m) = S /\ (S \notin answered => m.prekey)
    BY <1>5, <1>12, <1>13 DEF s
  <2>5. composing'[a].pc # "encrypt"
    BY <1>2, <1>13
  <2> HIDE DEF S
  <2>6. StartedBy(a)'
    BY <1>1, <1>4, <1>5, <1>12, <1>13, <2>1, <2>2, <2>3, <2>4, <2>5 DEF StartedBy
  <2> QED BY <1>9, <2>6 DEF StarterInv
<1>14. CASE q = r
  <2>1. opened = {}
    <3>1. \A x \in opened : x \in sent /\ x.prekey
      BY <1>6 DEF Undisturbed, SigInv, SigShape
    <3>2. \A x \in opened : x.from \in Parties /\ x.from # r
      BY <1>12, <3>1, SentOK DEF HasStarted
    <3>3. \A x \in opened : x.from = a
      BY <1>12, <3>2, TwoParties
    <3> QED BY <1>1, <1>12, <1>14, <3>3
  <2>2. S \in answered
    BY <1>3, <1>12, <1>14 DEF s
  <2>3. s.root[1] = S
    <3>1. Near(active[r], previous[r], S, 0)
      BY <1>12, <2>1, <2>2, FS_EmptySet
    <3> QED BY <1>2, <1>14, <3>1, NearActive DEF s
  <2>4. Near(active'[r], previous'[r], S, Cardinality(opened))
    <3>1. active'[r] # Zeroed /\ active'[r].root[1] = S /\ previous'[r] \in Seq(SessionRecords)
      BY <1>1, <1>2, <1>4, <1>14, <2>3 DEF Zeroed
    <3>2. Cardinality(opened) \in Nat
      BY <2>1, FS_EmptySet
    <3> QED BY <3>1, <3>2, NearActive
  <2>5. active'[a] = active[a] /\ composing'[a] = composing[a]
    BY <1>2, <1>12, <1>14
  <2>6. ~m.prekey
    BY <1>5, <1>12, <1>14 DEF HasStarted
  <2>7. HasStarted(a)' /\ ~HasStarted(r)'
    BY <1>1, <1>2, <1>5, <1>12, <1>14, <2>5, <2>6 DEF HasStarted
  <2>8. SecretOf(m) = S
    BY <1>5, <2>3
  <2> HIDE DEF S
  <2>9. active'[a].root[1] = S
    BY <2>5 DEF S
  <2>10. StartedBy(a)'
    BY <1>1, <1>12, <2>2, <2>4, <2>5, <2>7, <2>8, <2>9 DEF StartedBy
  <2> QED BY <1>9, <2>10 DEF StarterInv
<1> QED BY <1>12, <1>13, <1>14, TwoParties

\* CreateResponderSession: the starter's first message makes the session both
\* write with; a later one pushes it down, and there is a place for it.
LEMMA StarterResponder ==
  ASSUME SigInv, OnceInv, AgreeInv, StarterInv, NEW m \in sent, CreateResponderSession(m)
  PROVE  StarterInv'
<1> SUFFICES ASSUME ~strained' PROVE StarterInv'
  BY DEF StarterInv
<1>1. ~strained /\ m \notin handled \cup opened /\ m.prekey
  BY DEF CreateResponderSession
<1>2. Undisturbed
  BY <1>1 DEF StarterInv
<1>3. ~NothingStarted
  BY DEF NothingStarted
<1>4. PICK a \in Parties : StartedBy(a)
  BY <1>1, <1>3 DEF StarterInv
<1> DEFINE S == active[a].root[1]
           r == Peer(a)
           x == Secret(m.rk, m.otp)
           s == ResponderSession(x, NextKey(r))
<1>5. /\ r \in Parties /\ r # a /\ Peer(r) = a
      /\ active[a] # NoSession /\ HasStarted(a) /\ ~HasStarted(r)
      /\ S.otp # 0 /\ S.eph.by = a
      /\ \A y \in sent : SecretOf(y) = S
      /\ S \in answered => Near(active[r], previous[r], S, Cardinality(opened))
      /\ S \notin answered =>
           /\ active[r] = NoSession /\ opened = {}
           /\ ~active[a].est /\ composing[a].pc # "encrypt"
           /\ \A y \in sent : y.from = a /\ y.prekey
  BY <1>4, PeerOf DEF StartedBy
<1>6. m.from = a /\ Peer(m.from) = r
  BY <1>1, <1>5, SentOK, TwoParties DEF HasStarted
<1>7. m.otp \in otpPrivate[r] \ {0}
  BY <1>1, <1>2, <1>6 DEF Undisturbed, PreKeysLeft
<1>8. /\ opened' = opened \cup {m} /\ answered' = answered \cup {x}
      /\ forked' = forked \cup (answered \cap {x})
      /\ active' = [active EXCEPT ![r] = s]
      /\ previous' = IF active[r] = NoSession THEN previous
                     ELSE [previous EXCEPT ![r] = Capped(Append(@, active[r]))]
      /\ m.otp = SecretOf(m).otp \/ SecretOf(m) \in answered
      /\ ~(Cardinality({y \in opened : y.from = m.from}) >= MaxPrevious)
      /\ UNCHANGED <<handled, missed, unclaimed, otpPrivate, composing, sent, reads>>
  BY <1>6, <1>7 DEF CreateResponderSession
<1>9. s.root[1] = x /\ s # Zeroed /\ s # NoSession
  <2> DEFINE link == {NextKey(r), x.eph}
             root == <<x, link>>
  <2>1. s = [root |-> root, send |-> [chain |-> root, n |-> 0],
             recv |-> [chain |-> <<x>>, n |-> 0],
             mine |-> NextKey(r), theirs |-> x.eph, pn |-> 0, skipped |-> {}, est |-> FALSE]
    BY NewResponder
  <2> HIDE DEF s, link, x
  <2>2. root[1] = x /\ Len(root) = 2 /\ Len(NoSession.root) = 0
    BY DEF NoSession
  <2>3. s.root = root
    BY <2>1
  <2> HIDE DEF root
  <2>4. s # NoSession
    BY ONLY <2>2, <2>3
  <2> QED BY <2>2, <2>3, <2>4 DEF Zeroed
<1> HIDE DEF s
<1>10. active'[r] = s /\ active'[a] = active[a]
  BY <1>5, <1>8 DEF SigInv, SigShape
<1>11. /\ x \in Secrets /\ x.eph = m.rk /\ x.otp = m.otp /\ S \in Secrets
  BY <1>5, SentOK
<1> HIDE DEF x
<1>12. ASSUME NEW y \in answered, y.otp = m.otp PROVE FALSE
  <2>1. PICK m2 \in handled \cup opened : m2.prekey /\ y = Secret(m2.rk, m2.otp)
    BY <1>2, <1>12 DEF Undisturbed, AnsweredOnce
  <2>2. m2 \in sent /\ m2.otp = m.otp
    BY <1>12, <2>1, SentOK DEF SigInv, SigShape
  <2>3. m2.from = a
    BY <1>5, <2>1, <2>2, SentOK, TwoParties DEF HasStarted
  <2>4. m2 = m
    BY <1>6, <1>7, <2>2, <2>3 DEF OnceInv, MessageOnce
  <2> QED BY <1>1, <2>1, <2>4
<1>13. x \notin answered /\ forked' = {}
  BY <1>2, <1>8, <1>11, <1>12 DEF Undisturbed, AnsweredOnce
<1>14. Undisturbed'
  <2>1. IsFiniteSet(opened') /\ \A y \in opened' : y.prekey
    BY <1>1, <1>2, <1>8, FS_AddElement DEF Undisturbed
  <2>2. handled \cup opened' = handled \cup opened \cup {m}
    BY <1>8
  <2>3. PreKeysLeft(otpPrivate, unclaimed, composing, sent, handled \cup opened')
    BY <1>2, <2>2 DEF Undisturbed, PreKeysLeft
  <2>4. AnsweredOnce(answered', handled \cup opened', forked')
    BY <1>1, <1>2, <1>8, <1>13, <2>2 DEF Undisturbed, AnsweredOnce, x
  <2> QED BY <1>2, <1>8, <2>1, <2>3, <2>4 DEF Undisturbed
<1>15. Cardinality(opened) \in Nat /\ Cardinality(opened') = Cardinality(opened) + 1
  BY <1>1, <1>2, <1>8, FS_AddElement, FS_CardinalityType DEF Undisturbed
<1>16. previous[r] \in Seq(SessionRecords) /\ active[r] \in SessionRecords
  BY <1>5 DEF SigInv, SigShape
<1>17. S \in answered' /\ Near(active'[r], previous'[r], S, Cardinality(opened'))
  <2>1. CASE S \in answered
    <3>1. Near(active[r], previous[r], S, Cardinality(opened))
      BY <1>5, <2>1
    <3>2. Cardinality(opened) < MaxPrevious
      <4>1. {y \in opened : y.from = m.from} = opened
        <5>1. \A y \in opened : y.from = a
          BY <1>2, <1>5, SentOK, TwoParties DEF HasStarted, Undisturbed, SigInv, SigShape
        <5> QED BY <1>6, <5>1
      <4>2. MaxPrevious \in Nat
        BY SignalAssumption
      <4>3. ~(Cardinality(opened) >= MaxPrevious)
        <5> DEFINE own == {y \in opened : y.from = m.from}
        <5>1. ~(Cardinality(own) >= MaxPrevious) /\ own = opened
          BY <1>8, <4>1
        <5> HIDE DEF own
        <5> QED BY <5>1
      <4> QED BY <1>15, <4>2, <4>3
    <3>3. active[r] # NoSession
      BY <1>5, <1>15, <3>1, NearLives
    <3>4. previous'[r] = Capped(Append(previous[r], active[r]))
      BY <1>5, <1>8, <3>3 DEF SigInv, SigShape
    <3> HIDE DEF S
    <3> QED BY <1>8, <1>15, <1>16, <2>1, <3>1, <3>2, <3>4, NearPushed
  <2>2. CASE S \notin answered
    <3>1. m.rk = S.eph
      BY <1>5, <2>2 DEF AgreeInv, FirstChains
    <3>2. m.otp = S.otp
      BY <1>5, <1>8, <2>2
    <3>3. x = S
      BY <1>11, <3>1, <3>2 DEF Secrets
    <3>4. previous'[r] = previous[r]
      BY <1>5, <1>8, <2>2
    <3> HIDE DEF S
    <3> QED BY <1>8, <1>9, <1>10, <1>15, <1>16, <3>3, <3>4, NearActive
  <2> QED BY <2>1, <2>2
<1>18. HasStarted(a)' /\ ~HasStarted(r)'
  BY <1>5, <1>8 DEF HasStarted
<1>19. StartedBy(a)'
  <2>1. active'[a].root[1] = S
    BY <1>10
  <2> HIDE DEF S
  <2> QED BY <1>5, <1>8, <1>10, <1>17, <1>18, <2>1 DEF StartedBy
<1> QED BY <1>14, <1>19 DEF StarterInv

\* A decryption: it is with the session of the starter's first secret, which is the
\* active one after it.
LEMMA StarterDecrypt ==
  ASSUME SigInv, OnceInv, AgreeInv, StarterInv, NEW m \in sent, DecryptMessage(m)
  PROVE  StarterInv'
<1> SUFFICES ASSUME ~strained' PROVE StarterInv'
  BY DEF StarterInv
<1>1. /\ ~strained /\ m \in Decryptable
      /\ handled' = handled \cup {m} /\ opened' = opened \ {m}
      /\ UNCHANGED <<unclaimed, composing, sent, answered, forked>>
      /\ DecryptActive(m) \/ DecryptPrevious(m) \/ DecryptFails(m)
  BY DEF DecryptMessage, DecryptActive, DecryptPrevious, DecryptFails
<1>2. Undisturbed /\ reads[m] = 0 /\ forked = {} /\ (m.prekey => m \in opened)
  BY <1>1 DEF StarterInv, Undisturbed, ReadHandled, AnsweredOnce, Decryptable
<1>3. ~NothingStarted
  BY DEF NothingStarted
<1>4. PICK a \in Parties : StartedBy(a)
  BY <1>1, <1>3 DEF StarterInv
<1> DEFINE S == active[a].root[1]
           r == Peer(a)
           p == Peer(m.from)
<1>5. /\ r \in Parties /\ r # a /\ Peer(r) = a
      /\ active[a] # NoSession /\ HasStarted(a) /\ ~HasStarted(r)
      /\ S.otp # 0 /\ S.eph.by = a
      /\ \A y \in sent : SecretOf(y) = S
      /\ S \in answered => Near(active[r], previous[r], S, Cardinality(opened))
      /\ S \notin answered =>
           /\ active[r] = NoSession /\ opened = {}
           /\ ~active[a].est /\ composing[a].pc # "encrypt"
           /\ \A y \in sent : y.from = a /\ y.prekey
  BY <1>4, PeerOf DEF StartedBy
<1>6. SecretOf(m) = S /\ S \in answered /\ p \in Parties /\ Peer(p) = m.from
  BY <1>2, <1>5, SentOK
<1>7. Cardinality(opened) \in Nat /\ IsFiniteSet(opened') /\ Cardinality(opened') \in Nat
  BY <1>1, <1>2, FS_RemoveElement, FS_CardinalityType DEF Undisturbed
<1>8. /\ active[a] \in Lives[a] /\ active[a] # Zeroed
      /\ \A q \in Parties : previous[q] \in Seq(SessionRecords)
  <2>1. previous[a] \in Seq(SessionRecords) /\ active[a] # Zeroed
    BY <1>5 DEF SigInv, SigShape, Zeroed
  <2>2. 0 \in Slots(previous[a]) /\ SessionAt(active[a], previous[a], 0) = active[a]
    BY <2>1 DEF Slots, SessionAt
  <2> QED BY <2>1, <2>2 DEF Lives, LiveIn, SigInv, SigShape
<1>9. PICK s \in Lives[p] : s.root[1] = S /\ (p = a => s = active[a])
  <2>1. CASE p = a
    BY <1>8, <2>1
  <2>2. CASE p = r
    <3> HIDE DEF S
    <3> QED BY <1>5, <1>6, <1>7, <2>2, NearLives
  <2> QED BY <1>6, <2>1, <2>2, TwoParties
<1>10. RatchetDecrypt(s, m, NextKey(p)) # {}
  BY <1>2, <1>6, <1>9, SessionDecrypts
<1>11. ~DecryptFails(m)
  BY <1>9, <1>10, NoneDecrypts
<1>12. /\ RecordOK(p) /\ Others(p)
       /\ \E i \in Slots(previous[p]) : \E t \in RatchetDecrypt(Session(p, i), m, NextKey(p)) :
             Establish(p, m, t) /\ Record(p, 0, {i}) /\ active'[p] = [t EXCEPT !.est = TRUE]
  BY <1>1, <1>11, DecryptRecord DEF SigInv
<1>13. PICK i \in Slots(previous[p]) : \E t \in RatchetDecrypt(Session(p, i), m, NextKey(p)) :
             Establish(p, m, t) /\ active'[p] = [t EXCEPT !.est = TRUE]
  BY <1>12
<1>14. PICK t \in RatchetDecrypt(Session(p, i), m, NextKey(p)) :
             Establish(p, m, t) /\ active'[p] = [t EXCEPT !.est = TRUE]
  BY <1>13
<1>15. active'[p].root[1] = S /\ active'[p] # NoSession /\ active'[p] # Zeroed
  <2>1. Session(p, i) \in SessionRecords /\ (Session(p, i) # Zeroed => Shaped(Session(p, i)))
    <3>1. CASE Session(p, i) = Zeroed
      BY <3>1, NoSessionType DEF Zeroed
    <3>2. CASE Session(p, i) # Zeroed
      BY <1>6, <3>2 DEF SigInv, SessionsInv, SessionOK, Session
    <3> QED BY <3>1, <3>2
  <2>2. m \in Messages /\ Len(m.chain) > 0 /\ NextKey(p) \in RatchetKeys
    BY <1>6, SentOK, NextKeys DEF MessageOK, SigInv
  <2>3. t \in SessionRecords /\ Shaped(t) /\ t.root[1] = S
    BY <1>6, <1>14, <2>1, <2>2, Decrypting DEF Advanced
  <2>4. active'[p].root = t.root
    BY <1>14, <2>3 DEF SessionRecords
  <2>5. Len(t.root) > 0 /\ Len(NoSession.root) = 0
    BY <2>3 DEF Shaped, Begins, NoSession
  <2> QED BY <2>3, <2>4, <2>5 DEF Zeroed
<1>16. /\ UNCHANGED missed /\ reads' = [reads EXCEPT ![m] = @ + 1]
       /\ otpPrivate' = [otpPrivate EXCEPT ![p] = IF m.prekey /\ ~t.est THEN @ \ {m.otp} ELSE @]
  BY <1>14 DEF Establish
<1>17. PreKeysLeft(otpPrivate', unclaimed, composing, sent, handled' \cup opened')
  <2>1. PreKeysLeft(otpPrivate, unclaimed, composing, sent, handled \cup opened)
    BY <1>2 DEF Undisturbed
  <2>2. /\ \A q \in Parties : otpPrivate[q] \ {m.otp} \subseteq otpPrivate'[q]
        /\ \A q \in Parties \ {p} : otpPrivate'[q] = otpPrivate[q]
        /\ ~m.prekey => otpPrivate' = otpPrivate
    BY <1>6, <1>16 DEF SigInv, SigShape
  <2>3. handled' \cup opened' = handled \cup opened \cup {m}
    BY <1>1
  <2>4. ASSUME m.prekey
        PROVE  /\ m.otp = 0 \/ m.otp > unclaimed[p]
               /\ m.otp = 0 \/ m.otp # composing[m.from].otp
               /\ m \in handled \cup opened
    BY <1>2, <1>6, <2>4, SentOK DEF OnceInv, ClaimOnce
  <2>5. ASSUME NEW q \in Parties PROVE 1..unclaimed[q] \subseteq otpPrivate'[q]
    <3>1. CASE q = p /\ m.prekey
      <4>1. unclaimed[p] \in Nat /\ m.otp \in Nat
        BY <1>6, SentOK DEF SigInv, SigShape
      <4>2. m.otp \notin 1..unclaimed[p]
        BY <2>4, <3>1, <4>1
      <4> QED BY <2>1, <2>2, <3>1, <4>2 DEF PreKeysLeft
    <3>2. CASE ~(q = p /\ m.prekey)
      BY <2>1, <2>2, <3>2 DEF PreKeysLeft
    <3> QED BY <3>1, <3>2
  <2>6. ASSUME NEW q \in Parties, composing[q].pc = "prekey"
        PROVE  composing[q].otp \in otpPrivate'[Peer(q)] \ {0}
    <3>1. composing[q].otp \in otpPrivate[Peer(q)] \ {0} /\ Peer(q) \in Parties
      BY <2>1, <2>6, PeerOf DEF PreKeysLeft
    <3>2. CASE Peer(q) = p /\ m.prekey
      <4>1. q = m.from
        BY <1>6, <3>2, PeerOf
      <4> QED BY <2>2, <2>4, <3>1, <3>2, <4>1
    <3>3. CASE ~(Peer(q) = p /\ m.prekey)
      BY <2>2, <3>1, <3>3
    <3> QED BY <3>2, <3>3
  <2>7. ASSUME NEW y \in sent \ (handled' \cup opened'), y.prekey
        PROVE  y.otp \in otpPrivate'[Peer(y.from)] \ {0}
    <3>1. y.otp \in otpPrivate[Peer(y.from)] \ {0} /\ y # m
      BY <2>1, <2>3, <2>7 DEF PreKeysLeft
    <3>2. Peer(y.from) \in Parties /\ y.from \in Parties
      BY <2>7, SentOK
    <3>3. CASE Peer(y.from) = p /\ m.prekey
      <4>1. y.from = m.from
        BY <1>6, <3>2, <3>3, PeerOf
      <4>2. y.otp # m.otp
        BY <2>7, <3>1, <4>1 DEF OnceInv, MessageOnce
      <4> QED BY <2>2, <3>1, <3>2, <4>2
    <3>4. CASE ~(Peer(y.from) = p /\ m.prekey)
      BY <2>2, <3>1, <3>2, <3>4
    <3> QED BY <3>3, <3>4
  <2> QED BY <2>5, <2>6, <2>7 DEF PreKeysLeft
<1>18. ReadHandled(sent, handled', reads')
  <2>1. \A y \in sent \ {m} : reads'[y] = reads[y]
    BY <1>16 DEF SigInv, SigShape
  <2> QED BY <1>1, <1>2, <2>1 DEF Undisturbed, ReadHandled
<1>19. AnsweredOnce(answered, handled' \cup opened', forked)
  BY <1>1, <1>2 DEF Undisturbed, AnsweredOnce
<1>20. Undisturbed'
  BY <1>1, <1>2, <1>7, <1>16, <1>17, <1>18, <1>19 DEF Undisturbed
<1>21. active'[a].root[1] = S /\ active'[a] # NoSession
  <2>1. CASE p = a
    BY <1>15, <2>1
  <2>2. CASE p # a
    BY <1>5, <1>12, <2>2 DEF Others
  <2> QED BY <2>1, <2>2
<1>22. Near(active'[r], previous'[r], S, Cardinality(opened'))
  <2>1. CASE p = r
    <3>1. previous'[r] \in Seq(SessionRecords)
      BY <1>12, <2>1 DEF RecordOK
    <3> HIDE DEF S
    <3> QED BY <1>7, <1>15, <2>1, <3>1, NearActive
  <2>2. CASE p = a
    <3>1. active'[r] = active[r] /\ previous'[r] = previous[r]
      BY <1>5, <1>12, <2>2 DEF Others
    <3>2. m \notin opened
      <4>1. m.from = r
        BY <1>5, <1>6, <2>2
      <4> QED BY <1>2, <1>5, <4>1 DEF Undisturbed, HasStarted
    <3>3. opened' = opened
      BY <1>1, <3>2
    <3> QED BY <1>5, <1>6, <3>1, <3>3
  <2> QED BY <1>6, <2>1, <2>2, TwoParties
<1>23. HasStarted(a)' /\ ~HasStarted(r)'
  BY <1>1, <1>5 DEF HasStarted
<1>24. StartedBy(a)'
  <2> HIDE DEF S
  <2> QED BY <1>1, <1>5, <1>6, <1>21, <1>22, <1>23 DEF StartedBy
<1> QED BY <1>20, <1>24 DEF StarterInv

LEMMA StarterStep ==
  SigInv /\ OnceInv /\ AgreeInv /\ StarterInv /\ [SigNext]_sigVars => StarterInv'
<1> SUFFICES ASSUME SigInv, OnceInv, AgreeInv, StarterInv, [SigNext]_sigVars PROVE StarterInv'
  OBVIOUS
<1>1. ASSUME NEW p \in Parties, ComposeMessage(p) PROVE StarterInv'
  <2> DEFINE pc == IF active[p].est THEN "encrypt" ELSE "initiate"
  <2>1. /\ composing[p].pc = "idle" /\ composing' = [composing EXCEPT ![p].pc = pc]
        /\ UNCHANGED <<recVars, unclaimed, otpPrivate, sent, opened, handled, reads,
                       answered, forked, missed, strained>>
    BY <1>1 DEF ComposeMessage
  <2>2. pc \in {"encrypt", "initiate"} /\ (pc = "encrypt" => active[p].est)
    OBVIOUS
  <2> HIDE DEF pc
  <2>3. \A q \in Parties :
          /\ composing'[q].pc = "prekey" <=> composing[q].pc = "prekey"
          /\ composing'[q].otp = composing[q].otp
          /\ composing'[q].pc = "encrypt" => composing[q].pc = "encrypt" \/ active[q].est
    BY <2>1, <2>2 DEF SigInv, SigShape
  <2> QED BY <2>1, <2>3, QuietStarter
<1>2. ASSUME NEW p \in Parties, CreateInitiatorSession(p) PROVE StarterInv'
  BY <1>2, StarterInitiator
<1>3. ASSUME NEW p \in Parties, EncryptMessage(p) PROVE StarterInv'
  BY <1>3, StarterEncrypt
<1>4. ASSUME NEW p \in Parties, Reopen(p) PROVE StarterInv'
  BY <1>4 DEF Reopen, StarterInv
<1>5. ASSUME NEW m \in sent, CreateResponderSession(m) PROVE StarterInv'
  BY <1>5, StarterResponder
<1>6. ASSUME NEW m \in sent, DecryptMessage(m) PROVE StarterInv'
  BY <1>6, StarterDecrypt
<1>7. CASE UNCHANGED sigVars
  BY <1>7, QuietStarter DEF sigVars
<1> QED BY <1>1, <1>2, <1>3, <1>4, <1>5, <1>6, <1>7 DEF SigNext

\* The fourth inductive invariant: while one person starts all sessions and the
\* five other cases do not happen, both write with the session of the secret that
\* was made first, which the other keeps among its last sessions.
THEOREM StarterInvariant == SigSpec => []StarterInv
BY SigInvariant, OnceInvariant, AgreeInvariant, StarterInit, StarterStep, PTL DEF SigSpec

\* Every message decrypts although each first-contact message makes a session of
\* another secret and pushes the right one down, in the cases the property names:
\* for every cap of the previous sessions, and conversations of any length.
THEOREM OneStarterReads == SigSpec => []OneStarterReadsAll
<1>1. StarterInv => OneStarterReadsAll
  BY DEF StarterInv, Undisturbed, OneStarterReadsAll
<1> QED BY <1>1, StarterInvariant, PTL
=============================================================================
