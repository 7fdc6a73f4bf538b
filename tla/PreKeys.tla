------------------------------- MODULE PreKeys -------------------------------
(***************************************************************************)
(* The pre-keys of one user: how SignalService.initialize registers and    *)
(* renews them at the key server at every start of the app, how contacts   *)
(* fetch them, and whether the device can answer the first message made    *)
(* with them.  A batch of one-time pre-keys is one key.  The user may move *)
(* to a new phone, which makes a new identity for the same account.        *)
(***************************************************************************)
EXTENDS Integers, FiniteSets

CONSTANTS Contacts,       \* those who write to the user for the first time
          Threshold,      \* OTP_REPLENISH_THRESHOLD
          MaxBatches,     \* 51: the batches that MAX_OTP_TOTAL allows a phone
          MaxEvents       \* bound: failed calls, starts cut short, weekly
                          \* rotations and changes of the phone together

ASSUME PreKeysAssumption ==
    /\ IsFiniteSet(Contacts)
    /\ {Threshold, MaxBatches, MaxEvents} \subseteq Nat

NoKey == [id |-> 0, key |-> 0, by |-> 0]
Key(i, k, g) == [id |-> i, key |-> k, by |-> g]
Unknown == -1
Off == [pc |-> "off", rotation |-> "over", count |-> Unknown, key |-> 0, swept |-> TRUE]
NoBundle == [pc |-> "none", identity |-> 0, spk |-> NoKey, otp |-> NoKey]
Over == [NoBundle EXCEPT !.pc = "over"]

VARIABLES
    srvId,      \* server: the identity key, as the phone it belongs to
    srvSpk,     \* server: the signed pre-key created last
    srvOtp,     \* server: the one-time pre-keys
    phone,      \* device: its identity
    spkMeta,    \* device: spk_current_metadata.keyId, 0 if there is none
    spkPriv,    \* device: the private signed pre-keys
    otpNext,    \* device: otp_next_start_id
    otpPriv,    \* device: the private one-time pre-keys
    sessions,   \* device: there is a session record
    app,        \* device: initialize
    uploads,    \* signed pre-keys on their way to the server
    bundle,     \* what each contact fetched, and what became of it
    events,     \* history: how many of the events of MaxEvents happened
    lost,       \* history: keys the device replaced under their id, or swept
    tornSpk     \* history: a signed pre-key was stored under a later identity

srvVars == <<srvId, srvSpk, srvOtp>>
devVars == <<phone, spkMeta, spkPriv, otpNext, otpPriv, sessions, app>>
pkVars  == <<srvVars, devVars, uploads, bundle, events, lost, tornSpk>>

Keys == [id : Nat, key : Nat, by : Nat]

PkTypeOK ==
    /\ srvId \in Nat /\ srvSpk \in Keys /\ srvOtp \subseteq Keys
    /\ phone \in Nat /\ spkMeta \in Nat /\ otpNext \in Nat
    /\ spkPriv \subseteq Keys /\ otpPriv \subseteq Keys /\ sessions \in BOOLEAN
    /\ app \in [pc : {"off", "batch1", "registered", "ensure", "replenish", "generate",
                      "upload", "on", "failed"},
                rotation : {"todo", "uploading", "rotated", "over"},
                count : Nat \cup {Unknown}, key : Nat, swept : BOOLEAN]
    /\ uploads \subseteq [key : Keys, verified : BOOLEAN]
    /\ bundle \in [Contacts -> [pc : {"none", "identity", "spk", "sent", "over"},
                                identity : Nat, spk : Keys, otp : Keys]]
    /\ events \in Nat /\ lost \subseteq Nat /\ tornSpk \in BOOLEAN

PkInit ==
    /\ srvId = 0 /\ srvSpk = NoKey /\ srvOtp = {}
    /\ phone = 1 /\ spkMeta = 0 /\ spkPriv = {} /\ otpNext = 1 /\ otpPriv = {}
    /\ sessions = FALSE /\ app = Off
    /\ uploads = {} /\ bundle = [c \in Contacts |-> NoBundle]
    /\ events = 0 /\ lost = {} /\ tornSpk = FALSE

Has(keys, k) == \E h \in keys : h.id = k.id

\* New key material: a number no key that is kept anywhere has.
Offered == {srvSpk.key, app.key} \cup {k.key : k \in srvOtp} \cup {u.key.key : u \in uploads}
           \cup UNION {{bundle[c].spk.key, bundle[c].otp.key} : c \in Contacts}
Fresh ==
    LET used == Offered \cup {k.key : k \in spkPriv \cup otpPriv} IN
    CHOOSE n \in 1..(Cardinality(used) + 1) : n \notin used

Occurs == events < MaxEvents /\ events' = events + 1

-----------------------------------------------------------------------------
(***************************************************************************)
(* initialize, first batch: the identity, the signed pre-key and the count *)
(* at the same time.                                                       *)
(***************************************************************************)
\* The app is opened again, or was killed in the middle of a start.
OpenApp ==
    /\ \/ app.pc \in {"off", "on", "failed"} /\ app.rotation \in {"rotated", "over"}
          /\ app.swept /\ UNCHANGED events
       \/ app.pc # "off" /\ Occurs
    /\ app' = [Off EXCEPT !.pc = "batch1", !.rotation = "todo"]
    /\ UNCHANGED <<srvVars, phone, spkMeta, spkPriv, otpNext, otpPriv, sessions,
                   uploads, bundle, lost, tornSpk>>

\* HandleRegisterIdentity counts every start of the app as a change of the key
\* and refuses the third of a day; when it does, or the call fails, so does
\* initialize.
RegisterIdentity ==
    /\ app.pc = "batch1"
    /\ srvId' = phone
    /\ app' = [app EXCEPT !.pc = "registered"]
    /\ UNCHANGED <<srvSpk, srvOtp, phone, spkMeta, spkPriv, otpNext, otpPriv, sessions,
                   uploads, bundle, events, lost, tornSpk>>

RegistrationRefused ==
    /\ app.pc = "batch1"
    /\ app' = [app EXCEPT !.pc = "failed"]
    /\ UNCHANGED <<srvVars, phone, spkMeta, spkPriv, otpNext, otpPriv, sessions,
                   uploads, bundle, events, lost, tornSpk>>

\* generateSignedPreKey: the private key replaces whatever has its id.
GenerateSpk(id, next) ==
    LET new == Key(id, Fresh, phone)
        old == {k \in spkPriv : k.id = id}
    IN  /\ spkPriv' = (spkPriv \ old) \cup {new}
        /\ lost' = (lost \ {new.key}) \cup ({k.key : k \in old} \cap Offered)
        /\ uploads' = uploads \cup {[key |-> new, verified |-> FALSE]}
        /\ app' = [next EXCEPT !.key = new.key]

\* checkAndRotateSignedPreKey: the first key, or the weekly one.
RotateSpk ==
    /\ app.rotation = "todo"
    /\ IF spkMeta = 0 THEN UNCHANGED events ELSE Occurs
    /\ GenerateSpk(spkMeta + 1, [app EXCEPT !.rotation = "uploading"])
    /\ UNCHANGED <<srvVars, phone, spkMeta, otpNext, otpPriv, sessions, bundle, tornSpk>>

KeepSpk ==
    /\ app.rotation = "todo" /\ spkMeta # 0
    /\ app' = [app EXCEPT !.rotation = "over"]
    /\ UNCHANGED <<srvVars, phone, spkMeta, spkPriv, otpNext, otpPriv, sessions,
                   uploads, bundle, events, lost, tornSpk>>

\* getPreKeyCount: a call that fails counts as none.
CountOtps ==
    /\ app.pc \in {"batch1", "registered"} /\ app.count = Unknown
    /\ \/ app' = [app EXCEPT !.count = Cardinality(srvOtp)] /\ UNCHANGED events
       \/ Occurs /\ app' = [app EXCEPT !.count = 0]
    /\ UNCHANGED <<srvVars, phone, spkMeta, spkPriv, otpNext, otpPriv, sessions,
                   uploads, bundle, lost, tornSpk>>

-----------------------------------------------------------------------------
(***************************************************************************)
(* UpsertSignedPreKey: the signature is verified with the identity that is *)
(* read, the key is stored by a second statement.                          *)
(***************************************************************************)
\* How initialize goes on when its upload has ended.
Uploaded(u, ok) ==
    app' = IF app.key # u.key.key THEN app
           ELSE IF app.pc = "ensure" THEN [app EXCEPT !.pc = "replenish", !.key = 0]
           ELSE [app EXCEPT !.rotation = IF ok THEN "rotated" ELSE "over", !.key = 0]

\* Mutant: the metadata is written before the upload succeeds.
VerifySpkRecorded(u) ==
    /\ u \in uploads /\ ~u.verified
    /\ IF u.key.by = srvId
       THEN uploads' = (uploads \ {u}) \cup {[u EXCEPT !.verified = TRUE]} /\ UNCHANGED app
       ELSE uploads' = uploads \ {u} /\ Uploaded(u, FALSE)
    /\ spkMeta' = IF app.key = u.key.key /\ app.rotation = "uploading" THEN u.key.id ELSE spkMeta
    /\ UNCHANGED <<srvVars, phone, spkPriv, otpNext, otpPriv, sessions,
                   bundle, events, lost, tornSpk>>

VerifySpk(u) ==
    /\ u \in uploads /\ ~u.verified
    /\ IF u.key.by = srvId
       THEN uploads' = (uploads \ {u}) \cup {[u EXCEPT !.verified = TRUE]} /\ UNCHANGED app
       ELSE uploads' = uploads \ {u} /\ Uploaded(u, FALSE)
    /\ UNCHANGED <<srvVars, phone, spkMeta, spkPriv, otpNext, otpPriv, sessions,
                   bundle, events, lost, tornSpk>>

\* The metadata is written when the answer arrives, and by the rotation only.
StoreSpk(u) ==
    /\ u \in uploads /\ u.verified
    /\ uploads' = uploads \ {u}
    /\ srvSpk' = u.key
    /\ tornSpk' = (tornSpk \/ u.key.by # srvId)
    /\ spkMeta' = IF app.key = u.key.key /\ app.rotation = "uploading"
                  THEN u.key.id ELSE spkMeta
    /\ Uploaded(u, TRUE)
    /\ UNCHANGED <<srvId, srvOtp, phone, spkPriv, otpNext, otpPriv, sessions,
                   bundle, events, lost>>

\* The device gives up; the request may still be on its way.
SpkUploadTimesOut ==
    \E u \in uploads :
        /\ app.key = u.key.key /\ Occurs
        /\ Uploaded(u, FALSE)
        /\ uploads' \in {uploads, uploads \ {u}}
        /\ UNCHANGED <<srvVars, phone, spkMeta, spkPriv, otpNext, otpPriv, sessions,
                       bundle, lost, tornSpk>>

-----------------------------------------------------------------------------
(***************************************************************************)
(* initialize, after the first batch.                                      *)
(***************************************************************************)
\* Nothing was rotated and the server counts no one-time pre-key: that is taken
\* for the first run, and signed pre-key number 1 is made (again).
EnsureSpk ==
    /\ app.pc = "registered" /\ app.rotation \in {"rotated", "over"} /\ app.count # Unknown
    /\ IF app.rotation = "over" /\ app.count = 0
       THEN GenerateSpk(1, [app EXCEPT !.pc = "ensure"])
       ELSE /\ app' = [app EXCEPT !.pc = "replenish"]
            /\ UNCHANGED <<spkPriv, lost, uploads>>
    /\ UNCHANGED <<srvVars, phone, spkMeta, otpNext, otpPriv, sessions, bundle,
                   events, tornSpk>>

\* Mutant: the next id is not persisted.
ReserveOtpIdUnsaved ==
    /\ app.pc = "replenish"
    /\ app' = [app EXCEPT !.pc = IF app.count >= Threshold THEN "on"
                                ELSE IF otpNext > MaxBatches THEN "failed" ELSE "generate",
                         !.swept = FALSE]
    /\ UNCHANGED otpNext
    /\ UNCHANGED <<srvVars, phone, spkMeta, spkPriv, otpPriv, sessions, uploads,
                   bundle, events, lost, tornSpk>>

\* generateOneTimePreKeysBatch: the next id is persisted, ...  Beyond the limit it
\* throws, and initialize with it; how far beyond makes no difference.
ReserveOtpId ==
    /\ app.pc = "replenish"
    /\ app' = [app EXCEPT !.pc = IF app.count >= Threshold THEN "on"
                                ELSE IF otpNext > MaxBatches THEN "failed" ELSE "generate",
                         !.swept = FALSE]
    /\ otpNext' = IF app'.pc = "generate" THEN otpNext + 1 ELSE otpNext
    /\ UNCHANGED <<srvVars, phone, spkMeta, spkPriv, otpPriv, sessions, uploads,
                   bundle, events, lost, tornSpk>>

\* ... the keys are generated and stored under the ids that were reserved, ...
GenerateOtps ==
    /\ app.pc = "generate"
    /\ otpPriv' = {k \in otpPriv : k.id # otpNext - 1} \cup {Key(otpNext - 1, Fresh, phone)}
    /\ app' = [app EXCEPT !.pc = "upload", !.key = Fresh]
    /\ lost' = lost \ {Fresh}
    /\ UNCHANGED <<srvVars, phone, spkMeta, spkPriv, otpNext, sessions, uploads, bundle,
                   events, tornSpk>>

\* ... and InsertOneTimePreKeys leaves an id alone that it has already.
UploadOtps ==
    LET new == Key(otpNext - 1, app.key, phone) IN
    /\ app.pc = "upload"
    /\ \/ /\ srvOtp' = IF Has(srvOtp, new) THEN srvOtp ELSE srvOtp \cup {new}
          /\ app' = [app EXCEPT !.pc = "on", !.key = 0] /\ UNCHANGED events
       \/ Occurs /\ app' = [app EXCEPT !.pc = "failed", !.key = 0] /\ UNCHANGED srvOtp
    /\ UNCHANGED <<srvId, srvSpk, phone, spkMeta, spkPriv, otpNext, otpPriv,
                   sessions, uploads, bundle, lost, tornSpk>>

\* cleanupOrphanedOTPKeys, beside the replenishment: without any session the
\* keys in the registry are deleted; the registry may have lost some of them.
SweepOtps ==
    /\ app.pc \in {"generate", "upload", "on", "failed"} /\ ~app.swept
    /\ app' = [app EXCEPT !.swept = TRUE]
    /\ \E gone \in SUBSET otpPriv :
          /\ sessions => gone = {}
          /\ otpPriv' = otpPriv \ gone
          /\ lost' = lost \cup ({k.key : k \in gone} \cap Offered)
    /\ UNCHANGED <<srvVars, phone, spkMeta, spkPriv, otpNext, sessions, uploads,
                   bundle, events, tornSpk>>

-----------------------------------------------------------------------------
(***************************************************************************)
(* A contact: GetPreKeyBundle, whose statements see one another's past,    *)
(* then initiateX3DH.                                                      *)
(***************************************************************************)
FetchIdentity(c) ==
    /\ bundle[c].pc = "none" /\ srvId # 0
    /\ bundle' = [bundle EXCEPT ![c] = [NoBundle EXCEPT !.pc = "identity", !.identity = srvId]]
    /\ UNCHANGED <<srvVars, devVars, uploads, events, lost, tornSpk>>

FetchSpk(c) ==
    /\ bundle[c].pc = "identity"
    /\ bundle' = [bundle EXCEPT ![c] = IF srvSpk = NoKey THEN NoBundle
                                       ELSE [@ EXCEPT !.pc = "spk", !.spk = srvSpk]]
    /\ UNCHANGED <<srvVars, devVars, uploads, events, lost, tornSpk>>

\* The claim deletes the row it returns, and the contact verifies the bundle.
ClaimOtp(c) ==
    /\ bundle[c].pc = "spk"
    /\ \E k \in IF srvOtp = {} THEN {NoKey} ELSE srvOtp :
          /\ srvOtp' = srvOtp \ {k}
          /\ bundle' = [bundle EXCEPT ![c] =
                 IF @.spk.by = @.identity THEN [@ EXCEPT !.pc = "sent", !.otp = k] ELSE Over]
    /\ UNCHANGED <<srvId, srvSpk, devVars, uploads, events, lost, tornSpk>>

\* createResponderSession and decryptMessage: a private key that is missing ends
\* it before, one that does not match after the session record was stored.
ReceiveFirstMessage(c) ==
    LET b == bundle[c]
        missing == ~Has(spkPriv, b.spk) \/ (b.otp # NoKey /\ ~Has(otpPriv, b.otp))
        match == /\ b.identity = phone /\ b.spk \in spkPriv
                 /\ b.otp \in otpPriv \cup {NoKey}
    IN
    /\ b.pc = "sent"
    /\ bundle' = [bundle EXCEPT ![c] = Over]
    /\ sessions' = (sessions \/ ~missing)
    /\ otpPriv' = IF match THEN otpPriv \ {b.otp} ELSE otpPriv
    /\ UNCHANGED <<srvVars, phone, spkMeta, spkPriv, otpNext, app, uploads,
                   events, lost, tornSpk>>

\* The account moves to another phone; the server keeps what it has.
NewPhone ==
    /\ Occurs
    /\ phone' = phone + 1
    /\ spkMeta' = 0 /\ spkPriv' = {} /\ otpNext' = 1 /\ otpPriv' = {}
    /\ sessions' = FALSE /\ app' = Off
    /\ UNCHANGED <<srvVars, uploads, bundle, lost, tornSpk>>

-----------------------------------------------------------------------------
Initialize ==
    \/ RegisterIdentity \/ RegistrationRefused \/ RotateSpk \/ KeepSpk \/ CountOtps \/ EnsureSpk
    \/ ReserveOtpId \/ GenerateOtps \/ UploadOtps

PkNext ==
    \/ OpenApp \/ Initialize \/ SweepOtps \/ SpkUploadTimesOut
    \/ \E u \in uploads : VerifySpk(u) \/ StoreSpk(u)
    \/ \E c \in Contacts : FetchIdentity(c) \/ FetchSpk(c) \/ ClaimOtp(c) \/ ReceiveFirstMessage(c)
    \/ NewPhone

\* The app is opened again and again, what it started goes on, requests that
\* were sent are processed, and on some day the registration is not refused.
StartFairness ==
    /\ WF_pkVars(SweepOtps) /\ WF_pkVars(Initialize) /\ SF_pkVars(RegisterIdentity)
    /\ WF_pkVars(\E u \in uploads : VerifySpk(u) \/ StoreSpk(u))

PkFairness == WF_pkVars(OpenApp) /\ StartFairness

PkSpec == PkInit /\ [][PkNext]_pkVars
FairPkSpec == PkSpec /\ PkFairness

-----------------------------------------------------------------------------
\* The device holds the private keys of every bundle a contact writes with,
\* through starts that are killed, uploads that are late and a change of phone,
\* unless it replaced or swept them itself (signed pre-key 1 made again,
\* cleanupOrphanedOTPKeys) or the server still gave away a key of an old phone.
FirstContactAnswerable ==
    \A c \in Contacts :
        LET b == bundle[c] IN
        b.pc = "sent" /\ b.identity = phone =>
            /\ b.spk \in spkPriv \/ b.spk.key \in lost
            /\ b.otp \in otpPriv \/ b.otp.key \in lost \/ b.otp.by # phone

\* "Old keys are kept for 30 days", prekeys.ts says of signed pre-keys: the device
\* still holds the one in a bundle that a contact writes with.  (The code breaks
\* this: number 1 is made anew, its private key over the old one, when the server has
\* no one-time pre-keys left, or the first start did not get to write the metadata.)
OldSpkKept ==
    \A c \in Contacts :
        bundle[c].pc = "sent" /\ bundle[c].identity = phone => bundle[c].spk \in spkPriv

\* "Only safe to cleanup if no sessions exist at all (no OTPs needed)", storage.ts
\* says of the sweep, which is for keys that a session has used: it spares those the
\* server has still to hand out.  (The code breaks this: the registry it empties
\* holds every key of the device, those just uploaded among them.)
OfferedOtpsKept == \A k \in srvOtp : k.by = phone => k \in otpPriv

\* Once an identity is registered, and after a change of phone again, the
\* server's bundles verify in the end, though the upload of the first signed
\* pre-key races the registration of the identity it is verified with, unless it
\* was stored when that identity had been replaced.
BundlesVerifyAgain ==
    <>(srvId # 0) => \/ <>[](srvSpk.by = srvId /\ srvId = phone)
                     \/ <>tornSpk
=============================================================================
