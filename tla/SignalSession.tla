---------------------------- MODULE SignalSession ----------------------------
(***************************************************************************)
(* Two people who write to each other: their session records, who starts   *)
(* a session, the fallback to previous sessions, and the double ratchet    *)
(* with its skipped keys (session.ts, double-ratchet.ts, x3dh.ts, and the  *)
(* hooks that call them).  Keys are symbols: a root key is the sequence of *)
(* what was mixed into it, the shared secret of X3DH first, and a message  *)
(* key is a chain with a number.  A message decrypts with the key it was   *)
(* encrypted with and no other.                                            *)
(***************************************************************************)
EXTENDS Integers, Sequences, FiniteSets

CONSTANTS Alice, Bob,
          MaxPrevious,    \* 5: the cap of previousSessions
          Bundles,        \* how many one-time pre-keys the server may have of each
          MaxTurns        \* bound: messages, and conversations opened again, together

ASSUME SignalAssumption ==
    Alice # Bob /\ {MaxPrevious, MaxTurns} \cup Bundles \subseteq Nat

Parties == {Alice, Bob}
Peer(p) == IF p = Alice THEN Bob ELSE Alice
RatchetKey(p, n) == [by |-> p, n |-> n]
SignedPreKey(p) == RatchetKey(p, 0)
Secret(eph, otp) == [eph |-> eph, otp |-> otp]    \* otp 0: there was none

NoChain == [chain |-> <<>>, n |-> 0]
NoSession == [root |-> <<>>, send |-> NoChain, recv |-> NoChain,
              mine |-> SignedPreKey(Alice), theirs |-> SignedPreKey(Alice),
              pn |-> 0, skipped |-> {}, est |-> FALSE]
\* A session whose keys were overwritten with zeros.
Zeroed == NoSession
Idle == [pc |-> "idle", otp |-> 0]

VARIABLES
    active,     \* activeSession of each, NoSession if there is no record
    previous,   \* previousSessions of each
    ratchets,   \* ratchet and ephemeral key pairs each has made
    unclaimed,  \* server: one-time pre-keys of each not yet handed out
    otpPrivate, \* device: the private one-time pre-keys of each
    composing,  \* handleSend of each, between its awaits
    sent,       \* messages
    opened,     \* pre-key messages with a session made, not yet decrypted
    handled,    \* messages the open conversation is done with
    reopens,
    reads,      \* history: messages that decrypted, with how often
    unreadable, \* history: messages whose session was there and did not decrypt
    answered,   \* history: secrets the responder made a session of
    forked,     \* history: secrets the responder made a second session of
    outrun,     \* history: secrets whose first message a later one overtook
    missed,     \* history: messages that did not decrypt
    strained    \* history: one of the six cases OneStarterReadsAll leaves out

recVars == <<active, previous, ratchets>>
sigVars == <<recVars, unclaimed, otpPrivate, composing, sent, opened, handled, reopens,
             reads, unreadable, answered, forked, outrun, missed, strained>>

SecretOf(m) == m.chain[1]
Live(p) == {s \in {active[p]} \cup {previous[p][i] : i \in DOMAIN previous[p]} : s # Zeroed}
HasSession(p, secret) == \E s \in Live(p) : s.root[1] = secret
NextKey(p) == RatchetKey(p, ratchets[p] + 1)

SigTypeOK ==
    /\ \A p \in Parties :
          /\ active[p] = NoSession => previous[p] = <<>>
          /\ Len(previous[p]) <= MaxPrevious
          /\ \A s \in Live(p) : /\ s.mine.by = p /\ s.mine.n \in 1..ratchets[p]
                               /\ s.theirs.by = Peer(p) /\ s.theirs.n <= ratchets[Peer(p)]
                               /\ {s.send.n, s.recv.n, s.pn} \subseteq Nat
          /\ unclaimed[p] \in Nat /\ otpPrivate[p] \subseteq Nat
          /\ composing[p].pc \in {"idle", "initiate", "prekey", "encrypt"}
    /\ opened \subseteq sent \ handled /\ handled \subseteq sent /\ unreadable \subseteq sent
    /\ reads \in [sent -> Nat] /\ reopens \in Nat

SigInit ==
    /\ active = [p \in Parties |-> NoSession] /\ previous = [p \in Parties |-> <<>>]
    /\ ratchets = [p \in Parties |-> 0]
    /\ \E b \in Bundles : unclaimed = [p \in Parties |-> b]
    /\ otpPrivate = [p \in Parties |-> 1..unclaimed[p]]
    /\ composing = [p \in Parties |-> Idle]
    /\ sent = {} /\ opened = {} /\ handled = {} /\ reopens = 0
    /\ reads = <<>> /\ unreadable = {}
    /\ answered = {} /\ forked = {} /\ outrun = {}
    /\ missed = {} /\ strained = FALSE

-----------------------------------------------------------------------------
(***************************************************************************)
(* The double ratchet.                                                     *)
(***************************************************************************)
InitiatorSession(p, secret) ==
    [NoSession EXCEPT !.root = <<secret>>, !.send.chain = <<secret>>,
                      !.mine = secret.eph, !.theirs = SignedPreKey(Peer(p))]

ResponderSession(secret, k) ==
    LET root == <<secret, {k, secret.eph}>> IN
    [NoSession EXCEPT !.root = root, !.send.chain = root, !.recv.chain = <<secret>>,
                      !.mine = k, !.theirs = secret.eph]

\* dhRatchetStep, with the new pair k.
DhRatchetStep(s, rk, k) ==
    LET received == Append(s.root, {s.mine, rk})
        root == Append(received, {k, rk})
    IN [s EXCEPT !.pn = s.send.n, !.theirs = rk, !.recv = [chain |-> received, n |-> 0],
                 !.mine = k, !.root = root, !.send = [chain |-> root, n |-> 0]]

\* skipMessageKeys, below its caps.
SkipMessageKeys(s, to) ==
    IF to < s.recv.n THEN s
    ELSE [s EXCEPT !.skipped = @ \cup {[rk |-> s.theirs, n |-> i, chain |-> s.recv.chain] :
                                          i \in s.recv.n..(to - 1)},
                   !.recv.n = to]

\* Mutant: the keys of the old chain are not stored.
NextRatchetForgetful(s, m, k) ==
    IF m.rk = s.theirs THEN s ELSE DhRatchetStep(s, m.rk, k)

\* A header with a new ratchet key ends the receiving chain, if there is one.
NextRatchet(s, m, k) ==
    IF m.rk = s.theirs THEN s
    ELSE DhRatchetStep(IF s.recv = NoChain THEN s ELSE SkipMessageKeys(s, m.pn), m.rk, k)

\* ratchetDecrypt: the state after it, or none if it throws.
RatchetDecrypt(s, m, k) ==
    LET stored == {sk \in s.skipped : sk.rk = m.rk /\ sk.n = m.n}
        t == SkipMessageKeys(NextRatchet(s, m, k), m.n)
    IN IF stored # {}
       THEN {[s EXCEPT !.skipped = @ \ {sk}] : sk \in {x \in stored : x.chain = m.chain}}
       ELSE IF s # Zeroed /\ t.recv # NoChain /\ t.recv = [chain |-> m.chain, n |-> m.n]
       THEN {[t EXCEPT !.recv.n = @ + 1]}
       ELSE {}

-----------------------------------------------------------------------------
(***************************************************************************)
(* Sending: handleSend of useMessageSend.                                  *)
(***************************************************************************)
\* Mutant: the cap is reached one session early.
CappedEarly(prev) ==
    IF Len(prev) >= MaxPrevious THEN SubSeq(prev, Len(prev) - MaxPrevious + 2, Len(prev))
    ELSE prev

\* The oldest previous sessions go.
Capped(prev) ==
    IF Len(prev) > MaxPrevious THEN SubSeq(prev, Len(prev) - MaxPrevious + 1, Len(prev))
    ELSE prev

Turns == Cardinality(sent) + Cardinality({p \in Parties : composing[p].pc # "idle"}) + reopens

\* hasEstablishedSession: without it the message is a pre-key message.
ComposeMessage(p) ==
    /\ composing[p].pc = "idle"
    /\ Turns < MaxTurns
    /\ composing' = [composing EXCEPT ![p].pc =
                        IF active[p].est THEN "encrypt" ELSE "initiate"]
    /\ UNCHANGED <<recVars, unclaimed, otpPrivate, sent, opened, handled, reopens, reads,
                   unreadable, answered, forked, outrun, missed, strained>>

HasStarted(p) == composing[p].pc = "prekey" \/ \E m \in sent : m.from = p /\ m.prekey

\* fetchPreKeyBundle and createInitiatorSession: a record that exists keeps its
\* active session, and the new one is stored as a previous one.
CreateInitiatorSession(p) ==
    LET otp == unclaimed[Peer(p)]
        s == InitiatorSession(p, Secret(NextKey(p), otp))
    IN
    /\ composing[p].pc = "initiate"
    /\ composing' = [composing EXCEPT ![p] = [pc |-> "prekey", otp |-> otp]]
    /\ unclaimed' = [unclaimed EXCEPT ![Peer(p)] = IF otp = 0 THEN 0 ELSE otp - 1]
    /\ ratchets' = [ratchets EXCEPT ![p] = @ + 1]
    /\ IF active[p] = NoSession
       THEN active' = [active EXCEPT ![p] = s] /\ UNCHANGED previous
       ELSE /\ previous' = [previous EXCEPT ![p] = Capped(Append(@, s))]
            /\ UNCHANGED active
    /\ strained' = (strained \/ otp = 0 \/ HasStarted(Peer(p)))
    /\ UNCHANGED <<otpPrivate, sent, opened, handled, reopens, reads, unreadable,
                   answered, forked, outrun, missed>>

\* encryptMessage with the active session, whichever it is by now; the header's
\* ratchet key goes out as the ephemeral key of a pre-key message.
EncryptMessage(p) ==
    LET s == active[p]
        m == [from |-> p, chain |-> s.send.chain, n |-> s.send.n, rk |-> s.mine, pn |-> s.pn,
              prekey |-> composing[p].pc = "prekey", otp |-> composing[p].otp]
    IN
    /\ composing[p].pc \in {"encrypt", "prekey"}
    /\ composing' = [composing EXCEPT ![p] = Idle]
    /\ active' = [active EXCEPT ![p].send.n = @ + 1]
    /\ sent' = sent \cup {m}
    /\ reads' = [x \in sent' |-> IF x \in sent THEN reads[x] ELSE 0]
    /\ strained' = (strained \/ \E x \in opened : x.from = Peer(p))
    /\ UNCHANGED <<previous, ratchets, unclaimed, otpPrivate, opened, handled, reopens,
                   unreadable, answered, forked, outrun, missed>>

-----------------------------------------------------------------------------
(***************************************************************************)
(* Receiving: getDecryptedContent, for several messages at once.           *)
(***************************************************************************)
Decryptable == {m \in sent \ handled : m.prekey => m \in opened}

\* createResponderSession: X3DH from the header, and the new session becomes
\* the active one.  Without the private one-time pre-key it throws.
CreateResponderSession(m) ==
    LET p == Peer(m.from)
        secret == Secret(m.rk, m.otp)
        s == ResponderSession(secret, NextKey(p))
    IN
    /\ m \in sent \ (handled \cup opened) /\ m.prekey
    /\ IF m.otp \in otpPrivate[p] \cup {0}
       THEN /\ opened' = opened \cup {m}
            /\ active' = [active EXCEPT ![p] = s]
            /\ ratchets' = [ratchets EXCEPT ![p] = @ + 1]
            /\ previous' = IF active[p] = NoSession THEN previous
                           ELSE [previous EXCEPT ![p] = Capped(Append(@, active[p]))]
            /\ answered' = answered \cup {secret}
            /\ forked' = forked \cup (answered \cap {secret})
            /\ strained' = \/ strained
                            \/ ~(m.otp = SecretOf(m).otp \/ SecretOf(m) \in answered)
                            \/ Cardinality({x \in opened : x.from = m.from}) >= MaxPrevious
            /\ UNCHANGED <<handled, missed>>
       ELSE /\ handled' = handled \cup {m} /\ missed' = missed \cup {m}
            /\ UNCHANGED <<recVars, opened, answered, forked, strained>>
    /\ UNCHANGED <<unclaimed, otpPrivate, composing, sent, reopens, reads, unreadable, outrun>>

\* The session that decrypts m, the last of the previous ones first.
Wins(p, m, i) ==
    /\ RatchetDecrypt(active[p], m, NextKey(p)) = {}
    /\ RatchetDecrypt(previous[p][i], m, NextKey(p)) # {}
    /\ \A j \in DOMAIN previous[p] :
          j > i => RatchetDecrypt(previous[p][j], m, NextKey(p)) = {}

\* Mutant: the one-time pre-key is never deleted.
EstablishKeeping(p, m, s) ==
    /\ active' = [active EXCEPT ![p] = [s EXCEPT !.est = TRUE]]
    /\ ratchets' = [ratchets EXCEPT ![p] = IF s.mine = NextKey(p) THEN @ + 1 ELSE @]
    /\ outrun' = IF ~s.est /\ SecretOf(m).eph.by = m.from /\ m.otp # SecretOf(m).otp
                     THEN outrun \cup {SecretOf(m)} ELSE outrun
    /\ reads' = [reads EXCEPT ![m] = @ + 1]
    /\ UNCHANGED <<otpPrivate, unreadable, missed>>

\* The first decryption of a session deletes the message's one-time pre-key.
Establish(p, m, s) ==
    /\ active' = [active EXCEPT ![p] = [s EXCEPT !.est = TRUE]]
    /\ ratchets' = [ratchets EXCEPT ![p] = IF s.mine = NextKey(p) THEN @ + 1 ELSE @]
    /\ otpPrivate' = [otpPrivate EXCEPT ![p] =
                         IF m.prekey /\ ~s.est THEN @ \ {m.otp} ELSE @]
    /\ outrun' = IF ~s.est /\ SecretOf(m).eph.by = m.from /\ m.otp # SecretOf(m).otp
                     THEN outrun \cup {SecretOf(m)} ELSE outrun
    /\ reads' = [reads EXCEPT ![m] = @ + 1]
    /\ UNCHANGED <<unreadable, missed>>

\* decryptMessage with the active session, ...
DecryptActive(m) ==
    LET p == Peer(m.from) IN
    /\ m \in Decryptable
    /\ \E s \in RatchetDecrypt(active[p], m, NextKey(p)) : Establish(p, m, s)
    /\ UNCHANGED previous

\* ... with a previous one, which becomes the active one, whose keys are zeroed
\* in the list it is moved to, ...
DecryptPrevious(m) ==
    LET p == Peer(m.from) IN
    /\ m \in Decryptable
    /\ \E i \in DOMAIN previous[p] :
          /\ Wins(p, m, i)
          /\ \E s \in RatchetDecrypt(previous[p][i], m, NextKey(p)) : Establish(p, m, s)
          /\ previous' = [previous EXCEPT ![p] =
                Append(SubSeq(@, 1, i - 1) \o SubSeq(@, i + 1, Len(@)), Zeroed)]

\* ... or with none: the record stays as it is.
DecryptFails(m) ==
    LET p == Peer(m.from) IN
    /\ m \in Decryptable
    /\ RatchetDecrypt(active[p], m, NextKey(p)) = {}
    /\ \A i \in DOMAIN previous[p] : ~Wins(p, m, i)
    /\ unreadable' = IF reads[m] = 0 /\ HasSession(p, SecretOf(m))
                     THEN unreadable \cup {m} ELSE unreadable
    /\ missed' = missed \cup {m}
    /\ UNCHANGED <<recVars, otpPrivate, outrun, reads>>

DecryptMessage(m) ==
    /\ DecryptActive(m) \/ DecryptPrevious(m) \/ DecryptFails(m)
    /\ handled' = handled \cup {m}
    /\ opened' = opened \ {m}
    /\ UNCHANGED <<unclaimed, composing, sent, reopens, answered, forked, strained>>

\* The conversation is opened again: what it had decrypted is forgotten.
Reopen(p) ==
    LET own == {m \in handled : m.from = Peer(p)} IN
    /\ Turns < MaxTurns /\ own # {}
    /\ reopens' = reopens + 1
    /\ handled' = handled \ own
    /\ strained' = TRUE
    /\ UNCHANGED <<recVars, unclaimed, otpPrivate, composing, sent, opened, reads, unreadable,
                   answered, forked, outrun, missed>>

-----------------------------------------------------------------------------
SigNext ==
    \/ \E p \in Parties : ComposeMessage(p) \/ CreateInitiatorSession(p) \/ EncryptMessage(p)
                          \/ Reopen(p)
    \/ \E m \in sent : CreateResponderSession(m) \/ DecryptMessage(m)

SigSpec == SigInit /\ [][SigNext]_sigVars

-----------------------------------------------------------------------------
\* A message decrypts once, over fallbacks, promotions and conversations opened
\* again, unless its session was made without a one-time pre-key or by a message
\* that did not delete it, being overtaken by a later one.
DecryptsOnce ==
    \A m \in sent : reads[m] > 1 => SecretOf(m).otp = 0 \/ SecretOf(m) \in outrun

\* A message decrypts, in whatever order messages come and whoever started the
\* session, as long as the receiver still has a session of the same secret,
\* active or previous, and never made two.
ReadableWithSession == \A m \in unreadable : SecretOf(m) \in forked

\* Every message decrypts, whatever the first-contact messages that follow the
\* first do to the active session, as long as one of the two starts all sessions,
\* the one-time pre-keys last, no later first-contact message overtakes the
\* first, nobody writes between making a session and decrypting with it, no more
\* first-contact messages are decrypted at once than there are previous sessions,
\* and no conversation is opened again.
OneStarterReadsAll == ~strained => missed = {}

\* Previous sessions are "kept for in-flight stragglers", types.ts says: a message
\* on its way to someone who made a session of its secret finds the session there,
\* active or previous, as long as the cap has driven none out.  (The code breaks
\* this: the active session that a fallback demotes is zeroed in the list.)
KeptForStragglers ==
    \A m \in sent \ handled :
       LET p == Peer(m.from) IN
       /\ SecretOf(m).eph.by = m.from /\ SecretOf(m) \in answered
       /\ Len(previous[p]) < MaxPrevious
       => HasSession(p, SecretOf(m))
=============================================================================
