---------------------------- MODULE MCCallServer ----------------------------
(* CallServer with small sets for TLC. *)
EXTENDS CallServer, TLC

\* Users are alike (the caller is chosen among them), and so are goroutines
\* and sessions: sound for runs that check no liveness.
Symmetry == Permutations(Users) \cup Permutations(Procs) \cup Permutations(Sessions)

\* The behaviours in which the ringing cleanup does not run: what is violated
\* here is violated by the handlers alone.
NoCleanupSpec ==
  Init /\ [][(\E p \in Procs : ClientCall(p) \/ Handler(p) \/ Webhook(p))
             \/ LiveKitStep]_vars
=============================================================================
