----------------------- MODULE MCFederationHandshake -----------------------
(* Small instances of FederationHandshake for TLC.                         *)
EXTENDS FederationHandshake, TLC

CONSTANTS a, b, k1, k2, k3

\* One server runs two cron processes at once.
MCHome == k1 :> a @@ k2 :> b @@ k3 :> b
=============================================================================
