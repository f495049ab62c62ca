------------------------- MODULE MCDeviceLifecycle -------------------------
(***************************************************************************)
(* Small instances of DeviceLifecycle for TLC.                             *)
(***************************************************************************)
EXTENDS DeviceLifecycle, TLC

\* The service may hand out any credential, so the names do not matter.
CredentialSymmetry == Permutations(Tokens) \cup Permutations(PairTokens)

=============================================================================
