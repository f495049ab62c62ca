---------------------------- MODULE MCAppControl ----------------------------
(* AppControl on small instances: two runs of the application one after the *)
(* other, the second with a link that is quiet while it starts, and a queue *)
(* that a burst of events can fill (app_control); and the two ways in which *)
(* the published state and the lifecycle come apart.  The configurations    *)
(* give all constants their values; no event has an identity, so there is   *)
(* no symmetry to exploit.                                                  *)
EXTENDS AppControl

=============================================================================
