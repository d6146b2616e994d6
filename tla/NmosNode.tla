------------------------------ MODULE NmosNode ------------------------------
(* What both sides of the NMOS node (src/src/flowxer/nmos/service.py) are    *)
(* about: the live inputs of the mixer with their essences, and its keyers.  *)
(* NmosRegistration is its IS-04 side, NmosConnection its IS-05 side; they   *)
(* share the lock but no other state.                                        *)

CONSTANTS
  Inputs,    \* ids a live input can have
  Roles,     \* essences of a live input: "video", "audio"
  Keyers     \* ids a keyer can have

=============================================================================
