---------------------------- MODULE MCTwoFactor ----------------------------
(***************************************************************************)
(* Two server threads: two requests of the user overlap in every way.  Two *)
(* secrets and two batches of two codes suffice to enrol, disable, enrol   *)
(* anew and regenerate.                                                    *)
(***************************************************************************)
EXTENDS TwoFactor
=============================================================================
