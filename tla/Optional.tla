------------------------------ MODULE Optional ------------------------------
(***************************************************************************)
(* An optional field, parameter or setting that is left out.               *)
(***************************************************************************)
CONSTANT Unset
=============================================================================
