------------------------------ MODULE MCSendForm -------------------------------
(***************************************************************************)
(* Instances of SendForm for TLC.                                          *)
(***************************************************************************)
EXTENDS SendForm
==============================================================================
