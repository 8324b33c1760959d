---------------------------- MODULE MCCardDelivery ----------------------------
(***************************************************************************)
(* An instance of CardDelivery for TLC: two turns of one chat behind the   *)
(* chain in which the gateway handles what its agent sends.                *)
(***************************************************************************)
EXTENDS CardDelivery

CONSTANTS s1

OneChat == <<s1, s1>>
=============================================================================
