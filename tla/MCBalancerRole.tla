--------------------------- MODULE MCBalancerRole ---------------------------
(***************************************************************************)
(* Instances of BalancerRole for TLC: two backends; a spec with both, one  *)
(* with the second only, one with both and a newer image, and one that     *)
(* stops the daemon.                                                       *)
(***************************************************************************)
EXTENDS BalancerRole

CONSTANTS b1, b2, old, new

MCBackends == {b1, b2}
MCImages == {old, new}
MCSpecs ==
  {[on |-> TRUE, image |-> old, pool |-> {b1, b2}],
   [on |-> TRUE, image |-> old, pool |-> {b2}],
   [on |-> TRUE, image |-> new, pool |-> {b1, b2}],
   [on |-> FALSE, image |-> old, pool |-> {}]}
=============================================================================
