---------------------------- MODULE MCHostsPass ----------------------------
(***************************************************************************)
(* Small instances of HostsPass, of two kinds that share no state: passes  *)
(* of the cycle alone over every role and mode, with one fault, and a      *)
(* dnsdist balancer on a host without a VIP whose cycle meets a pass the   *)
(* operator starts.                                                        *)
(***************************************************************************)
EXTENDS HostsPass

VARIABLE kind   \* the kind of the instance, "modes" or "port53"

Kind ==
  IF kind = "modes" THEN manual = 0
                    ELSE faults = 0 /\ conf.mode = "dnsdist" /\ ~conf.vip

MCInit == Init /\ kind \in {"modes", "port53"} /\ Kind
MCNext == Next /\ UNCHANGED kind /\ Kind'
MCSpec == MCInit /\ [][MCNext]_<<vars, kind>> /\ Fairness
=============================================================================
