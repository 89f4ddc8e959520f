--------------------------- MODULE MCRoleManager ---------------------------
(***************************************************************************)
(* Instances of the manager and of a role that it manages.  One is at work *)
(* and the other rests.                                                    *)
(*   The manager: a spec that runs the service and one that stops it;      *)
(* handlers and bounds are given by the configuration.                     *)
(*   The role is a balancer's: two backends; a spec with both, one with the*)
(* second only, one with both and a newer image, and one that stops the    *)
(* daemon.                                                                 *)
(***************************************************************************)
EXTENDS RoleManager

CONSTANTS
  Kinds, Backends, Images, Pools, Drainers, MaxDrains, MaxDaemonFaults,
  b1, b2, old, new

MCBackends == {b1, b2}
MCImages == {old, new}
MCPools ==
  {[on |-> TRUE, image |-> old, pool |-> {b1, b2}],
   [on |-> TRUE, image |-> old, pool |-> {b2}],
   [on |-> TRUE, image |-> new, pool |-> {b1, b2}],
   [on |-> FALSE, image |-> old, pool |-> {}]}

VARIABLES
  part,   \* what is at work, "manager" or "balancer"
  kind, pool, said, pass, conf, mark, daemon, drained, file, drains, torn,
  asked, daemonFaults

Balancer == INSTANCE BalancerRole WITH
  Specs <- Pools, Handlers <- Drainers, MaxRequests <- MaxDrains,
  MaxFaults <- MaxDaemonFaults, desired <- pool, req <- drains,
  requests <- asked, faults <- daemonFaults

ASSUME DaemonAssumption ==
  /\ Balancer!KindsAssumption /\ Balancer!SpecsAssumption
  /\ Balancer!NoneAssumption /\ Balancer!BoundsAssumption

balancerVars ==
  <<kind, pool, said, pass, conf, mark, daemon, drained, file, drains, torn,
    asked, daemonFaults>>

MCInit ==
  /\ Init
  /\ Balancer!Init
  /\ \/ part = "manager" /\ kind = "docker"
     \/ part = "balancer"

MCNext ==
  /\ \/ part = "manager" /\ Next /\ UNCHANGED balancerVars
     \/ part = "balancer" /\ Balancer!Next /\ UNCHANGED vars
  /\ UNCHANGED part

\* The ticker of a manager that rests is not waited for.
MCFairness == (part = "manager" => Fairness) /\ Balancer!Fairness

MCSpec == MCInit /\ [][MCNext]_<<vars, balancerVars, part>> /\ MCFairness
-----------------------------------------------------------------------------
\* Between passes the daemon that runs is configured as the role reports, as
\* long as no pass has been torn.  (dnsdist.go Converge, keepalived.go Converge)
ReportedRuns == Balancer!ReportedRuns

\* A pass over the spec that was last reported leaves a running daemon and its
\* backends alone, but for drains.  (dnsdist.go convergeDocker, convergeBare,
\* keepalived.go Converge)
Undisturbed == Balancer!Undisturbed

\* The host comes to run the spec it was last given, or nothing, and says so.
\* (dnsdist.go Converge, stop; keepalived.go Converge)
Settles == Balancer!Settles

\* Drains survive restarts of the daemon.  (dnsdist.go reapplyDrains,
\* keepalived.go reapplyDrains)
DrainsHold == Balancer!DrainsHold
=============================================================================
