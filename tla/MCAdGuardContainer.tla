------------------------- MODULE MCAdGuardContainer -------------------------
(***************************************************************************)
(* Instances of the two modules about what is replaced on a host while it  *)
(* is in use.  One is at work, the other rests.                            *)
(*   AdGuard Home: a spec with one address, one with two (more than the    *)
(* wizard can set), and one that stops it; a build to begin with and one   *)
(* that does not come up.                                                  *)
(*   The agent's own binary: the cycle and an operator.                    *)
(***************************************************************************)
EXTENDS AdGuardContainer

CONSTANTS
  lo, lan, first, bad,
  Parts,   \* what may be at work, of "container" and "agent"
  Callers, Pushers, Builds, Empty, Mixed, MaxReleases, MaxPushes, MaxFaults

VARIABLES
  part,
  shipped, recent, call, handler, exe, new, runs, leaving, met,
  releases, pushes, faults

MCAddresses == {lo, lan}
MCIds == {first, bad}
MCBroken == {bad}
MCSpecs ==
  {[on |-> TRUE, binds |-> {lo}], [on |-> TRUE, binds |-> {lo, lan}],
   [on |-> FALSE, binds |-> {lo}]}

Agent == INSTANCE SelfUpdate

ASSUME AgentAssumption == Agent!BuildsAssumption /\ Agent!BoundsAssumption

agentVars ==
  <<shipped, recent, call, handler, exe, new, runs, leaving, met, releases, pushes, faults>>

\* What somebody has set up before listens on one address.
MCInit ==
  /\ Init /\ Agent!Init
  /\ conf # None => conf.binds = {lo}
  /\ part \in Parts
  /\ part = "agent" => kind = "native" /\ conf = None /\ containers["main"] = None

MCNext ==
  /\ \/ part = "container" /\ Next /\ UNCHANGED agentVars
     \/ part = "agent" /\ Agent!Next /\ UNCHANGED vars
  /\ UNCHANGED part

\* The cycle does not come round to an agent that rests.
MCFairness ==
  Fairness /\ Agent!Going /\ WF_agentVars(part = "agent" /\ Agent!Cycle)

MCSpec == MCInit /\ [][MCNext]_<<vars, agentVars, part>> /\ MCFairness
-----------------------------------------------------------------------------
\* An agent does not restart for the build it runs, unless handlers met.
\* (selfupdate.go Apply, hosts.py update_due)
NoReinstall == Agent!NoReinstall

\* The agent comes to run the build that is shipped, unless the manifest is wrong
\* or handlers met.  (hosts.py _self_update_if_due, selfupdate.go Apply)
Updated == Agent!Updated
=============================================================================
