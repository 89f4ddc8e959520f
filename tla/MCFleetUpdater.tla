---------------------------- MODULE MCFleetUpdater --------------------------
(***************************************************************************)
(* Small instances of FleetUpdater, of two kinds that share no state: two  *)
(* servers with the periodic run and a manual one and no faults, and one   *)
(* server of any install method with lost answers, timeouts and restarts   *)
(* of the control plane.                                                   *)
(***************************************************************************)
EXTENDS FleetUpdater

CONSTANT Second    \* the server that only the instance of two servers uses

VARIABLE fleet     \* the kind of the instance, "one" or "two"

\* In an instance of one server the other is a container that is up, has no
\* update to install and is asked nothing, so that no run takes it on.
Idle(s) ==
  /\ method[s] = "docker" /\ box[s] = [version |-> 1, up |-> TRUE]
  /\ row[s].latest = 0 /\ lock[s] = None /\ checking[s] = None

Kind == IF fleet = "one" THEN Idle(Second)
                         ELSE faults = 0 /\ \A s \in Servers : method[s] # "docker"

MCInit == Init /\ fleet \in {"one", "two"} /\ Kind
MCNext == Next /\ UNCHANGED fleet /\ Kind'
MCSpec == MCInit /\ [][MCNext]_<<vars, fleet>> /\ Fairness
=============================================================================
