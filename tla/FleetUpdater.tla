---------------------------- MODULE FleetUpdater ----------------------------
(***************************************************************************)
(* Upgrades of AdGuard Home across the fleet, as backend/app/updater.py    *)
(* rolls them: a periodic pass and the runs started from the Updates page  *)
(* choose the servers that are due, take them one by one under the         *)
(* per-server lock that reconciliation uses too (sync.py lock_for), ask    *)
(* the box what it runs and what it could run, start the upgrade, wait for *)
(* the box to come back and record what happened.                          *)
(*                                                                         *)
(* A release is a number.  AdGuard Home and the host agent are external:   *)
(* a box that is told to upgrade restarts and comes back on the newest     *)
(* release, or, when something goes wrong, on the one it had.              *)
(* Reconciliation is reduced to what this component shares with it: the    *)
(* lock, the version columns and the cooldown (ServerSync has the rest).   *)
(***************************************************************************)
EXTENDS Naturals, FiniteSets

CONSTANTS
  Servers,
  Opted,        \* those enabled and with auto_update on
  Installs,     \* how servers may be installed (of Methods)
  Manual,       \* runs an operator may have in flight at once
  None,
  Limit,        \* AUTO_UPDATE_MAX_CONCURRENCY
  AutoUpdate,   \* AUTO_UPDATE_ENABLED
  MaxRelease,   \* bound: releases
  MaxRuns,      \* bound: manual runs and version checks
  MaxFaults     \* bound: failures, restarts of the control plane, timeouts

Runs == Manual \cup {"periodic"}

\* "docker" is any install that cannot replace itself and has no agent.
Methods == {"native", "docker", "agent"}

ASSUME FleetAssumption ==
  Opted \subseteq Servers /\ Installs \subseteq Methods /\ IsFiniteSet(Servers)
ASSUME RunsAssumption ==
  Manual \cap {"periodic", "sync"} = {} /\ None \notin Runs \cup {"sync"}
ASSUME FleetBoundsAssumption ==
  /\ Limit \in Nat \ {0} /\ AutoUpdate \in BOOLEAN
  /\ MaxRelease \in Nat \ {0} /\ MaxRuns \in Nat /\ MaxFaults \in Nat

VARIABLES
  release,   \* the newest release of AdGuard Home
  method,    \* how each server is installed
  box,       \* what each box runs, and whether it is up
  row,       \* the version and update columns of each server's row
  lock,      \* who holds lock_for(server)
  run,       \* the runs, and the servers each has still to take
  job,       \* what each run is doing to each server
  checking,  \* the answer of a version check that is not written back yet
  requests, faults

bounds == <<requests, faults>>
vars == <<release, method, box, row, lock, run, job, checking, bounds>>

Releases == 1 .. MaxRelease
MaybeRelease == 0 .. MaxRelease    \* 0 is None
States == {"idle", "delegated", "failed", "succeeded"}
Places == {"asking", "comparing", "updating", "recreating", "awaiting", "saving"}

NoJob == [at |-> "none", target |-> 0, from |-> 0, state |-> "idle", to |-> 0]

TypeOK ==
  /\ release \in Releases
  /\ method \in [Servers -> Installs]
  /\ box \in [Servers -> [version : Releases, up : BOOLEAN]]
  /\ row \in [Servers -> [version : Releases, latest : MaybeRelease, state : States,
                          attempted : MaybeRelease, backoff : BOOLEAN, cooling : BOOLEAN]]
  /\ lock \in [Servers -> Runs \cup {"sync", None}]
  /\ run \in [Runs -> [on : BOOLEAN, waiting : SUBSET Servers]]
  /\ job \in [Runs -> [Servers -> [at : Places \cup {"none"}, target : MaybeRelease,
                          from : MaybeRelease, state : States, to : MaybeRelease]]]
  /\ checking \in [Servers -> MaybeRelease \cup {None}]
  /\ requests \in 0 .. MaxRuns
  /\ faults \in 0 .. MaxFaults

Resting == [on |-> FALSE, waiting |-> {}]

Init ==
  /\ release = 1
  /\ method \in [Servers -> Installs]
  /\ box = [s \in Servers |-> [version |-> 1, up |-> TRUE]]
  /\ row = [s \in Servers |-> [version |-> 1, latest |-> 0, state |-> "idle",
                               attempted |-> 0, backoff |-> FALSE, cooling |-> FALSE]]
  /\ lock = [s \in Servers |-> None]
  /\ run = [r \in Runs |-> Resting]
  /\ job = [r \in Runs |-> [s \in Servers |-> NoJob]]
  /\ checking = [s \in Servers |-> None]
  /\ requests = 0 /\ faults = 0

Fault == faults < MaxFaults /\ faults' = faults + 1 /\ UNCHANGED requests
Request == requests < MaxRuns /\ requests' = requests + 1 /\ UNCHANGED faults

\* What AdGuard answers to version_check: a release only if it is newer.
Newer(s) == IF release > box[s].version THEN release ELSE 0

-----------------------------------------------------------------------------
\* Which servers a run takes on

\* skip_reason
Skipped(s) ==
  \/ s \notin Opted
  \/ row[s].latest = 0
  \/ row[s].cooling
  \/ row[s].attempted = row[s].latest
     /\ \/ row[s].state = "delegated"
        \/ row[s].state = "failed" /\ row[s].backoff

\* due_server_ids: a forced run wants an update to install, no more, and not
\* even that of a container its host's agent can pull again.
Due(s, forced) ==
  IF forced THEN method[s] = "agent" \/ row[s].latest # 0 ELSE ~Skipped(s)

\* run_updates up to the fan-out.  With nothing due the run is over.  The
\* maintenance window of a run that is not forced is time: it may be open.
Start(r, forced, scope) ==
  LET due == {s \in scope : Due(s, forced)} IN
  /\ ~run[r].on
  /\ forced \/ AutoUpdate
  /\ due # {}
  /\ run' = [run EXCEPT ![r] = [on |-> TRUE, waiting |-> due]]
  /\ UNCHANGED <<release, method, box, row, lock, job, checking>>

\* _run_periodic_pass: its pass lock keeps it to one at a time.
StartPeriodic == Start("periodic", FALSE, Servers) /\ UNCHANGED bounds

\* POST /run with or without force, POST /{server_id}/run always with.
StartManual(r) ==
  /\ r \in Manual
  /\ Request
  /\ \/ \E forced \in BOOLEAN : Start(r, forced, Servers)
     \/ \E s \in Servers : Start(r, TRUE, {s})

-----------------------------------------------------------------------------
\* One server of a run

Active(r) == {s \in Servers : job[r][s].at # "none"}

\* The run's own semaphore: other runs have theirs.
MayTake(r) == Cardinality(Active(r)) < Limit

\* Mutant: update_server waits for nobody.
Free_Always(s) == TRUE

Free(s) == lock[s] = None

Take(r, s) ==
  /\ s \in run[r].waiting
  /\ MayTake(r)
  /\ Free(s)
  /\ lock' = [lock EXCEPT ![s] = r]
  /\ run' = [run EXCEPT ![r].waiting = @ \ {s}]
  /\ job' = [job EXCEPT ![r][s] = [NoJob EXCEPT !.at = "asking", !.from = row[s].version]]
  /\ UNCHANGED <<release, method, box, row, checking, bounds>>

\* "Busy with another operation; will be picked up next pass."
Busy(r, s) ==
  /\ s \in run[r].waiting
  /\ MayTake(r)
  /\ ~Free(s)
  /\ run' = [run EXCEPT ![r].waiting = @ \ {s}]
  /\ UNCHANGED <<release, method, box, row, lock, job, checking, bounds>>

At(r, s, place) == job[r][s].at = place
Become(r, s, record) == job' = [job EXCEPT ![r][s] = record]

\* The outcome to record, and the version it names as attempted.
Outcome(s, state, target) ==
  [NoJob EXCEPT !.at = "saving", !.state = state, !.target = target,
                !.to = IF state = "succeeded" THEN box[s].version ELSE target]

Failing(r, s) == Outcome(s, "failed", job[r][s].target)

\* Mutant: the fleet view is trusted.
AskRelease_Cached(r, s) ==
  /\ At(r, s, "asking")
  /\ Become(r, s, [job[r][s] EXCEPT !.at = "updating", !.target = row[s].latest])
  /\ UNCHANGED <<release, method, box, row, lock, run, checking, bounds>>

\* version_check(recheck=True)
AskRelease(r, s) ==
  /\ At(r, s, "asking")
  /\ Become(r, s, IF box[s].up
                 THEN [job[r][s] EXCEPT !.at = "comparing", !.target = Newer(s)]
                 ELSE Failing(r, s))
  /\ UNCHANGED <<release, method, box, row, lock, run, checking, bounds>>

\* status, and the choice that follows with no await.
AskVersion(r, s) ==
  LET target == job[r][s].target IN
  /\ At(r, s, "comparing")
  /\ Become(r, s,
       CASE ~box[s].up -> Failing(r, s)
         [] box[s].up /\ method[s] = "agent" ->
              [job[r][s] EXCEPT !.at = "recreating", !.from = box[s].version]
         [] box[s].up /\ method[s] # "agent" /\ target \in {0, box[s].version} ->
              Outcome(s, "idle", 0)
         [] box[s].up /\ method[s] = "docker" /\ target \notin {0, box[s].version} ->
              Outcome(s, "delegated", target)
         [] OTHER -> [job[r][s] EXCEPT !.at = "updating", !.from = box[s].version])
  /\ UNCHANGED <<release, method, box, row, lock, run, checking, bounds>>

GoesDown(s) == box' = [box EXCEPT ![s].up = FALSE]
Await(r, s) == Become(r, s, [job[r][s] EXCEPT !.at = "awaiting"])

\* update_now.  A transport error counts as started, and need not be.
UpdateNow(r, s) ==
  /\ At(r, s, "updating")
  /\ Await(r, s)
  /\ \/ GoesDown(s) /\ UNCHANGED bounds
     \/ Fault /\ UNCHANGED box
  /\ UNCHANGED <<release, method, row, lock, run, checking>>

\* The agent's POST /v1/adguard/update: the image moved, or it did not.
AgentUpdate(r, s) ==
  /\ At(r, s, "recreating")
  /\ \/ GoesDown(s) /\ Await(r, s)
     \/ UNCHANGED box /\ Become(r, s, Outcome(s, "idle", 0))
  /\ UNCHANGED <<release, method, row, lock, run, checking, bounds>>

\* _await_new_version wants another version, _await_back any answer.
CameBack(r, s) ==
  /\ At(r, s, "awaiting") /\ box[s].up
  /\ method[s] = "agent" \/ box[s].version # job[r][s].from
  /\ Become(r, s, Outcome(s, "succeeded", IF job[r][s].target = 0 THEN box[s].version
                                                            ELSE job[r][s].target))
  /\ UNCHANGED <<release, method, box, row, lock, run, checking, bounds>>

\* Mutant: the wait for another version has no deadline.
GaveUp_Fault(r, s) ==
  /\ At(r, s, "awaiting")
  /\ Fault
  /\ Become(r, s, Failing(r, s))
  /\ UNCHANGED <<release, method, box, row, lock, run, checking>>

\* The deadline: always met by a box that is back on its old version, and
\* by any other that takes too long.
GaveUp(r, s) ==
  /\ At(r, s, "awaiting")
  /\ \/ box[s].up /\ method[s] # "agent" /\ box[s].version = job[r][s].from /\ UNCHANGED bounds
     \/ Fault
  /\ Become(r, s, Failing(r, s))
  /\ UNCHANGED <<release, method, box, row, lock, run, checking>>

\* The client cannot be built, a call is refused or not answered.
Fail(r, s) ==
  /\ job[r][s].at \in {"asking", "comparing", "updating", "recreating"}
  /\ Fault
  /\ Become(r, s, Failing(r, s))
  /\ UNCHANGED <<release, method, box, row, lock, run, checking>>

\* Mutant: the release that was asked for is taken for the one that came.
Version_Target(done, old) == IF done.state = "succeeded" THEN done.target ELSE old

Version(done, old) == IF done.state = "succeeded" THEN done.to ELSE old

\* _record, then the lock is released.
Save(r, s) ==
  LET done == job[r][s] IN
  /\ At(r, s, "saving")
  /\ row' = [row EXCEPT
       ![s].state = done.state, ![s].attempted = done.target,
       ![s].backoff = done.state = "failed",
       ![s].version = Version(done, @),
       ![s].latest = IF done.state = "succeeded" THEN 0 ELSE @]
  /\ lock' = [lock EXCEPT ![s] = None]
  /\ Become(r, s, NoJob)
  /\ UNCHANGED <<release, method, box, run, checking, bounds>>

\* gather returns.
Finish(r) ==
  /\ run[r].on /\ run[r].waiting = {} /\ Active(r) = {}
  /\ run' = [run EXCEPT ![r] = Resting]
  /\ UNCHANGED <<release, method, box, row, lock, job, checking, bounds>>

-----------------------------------------------------------------------------
\* Reconciliation and "Check now"

SyncBegin(s) ==
  /\ lock[s] = None
  /\ lock' = [lock EXCEPT ![s] = "sync"]
  /\ UNCHANGED <<release, method, box, row, run, job, checking, bounds>>

\* The version columns are written when the box answered; a refused call
\* starts a cooldown.
SyncEnd(s) ==
  /\ lock[s] = "sync"
  /\ \/ box[s].up /\ row' = [row EXCEPT ![s].version = box[s].version,
                                        ![s].latest = Newer(s), ![s].cooling = FALSE]
                  /\ UNCHANGED bounds
     \/ ~box[s].up /\ UNCHANGED <<row, bounds>>
     \/ Fault /\ row' = [row EXCEPT ![s].cooling = TRUE]
  /\ lock' = [lock EXCEPT ![s] = None]
  /\ UNCHANGED <<release, method, box, run, job, checking>>

\* check_now asks without the lock, and writes when every server answered.
CheckAsk(s) ==
  /\ checking[s] = None
  /\ Request
  /\ checking' = [checking EXCEPT ![s] = IF box[s].up THEN Newer(s) ELSE 0]
  /\ UNCHANGED <<release, method, box, row, lock, run, job>>

CheckSave(s) ==
  /\ checking[s] # None
  /\ row' = [row EXCEPT ![s].latest = checking[s]]
  /\ checking' = [checking EXCEPT ![s] = None]
  /\ UNCHANGED <<release, method, box, lock, run, job, bounds>>

-----------------------------------------------------------------------------
\* The boxes, time, and the control plane

\* A box that went down comes back, on the newest release unless something
\* went wrong (or, for a container, unless its tag still names the old one).
BoxBack(s) ==
  /\ ~box[s].up
  /\ \/ box' = [box EXCEPT ![s] = [version |-> release, up |-> TRUE]] /\ UNCHANGED bounds
     \/ method[s] # "native" /\ box' = [box EXCEPT ![s].up = TRUE] /\ UNCHANGED bounds
     \/ Fault /\ box' = [box EXCEPT ![s].up = TRUE]
  /\ UNCHANGED <<release, method, row, lock, run, job, checking>>

\* The on-box updater of a container without an agent, on its own timer.
OnBoxUpdate(s) ==
  /\ method[s] = "docker" /\ box[s].up /\ Newer(s) # 0
  /\ GoesDown(s)
  /\ UNCHANGED <<release, method, row, lock, run, job, checking, bounds>>

NewRelease ==
  /\ release < MaxRelease
  /\ release' = release + 1
  /\ UNCHANGED <<method, box, row, lock, run, job, checking, bounds>>

BackoffExpires(s) ==
  /\ row[s].backoff
  /\ row' = [row EXCEPT ![s].backoff = FALSE]
  /\ UNCHANGED <<release, method, box, lock, run, job, checking, bounds>>

CooldownExpires(s) ==
  /\ row[s].cooling
  /\ row' = [row EXCEPT ![s].cooling = FALSE]
  /\ UNCHANGED <<release, method, box, lock, run, job, checking, bounds>>

\* The control plane dies and starts again: runs, jobs and locks are memory.
Restart ==
  /\ Fault
  /\ lock' = [s \in Servers |-> None]
  /\ run' = [r \in Runs |-> Resting]
  /\ job' = [r \in Runs |-> [s \in Servers |-> NoJob]]
  /\ checking' = [s \in Servers |-> None]
  /\ UNCHANGED <<release, method, box, row>>

-----------------------------------------------------------------------------

Advance(r, s) ==
  \/ AskRelease(r, s) \/ AskVersion(r, s) \/ UpdateNow(r, s) \/ AgentUpdate(r, s)
  \/ CameBack(r, s) \/ GaveUp(r, s) \/ Save(r, s)

Next ==
  \/ StartPeriodic
  \/ \E r \in Manual : StartManual(r)
  \/ \E r \in Runs :
       \/ Finish(r)
       \/ \E s \in Servers : Take(r, s) \/ Busy(r, s) \/ Advance(r, s) \/ Fail(r, s)
  \/ \E s \in Servers :
       \/ SyncBegin(s) \/ SyncEnd(s) \/ CheckAsk(s) \/ CheckSave(s)
       \/ BoxBack(s) \/ OnBoxUpdate(s) \/ BackoffExpires(s) \/ CooldownExpires(s)
  \/ NewRelease \/ Restart

\* Tasks run, calls are answered or time out, a box that restarts comes back,
\* a reconcile pass that began ends.  No run, release or check is owed.
Fairness ==
  /\ \A r \in Runs : WF_vars(Finish(r))
  /\ \A r \in Runs, s \in Servers :
       WF_vars(Take(r, s) \/ Busy(r, s)) /\ WF_vars(Advance(r, s))
  /\ \A s \in Servers : WF_vars(SyncEnd(s)) /\ WF_vars(BoxBack(s))

Spec == Init /\ [][Next]_vars
FairSpec == Spec /\ Fairness

-----------------------------------------------------------------------------
(***************************************************************************)
(* Properties                                                              *)
(***************************************************************************)

\* A run has a server's lock for as long as it is at work on it, so that two
\* runs, or a run and a reconcile pass, never are at once.  (updates.md:
\* "Reconciliation is locked out of a server for the duration"; update_server)
JobHasLock == \A r \in Runs, s \in Servers : job[r][s].at # "none" => lock[s] = r

\* The control plane restarts a native install only if a newer release is out
\* than it runs, whatever the row, an earlier run or a check under way says.
\* (update_server: "Ask the box itself rather than trusting our cached flag")
NoNeedlessRestart ==
  [][\A r \in Runs, s \in Servers :
       At(r, s, "updating") /\ box[s].up /\ ~box'[s].up => release > box[s].version]_vars

\* The rows are never ahead of the boxes: a version that the fleet view shows has
\* been reached, and a release that it offers is out, however late the answers of
\* boxes are written back.  (update_server's _record, check_now, sync.py)
Behind(s) == row[s].version <= box[s].version /\ row[s].latest <= release
RowsBehind == \A s \in Servers : Behind(s)

\* Every run ends: no box, lock or queue holds a run for ever, so the periodic
\* pass is never skipped for good.  (_run_periodic_pass skips while one is on)
RunsEnd == \A r \in Runs : run[r].on ~> ~run[r].on

=============================================================================
