---------------------------- MODULE RoleManager ----------------------------
(***************************************************************************)
(* One role of the host agent, as roles/manager.go keeps it: a spec is     *)
(* accepted over the API by one of several concurrent PUT handlers, is     *)
(* written to desired/<role>.json, and one goroutine per role converges    *)
(* the host toward it when woken, at start and every 30 seconds.  The      *)
(* reset handler of server.go wipes the role's install and asks for a      *)
(* fresh converge.                                                         *)
(*                                                                         *)
(* A spec stands for its raw bytes, its decoded form and its hash, which   *)
(* determine each other.  Only specs that decode are members of Specs: a   *)
(* PUT that does not decode is answered 422 and changes nothing.           *)
(*                                                                         *)
(* m.mu protects each critical section of a few assignments: it is one     *)
(* step here.  Everything the code does outside m.mu (file writes, the     *)
(* send on the wake channel, the role's own work) is a step of its own.    *)
(***************************************************************************)
EXTENDS Naturals

CONSTANTS
  Specs,        \* the specs a control plane may send
  Stopping,     \* those with enabled: false
  Putters,      \* HTTP handler goroutines that may serve a PUT
  Resetters,    \* and those that may serve a reset
  None,         \* no spec
  Partial,      \* a host left part-way by a failed or interrupted change
  MaxRequests,  \* bound: requests over a behaviour
  MaxFaults     \* bound: crashes, failed operations and outside changes

ASSUME SpecsAssumption ==
  /\ Stopping \subseteq Specs
  /\ None \notin Specs
  /\ Partial \notin Specs \cup {None}

Handlers == Putters \cup Resetters
ASSUME HandlersAssumption == "loop" \notin Handlers /\ None \notin Handlers \cup {"loop"}
ASSUME BoundsAssumption == MaxRequests \in Nat /\ MaxFaults \in Nat

VARIABLES
  stored,      \* desired/<role>.json
  statusFile,  \* the applied hash in status/<role>.json
  desired,     \* e.spec, e.desiredHash
  applied,     \* e.common.AppliedHash
  state,       \* e.common.State
  wake,        \* a token is in the wake channel (capacity 1)
  convergeMu,  \* who holds e.convergeMu
  loop,        \* the converge goroutine: where it is, the spec it works on
  req,         \* the handlers: where each is, the spec it carries
  host,        \* what is installed on the machine
  disturbed,   \* the host was changed by something else since the last converge
  requests, faults

disk == <<stored, statusFile>>
memory == <<desired, applied, state>>
bounds == <<requests, faults>>
vars == <<disk, memory, wake, convergeMu, loop, req, host, disturbed, bounds>>

MaybeSpec == Specs \cup {None}
HostState == Specs \cup {None, Partial}
States == {"absent", "installing", "configuring", "ready", "stopped", "error"}
LoopPlaces == {"waiting", "starting", "working", "saving"}
ReqPlaces == {"idle", "accepted", "stored", "waking", "wiping", "wiped", "forgotten"}

Idle == [at |-> "idle", spec |-> None]

TypeOK ==
  /\ stored \in MaybeSpec
  /\ statusFile \in MaybeSpec
  /\ desired \in MaybeSpec
  /\ applied \in MaybeSpec
  /\ state \in States
  /\ wake \in BOOLEAN
  /\ convergeMu \in Handlers \cup {"loop", None}
  /\ loop \in [at : LoopPlaces, spec : MaybeSpec, saves : MaybeSpec]
  /\ req \in [Handlers -> [at : ReqPlaces, spec : MaybeSpec]]
  /\ host \in HostState
  /\ disturbed \in BOOLEAN
  /\ requests \in 0 .. MaxRequests
  /\ faults \in 0 .. MaxFaults

AtLoop(place) == [at |-> place, spec |-> None, saves |-> None]

Init ==
  /\ stored = None /\ statusFile = None
  /\ desired = None /\ applied = None /\ state = "absent"
  /\ wake = FALSE
  /\ convergeMu = None
  /\ loop = AtLoop("starting")
  /\ req = [h \in Handlers |-> Idle]
  /\ host = None
  /\ disturbed = FALSE
  /\ requests = 0 /\ faults = 0

Request == requests < MaxRequests /\ requests' = requests + 1 /\ UNCHANGED faults
Fault == faults < MaxFaults /\ faults' = faults + 1 /\ UNCHANGED requests

\* Nobody looks at the error of writing the status.
SaveStatus(hash) ==
  \/ statusFile' = hash /\ UNCHANGED bounds
  \/ Fault /\ UNCHANGED statusFile

Goto(h, place) == req' = [req EXCEPT ![h].at = place]

-----------------------------------------------------------------------------
\* Put

\* Put decodes and hashes the body.
PutAccept(h, s) ==
  /\ h \in Putters /\ req[h].at = "idle"
  /\ Request
  /\ req' = [req EXCEPT ![h] = [at |-> "accepted", spec |-> s]]
  /\ UNCHANGED <<disk, memory, wake, convergeMu, loop, host, disturbed>>

\* The spec is on disk before it is in memory; m.mu is not held.
PutStore(h) ==
  /\ req[h].at = "accepted"
  /\ stored' = req[h].spec
  /\ Goto(h, "stored")
  /\ UNCHANGED <<statusFile, memory, wake, convergeMu, loop, host, disturbed, bounds>>

\* The spec cannot be written: the PUT is answered 422.
PutRefused(h) ==
  /\ req[h].at = "accepted"
  /\ Fault
  /\ req' = [req EXCEPT ![h] = Idle]
  /\ UNCHANGED <<disk, memory, wake, convergeMu, loop, host, disturbed>>

\* Mutant: the state is left alone until the loop gets to it.
PutSet_KeepsState(h) ==
  /\ req[h].at = "stored"
  /\ desired' = req[h].spec
  /\ Goto(h, "waking")
  /\ UNCHANGED <<disk, applied, state, wake, convergeMu, loop, host, disturbed, bounds>>

PutSet(h) ==
  /\ req[h].at = "stored"
  /\ desired' = req[h].spec
  /\ state' = IF applied # req[h].spec THEN "installing" ELSE state
  /\ Goto(h, "waking")
  /\ UNCHANGED <<disk, applied, wake, convergeMu, loop, host, disturbed, bounds>>

\* Mutant: make(chan struct{}) drops a send the loop is not waiting for.
SendWake_Unbuffered == wake' = (wake \/ loop.at = "waiting")

\* The non-blocking send on the wake channel: a token already there is enough.
SendWake == wake' = TRUE

\* The end of a PUT and of a reset.
Wake(h) ==
  /\ req[h].at = "waking"
  /\ SendWake
  /\ req' = [req EXCEPT ![h] = Idle]
  /\ UNCHANGED <<disk, memory, convergeMu, loop, host, disturbed, bounds>>

-----------------------------------------------------------------------------
\* Reset

\* Mutant: the wipe does not take the converge lock.
TryLockConverge_Ignored == TRUE

TryLockConverge == convergeMu = None

\* Refused (409) without a spec or while a converge holds the role.
ResetStart(h) ==
  /\ h \in Resetters /\ req[h].at = "idle"
  /\ desired # None
  /\ TryLockConverge
  /\ Request
  /\ convergeMu' = h
  /\ Goto(h, "wiping")
  /\ UNCHANGED <<disk, memory, wake, loop, host, disturbed>>

\* The wipe is done and the converge lock released, before ResetApplied.
ResetWipe(h) ==
  /\ req[h].at = "wiping"
  /\ host' = None
  /\ convergeMu' = None
  /\ Goto(h, "wiped")
  /\ UNCHANGED <<disk, memory, wake, loop, disturbed, bounds>>

\* A failed wipe is answered 500: no status is changed and nobody is woken.
ResetFail(h) ==
  /\ req[h].at = "wiping"
  /\ Fault
  /\ host' = Partial
  /\ disturbed' = TRUE
  /\ convergeMu' = None
  /\ req' = [req EXCEPT ![h] = Idle]
  /\ UNCHANGED <<disk, memory, wake, loop>>

ResetApplied(h) ==
  /\ req[h].at = "wiped"
  /\ applied' = None
  /\ state' = "installing"
  /\ Goto(h, "forgotten")
  /\ UNCHANGED <<disk, desired, wake, convergeMu, loop, host, disturbed, bounds>>

ResetSave(h) ==
  /\ req[h].at = "forgotten"
  /\ SaveStatus(None)
  /\ Goto(h, "waking")
  /\ UNCHANGED <<stored, memory, wake, convergeMu, loop, host, disturbed>>

-----------------------------------------------------------------------------
\* The converge loop

\* case <-e.wake
LoopWoken ==
  /\ loop.at = "waiting" /\ wake
  /\ wake' = FALSE
  /\ loop' = AtLoop("starting")
  /\ UNCHANGED <<disk, memory, convergeMu, req, host, disturbed, bounds>>

\* Mutant: no ticker.
LoopTick_Off == FALSE

\* Mutant: nothing to do on a tick when the applied hash is the desired one.
LoopTick_SkipsApplied ==
  /\ loop.at = "waiting" /\ applied # desired
  /\ loop' = AtLoop("starting")
  /\ UNCHANGED <<disk, memory, wake, convergeMu, req, host, disturbed, bounds>>

\* case <-ticker.C
LoopTick ==
  /\ loop.at = "waiting"
  /\ loop' = AtLoop("starting")
  /\ UNCHANGED <<disk, memory, wake, convergeMu, req, host, disturbed, bounds>>

\* converge locks convergeMu and takes its copy of the desired spec.
ConvergeBegin ==
  /\ loop.at = "starting"
  /\ convergeMu = None
  /\ IF desired = None
       THEN loop' = AtLoop("waiting") /\ UNCHANGED convergeMu
       ELSE /\ loop' = [AtLoop("working") EXCEPT !.spec = desired]
            /\ convergeMu' = "loop"
  /\ UNCHANGED <<disk, memory, wake, req, host, disturbed, bounds>>

\* The role reports an intermediate state while it works.  "ready" is what
\* the dnsdist and keepalived roles report when drains could not be re-applied.
ConvergeReport ==
  /\ loop.at = "working"
  /\ state' \in {"installing", "configuring", "ready"}
  /\ UNCHANGED <<disk, desired, applied, wake, convergeMu, loop, req, host, disturbed, bounds>>

ConvergeOk ==
  /\ loop.at = "working"
  /\ host' = loop.spec
  /\ disturbed' = FALSE
  /\ applied' = loop.spec
  /\ state' = IF loop.spec \in Stopping THEN "stopped" ELSE "ready"
  /\ loop' = [at |-> "saving", spec |-> None, saves |-> loop.spec]
  /\ UNCHANGED <<disk, desired, wake, convergeMu, req, bounds>>

ConvergeError ==
  /\ loop.at = "working"
  /\ Fault
  /\ host' \in {host, Partial}
  /\ state' = "error"
  /\ loop' = [at |-> "saving", spec |-> None, saves |-> applied]
  /\ UNCHANGED <<disk, desired, applied, wake, convergeMu, req, disturbed>>

\* The copy made under m.mu is written out, then convergeMu is released.
ConvergeSave ==
  /\ loop.at = "saving"
  /\ SaveStatus(loop.saves)
  /\ loop' = AtLoop("waiting")
  /\ convergeMu' = None
  /\ UNCHANGED <<stored, memory, wake, req, host, disturbed>>

-----------------------------------------------------------------------------
\* The environment

\* Mutants: Load leaves State at its zero value; trusts a stored status that
\* matches the stored spec.
LoadedState_ZeroValue == IF stored # None THEN "installing" ELSE ""
LoadedState_TrustsStatus ==
  CASE stored = None -> "absent"
    [] stored # None /\ stored = statusFile -> "ready"
    [] OTHER -> "installing"

\* Load reads the stored spec and, of the stored status, the applied hash.
LoadedSpec == stored
LoadedState == IF stored # None THEN "installing" ELSE "absent"
Load == desired' = LoadedSpec /\ applied' = statusFile /\ state' = LoadedState

\* The agent dies and is started again: Load, then Start.  Whatever was
\* working on the host stops where it was.
Restart ==
  LET busy == loop.at = "working" \/ \E h \in Handlers : req[h].at = "wiping"
  IN  /\ Fault
      /\ Load
      /\ wake' = FALSE
      /\ convergeMu' = None
      /\ loop' = AtLoop("starting")
      /\ req' = [h \in Handlers |-> Idle]
      /\ host' \in IF busy THEN {host, Partial} ELSE {host}
      /\ UNCHANGED <<disk, disturbed>>

\* Somebody else stops, removes or edits the service.  A change made while
\* the role works is one it sees, as if made before, or misses, as if after.
Drift ==
  /\ loop.at # "working"
  /\ Fault
  /\ host' = Partial
  /\ disturbed' = TRUE
  /\ UNCHANGED <<disk, memory, wake, convergeMu, loop, req>>

-----------------------------------------------------------------------------

Converge ==
  \/ ConvergeBegin \/ ConvergeReport \/ ConvergeOk \/ ConvergeError \/ ConvergeSave

Handle(h) ==
  \/ \E s \in Specs : PutAccept(h, s)
  \/ PutStore(h) \/ PutRefused(h) \/ PutSet(h) \/ Wake(h)
  \/ ResetStart(h) \/ ResetWipe(h) \/ ResetFail(h)
  \/ ResetApplied(h) \/ ResetSave(h)

Next ==
  \/ LoopWoken \/ LoopTick \/ Converge
  \/ \E h \in Handlers : Handle(h)
  \/ Restart \/ Drift

\* The scheduler runs every goroutine, the ticker fires, and a role's
\* Converge returns (its commands have timeouts).  Requests, reports and
\* faults are never owed.
Fairness ==
  /\ WF_vars(LoopTick \/ LoopWoken)
  /\ WF_vars(ConvergeBegin)
  /\ WF_vars(ConvergeOk \/ ConvergeError)
  /\ WF_vars(ConvergeSave)
  /\ \A h \in Handlers :
       WF_vars(PutStore(h) \/ PutSet(h) \/ Wake(h)
               \/ ResetWipe(h) \/ ResetApplied(h) \/ ResetSave(h))

Spec == Init /\ [][Next]_vars
FairSpec == Spec /\ Fairness

-----------------------------------------------------------------------------
(***************************************************************************)
(* Properties                                                              *)
(***************************************************************************)

\* A reset that has begun and has not yet told the status about it.
Wiping(h) == req[h].at \in {"wiping", "wiped"}

Succeeded == state \in {"ready", "stopped"}

\* The role as the control plane sees it.
view ==
  [stored |-> stored, desired |-> desired, applied |-> applied, ok |-> Succeeded,
   working |-> IF loop.at = "working" THEN loop.spec ELSE None,
   wiping |-> \E h \in Handlers : Wiping(h), host |-> host, disturbed |-> disturbed]

Abstract == INSTANCE AgentRole WITH role <- view

\* Whatever handlers, the loop and crashes do, the control plane sees a role
\* that keeps the promise of AgentRole: success is never reported of a spec
\* between its PUT and the pass that applied it.  (manager.go)
ImplementsAgentRole == Abstract!Spec

\* A role whose last pass succeeded reports "ready" or "stopped", and the
\* control plane reads that as "the host runs the applied spec".  It is so
\* whenever no pass and no wipe is under way and nobody else has touched the
\* host, after any crash, failed pass and superseded PUT.  (manager.go
\* converge, Load, ResetApplied)
AppliedIsHost ==
  /\ Succeeded
  /\ loop.at # "working"
  /\ \A h \in Handlers : ~Wiping(h)
  /\ ~disturbed
  => host = applied

\* A PUT or a reset is never left to the 30 second tick: while the loop
\* sleeps over a spec it has not applied, a wake token is there or on its
\* way, unless the last pass over it failed.  (manager.go Put, loop)
WakeOwed == wake \/ \E h \in Handlers : req[h].at = "waking"
ResetOwed == \E h \in Handlers : req[h].at = "forgotten"
NoLostWake ==
  loop.at = "waiting" /\ desired # applied /\ state # "error" => WakeOwed \/ ResetOwed

\* A wipe never overlaps a converge, nor another wipe: the converge lock is
\* held by the one that works on the host.  (server.go adguardReset takes
\* TryLockConverge)
OneActorOnHost ==
  /\ loop.at \in {"working", "saving"} => convergeMu = "loop"
  /\ \A h \in Handlers : req[h].at = "wiping" => convergeMu = h

\* Once requests and faults stop, the host comes to run the desired spec and
\* the status says so, whatever was lost, interrupted or refused on the way;
\* and success is reported again and again.  (manager.go loop)
Converges == <>[](desired # None => host = desired /\ applied = desired)
ReportsSuccess == []<>(desired # None => Succeeded)

=============================================================================
