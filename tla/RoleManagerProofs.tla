-------------------------- MODULE RoleManagerProofs --------------------------
(***************************************************************************)
(* Proofs about RoleManager, for every set of specs and handlers, and about*)
(* the role it may manage, BalancerRole (Balancer of MCRoleManager), for   *)
(* every set of backends, images and specs.                                *)
(*                                                                         *)
(* AppliedIsHost and OneActorOnHost are inductive given TypeOK.            *)
(* NoLostWake is not: it looks at the loop when it sleeps, and what makes  *)
(* it true is decided while the loop works.  WakeInv says that a spec set  *)
(* under a working loop has its wake token already, and Known that a role  *)
(* without a desired spec has applied nothing, which is why a pass that    *)
(* finds no spec may go back to sleep.                                     *)
(*                                                                         *)
(* ReportedRuns looks at the daemon between passes, Undisturbed at a pass. *)
(* RunsInv and MarkInv carry them from one to the other: what the daemon   *)
(* has loaded, and what the mark says, is the file, but where a pass that  *)
(* changes the file has yet to make it so, or was torn before it did.      *)
(***************************************************************************)
EXTENDS MCRoleManager, TLAPS

Owed == WakeOwed \/ ResetOwed

WakeInv ==
  /\ loop.at = "working" /\ desired # loop.spec => Owed
  /\ loop.at \in {"saving", "waiting"} /\ desired # applied /\ state # "error" => Owed

Known ==
  /\ stored = None => desired = None /\ statusFile = None
  /\ desired = None => applied = None
  /\ loop.at \in {"working", "saving"} => desired # None
  /\ loop.at = "working" => loop.spec # None
  /\ \A h \in Handlers :
       /\ req[h].at \in {"accepted", "stored"} => req[h].spec # None
       /\ req[h].at = "stored" => stored # None

WakeIInv == Known /\ WakeInv

-----------------------------------------------------------------------------

\* A loop at a place, and an idle handler, are of the types TypeOK gives them.
LEMMA PlaceTypes ==
  /\ \A place \in LoopPlaces :
       AtLoop(place) \in [at : LoopPlaces, spec : MaybeSpec, saves : MaybeSpec]
  /\ [h \in Handlers |-> Idle] \in [Handlers -> [at : ReqPlaces, spec : MaybeSpec]]
BY DEF AtLoop, Idle, MaybeSpec, ReqPlaces

\* The variables keep their types through every handler, pass and restart.
THEOREM TypeCorrect == Spec => []TypeOK
<1> USE SpecsAssumption, HandlersAssumption, BoundsAssumption
<1>1. Init => TypeOK
  <2> SUFFICES ASSUME Init PROVE TypeOK
    OBVIOUS
  <2> USE DEF Init, MaybeSpec
  <2>1. loop \in [at : LoopPlaces, spec : MaybeSpec, saves : MaybeSpec]
    BY PlaceTypes DEF LoopPlaces
  <2>2. req \in [Handlers -> [at : ReqPlaces, spec : MaybeSpec]]
    BY PlaceTypes
  <2>3. requests \in 0 .. MaxRequests /\ faults \in 0 .. MaxFaults
    OBVIOUS
  <2> QED BY <2>1, <2>2, <2>3 DEF TypeOK, HostState, States
<1>2. TypeOK /\ [Next]_vars => TypeOK'
  <2> SUFFICES ASSUME TypeOK, [Next]_vars PROVE TypeOK'
    OBVIOUS
  <2> USE DEF TypeOK, MaybeSpec, HostState, States, LoopPlaces, ReqPlaces
  <2>1. CASE UNCHANGED vars
    BY <2>1 DEF vars, disk, memory, bounds
  <2>2. CASE LoopWoken \/ LoopTick
    BY <2>2, PlaceTypes DEF LoopWoken, LoopTick, disk, memory, bounds
  <2>3. CASE Converge
    <3>1. CASE ConvergeBegin
      BY <3>1 DEF ConvergeBegin, AtLoop, disk, memory, bounds
    <3>2. CASE ConvergeReport
      BY <3>2 DEF ConvergeReport, disk, bounds
    <3>3. CASE ConvergeOk
      BY <3>3 DEF ConvergeOk, disk, bounds
    <3>4. CASE ConvergeError
      BY <3>4 DEF ConvergeError, Fault, disk
    <3>5. CASE ConvergeSave
      BY <3>5 DEF ConvergeSave, SaveStatus, Fault, AtLoop, memory, bounds
    <3> QED BY <2>3, <3>1, <3>2, <3>3, <3>4, <3>5 DEF Converge
  <2>4. ASSUME NEW h \in Handlers, Handle(h) PROVE TypeOK'
    <3>1. ASSUME NEW s \in Specs, PutAccept(h, s) PROVE TypeOK'
      BY <3>1 DEF PutAccept, Request, disk, memory
    <3>2. CASE PutStore(h)
      BY <3>2 DEF PutStore, Goto, memory, bounds
    <3>3. CASE PutSet(h)
      BY <3>3 DEF PutSet, Goto, disk, bounds
    <3>4. CASE Wake(h)
      BY <3>4 DEF Wake, SendWake, Idle, disk, memory, bounds
    <3>5. CASE ResetStart(h)
      BY <3>5 DEF ResetStart, Request, Goto, disk, memory
    <3>6. CASE ResetWipe(h)
      BY <3>6 DEF ResetWipe, Goto, disk, memory, bounds
    <3>7. CASE ResetFail(h)
      BY <3>7 DEF ResetFail, Fault, Idle, disk, memory
    <3>8. CASE ResetApplied(h)
      BY <3>8 DEF ResetApplied, Goto, disk, bounds
    <3>9. CASE ResetSave(h)
      BY <3>9 DEF ResetSave, SaveStatus, Fault, Goto, memory, bounds
    <3>10. CASE PutRefused(h)
      BY <3>10 DEF PutRefused, Fault, Idle, disk, memory
    <3> QED
      BY <2>4, <3>1, <3>2, <3>3, <3>4, <3>5, <3>6, <3>7, <3>8, <3>9, <3>10 DEF Handle
  <2>5. CASE Restart
    <3> USE <2>5 DEF Restart
    <3>1. host' \in HostState
      OBVIOUS
    <3>2. desired' \in MaybeSpec /\ applied' \in MaybeSpec /\ state' \in States
      BY DEF Load, LoadedSpec, LoadedState
    <3>3. loop' \in [at : LoopPlaces, spec : MaybeSpec, saves : MaybeSpec]
      BY PlaceTypes
    <3>4. req' \in [Handlers -> [at : ReqPlaces, spec : MaybeSpec]]
      BY PlaceTypes
    <3>5. faults' \in 0 .. MaxFaults /\ requests' \in 0 .. MaxRequests
      BY DEF Fault
    <3> QED BY <3>1, <3>2, <3>3, <3>4, <3>5 DEF disk
  <2>6. CASE Drift
    BY <2>6 DEF Drift, Fault, disk, memory
  <2> QED BY <2>1, <2>2, <2>3, <2>4, <2>5, <2>6 DEF Next
<1> QED BY <1>1, <1>2, PTL DEF Spec

-----------------------------------------------------------------------------

\* The handlers' and the loop's holds on the converge lock exclude each other
\* through every step.
LEMMA LockStep == TypeOK /\ OneActorOnHost /\ [Next]_vars => OneActorOnHost'
<1> USE HandlersAssumption DEF OneActorOnHost
<1> SUFFICES ASSUME TypeOK, OneActorOnHost, [Next]_vars PROVE OneActorOnHost'
  OBVIOUS
<1> USE DEF TypeOK
<1>1. CASE UNCHANGED vars
  BY <1>1 DEF vars
<1>2. CASE LoopWoken \/ LoopTick
  BY <1>2 DEF LoopWoken, LoopTick, AtLoop
<1>3. CASE Converge
  <2>1. CASE ConvergeBegin
    BY <2>1 DEF ConvergeBegin, AtLoop
  <2>2. CASE ConvergeReport \/ ConvergeOk \/ ConvergeError
    BY <2>2 DEF ConvergeReport, ConvergeOk, ConvergeError
  <2>3. CASE ConvergeSave
    BY <2>3 DEF ConvergeSave, AtLoop
  <2> QED BY <1>3, <2>1, <2>2, <2>3 DEF Converge
<1>4. ASSUME NEW h \in Handlers, Handle(h) PROVE OneActorOnHost'
  <2>1. CASE \E s \in Specs : PutAccept(h, s)
    BY <2>1 DEF PutAccept
  <2>2. CASE PutStore(h) \/ PutSet(h) \/ ResetApplied(h) \/ ResetSave(h)
    BY <2>2 DEF PutStore, PutSet, ResetApplied, ResetSave, Goto
  <2>3. CASE Wake(h) \/ PutRefused(h)
    BY <2>3 DEF Wake, PutRefused, Idle
  <2>4. CASE ResetStart(h)
    BY <2>4 DEF ResetStart, TryLockConverge, Goto
  <2>5. CASE ResetWipe(h) \/ ResetFail(h)
    BY <2>5 DEF ResetWipe, ResetFail, Goto, Idle
  <2> QED BY <1>4, <2>1, <2>2, <2>3, <2>4, <2>5 DEF Handle
<1>5. CASE Restart
  BY <1>5 DEF Restart, AtLoop, Idle
<1>6. CASE Drift
  BY <1>6 DEF Drift
<1> QED BY <1>1, <1>2, <1>3, <1>4, <1>5, <1>6 DEF Next

\* A wipe and a converge never overlap (server.go adguardReset, manager.go
\* converge).
THEOREM MutualExclusion == Spec => []OneActorOnHost
<1>1. Init => OneActorOnHost
  BY HandlersAssumption DEF Init, OneActorOnHost, AtLoop, Idle
<1> QED BY <1>1, LockStep, TypeCorrect, PTL DEF Spec

\* What "ready" and "stopped" promise survives every step: the steps that
\* touch the host either withdraw the promise or are exempt while they last.
LEMMA AppliedStep == TypeOK /\ AppliedIsHost /\ [Next]_vars => AppliedIsHost'
<1> SUFFICES ASSUME TypeOK, AppliedIsHost, [Next]_vars PROVE AppliedIsHost'
  OBVIOUS
<1> USE DEF AppliedIsHost, Succeeded, Wiping, TypeOK
<1>1. CASE UNCHANGED vars
  BY <1>1 DEF vars, memory
<1>2. CASE LoopWoken \/ LoopTick
  BY <1>2 DEF LoopWoken, LoopTick, AtLoop, memory
<1>3. CASE Converge
  <2>1. CASE ConvergeBegin
    BY <2>1 DEF ConvergeBegin, AtLoop, memory
  <2>2. CASE ConvergeReport
    BY <2>2 DEF ConvergeReport
  <2>3. CASE ConvergeOk
    BY <2>3 DEF ConvergeOk
  <2>4. CASE ConvergeError
    BY <2>4 DEF ConvergeError
  <2>5. CASE ConvergeSave
    BY <2>5 DEF ConvergeSave, AtLoop, memory
  <2> QED BY <1>3, <2>1, <2>2, <2>3, <2>4, <2>5 DEF Converge
<1>4. ASSUME NEW h \in Handlers, Handle(h) PROVE AppliedIsHost'
  <2>1. CASE \E s \in Specs : PutAccept(h, s)
    BY <2>1 DEF PutAccept, memory
  <2>2. CASE PutStore(h)
    BY <2>2 DEF PutStore, Goto, memory
  <2>3. CASE PutSet(h)
    BY <2>3 DEF PutSet, Goto
  <2>4. CASE Wake(h) \/ PutRefused(h)
    BY <2>4 DEF Wake, PutRefused, Idle, memory
  <2>5. CASE ResetStart(h)
    BY <2>5 DEF ResetStart, Goto
  <2>6. CASE ResetWipe(h)
    BY <2>6 DEF ResetWipe, Goto
  <2>7. CASE ResetFail(h)
    BY <2>7 DEF ResetFail
  <2>8. CASE ResetApplied(h)
    BY <2>8 DEF ResetApplied
  <2>9. CASE ResetSave(h)
    BY <2>9 DEF ResetSave, Goto, memory
  <2> QED
    BY <1>4, <2>1, <2>2, <2>3, <2>4, <2>5, <2>6, <2>7, <2>8, <2>9 DEF Handle
<1>5. CASE Restart
  BY <1>5 DEF Restart, Load, LoadedState
<1>6. CASE Drift
  BY <1>6 DEF Drift
<1> QED BY <1>1, <1>2, <1>3, <1>4, <1>5, <1>6 DEF Next

\* A role that reports success runs what it says it applied (manager.go
\* converge, ResetApplied, Load).
THEOREM ReportedSpecRuns == Spec => []AppliedIsHost
<1>1. Init => AppliedIsHost
  BY DEF Init, AppliedIsHost, Succeeded
<1> QED BY <1>1, AppliedStep, TypeCorrect, PTL DEF Spec

-----------------------------------------------------------------------------

\* A role without a desired spec has applied nothing, in memory and on disk,
\* and what a handler carries is a spec.
LEMMA KnownStep == TypeOK /\ Known /\ [Next]_vars => Known'
<1> SUFFICES ASSUME TypeOK, Known, [Next]_vars PROVE Known'
  OBVIOUS
<1> USE SpecsAssumption DEF Known, TypeOK
<1>1. CASE UNCHANGED vars
  BY <1>1 DEF vars, disk, memory
<1>2. CASE LoopWoken \/ LoopTick
  BY <1>2 DEF LoopWoken, LoopTick, AtLoop, disk, memory
<1>3. CASE Converge
  <2>1. CASE ConvergeBegin
    BY <2>1 DEF ConvergeBegin, AtLoop, disk, memory
  <2>2. CASE ConvergeReport
    BY <2>2 DEF ConvergeReport, disk
  <2>3. CASE ConvergeOk \/ ConvergeError
    BY <2>3 DEF ConvergeOk, ConvergeError, disk
  <2>4. CASE ConvergeSave
    BY <2>4 DEF ConvergeSave, SaveStatus, AtLoop, memory
  <2> QED BY <1>3, <2>1, <2>2, <2>3, <2>4 DEF Converge
<1>4. ASSUME NEW h \in Handlers, Handle(h) PROVE Known'
  <2>1. ASSUME NEW s \in Specs, PutAccept(h, s) PROVE Known'
    BY <2>1 DEF PutAccept, disk, memory
  <2>2. CASE PutStore(h)
    BY <2>2 DEF PutStore, Goto, memory
  <2>3. CASE PutSet(h)
    BY <2>3 DEF PutSet, Goto, disk
  <2>4. CASE Wake(h) \/ ResetFail(h) \/ PutRefused(h)
    BY <2>4 DEF Wake, ResetFail, PutRefused, Idle, disk, memory
  <2>5. CASE ResetStart(h) \/ ResetWipe(h)
    BY <2>5 DEF ResetStart, ResetWipe, Goto, disk, memory
  <2>6. CASE ResetApplied(h) \/ ResetSave(h)
    BY <2>6 DEF ResetApplied, ResetSave, SaveStatus, Goto, disk, memory
  <2> QED BY <1>4, <2>1, <2>2, <2>3, <2>4, <2>5, <2>6 DEF Handle
<1>5. CASE Restart
  BY <1>5 DEF Restart, Load, LoadedSpec, AtLoop, Idle, disk
<1>6. CASE Drift
  BY <1>6 DEF Drift, disk, memory
<1> QED BY <1>1, <1>2, <1>3, <1>4, <1>5, <1>6 DEF Next

\* A wake token on its way stays on its way until it is in the channel, and
\* leaves the channel only when the loop starts a new pass.
LEMMA OwedStep ==
  ASSUME TypeOK, Owed, [Next]_vars, ~LoopWoken, ~Restart
  PROVE  Owed'
<1> USE DEF Owed, WakeOwed, ResetOwed, TypeOK
<1>1. CASE UNCHANGED vars
  BY <1>1 DEF vars
<1>2. CASE LoopTick \/ Converge \/ Drift
  BY <1>2 DEF LoopTick, Converge, Drift, ConvergeBegin, ConvergeReport, ConvergeOk,
              ConvergeError, ConvergeSave
<1>3. ASSUME NEW h \in Handlers, Handle(h) PROVE Owed'
  <2>1. CASE \E s \in Specs : PutAccept(h, s)
    BY <2>1 DEF PutAccept
  <2>2. CASE PutStore(h) \/ PutSet(h) \/ ResetApplied(h) \/ ResetSave(h)
    BY <2>2 DEF PutStore, PutSet, ResetApplied, ResetSave, Goto
  <2>3. CASE Wake(h) \/ PutRefused(h)
    BY <2>3 DEF Wake, SendWake, PutRefused, Idle
  <2>4. CASE ResetStart(h) \/ ResetWipe(h) \/ ResetFail(h)
    BY <2>4 DEF ResetStart, ResetWipe, ResetFail, Goto
  <2> QED BY <1>3, <2>1, <2>2, <2>3, <2>4 DEF Handle
<1> QED BY <1>1, <1>2, <1>3 DEF Next

\* Every step that makes the desired and the applied spec differ owes a wake.
LEMMA WakeStep == TypeOK /\ Known /\ WakeInv /\ [Next]_vars => WakeInv'
<1> SUFFICES ASSUME TypeOK, Known, WakeInv, [Next]_vars PROVE WakeInv'
  OBVIOUS
<1> USE DEF WakeInv
<1>1. CASE UNCHANGED vars
  BY <1>1 DEF vars, memory, Owed, WakeOwed, ResetOwed
<1>2. CASE LoopWoken \/ LoopTick
  BY <1>2 DEF LoopWoken, LoopTick, AtLoop
<1>3. CASE Restart
  BY <1>3 DEF Restart, AtLoop
<1>4. CASE Owed /\ ~LoopWoken /\ ~Restart
  BY <1>4, OwedStep
<1>5. CASE ~Owed /\ Converge
  <2>1. CASE ConvergeBegin
    BY <2>1, <1>5 DEF ConvergeBegin, AtLoop, memory, Known
  <2>2. CASE ConvergeReport
    BY <2>2, <1>5 DEF ConvergeReport
  <2>3. CASE ConvergeOk
    BY <2>3, <1>5 DEF ConvergeOk, TypeOK
  <2>4. CASE ConvergeError
    BY <2>4, <1>5 DEF ConvergeError, TypeOK
  <2>5. CASE ConvergeSave
    BY <2>5, <1>5 DEF ConvergeSave, AtLoop, memory
  <2> QED BY <1>5, <2>1, <2>2, <2>3, <2>4, <2>5 DEF Converge
<1>6. ASSUME NEW h \in Handlers, Handle(h), ~Owed PROVE WakeInv'
  <2>1. CASE \E s \in Specs : PutAccept(h, s)
    BY <2>1, <1>6 DEF PutAccept, memory
  <2>2. CASE PutStore(h) \/ ResetStart(h) \/ ResetWipe(h) \/ ResetSave(h)
    BY <2>2, <1>6 DEF PutStore, ResetStart, ResetWipe, ResetSave, memory
  <2>3. CASE ResetFail(h)
    BY <2>3, <1>6 DEF ResetFail, memory
  <2>4. CASE PutSet(h)
    BY <2>4 DEF PutSet, Goto, TypeOK, Owed, WakeOwed
  <2>5. CASE ResetApplied(h)
    BY <2>5 DEF ResetApplied, Goto, TypeOK, Owed, ResetOwed
  <2>6. CASE Wake(h)
    BY <2>6 DEF Wake, SendWake, Owed, WakeOwed
  <2>7. CASE PutRefused(h)
    BY <2>7, <1>6 DEF PutRefused, memory
  <2> QED BY <1>6, <2>1, <2>2, <2>3, <2>4, <2>5, <2>6, <2>7 DEF Handle
<1>7. CASE ~Owed /\ Drift
  BY <1>7 DEF Drift, memory
<1> QED BY <1>1, <1>2, <1>3, <1>4, <1>5, <1>6, <1>7 DEF Next

\* No accepted PUT and no reset is left waiting for the ticker (manager.go
\* Put, loop).
THEOREM WakeNeverLost == Spec => []NoLostWake
<1>1. Init => WakeIInv
  BY SpecsAssumption DEF Init, WakeIInv, Known, WakeInv, AtLoop, Idle
<1>2. TypeOK /\ WakeIInv /\ [Next]_vars => WakeIInv'
  BY KnownStep, WakeStep DEF WakeIInv
<1>3. WakeIInv => NoLostWake
  BY DEF WakeIInv, WakeInv, NoLostWake, Owed
<1> QED BY <1>1, <1>2, <1>3, TypeCorrect, PTL DEF Spec

-----------------------------------------------------------------------------

Rec(st, d, a, ok, work, wipe, h, x) ==
  [stored |-> st, desired |-> d, applied |-> a, ok |-> ok, working |-> work,
   wiping |-> wipe, host |-> h, disturbed |-> x]

Work == IF loop.at = "working" THEN loop.spec ELSE None
Wipes == \E h \in Handlers : Wiping(h)

\* The view is the record of its fields,
LEMMA ViewIs == view = Rec(stored, desired, applied, Succeeded, Work, Wipes, host, disturbed)
BY DEF view, Rec, Work, Wipes

\* and so is the next one,
LEMMA NextView ==
  view' = Rec(stored', desired', applied', Succeeded', Work', Wipes', host', disturbed')
BY DEF view, Rec, Work, Wipes

\* and these are its fields.
LEMMA ViewFields ==
  /\ view.stored = stored /\ view.desired = desired /\ view.applied = applied
  /\ view.ok = Succeeded /\ view.working = Work /\ view.wiping = Wipes
  /\ view.host = host /\ view.disturbed = disturbed
BY DEF view, Work, Wipes

\* What each step of AgentRole makes of the view.
LEMMA AbstractSteps ==
  /\ \A s : Abstract!Store(view, s) =
         Rec(s, desired, applied, Succeeded, Work, Wipes, host, disturbed)
  /\ \A s : Abstract!Accept(view, s) =
         Rec(stored, s, applied, Succeeded /\ applied = s, Work, Wipes, host, disturbed)
  /\ Abstract!Begin(view) =
         Rec(stored, desired, applied, Succeeded, desired, Wipes, host, disturbed)
  /\ \A b : Abstract!Report(view, b) =
         Rec(stored, desired, applied, b, Work, Wipes, host, disturbed)
  /\ Abstract!Succeed(view) = Rec(stored, desired, Work, TRUE, None, Wipes, Work, FALSE)
  /\ \A s : Abstract!Fail(view, s) =
         Rec(stored, desired, applied, FALSE, None, Wipes, s, disturbed)
  /\ Abstract!StartWipe(view) =
         Rec(stored, desired, applied, Succeeded, Work, TRUE, host, disturbed)
  /\ Abstract!Wiped(view) =
         Rec(stored, desired, applied, Succeeded, Work, Wipes, None, disturbed)
  /\ \A b : Abstract!WipeFailed(view, b) =
         Rec(stored, desired, applied, Succeeded, Work, b, Partial, TRUE)
  /\ \A b : Abstract!Forget(view, b) =
         Rec(stored, desired, None, FALSE, Work, b, host, disturbed)
  /\ \A s, b : Abstract!Crash(view, s, b) =
         Rec(stored, stored, s, FALSE, None, FALSE, b, disturbed)
  /\ Abstract!Disturb(view) =
         Rec(stored, desired, applied, Succeeded, Work, Wipes, Partial, TRUE)
<1>1. \A s : Abstract!Store(view, s) =
         Rec(s, desired, applied, Succeeded, Work, Wipes, host, disturbed)
  <2> SUFFICES ASSUME NEW s, NEW e, e = Abstract!Store(view, s)
               PROVE  e = Rec(s, desired, applied, Succeeded, Work, Wipes, host, disturbed)
    OBVIOUS
  <2>1. /\ e.stored = s /\ e.desired = desired /\ e.applied = applied /\ e.ok = Succeeded
        /\ e.working = Work /\ e.wiping = Wipes /\ e.host = host /\ e.disturbed = disturbed
    BY DEF Abstract!Store, view, Work, Wipes
  <2> QED BY <2>1 DEF Rec, Abstract!Store, view
<1>2. \A s : Abstract!Accept(view, s) =
         Rec(stored, s, applied, Succeeded /\ applied = s, Work, Wipes, host, disturbed)
  <2> SUFFICES ASSUME NEW s, NEW e, e = Abstract!Accept(view, s)
               PROVE  e = Rec(stored, s, applied, Succeeded /\ applied = s, Work, Wipes, host, disturbed)
    OBVIOUS
  <2>1. /\ e.stored = stored /\ e.desired = s /\ e.applied = applied /\ e.ok = (Succeeded /\ applied = s)
        /\ e.working = Work /\ e.wiping = Wipes /\ e.host = host /\ e.disturbed = disturbed
    BY DEF Abstract!Accept, view, Work, Wipes
  <2> QED BY <2>1 DEF Rec, Abstract!Accept, view
<1>3. Abstract!Begin(view) =
         Rec(stored, desired, applied, Succeeded, desired, Wipes, host, disturbed)
  <2> SUFFICES ASSUME NEW e, e = Abstract!Begin(view)
               PROVE  e = Rec(stored, desired, applied, Succeeded, desired, Wipes, host, disturbed)
    OBVIOUS
  <2>1. /\ e.stored = stored /\ e.desired = desired /\ e.applied = applied /\ e.ok = Succeeded
        /\ e.working = desired /\ e.wiping = Wipes /\ e.host = host /\ e.disturbed = disturbed
    BY DEF Abstract!Begin, view, Work, Wipes
  <2> QED BY <2>1 DEF Rec, Abstract!Begin, view
<1>4. \A b : Abstract!Report(view, b) =
         Rec(stored, desired, applied, b, Work, Wipes, host, disturbed)
  <2> SUFFICES ASSUME NEW b, NEW e, e = Abstract!Report(view, b)
               PROVE  e = Rec(stored, desired, applied, b, Work, Wipes, host, disturbed)
    OBVIOUS
  <2>1. /\ e.stored = stored /\ e.desired = desired /\ e.applied = applied /\ e.ok = b
        /\ e.working = Work /\ e.wiping = Wipes /\ e.host = host /\ e.disturbed = disturbed
    BY DEF Abstract!Report, view, Work, Wipes
  <2> QED BY <2>1 DEF Rec, Abstract!Report, view
<1>5. Abstract!Succeed(view) = Rec(stored, desired, Work, TRUE, None, Wipes, Work, FALSE)
  <2> SUFFICES ASSUME NEW e, e = Abstract!Succeed(view)
               PROVE  e = Rec(stored, desired, Work, TRUE, None, Wipes, Work, FALSE)
    OBVIOUS
  <2>1. /\ e.stored = stored /\ e.desired = desired /\ e.applied = Work /\ e.ok = TRUE
        /\ e.working = None /\ e.wiping = Wipes /\ e.host = Work /\ e.disturbed = FALSE
    BY DEF Abstract!Succeed, view, Work, Wipes
  <2> QED BY <2>1 DEF Rec, Abstract!Succeed, view
<1>6. \A s : Abstract!Fail(view, s) =
         Rec(stored, desired, applied, FALSE, None, Wipes, s, disturbed)
  <2> SUFFICES ASSUME NEW s, NEW e, e = Abstract!Fail(view, s)
               PROVE  e = Rec(stored, desired, applied, FALSE, None, Wipes, s, disturbed)
    OBVIOUS
  <2>1. /\ e.stored = stored /\ e.desired = desired /\ e.applied = applied /\ e.ok = FALSE
        /\ e.working = None /\ e.wiping = Wipes /\ e.host = s /\ e.disturbed = disturbed
    BY DEF Abstract!Fail, view, Work, Wipes
  <2> QED BY <2>1 DEF Rec, Abstract!Fail, view
<1>7. Abstract!StartWipe(view) =
         Rec(stored, desired, applied, Succeeded, Work, TRUE, host, disturbed)
  <2> SUFFICES ASSUME NEW e, e = Abstract!StartWipe(view)
               PROVE  e = Rec(stored, desired, applied, Succeeded, Work, TRUE, host, disturbed)
    OBVIOUS
  <2>1. /\ e.stored = stored /\ e.desired = desired /\ e.applied = applied /\ e.ok = Succeeded
        /\ e.working = Work /\ e.wiping = TRUE /\ e.host = host /\ e.disturbed = disturbed
    BY DEF Abstract!StartWipe, view, Work, Wipes
  <2> QED BY <2>1 DEF Rec, Abstract!StartWipe, view
<1>8. Abstract!Wiped(view) =
         Rec(stored, desired, applied, Succeeded, Work, Wipes, None, disturbed)
  <2> SUFFICES ASSUME NEW e, e = Abstract!Wiped(view)
               PROVE  e = Rec(stored, desired, applied, Succeeded, Work, Wipes, None, disturbed)
    OBVIOUS
  <2>1. /\ e.stored = stored /\ e.desired = desired /\ e.applied = applied /\ e.ok = Succeeded
        /\ e.working = Work /\ e.wiping = Wipes /\ e.host = None /\ e.disturbed = disturbed
    BY DEF Abstract!Wiped, view, Work, Wipes
  <2> QED BY <2>1 DEF Rec, Abstract!Wiped, view
<1>9. \A b : Abstract!WipeFailed(view, b) =
         Rec(stored, desired, applied, Succeeded, Work, b, Partial, TRUE)
  <2> SUFFICES ASSUME NEW b, NEW e, e = Abstract!WipeFailed(view, b)
               PROVE  e = Rec(stored, desired, applied, Succeeded, Work, b, Partial, TRUE)
    OBVIOUS
  <2>1. /\ e.stored = stored /\ e.desired = desired /\ e.applied = applied /\ e.ok = Succeeded
        /\ e.working = Work /\ e.wiping = b /\ e.host = Partial /\ e.disturbed = TRUE
    BY DEF Abstract!WipeFailed, view, Work, Wipes
  <2> QED BY <2>1 DEF Rec, Abstract!WipeFailed, view
<1>10. \A b : Abstract!Forget(view, b) =
         Rec(stored, desired, None, FALSE, Work, b, host, disturbed)
  <2> SUFFICES ASSUME NEW b, NEW e, e = Abstract!Forget(view, b)
               PROVE  e = Rec(stored, desired, None, FALSE, Work, b, host, disturbed)
    OBVIOUS
  <2>1. /\ e.stored = stored /\ e.desired = desired /\ e.applied = None /\ e.ok = FALSE
        /\ e.working = Work /\ e.wiping = b /\ e.host = host /\ e.disturbed = disturbed
    BY DEF Abstract!Forget, view, Work, Wipes
  <2> QED BY <2>1 DEF Rec, Abstract!Forget, view
<1>11. \A s, b : Abstract!Crash(view, s, b) =
         Rec(stored, stored, s, FALSE, None, FALSE, b, disturbed)
  <2> SUFFICES ASSUME NEW s, NEW b, NEW e, e = Abstract!Crash(view, s, b)
               PROVE  e = Rec(stored, stored, s, FALSE, None, FALSE, b, disturbed)
    OBVIOUS
  <2>1. /\ e.stored = stored /\ e.desired = stored /\ e.applied = s /\ e.ok = FALSE
        /\ e.working = None /\ e.wiping = FALSE /\ e.host = b /\ e.disturbed = disturbed
    BY DEF Abstract!Crash, view, Work, Wipes
  <2> QED BY <2>1 DEF Rec, Abstract!Crash, view
<1>12. Abstract!Disturb(view) =
         Rec(stored, desired, applied, Succeeded, Work, Wipes, Partial, TRUE)
  <2> SUFFICES ASSUME NEW e, e = Abstract!Disturb(view)
               PROVE  e = Rec(stored, desired, applied, Succeeded, Work, Wipes, Partial, TRUE)
    OBVIOUS
  <2>1. /\ e.stored = stored /\ e.desired = desired /\ e.applied = applied /\ e.ok = Succeeded
        /\ e.working = Work /\ e.wiping = Wipes /\ e.host = Partial /\ e.disturbed = TRUE
    BY DEF Abstract!Disturb, view, Work, Wipes
  <2> QED BY <2>1 DEF Rec, Abstract!Disturb, view
<1> QED
  BY <1>1, <1>2, <1>3, <1>4, <1>5, <1>6, <1>7, <1>8, <1>9, <1>10, <1>11, <1>12

\* Every step of the agent is a step of AgentRole or a stutter of it.
LEMMA ViewStep ==
  TypeOK /\ OneActorOnHost /\ Known /\ [Next]_vars => [Abstract!Next]_view
<1> SUFFICES ASSUME TypeOK, OneActorOnHost, Known, [Next]_vars
             PROVE  Abstract!Next \/ view' = view
  OBVIOUS
<1> USE SpecsAssumption, HandlersAssumption DEF TypeOK
<1>0. /\ view.working = Work /\ view.wiping = Wipes /\ view.host = host
      /\ view.desired = desired
  BY ViewFields
<1> DEFINE Same == Work' = Work /\ Wipes' = Wipes
<1> DEFINE Unseen == Same /\ Succeeded' = Succeeded
<1>u. ASSUME Unseen, UNCHANGED <<stored, desired, applied, host, disturbed>>
      PROVE  view' = view
  BY <1>u, ViewIs, NextView
<1>1. CASE UNCHANGED vars
  <2>1. Unseen
    BY <1>1 DEF vars, memory, Work, Wipes, Wiping, Succeeded
  <2> QED BY <1>1, <1>u, <2>1 DEF vars, disk, memory
<1>2. CASE LoopWoken \/ LoopTick
  <2>1. Unseen
    BY <1>2 DEF LoopWoken, LoopTick, AtLoop, memory, Work, Wipes, Wiping, Succeeded
  <2> QED BY <1>2, <1>u, <2>1 DEF LoopWoken, LoopTick, disk, memory
<1>3. CASE Converge
  <2>1. CASE ConvergeBegin
    <3> USE <2>1 DEF ConvergeBegin, AtLoop, disk, memory
    <3>1. Wipes' = Wipes /\ Succeeded' = Succeeded
      BY DEF Wipes, Wiping, Succeeded
    <3>2. CASE desired = None
      <4>1. Work' = Work
        BY <3>2 DEF Work
      <4> QED BY <1>u, <3>1, <4>1
    <3>3. CASE desired # None
      <4>1. Work = None /\ Work' = desired
        BY <3>3 DEF Work
      <4>2. view' = Abstract!Begin(view)
        BY <3>1, <4>1, ViewIs, NextView, AbstractSteps
      <4> QED
        BY <1>0, <3>3, <4>1, <4>2 DEF Abstract!Next, Abstract!Pass, Abstract!CanBegin
    <3> QED BY <3>2, <3>3
  <2>2. CASE ConvergeReport
    <3> USE <2>2 DEF ConvergeReport, disk
    <3>1. Same /\ Work # None
      BY DEF Work, Wipes, Wiping, Known
    <3>2. view' = Abstract!Report(view, Succeeded')
      BY <3>1, ViewIs, NextView, AbstractSteps
    <3>3. Succeeded' \in BOOLEAN
      BY DEF Succeeded
    <3> QED BY <1>0, <3>1, <3>2, <3>3 DEF Abstract!Next, Abstract!Pass
  <2>3. CASE ConvergeOk
    <3> USE <2>3 DEF ConvergeOk, disk
    <3>1. Work = loop.spec /\ Work # None /\ Work' = None /\ Wipes' = Wipes
      BY DEF Work, Wipes, Wiping, Known
    <3>2. Succeeded' = TRUE
      BY DEF Succeeded
    <3>3. view' = Abstract!Succeed(view)
      BY <3>1, <3>2, ViewIs, NextView, AbstractSteps
    <3> QED BY <1>0, <3>1, <3>3 DEF Abstract!Next, Abstract!Pass
  <2>4. CASE ConvergeError
    <3> USE <2>4 DEF ConvergeError, disk
    <3>1. Work # None /\ Work' = None /\ Wipes' = Wipes
      BY DEF Work, Wipes, Wiping, Known
    <3>2. Succeeded' = FALSE
      BY DEF Succeeded
    <3>3. view' = Abstract!Fail(view, host')
      BY <3>1, <3>2, ViewIs, NextView, AbstractSteps
    <3>4. host' \in Abstract!Left(view)
      BY <1>0, <3>1 DEF Abstract!Left
    <3> QED BY <1>0, <3>1, <3>3, <3>4 DEF Abstract!Next, Abstract!Pass
  <2>5. CASE ConvergeSave
    <3>1. Unseen
      BY <2>5 DEF ConvergeSave, AtLoop, memory, Work, Wipes, Wiping, Succeeded
    <3> QED BY <1>u, <2>5, <3>1 DEF ConvergeSave, memory
  <2> QED BY <1>3, <2>1, <2>2, <2>3, <2>4, <2>5 DEF Converge
<1>4. ASSUME NEW h \in Handlers, Handle(h) PROVE Abstract!Next \/ view' = view
  <2>w. ASSUME UNCHANGED loop PROVE Work' = Work
    BY <2>w DEF Work
  <2>1. ASSUME NEW s \in Specs, PutAccept(h, s) PROVE view' = view
    <3>1. Unseen
      BY <2>1, <2>w DEF PutAccept, memory, Wipes, Wiping, Succeeded
    <3> QED BY <1>u, <2>1, <3>1 DEF PutAccept, disk, memory
  <2>2. CASE PutStore(h)
    <3> USE <2>2 DEF PutStore, memory
    <3>1. Unseen
      BY <2>w DEF Goto, Wipes, Wiping, Succeeded
    <3>2. req[h].spec \in Specs
      BY DEF Known, MaybeSpec
    <3>3. view' = Abstract!Store(view, req[h].spec)
      BY <3>1, ViewIs, NextView, AbstractSteps
    <3> QED BY <3>2, <3>3 DEF Abstract!Next, Abstract!Put
  <2>3. CASE PutSet(h)
    <3> USE <2>3 DEF PutSet, disk
    <3>1. Same
      BY <2>w DEF Goto, Wipes, Wiping
    <3>2. req[h].spec \in Specs
      BY DEF Known, MaybeSpec
    <3>3. Succeeded' = (Succeeded /\ applied = req[h].spec)
      BY DEF Succeeded
    <3>4. view' = Abstract!Accept(view, req[h].spec)
      BY <3>1, <3>3, ViewIs, NextView, AbstractSteps
    <3> QED BY <3>2, <3>4 DEF Abstract!Next, Abstract!Put
  <2>4. CASE Wake(h) \/ PutRefused(h) \/ ResetSave(h)
    <3>1. Unseen
      BY <2>4, <2>w DEF Wake, PutRefused, ResetSave, Goto, Idle, memory, Wipes, Wiping, Succeeded
    <3> QED BY <1>u, <2>4, <3>1 DEF Wake, PutRefused, ResetSave, disk, memory
  <2>5. CASE ResetStart(h)
    <3> USE <2>5 DEF ResetStart, disk, memory
    <3>1. Work = None /\ Work' = None
      BY DEF TryLockConverge, OneActorOnHost, Work
    <3>2. Wipes' = TRUE
      BY DEF Goto, Wipes, Wiping
    <3>3. Succeeded' = Succeeded
      BY DEF Succeeded
    <3>4. view' = Abstract!StartWipe(view)
      BY <3>1, <3>2, <3>3, ViewIs, NextView, AbstractSteps
    <3> QED BY <1>0, <3>1, <3>4 DEF Abstract!Next, Abstract!Reset
  <2>6. CASE ResetWipe(h)
    <3> USE <2>6 DEF ResetWipe, disk, memory
    <3>1. Work = None /\ Work' = None
      BY DEF OneActorOnHost, Work
    <3>2. Wipes' = Wipes /\ Wipes
      BY DEF Goto, Wipes, Wiping
    <3>3. Succeeded' = Succeeded
      BY DEF Succeeded
    <3>4. view' = Abstract!Wiped(view)
      BY <3>1, <3>2, <3>3, ViewIs, NextView, AbstractSteps
    <3> QED BY <1>0, <3>1, <3>2, <3>4 DEF Abstract!Next, Abstract!Reset
  <2>7. CASE ResetFail(h)
    <3> USE <2>7 DEF ResetFail, disk, memory
    <3>1. Work = None /\ Work' = None
      BY DEF OneActorOnHost, Work
    <3>2. Wipes /\ Wipes' \in BOOLEAN
      BY DEF Wipes, Wiping
    <3>3. Succeeded' = Succeeded
      BY DEF Succeeded
    <3>4. view' = Abstract!WipeFailed(view, Wipes')
      BY <3>1, <3>3, ViewIs, NextView, AbstractSteps
    <3> QED BY <1>0, <3>1, <3>2, <3>4 DEF Abstract!Next, Abstract!Reset
  <2>8. CASE ResetApplied(h)
    <3> USE <2>8 DEF ResetApplied, disk
    <3>1. Work' = Work
      BY <2>w
    <3>2. Wipes /\ Wipes' \in BOOLEAN
      BY DEF Wipes, Wiping
    <3>3. Succeeded' = FALSE
      BY DEF Succeeded
    <3>4. view' = Abstract!Forget(view, Wipes')
      BY <3>1, <3>3, ViewIs, NextView, AbstractSteps
    <3> QED BY <1>0, <3>2, <3>4 DEF Abstract!Next, Abstract!Reset
  <2> QED
    BY <1>4, <2>1, <2>2, <2>3, <2>4, <2>5, <2>6, <2>7, <2>8 DEF Handle
<1>5. CASE Restart
  <2> USE <1>5 DEF Restart
  <2>1. Succeeded' = FALSE
    BY DEF Load, LoadedState, Succeeded
  <2>2. Wipes' = FALSE
    BY DEF Idle, Wipes, Wiping
  <2>3. Work' = None
    BY DEF AtLoop, Work
  <2>4. view' = Abstract!Crash(view, applied', host')
    BY <2>1, <2>2, <2>3, ViewIs, NextView, AbstractSteps DEF Load, LoadedSpec, disk
  <2>5. applied' \in MaybeSpec
    BY DEF Load
  <2>6. host' \in Abstract!Left(view)
    BY <1>0 DEF Abstract!Left, Work, Wipes, Wiping, Known
  <2> QED
    BY <2>4, <2>5, <2>6 DEF Abstract!Next, Abstract!Environment, Abstract!MaybeSpec, MaybeSpec
<1>6. CASE Drift
  <2> USE <1>6 DEF Drift, disk, memory
  <2>1. Same /\ Work = None
    BY DEF Work, Wipes, Wiping
  <2>2. Succeeded' = Succeeded
    BY DEF Succeeded
  <2>3. view' = Abstract!Disturb(view)
    BY <2>1, <2>2, ViewIs, NextView, AbstractSteps
  <2> QED BY <1>0, <2>1, <2>3 DEF Abstract!Next, Abstract!Environment
<1> QED BY <1>1, <1>2, <1>3, <1>4, <1>5, <1>6 DEF Next

\* What the control plane sees of a role is what AgentRole promises: success
\* is reported by the pass that applied the spec, and withdrawn when another
\* is accepted (manager.go Put, converge, Load; server.go adguardReset).
THEOREM RoleImplements == Spec => ImplementsAgentRole
<1>1. Init => Abstract!Init
  <2> SUFFICES ASSUME Init, NEW e, e = Abstract!Absent PROVE view = e
    BY DEF Abstract!Init
  <2>1. Succeeded = FALSE /\ Work = None /\ Wipes = FALSE
    BY DEF Init, Succeeded, Work, AtLoop, Wipes, Wiping, Idle
  <2>2. view = Rec(None, None, None, FALSE, None, FALSE, None, FALSE)
    BY <2>1, ViewIs DEF Init
  <2> QED BY <2>2 DEF Rec, Abstract!Absent
<1>2. Init => Known
  BY SpecsAssumption DEF Init, Known, AtLoop, Idle
<1>3. TypeOK /\ Known /\ [Next]_vars => Known'
  BY KnownStep
<1> QED
  BY <1>1, <1>2, <1>3, ViewStep, TypeCorrect, MutualExclusion, PTL
  DEF Spec, Abstract!Spec, ImplementsAgentRole
-----------------------------------------------------------------------------
(***************************************************************************)
(* The balancer's role (BalancerRole)                                      *)
(***************************************************************************)

Assumptions ==
  /\ Balancer!KindsAssumption /\ Balancer!SpecsAssumption
  /\ Balancer!NoneAssumption /\ Balancer!BoundsAssumption

\* TypeOK in two parts, with the sets of passes, daemons and drain requests.
Stages == {"idle", "render", "apply", "restart", "wait", "drain", "stop"}

PassType ==
  [at : Stages, target : Balancer!MaybeSpec, changed : BOOLEAN, todo : SUBSET Backends]
DaemonType ==
  [exists : BOOLEAN, up : BOOLEAN, image : Images \cup {None},
   loaded : Balancer!MaybeSpec, down : SUBSET Backends]
ReqType ==
  [at : {"idle", "console", "remember", "save"},
   name : Backends \cup {None}, drain : BOOLEAN, names : SUBSET Backends]

Bounded ==
  /\ kind \in Kinds /\ torn \in BOOLEAN
  /\ asked \in 0 .. MaxDrains /\ daemonFaults \in 0 .. MaxDaemonFaults

Typed ==
  /\ pool \in Balancer!MaybeSpec /\ said \in Balancer!MaybeSpec
  /\ conf \in Balancer!MaybeSpec /\ mark \in Balancer!MaybeSpec
  /\ pass \in PassType
  /\ daemon \in DaemonType /\ (daemon.up <=> daemon.loaded # None)
  /\ drained \subseteq Backends /\ file \subseteq Backends
  /\ drains \in [Drainers -> ReqType]

\* A pass has a target, and from Render on the file is the target's; once the
\* container is seen to, it is of the target's image.
PassInv ==
  /\ pass.at = "idle" <=> pass.target = None
  /\ pass.at = "stop" => ~pass.target.on
  /\ pass.at \notin {"idle", "stop"} => pass.target.on
  /\ pass.at \in {"apply", "restart", "wait", "drain"} => conf = pass.target
  /\ pass.at = "restart" => pass.changed /\ kind # "docker"
  /\ pass.at \in {"wait", "drain"} /\ kind = "docker" /\ daemon.exists =>
       daemon.image = pass.target.image

\* A daemon that runs has had a file to read, and a container to run in.
DaemonInv ==
  /\ daemon.up => conf # None
  /\ kind = "docker" /\ daemon.up => daemon.exists

\* A pass that has changed the file and has yet to restart the daemon.
Restarting == pass.at \in {"apply", "restart"} /\ pass.changed

\* What runs has loaded the file, but for a pass that has yet to restart it, or
\* that did not come to it: the next pass with a change makes good for both.
RunsInv ==
  daemon.up /\ ~Restarting /\ (torn => pass.changed /\ pass.at \in {"wait", "drain"}) =>
    daemon.loaded = conf

\* The same of the mark of dnsdist, which is left when the daemon answers.
MarkInv ==
  kind # "keepalived" /\ ~Balancer!Tearing /\ (torn => pass.at = "drain") => mark = conf

\* What is reported between passes is the file,
SaidInv == pass.at = "idle" /\ said # None /\ said.on => conf = said

\* and a pass over what is reported finds nothing changed: not the file for
\* keepalived, not the mark for dnsdist, nor the container's image.
SameInv ==
  said # None /\ said.on /\ pass.target \in {None, said} =>
    /\ kind = "keepalived" => conf = said
    /\ kind # "keepalived" => mark = said
    /\ kind = "docker" /\ daemon.exists => daemon.image = said.image
    /\ ~Balancer!Tearing

Inv == PassInv /\ DaemonInv /\ RunsInv /\ MarkInv /\ SaidInv /\ SameInv

\* A handler that has not finished has the name of a backend.
NameInv ==
  \A h \in Drainers :
    drains[h].at \in {"console", "remember"} => drains[h].name \in Backends

-----------------------------------------------------------------------------

\* The types by their names.
LEMMA Types == Balancer!TypeOK <=> Bounded /\ Typed
BY DEF Balancer!TypeOK, Bounded, Typed, PassType, Stages, DaemonType, ReqType

\* A pass that goes on.
Moved(q, p, at, changed, todo) ==
  q \in PassType /\ q.at = at /\ q.target = p.target /\ q.changed = changed /\ q.todo = todo

\* A pass that goes on to a stage,
LEMMA PassesOn ==
  ASSUME NEW p \in PassType, NEW at \in Stages
  PROVE  Moved([p EXCEPT !.at = at], p, at, p.changed, p.todo)
BY DEF PassType, Moved

\* one that has found whether it changes anything,
LEMMA PassChanges ==
  ASSUME NEW p \in PassType, NEW at \in Stages, NEW changed \in BOOLEAN
  PROVE  Moved([p EXCEPT !.at = at, !.changed = changed], p, at, changed, p.todo)
<1> DEFINE q == [p EXCEPT !.at = at, !.changed = changed]
<1>1. q \in [at : {at}, target : {p.target}, changed : {changed}, todo : {p.todo}]
  BY DEF PassType
<1> HIDE DEF q
<1> QED BY <1>1 DEF PassType, Moved, q

\* one that comes to the drains or makes one of them again,
LEMMA PassDrains ==
  ASSUME NEW p \in PassType, NEW todo \in SUBSET Backends
  PROVE  /\ Moved([p EXCEPT !.at = "drain", !.todo = todo], p, "drain", p.changed, todo)
         /\ \A name : Moved([p EXCEPT !.todo = @ \ {name}], p, p.at, p.changed, p.todo \ {name})
<1> DEFINE q == [p EXCEPT !.at = "drain", !.todo = todo]
<1>1. q \in [at : {"drain"}, target : {p.target}, changed : {p.changed}, todo : {todo}]
  BY DEF PassType
<1>2. Moved(q, p, "drain", p.changed, todo)
  <2> HIDE DEF q
  <2> QED BY <1>1 DEF PassType, Moved, q, Stages
<1>3. \A name : Moved([p EXCEPT !.todo = @ \ {name}], p, p.at, p.changed, p.todo \ {name})
  BY DEF PassType, Moved
<1> HIDE DEF q
<1> QED BY <1>2, <1>3 DEF q

\* and one that begins.
LEMMA PassBegins ==
  ASSUME NEW at \in Stages, NEW target \in Balancer!MaybeSpec
  PROVE  LET p == [Balancer!Resting EXCEPT !.at = at, !.target = target]
         IN  p \in PassType /\ p.at = at /\ p.target = target /\ p.changed = FALSE
<1> DEFINE p == [Balancer!Resting EXCEPT !.at = at, !.target = target]
<1>1. p \in [at : {at}, target : {target}, changed : {FALSE}, todo : {{}}]
  BY DEF Balancer!Resting
<1> HIDE DEF p
<1> QED BY <1>1 DEF PassType, p

\* A daemon that starts has the file and holds nothing down.
LEMMA StartedIs ==
  ASSUME Typed, conf # None
  PROVE  /\ Balancer!Started(daemon) \in DaemonType
         /\ Balancer!Started(daemon).exists = daemon.exists /\ Balancer!Started(daemon).up
         /\ Balancer!Started(daemon).image = daemon.image /\ Balancer!Started(daemon).loaded = conf
         /\ Balancer!Started(daemon).down = {}
<1>1. daemon \in DaemonType /\ conf \in Balancer!MaybeSpec
  BY DEF Typed
<1>2. Balancer!Started(daemon) \in [exists : {daemon.exists}, up : {TRUE}, image : {daemon.image},
                            loaded : {conf}, down : {{}}]
  BY <1>1 DEF Balancer!Started, DaemonType
<1> HIDE DEF Balancer!Started
<1> QED BY <1>1, <1>2 DEF DaemonType

\* One that is stopped has loaded nothing.
LEMMA StoppedIs ==
  ASSUME NEW d \in DaemonType
  PROVE  /\ Balancer!Stopped(d) \in DaemonType
         /\ Balancer!Stopped(d).exists = d.exists /\ Balancer!Stopped(d).up = FALSE
         /\ Balancer!Stopped(d).image = d.image /\ Balancer!Stopped(d).loaded = None
BY DEF Balancer!Stopped, DaemonType, Balancer!MaybeSpec

\* A backend is held down with nothing else changed,
LEMMA HeldIs ==
  ASSUME NEW d \in DaemonType, NEW name \in Backends
  PROVE  /\ Balancer!Held(d, name) \in DaemonType
         /\ Balancer!Held(d, name).exists = d.exists /\ Balancer!Held(d, name).up = d.up
         /\ Balancer!Held(d, name).image = d.image /\ Balancer!Held(d, name).loaded = d.loaded
         /\ d.down \subseteq Balancer!Held(d, name).down
BY DEF Balancer!Held, DaemonType

\* and let go likewise.
LEMMA LetIs ==
  ASSUME NEW d \in DaemonType, NEW name
  PROVE  /\ Balancer!Let(d, name) \in DaemonType
         /\ Balancer!Let(d, name).exists = d.exists /\ Balancer!Let(d, name).up = d.up
         /\ Balancer!Let(d, name).image = d.image /\ Balancer!Let(d, name).loaded = d.loaded
BY DEF Balancer!Let, DaemonType

\* Containers that are made and removed.
LEMMA MadeIs ==
  ASSUME NEW image \in Images, conf \in Balancer!MaybeSpec
  PROVE  Balancer!Created(image) \in DaemonType /\ Balancer!Removed \in DaemonType
BY DEF Balancer!Created, Balancer!Removed, DaemonType, Balancer!MaybeSpec

\* What a spec is, and that there are specs.
LEMMA SpecIs ==
  ASSUME Assumptions
  PROVE  /\ \A s \in Balancer!MaybeSpec : s # None =>
              s \in Pools /\ s.on \in BOOLEAN /\ s.image \in Images /\ s.pool \subseteq Backends
         /\ Pools \subseteq Balancer!MaybeSpec \ {None} /\ None \in Balancer!MaybeSpec
BY DEF Assumptions, Balancer!SpecsAssumption, Balancer!NoneAssumption, Balancer!MaybeSpec

\* A pass or a request that is at rest is one.
LEMMA AtRest ==
  ASSUME Assumptions
  PROVE  Balancer!Resting \in PassType /\ Balancer!NoRequest \in ReqType
BY SpecIs DEF Balancer!Resting, PassType, Stages, Balancer!NoRequest, ReqType

\* The fields of a pass.
LEMMA PassIs ==
  ASSUME NEW p \in PassType
  PROVE  /\ p.at \in Stages /\ p.target \in Balancer!MaybeSpec /\ p.changed \in BOOLEAN
         /\ p.todo \subseteq Backends
BY DEF PassType

\* The bounds count what they bound; the kind of daemon stays, and torn is set by a
\* pass that tears and cleared by one that is through.
LEMMA BoundsKept ==
  ASSUME Assumptions, Bounded, [Balancer!Next]_(Balancer!vars)
  PROVE  Bounded'
<1>1. /\ UNCHANGED Balancer!bounds \/ Balancer!Request \/ Balancer!Fault
      /\ kind' = kind
      /\ \/ torn' = torn
         \/ torn' = (torn \/ Balancer!Tearing)
         \/ torn' = (torn /\ ~pass.changed)
  BY DEF Balancer!vars, Balancer!bounds, Balancer!Next, Balancer!Converge, Balancer!Handle,
         Balancer!Operator, Balancer!Environment, Balancer!Put, Balancer!Begin,
         Balancer!Render, Balancer!ApplyContainer, Balancer!KeepContainer,
         Balancer!ApplyUnit, Balancer!RestartUnit, Balancer!Answers, Balancer!DrainAgain,
         Balancer!Done, Balancer!Stop, Balancer!PassFails, Balancer!DrainAsked,
         Balancer!DrainConsole, Balancer!DrainRemember, Balancer!DrainSave,
         Balancer!RestartService, Balancer!DaemonDies, Balancer!WeightRestored,
         Balancer!AgentRestart
<1>2. asked' \in 0 .. MaxDrains /\ daemonFaults' \in 0 .. MaxDaemonFaults
  BY <1>1 DEF Assumptions, Balancer!BoundsAssumption, Bounded, Balancer!bounds,
              Balancer!Request, Balancer!Fault
<1>3. torn' \in BOOLEAN
  BY <1>1 DEF Bounded
<1> QED BY <1>1, <1>2, <1>3 DEF Bounded

\* A daemon is well formed, and one that runs has read a file.
Kept(d) == d \in DaemonType /\ (d.up <=> d.loaded # None)

\* What a pass does to the daemon and where it goes on.
LEMMA Applying ==
  ASSUME Assumptions, Typed, PassInv
  PROVE  /\ Balancer!ApplyContainer =>
              /\ Kept(daemon') /\ said' = None
              /\ \/ /\ Moved(pass', pass, "wait", pass.changed, pass.todo)
                    /\ daemon'.exists /\ daemon'.image = pass.target.image /\ daemon'.loaded = conf
                 \/ pass' = pass /\ ~daemon'.exists /\ ~daemon'.up
         /\ Balancer!KeepContainer =>
              /\ Kept(daemon') /\ daemon'.exists /\ daemon'.image = pass.target.image
              /\ daemon'.up
              /\ IF daemon.up THEN daemon' = daemon ELSE daemon'.loaded = conf
              /\ Moved(pass', pass, "wait", pass.changed, pass.todo)
         /\ Balancer!ApplyUnit =>
              /\ Kept(daemon') /\ daemon'.up
              /\ IF daemon.up THEN daemon' = daemon ELSE daemon'.loaded = conf
              /\ Moved(pass', pass, IF pass.changed THEN "restart" ELSE "wait",
                       pass.changed, pass.todo)
         /\ Balancer!RestartUnit =>
              /\ Kept(daemon') /\ daemon'.loaded = conf /\ said' = None
              /\ Moved(pass', pass, "wait", pass.changed, pass.todo)
<1>1. pass.at \in {"apply", "restart"} =>
        /\ conf = pass.target /\ conf # None /\ conf \in Balancer!MaybeSpec
        /\ pass.target.image \in Images
  BY SpecIs, PassIs DEF Typed, PassInv
<1>2. Moved([pass EXCEPT !.at = "wait"], pass, "wait", pass.changed, pass.todo)
  BY PassesOn DEF Typed, Stages
<1>3. Moved([pass EXCEPT !.at = IF pass.changed THEN "restart" ELSE "wait"], pass,
            IF pass.changed THEN "restart" ELSE "wait", pass.changed, pass.todo)
  BY PassesOn DEF Typed, Stages
<1>4. ASSUME conf # None
      PROVE  /\ Kept(Balancer!Started(daemon))
             /\ Balancer!Started(daemon).loaded = conf /\ Balancer!Started(daemon).up
             /\ Balancer!Started(daemon).exists = daemon.exists
             /\ Balancer!Started(daemon).image = daemon.image
  BY <1>4, StartedIs DEF Kept
<1>5. ASSUME conf # None, conf \in Balancer!MaybeSpec, NEW image \in Images
      PROVE  /\ Kept(Balancer!Created(image))
             /\ Balancer!Created(image).loaded = conf /\ Balancer!Created(image).exists
             /\ Balancer!Created(image).image = image
  BY <1>5, MadeIs DEF Kept, Balancer!Created
<1>6. Kept(Balancer!Removed) /\ ~Balancer!Removed.exists /\ ~Balancer!Removed.up
  BY SpecIs DEF Kept, Balancer!Removed, DaemonType
<1>7. Kept(daemon)
  BY DEF Kept, Typed
<1>a. ASSUME Balancer!ApplyContainer
      PROVE  /\ Kept(daemon') /\ said' = None
             /\ \/ /\ Moved(pass', pass, "wait", pass.changed, pass.todo)
                   /\ daemon'.exists /\ daemon'.image = pass.target.image /\ daemon'.loaded = conf
                \/ pass' = pass /\ ~daemon'.exists /\ ~daemon'.up
  BY <1>a, <1>1, <1>2, <1>4, <1>5, <1>6 DEF Balancer!ApplyContainer, Balancer!Disturbing
<1>b. ASSUME Balancer!KeepContainer
      PROVE  /\ Kept(daemon') /\ daemon'.exists /\ daemon'.image = pass.target.image
             /\ daemon'.up
             /\ IF daemon.up THEN daemon' = daemon ELSE daemon'.loaded = conf
             /\ Moved(pass', pass, "wait", pass.changed, pass.todo)
  BY <1>b, <1>1, <1>2, <1>4, <1>7 DEF Balancer!KeepContainer, Balancer!StartContainer
<1>c. ASSUME Balancer!ApplyUnit
      PROVE  /\ Kept(daemon') /\ daemon'.up
             /\ IF daemon.up THEN daemon' = daemon ELSE daemon'.loaded = conf
             /\ Moved(pass', pass, IF pass.changed THEN "restart" ELSE "wait",
                      pass.changed, pass.todo)
  BY <1>c, <1>1, <1>3, <1>4, <1>7 DEF Balancer!ApplyUnit
<1>d. ASSUME Balancer!RestartUnit
      PROVE  /\ Kept(daemon') /\ daemon'.loaded = conf /\ said' = None
             /\ Moved(pass', pass, "wait", pass.changed, pass.todo)
  BY <1>d, <1>1, <1>2, <1>4 DEF Balancer!RestartUnit, Balancer!Disturbing
<1> QED BY <1>a, <1>b, <1>c, <1>d

\* A drain that is made again holds a backend down, and nothing else.
LEMMA Draining ==
  ASSUME Typed, NEW name \in Backends, Balancer!DrainAgain(name)
  PROVE  /\ Kept(daemon') /\ daemon'.exists = daemon.exists /\ daemon'.up = daemon.up
         /\ daemon'.image = daemon.image /\ daemon'.loaded = daemon.loaded
         /\ daemon.down \subseteq daemon'.down
         /\ Moved(pass', pass, pass.at, pass.changed, pass.todo \ {name})
<1>1. Moved([pass EXCEPT !.todo = @ \ {name}], pass, pass.at, pass.changed, pass.todo \ {name})
  BY PassDrains DEF Typed
<1>2. Moved(pass', pass, pass.at, pass.changed, pass.todo \ {name})
  BY <1>1 DEF Balancer!DrainAgain
<1> QED BY <1>2, HeldIs DEF Balancer!DrainAgain, Kept, Typed

-----------------------------------------------------------------------------

\* Every step keeps the types.
LEMMA TypeStep ==
  ASSUME Assumptions, Typed, PassInv, DaemonInv, NameInv, [Balancer!Next]_(Balancer!vars)
  PROVE  Typed'
<1> USE DEF Typed
<1>a. /\ pass.at \in Stages /\ pass.target \in Balancer!MaybeSpec /\ pass.changed \in BOOLEAN
      /\ pass.todo \subseteq Backends
  BY PassIs
<1>1. ASSUME NEW spec \in Pools, Balancer!Put(spec) PROVE Typed'
  BY <1>1, SpecIs DEF Balancer!Put
<1>2. CASE Balancer!Begin
  BY <1>2, PassBegins DEF Balancer!Begin, Balancer!bounds, Stages
<1>3. CASE Balancer!Render
  BY <1>3, <1>a, PassChanges DEF Balancer!Render, Moved, Stages, Balancer!Changed,
                                 Balancer!bounds
<1>4. CASE Balancer!ApplyContainer
  BY <1>4, Applying, SpecIs DEF Balancer!ApplyContainer, Moved, Balancer!Disturbing,
                                Balancer!bounds, Kept
<1>5. CASE Balancer!KeepContainer
  BY <1>5, Applying DEF Balancer!KeepContainer, Moved, Balancer!bounds, Kept
<1>6. CASE Balancer!ApplyUnit
  BY <1>6, Applying DEF Balancer!ApplyUnit, Moved, Balancer!bounds, Kept
<1>7. CASE Balancer!RestartUnit
  BY <1>7, Applying, SpecIs DEF Balancer!RestartUnit, Moved, Balancer!Disturbing,
                                Balancer!bounds, Kept
<1>8. CASE Balancer!Answers
  BY <1>8, <1>a, PassDrains DEF Balancer!Answers, Moved, Balancer!bounds
<1>9. ASSUME NEW name \in Backends, Balancer!DrainAgain(name) PROVE Typed'
  BY <1>9, Draining DEF Balancer!DrainAgain, Moved, Balancer!bounds, Kept
<1>10. CASE Balancer!Done
  BY <1>10, <1>a, AtRest DEF Balancer!Done
<1>11. CASE Balancer!Stop
  BY <1>11, <1>a, AtRest, StoppedIs, SpecIs DEF Balancer!Stop
<1>12. CASE Balancer!PassFails
  <2>1. CASE UNCHANGED daemon
    BY <1>12, <2>1, AtRest, SpecIs DEF Balancer!PassFails
  <2>2. CASE pass.at = "apply" /\ daemon' = Balancer!Stopped(Balancer!Created(pass.target.image))
    BY <1>12, <2>2, <1>a, AtRest, SpecIs, MadeIs, StoppedIs DEF Balancer!PassFails, PassInv
  <2> QED BY <1>12, <2>1, <2>2 DEF Balancer!PassFails
<1>13. ASSUME NEW h \in Drainers, NEW name \in Backends, NEW drain \in BOOLEAN,
              Balancer!DrainAsked(h, name, drain)
       PROVE  Typed'
  BY <1>13 DEF Balancer!DrainAsked, ReqType
<1>14. ASSUME NEW h \in Drainers, Balancer!DrainConsole(h) PROVE Typed'
  <2>1. drains' \in [Drainers -> ReqType]
    <3>1. [drains[h] EXCEPT !.at = "remember"] \in ReqType
      BY DEF ReqType
    <3> QED BY <1>14, <3>1, AtRest DEF Balancer!DrainConsole
  <2>2. daemon' \in DaemonType /\ (daemon'.up <=> daemon'.loaded # None)
    BY <1>14, HeldIs, LetIs DEF Balancer!DrainConsole, NameInv
  <2> QED BY <1>14, <2>1, <2>2 DEF Balancer!DrainConsole, Balancer!bounds
<1>15. ASSUME NEW h \in Drainers, Balancer!DrainRemember(h) PROVE Typed'
  <2>1. drained' \subseteq Backends
    BY <1>15 DEF Balancer!DrainRemember, NameInv
  <2>2. [drains[h] EXCEPT !.at = "save", !.names = drained'] \in ReqType
    BY <2>1 DEF ReqType
  <2>3. drains' \in [Drainers -> ReqType]
    BY <1>15, <2>2 DEF Balancer!DrainRemember
  <2> QED BY <1>15, <2>1, <2>3 DEF Balancer!DrainRemember, Balancer!bounds
<1>16. ASSUME NEW h \in Drainers, Balancer!DrainSave(h) PROVE Typed'
  <2>1. file' \subseteq Backends
    BY <1>16 DEF Balancer!DrainSave, ReqType
  <2> QED BY <1>16, <2>1, AtRest DEF Balancer!DrainSave, Balancer!bounds
<1>17. CASE Balancer!RestartService
  BY <1>17, StartedIs DEF Balancer!RestartService, Balancer!CanStart
<1>18. CASE Balancer!DaemonDies
  BY <1>18, StartedIs, StoppedIs DEF Balancer!DaemonDies, DaemonInv
<1>19. ASSUME NEW name \in Backends, Balancer!WeightRestored(name) PROVE Typed'
  BY <1>19, LetIs DEF Balancer!WeightRestored
<1>20. CASE Balancer!AgentRestart
  BY <1>20, AtRest, SpecIs DEF Balancer!AgentRestart
<1>21. CASE UNCHANGED Balancer!vars
  BY <1>21 DEF Balancer!vars, Balancer!bounds
<1> QED BY <1>1, <1>2, <1>3, <1>4, <1>5, <1>6, <1>7, <1>8, <1>9, <1>10, <1>11, <1>12, <1>13,
           <1>14, <1>15, <1>16, <1>17, <1>18, <1>19, <1>20, <1>21
        DEF Balancer!Next, Balancer!Converge, Balancer!Handle, Balancer!Operator,
            Balancer!Environment

\* A handler of a drain keeps the name it was asked for.
LEMMA NameStep ==
  ASSUME Typed, NameInv, [Balancer!Next]_(Balancer!vars)
  PROVE  NameInv'
<1> USE DEF NameInv
<1>1. ASSUME NEW h \in Drainers, NEW name \in Backends, NEW drain \in BOOLEAN,
             Balancer!DrainAsked(h, name, drain)
      PROVE  NameInv'
  BY <1>1 DEF Balancer!DrainAsked, Typed
<1>2. ASSUME NEW h \in Drainers, Balancer!Handle(h) PROVE NameInv'
  <2>1. \A g \in Drainers : g # h => drains'[g] = drains[g]
    BY <1>2 DEF Balancer!Handle, Balancer!DrainConsole, Balancer!DrainRemember,
                Balancer!DrainSave, Typed
  <2>2. drains'[h].at \in {"console", "remember"} => drains'[h].name \in Backends
    BY <1>2 DEF Balancer!Handle, Balancer!DrainConsole, Balancer!DrainRemember,
                Balancer!DrainSave, Typed, ReqType, Balancer!NoRequest
  <2> QED BY <2>1, <2>2
<1>3. CASE Balancer!AgentRestart
  BY <1>3 DEF Balancer!AgentRestart, Balancer!NoRequest
<1>4. CASE UNCHANGED drains
  BY <1>4
<1> QED BY <1>1, <1>2, <1>3, <1>4
        DEF Balancer!Next, Balancer!Converge, Balancer!Operator, Balancer!Environment,
            Balancer!vars, Balancer!Put, Balancer!Begin, Balancer!Render,
            Balancer!ApplyContainer, Balancer!KeepContainer, Balancer!ApplyUnit,
            Balancer!RestartUnit, Balancer!Answers, Balancer!DrainAgain, Balancer!Done,
            Balancer!Stop, Balancer!PassFails, Balancer!RestartService,
            Balancer!DaemonDies, Balancer!WeightRestored

\* What has become of the daemon, if no pass did it: it runs as before, does not run,
\* or has read the file again.
Elsewise ==
  /\ daemon'.exists = daemon.exists /\ daemon'.image = daemon.image
  /\ \/ daemon'.up = daemon.up /\ daemon'.loaded = daemon.loaded
     \/ ~daemon'.up
     \/ daemon'.loaded = conf /\ conf # None /\ (kind = "docker" => daemon.exists)

\* Every step keeps the invariant: Begin, the stages of a pass and a restart of the
\* agent by what they do, all others as they leave the files alone.
LEMMA InvStep ==
  ASSUME Assumptions, Typed, Typed', Inv, NameInv, [Balancer!Next]_(Balancer!vars)
  PROVE  Inv'
<1> USE DEF Inv, PassInv, DaemonInv, RunsInv, MarkInv, SaidInv, SameInv, Restarting,
            Balancer!Tearing
<1>a. /\ pass.at \in Stages /\ pass.target \in Balancer!MaybeSpec /\ pass.changed \in BOOLEAN
      /\ pass.target # None => pass.target.on \in BOOLEAN
  BY PassIs, SpecIs DEF Typed
<1>1. CASE Elsewise /\ UNCHANGED <<kind, pass, conf, mark, torn>> /\ said' \in {said, None}
  BY <1>1 DEF Elsewise
<1>2. CASE Balancer!Begin
  <2>1. pass'.target = pool /\ pass'.changed = FALSE /\ pass.target = None /\ pool # None
        /\ pass'.at = IF pool.on THEN "render" ELSE "stop"
    <3> DEFINE at == IF pool.on THEN "render" ELSE "stop"
    <3>1. at \in Stages /\ pool \in Balancer!MaybeSpec
      BY DEF Stages, Typed
    <3>2. pass' = [Balancer!Resting EXCEPT !.at = at, !.target = pool]
      BY <1>2 DEF Balancer!Begin
    <3>3. pass'.at = at /\ pass'.target = pool /\ pass'.changed = FALSE
      <4> HIDE DEF at
      <4> QED BY <3>1, <3>2, PassBegins
    <3> QED BY <1>2, <3>3 DEF Balancer!Begin, PassInv
  <2> QED BY <1>2, <2>1, SpecIs DEF Balancer!Begin, Typed
<1>3. CASE Balancer!Render
  <2>1. Moved(pass', pass, "apply", Balancer!Changed, pass.todo)
    BY <1>3, <1>a, PassChanges DEF Balancer!Render, Stages, Balancer!Changed, Typed
  <2> QED BY <1>3, <2>1, <1>a DEF Balancer!Render, Moved, Balancer!Changed
<1>4. CASE Balancer!ApplyContainer
  BY <1>4, <1>a, Applying DEF Balancer!ApplyContainer, Moved
<1>5. CASE Balancer!KeepContainer
  BY <1>5, <1>a, Applying DEF Balancer!KeepContainer, Moved
<1>6. CASE Balancer!ApplyUnit
  BY <1>6, <1>a, Applying DEF Balancer!ApplyUnit, Moved
<1>7. CASE Balancer!RestartUnit
  BY <1>7, <1>a, Applying DEF Balancer!RestartUnit, Moved
<1>8. CASE Balancer!Answers
  <2>1. Moved(pass', pass, "drain", pass.changed, drained)
    BY <1>8, PassDrains DEF Balancer!Answers, Typed
  <2> QED BY <1>8, <2>1, <1>a DEF Balancer!Answers, Moved
<1>9. ASSUME NEW name \in Backends, Balancer!DrainAgain(name) PROVE Inv'
  BY <1>9, <1>a, Draining DEF Balancer!DrainAgain, Moved
<1>10. CASE Balancer!Done
  BY <1>10, <1>a DEF Balancer!Done, Balancer!Resting
<1>11. CASE Balancer!Stop
  BY <1>11, <1>a, StoppedIs DEF Balancer!Stop, Typed, Balancer!Resting
<1>12. CASE Balancer!PassFails
  <2>1. UNCHANGED daemon \/ ~daemon'.up
    <3>1. ASSUME pass.at = "apply" PROVE ~Balancer!Stopped(Balancer!Created(pass.target.image)).up
      BY DEF Balancer!Stopped, Balancer!Created
    <3> QED BY <1>12, <3>1 DEF Balancer!PassFails
  <2> QED BY <1>12, <2>1, <1>a DEF Balancer!PassFails, Balancer!Resting
<1>13. CASE Balancer!AgentRestart
  BY <1>13, <1>a DEF Balancer!AgentRestart, Balancer!Resting
<1>14. ASSUME NEW spec \in Pools, Balancer!Put(spec) PROVE Inv'
  BY <1>1, <1>14 DEF Balancer!Put, Elsewise
<1>15. ASSUME NEW h \in Drainers, NEW name \in Backends, NEW drain \in BOOLEAN,
              Balancer!DrainAsked(h, name, drain)
       PROVE  Inv'
  BY <1>1, <1>15 DEF Balancer!DrainAsked, Elsewise
<1>16. ASSUME NEW h \in Drainers, Balancer!Handle(h) PROVE Inv'
  <2>1. Elsewise
    BY <1>16, HeldIs, LetIs DEF Balancer!Handle, Balancer!DrainConsole,
                                Balancer!DrainRemember, Balancer!DrainSave, Elsewise,
                                Typed, NameInv
  <2> QED BY <1>1, <1>16, <2>1 DEF Balancer!Handle, Balancer!DrainConsole,
                                   Balancer!DrainRemember, Balancer!DrainSave
<1>17. CASE Balancer!RestartService \/ Balancer!DaemonDies
  <2>1. conf # None /\ (kind = "docker" => daemon.exists)
    BY <1>17 DEF Balancer!RestartService, Balancer!DaemonDies, Balancer!CanStart
  <2>2. Elsewise
    BY <1>17, <2>1, StartedIs, StoppedIs DEF Balancer!RestartService, Balancer!DaemonDies,
                                             Elsewise, Typed
  <2> QED BY <1>1, <1>17, <2>2 DEF Balancer!RestartService, Balancer!DaemonDies
<1>18. ASSUME NEW name \in Backends, Balancer!WeightRestored(name) PROVE Inv'
  BY <1>1, <1>18, LetIs DEF Balancer!WeightRestored, Elsewise, Typed
<1>19. CASE UNCHANGED Balancer!vars
  BY <1>1, <1>19 DEF Balancer!vars, Elsewise
<1> QED BY <1>2, <1>3, <1>4, <1>5, <1>6, <1>7, <1>8, <1>9, <1>10, <1>11, <1>12, <1>13,
           <1>14, <1>15, <1>16, <1>17, <1>18, <1>19
        DEF Balancer!Next, Balancer!Converge, Balancer!Operator, Balancer!Environment

-----------------------------------------------------------------------------

\* A host that was never given a spec.
LEMMA InitInv ==
  ASSUME Assumptions, Balancer!Init
  PROVE  Balancer!TypeOK /\ Inv /\ NameInv
<1>1. /\ Balancer!Removed \in DaemonType
      /\ ~Balancer!Removed.up /\ ~Balancer!Removed.exists /\ Balancer!Removed.loaded = None
  BY SpecIs DEF Balancer!Removed, DaemonType
<1>2. Typed
  BY <1>1, AtRest, SpecIs DEF Balancer!Init, Typed
<1>3. Bounded
  <2>1. torn \in BOOLEAN /\ kind \in Kinds
    BY DEF Balancer!Init
  <2>2. asked \in 0 .. MaxDrains /\ daemonFaults \in 0 .. MaxDaemonFaults
    BY DEF Balancer!Init, Assumptions, Balancer!BoundsAssumption
  <2> QED BY <2>1, <2>2 DEF Bounded
<1>4. NameInv
  BY DEF Balancer!Init, NameInv, Balancer!NoRequest
<1>5. Inv
  BY <1>1 DEF Balancer!Init, Inv, Balancer!Resting, PassInv, DaemonInv, RunsInv, MarkInv,
              SaidInv, SameInv, Balancer!Tearing
<1> QED BY <1>2, <1>3, <1>4, <1>5, Types

\* A pass, the daemon, its files and the drains keep their types and what the
\* invariants above say of them, whoever restarts or fails.
LEMMA DaemonInvariants == Balancer!Spec => [](Balancer!TypeOK /\ Inv /\ NameInv)
<1>0. Assumptions
  BY DaemonAssumption DEF Assumptions
<1>1. Balancer!Init => Balancer!TypeOK /\ Inv /\ NameInv
  BY <1>0, InitInv
<1>2. Balancer!TypeOK /\ Inv /\ NameInv /\ [Balancer!Next]_(Balancer!vars) =>
        (Balancer!TypeOK /\ Inv /\ NameInv)'
  <2> SUFFICES ASSUME Typed, Bounded, Inv, NameInv, [Balancer!Next]_(Balancer!vars)
               PROVE  (Balancer!TypeOK /\ Inv /\ NameInv)'
    BY Types
  <2>1. Typed'
    BY <1>0, TypeStep DEF Inv
  <2>2. Bounded' /\ NameInv'
    BY <1>0, BoundsKept, NameStep
  <2>3. Inv'
    BY <1>0, <2>1, InvStep
  <2>4. Balancer!TypeOK'
    BY <2>1, <2>2 DEF Balancer!TypeOK, Bounded, Typed, PassType, Stages, DaemonType, ReqType
  <2> QED BY <2>2, <2>3, <2>4
<1> QED BY <1>1, <1>2, PTL DEF Balancer!Spec

\* The type of every variable of the balancer's role, for every set of backends,
\* images and specs.
THEOREM DaemonTypes == Balancer!Spec => []Balancer!TypeOK
BY DaemonInvariants, PTL

\* A daemon that runs between passes has loaded the spec that the role reports,
\* unless a pass was torn, whoever restarts it and whatever fails.
\* (dnsdist.go Converge, keepalived.go Converge)
THEOREM RunsAsReported == Balancer!Spec => []ReportedRuns
<1>1. Inv => ReportedRuns
  BY DEF Inv, RunsInv, SaidInv, Restarting, ReportedRuns, Balancer!ReportedRuns
<1> QED BY <1>1, DaemonInvariants, PTL

\* No step of a pass over what was reported stops a daemon, gives it another file or
\* lets a backend go: there is nothing that would make it restart.
LEMMA UndisturbedStep ==
  ASSUME Assumptions, Typed, Inv, Balancer!Converge,
         daemon.up, said # None, pass.target = said, said.on
  PROVE  daemon'.up /\ daemon'.loaded = daemon.loaded /\ daemon.down \subseteq daemon'.down
<1> USE DEF Inv
<1>1. /\ ~Balancer!Tearing /\ pass.at \notin {"stop", "idle"}
      /\ kind = "docker" => daemon.exists /\ daemon.image = said.image
  BY DEF PassInv, DaemonInv, SameInv
<1>2. ~Balancer!ApplyContainer /\ ~Balancer!RestartUnit
  BY <1>1 DEF Balancer!ApplyContainer, Balancer!RestartUnit, Balancer!Tearing, PassInv
<1>3. ~Balancer!Begin /\ ~Balancer!Stop
  BY <1>1 DEF Balancer!Begin, Balancer!Stop
<1>4. ASSUME Balancer!KeepContainer \/ Balancer!ApplyUnit PROVE daemon' = daemon
  BY <1>4, Applying
<1>5. ASSUME NEW name \in Backends, Balancer!DrainAgain(name)
      PROVE  daemon'.up /\ daemon'.loaded = daemon.loaded /\ daemon.down \subseteq daemon'.down
  BY <1>5, Draining
<1>6. ASSUME Balancer!PassFails PROVE daemon' = daemon
  BY <1>1, <1>6 DEF Balancer!PassFails
<1>7. ASSUME Balancer!Render \/ Balancer!Answers \/ Balancer!Done PROVE daemon' = daemon
  BY <1>7 DEF Balancer!Render, Balancer!Answers, Balancer!Done
<1> QED BY <1>2, <1>3, <1>4, <1>5, <1>6, <1>7 DEF Balancer!Converge

\* A pass over the spec that was last reported leaves a running daemon and its
\* backends alone, though PUTs, drains, restarts and failures come in between.
\* (dnsdist.go convergeDocker, convergeBare, keepalived.go Converge)
THEOREM NotDisturbed == Balancer!Spec => Undisturbed
<1>1. Balancer!TypeOK /\ Inv /\ NameInv /\ [Balancer!Next]_(Balancer!vars) =>
        [Balancer!Converge /\ daemon.up /\ said # None /\ pass.target = said /\ said.on
           => daemon'.up /\ daemon'.loaded = daemon.loaded
              /\ daemon.down \subseteq daemon'.down]_(Balancer!vars)
  BY DaemonAssumption, UndisturbedStep, Types DEF Assumptions
<1> QED BY <1>1, DaemonInvariants, PTL DEF Balancer!Spec, Undisturbed, Balancer!Undisturbed
=============================================================================
