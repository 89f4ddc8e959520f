-------------------------- MODULE FleetUpdaterProofs --------------------------
(***************************************************************************)
(* Proofs about FleetUpdater, for every set of servers, runs and install   *)
(* methods and every bound.                                                *)
(*                                                                         *)
(* JobHasLock is inductive given the types.  NoNeedlessRestart needs what  *)
(* a run knows of a native install while it has the lock: nobody else takes*)
(* it down or changes its version, so what the box answered to AskRelease  *)
(* is still so when the upgrade is started (Asked).                        *)
(*                                                                         *)
(* NothingLeft is what is safe about "every run ends": a lock that a run   *)
(* has is used, and a run that is over has nothing in hand.  RowsBehind    *)
(* relates what is recorded of a box, awaits later, to what it runs.       *)
(***************************************************************************)
EXTENDS FleetUpdater, TLAPS

\* An upgrade that succeeded names the version it came back on.
JobRecord ==
  {j \in [at : Places \cup {"none"}, target : MaybeRelease,
          from : MaybeRelease, state : States, to : MaybeRelease] :
     j.state = "succeeded" => j.to # 0}
RowRecord == [version : Releases, latest : MaybeRelease, state : States,
              attempted : MaybeRelease, backoff : BOOLEAN, cooling : BOOLEAN]
RunRecord == [on : BOOLEAN, waiting : SUBSET Servers]

BoundsType == requests \in 0 .. MaxRuns /\ faults \in 0 .. MaxFaults
JobsType == job \in [Runs -> [Servers -> JobRecord]]
TypeInv == TypeOK /\ JobsType

\* A native install that a run with its lock has asked for its release is up and
\* older than the release it named, which is out; and nothing else is updated.
Held(r, s) == job[r][s].at \in {"comparing", "updating"} /\ method[s] = "native"

Asked(r, s) ==
  /\ Held(r, s) => /\ box[s].up
                   /\ job[r][s].target # 0 => box[s].version < job[r][s].target
                   /\ job[r][s].target <= release
  /\ At(r, s, "updating") => method[s] = "native" /\ job[r][s].target # 0

AskedInv == \A r \in Runs, s \in Servers : Asked(r, s)

-----------------------------------------------------------------------------

\* A counter stays under its bound.
LEMMA Counters ==
  ASSUME BoundsType, Fault \/ Request \/ UNCHANGED bounds
  PROVE  BoundsType'
BY FleetBoundsAssumption DEF BoundsType, Fault, Request, bounds

\* Outcomes are well typed, and so is what a box answers.
LEMMA RecordTypes ==
  /\ NoJob \in JobRecord
  /\ 1 \in Releases /\ 0 \in MaybeRelease /\ Releases \subseteq MaybeRelease
BY FleetBoundsAssumption DEF NoJob, JobRecord, Releases, MaybeRelease, States

LEMMA OutcomeType ==
  ASSUME TypeOK, NEW s \in Servers, NEW state \in States, NEW target \in MaybeRelease
  PROVE  Outcome(s, state, target) \in JobRecord
<1>1. box[s].version \in MaybeRelease /\ box[s].version # 0
  BY RecordTypes DEF TypeOK, Releases
<1> QED BY <1>1, RecordTypes DEF Outcome, JobRecord, Places

LEMMA NewerType ==
  ASSUME TypeOK, NEW s \in Servers
  PROVE  /\ Newer(s) \in MaybeRelease
         /\ Newer(s) # 0 => box[s].version < Newer(s)
         /\ Newer(s) <= release
BY FleetBoundsAssumption DEF Newer, TypeOK, Releases, MaybeRelease

\* Giving one job of a run a well-typed record keeps the types of all jobs, and
\* the other jobs as they are.
LEMMA BecomeType ==
  ASSUME JobsType, NEW r \in Runs, NEW s \in Servers, NEW record \in JobRecord,
         Become(r, s, record)
  PROVE  /\ JobsType'
         /\ job'[r][s] = record
         /\ \A q \in Runs, t \in Servers : q # r \/ t # s => job'[q][t] = job[q][t]
BY DEF JobsType, Become

-----------------------------------------------------------------------------

\* Every step keeps the types, and a job that succeeded names its version.
LEMMA TypeInvHolds == Spec => []TypeInv
<1> USE FleetAssumption, FleetBoundsAssumption
<1>1. Init => TypeInv
  <2> SUFFICES ASSUME Init PROVE TypeInv
    OBVIOUS
  <2>1. JobsType
    BY RecordTypes DEF Init, JobsType
  <2>2. /\ release \in Releases
        /\ box \in [Servers -> [version : Releases, up : BOOLEAN]]
        /\ row \in [Servers -> RowRecord]
    BY RecordTypes DEF Init, RowRecord, States
  <2>3. run \in [Runs -> RunRecord]
    BY DEF Init, Resting, RunRecord
  <2>4. requests \in 0 .. MaxRuns /\ faults \in 0 .. MaxFaults
    BY DEF Init
  <2> QED BY <2>1, <2>2, <2>3, <2>4 DEF Init, TypeInv, TypeOK, JobsType, JobRecord, RowRecord, RunRecord
<1>2. TypeInv /\ [Next]_vars => TypeInv'
  <2> SUFFICES ASSUME TypeOK, JobsType, [Next]_vars PROVE TypeInv'
    BY DEF TypeInv
  <2>0. /\ JobsType /\ BoundsType
        /\ release \in Releases /\ method \in [Servers -> Installs]
        /\ box \in [Servers -> [version : Releases, up : BOOLEAN]]
        /\ row \in [Servers -> RowRecord] /\ run \in [Runs -> RunRecord]
        /\ lock \in [Servers -> Runs \cup {"sync", None}]
        /\ checking \in [Servers -> MaybeRelease \cup {None}]
    BY DEF TypeOK, JobsType, JobRecord, BoundsType, RowRecord, RunRecord
  \* The variables one at a time.
  <2>t. ASSUME JobsType', BoundsType',
               release' \in Releases, method' \in [Servers -> Installs],
               box' \in [Servers -> [version : Releases, up : BOOLEAN]],
               row' \in [Servers -> RowRecord], run' \in [Runs -> RunRecord],
               lock' \in [Servers -> Runs \cup {"sync", None}],
               checking' \in [Servers -> MaybeRelease \cup {None}]
        PROVE  TypeInv'
    BY <2>t DEF TypeInv, TypeOK, JobsType, JobRecord, BoundsType, RowRecord, RunRecord
  <2>1. CASE UNCHANGED vars
    BY <2>1 DEF TypeInv, TypeOK, JobsType, vars, bounds
  <2>2. ASSUME NEW r \in Runs, NEW forced, NEW scope \in SUBSET Servers,
               Start(r, forced, scope), BoundsType'
        PROVE  TypeInv'
    <3>1. run' \in [Runs -> RunRecord]
      BY <2>0, <2>2 DEF Start, RunRecord
    <3> QED BY <2>0, <2>2, <2>t, <3>1 DEF Start, JobsType
  <2>3. CASE StartPeriodic
    <3>1. BoundsType'
      BY <2>0, <2>3, Counters DEF StartPeriodic
    <3> QED BY <2>2, <2>3, <3>1 DEF StartPeriodic, Runs
  <2>4. ASSUME NEW r \in Manual, StartManual(r) PROVE TypeInv'
    <3>1. BoundsType'
      BY <2>0, <2>4, Counters DEF StartManual
    <3> QED BY <2>2, <2>4, <3>1 DEF StartManual, Runs
  <2>5. ASSUME NEW r \in Runs, NEW s \in Servers, Take(r, s) \/ Busy(r, s) PROVE TypeInv'
    <3>1. [run EXCEPT ![r].waiting = @ \ {s}] \in [Runs -> RunRecord]
      BY <2>0 DEF RunRecord
    <3>2. [NoJob EXCEPT !.at = "asking", !.from = row[s].version] \in JobRecord
      BY <2>0, RecordTypes DEF JobRecord, Places, RowRecord
    <3>3. JobsType'
      BY <2>0, <2>5, <3>2, BecomeType DEF Take, Busy, Become, JobsType
    <3>4. lock' \in [Servers -> Runs \cup {"sync", None}]
      BY <2>0, <2>5 DEF Take, Busy
    <3>5. BoundsType'
      BY <2>0, <2>5, Counters DEF Take, Busy
    <3> QED BY <2>0, <2>5, <2>t, <3>1, <3>3, <3>4, <3>5 DEF Take, Busy
  <2>6. ASSUME NEW r \in Runs, NEW s \in Servers, Advance(r, s) \/ Fail(r, s) PROVE TypeInv'
    <3>0. /\ job[r][s] \in JobRecord /\ method[s] \in Installs
          /\ box[s] \in [version : Releases, up : BOOLEAN] /\ row[s] \in RowRecord
      BY <2>0 DEF JobsType
    <3>f. Failing(r, s) \in JobRecord
      BY <3>0, OutcomeType DEF Failing, JobRecord, States
    \* A job that moves on, with what it does to the box.
    <3>m. ASSUME NEW record \in JobRecord, Become(r, s, record), BoundsType',
                 box' \in [Servers -> [version : Releases, up : BOOLEAN]],
                 UNCHANGED <<release, method, row, lock, run, checking>>
          PROVE  TypeInv'
      BY <2>0, <2>t, <3>m, BecomeType
    <3>d. [box EXCEPT ![s].up = FALSE] \in [Servers -> [version : Releases, up : BOOLEAN]]
      BY <2>0
    <3>a. [job[r][s] EXCEPT !.at = "awaiting"] \in JobRecord
      BY <3>0 DEF JobRecord, Places
    <3>1. CASE AskRelease(r, s)
      <4>1. [job[r][s] EXCEPT !.at = "comparing", !.target = Newer(s)] \in JobRecord
        BY <3>0, NewerType DEF JobRecord, Places
      <4> QED BY <2>0, <3>1, <3>f, <3>m, <4>1, Counters DEF AskRelease
    <3>2. CASE AskVersion(r, s)
      <4>1. \A place \in {"recreating", "updating"} :
              [job[r][s] EXCEPT !.at = place, !.from = box[s].version] \in JobRecord
        BY <3>0, RecordTypes DEF JobRecord, Places
      <4>2. Outcome(s, "idle", 0) \in JobRecord /\ Outcome(s, "delegated", job[r][s].target) \in JobRecord
        BY <3>0, OutcomeType, RecordTypes DEF JobRecord, States
      <4>3. \E record \in JobRecord : Become(r, s, record)
        BY <3>2, <3>f, <4>1, <4>2 DEF AskVersion
      <4> QED BY <2>0, <3>2, <3>m, <4>3, Counters DEF AskVersion
    <3>3. CASE UpdateNow(r, s)
      <4>1. BoundsType'
        BY <2>0, <3>3, Counters DEF UpdateNow
      <4> QED BY <2>0, <3>3, <3>m, <3>d, <3>a, <4>1 DEF UpdateNow, Await, GoesDown
    <3>4. CASE AgentUpdate(r, s)
      <4>1. BoundsType'
        BY <2>0, <3>4, Counters DEF AgentUpdate
      <4>2. Outcome(s, "idle", 0) \in JobRecord
        BY OutcomeType, RecordTypes DEF States
      <4> QED BY <2>0, <3>4, <3>m, <3>d, <3>a, <4>1, <4>2 DEF AgentUpdate, Await, GoesDown
    <3>5. CASE CameBack(r, s)
      <4>1. \A target \in MaybeRelease : Outcome(s, "succeeded", target) \in JobRecord
        BY OutcomeType DEF States
      <4>2. box[s].version \in MaybeRelease /\ job[r][s].target \in MaybeRelease
        BY <3>0, RecordTypes DEF JobRecord
      <4> QED BY <2>0, <3>5, <3>m, <4>1, <4>2, Counters DEF CameBack
    <3>6. CASE GaveUp(r, s) \/ Fail(r, s)
      <4>1. BoundsType'
        BY <2>0, <3>6, Counters DEF GaveUp, Fail
      <4> QED BY <2>0, <3>6, <3>f, <3>m, <4>1 DEF GaveUp, Fail
    <3>7. CASE Save(r, s)
      <4>1. JobsType' /\ BoundsType'
        BY <2>0, <3>7, RecordTypes, BecomeType, Counters DEF Save
      <4>2. row' \in [Servers -> RowRecord]
        <5> DEFINE done == job[r][s]
        <5>1. /\ done.state \in States /\ done.target \in MaybeRelease
              /\ (done.state = "failed") \in BOOLEAN
          BY <3>0 DEF JobRecord
        <5>2. Version(done, row[s].version) \in Releases
          BY <3>0, <3>7 DEF Save, Version, RowRecord, JobRecord, Releases, MaybeRelease
        <5>3. (IF done.state = "succeeded" THEN 0 ELSE row[s].latest) \in MaybeRelease
          BY <3>0, RecordTypes DEF RowRecord
        <5> DEFINE failed == done.state = "failed"
                   latest == IF done.state = "succeeded" THEN 0 ELSE row[s].latest
                   version == Version(done, row[s].version)
        <5>4. row' = [row EXCEPT
                ![s].state = done.state, ![s].attempted = done.target, ![s].backoff = failed,
                ![s].version = version, ![s].latest = latest]
          BY <3>7 DEF Save
        <5>5. /\ failed \in BOOLEAN /\ latest \in MaybeRelease /\ version \in Releases
              /\ done.state \in States /\ done.target \in MaybeRelease
          BY <5>1, <5>2, <5>3
        <5> HIDE DEF done, failed, latest, version
        <5> DEFINE saved == [row[s] EXCEPT
                     !.state = done.state, !.attempted = done.target, !.backoff = failed,
                     !.version = version, !.latest = latest]
        <5>6. saved \in RowRecord
          BY <3>0, <5>5 DEF RowRecord
        <5>7. row' = [row EXCEPT ![s] = saved]
          BY <2>0, <5>4
        <5> HIDE DEF saved
        <5> QED BY <2>0, <5>6, <5>7
      <4>3. lock' \in [Servers -> Runs \cup {"sync", None}]
        BY <2>0, <3>7 DEF Save
      <4> QED BY <2>0, <2>t, <3>7, <4>1, <4>2, <4>3 DEF Save
    <3> QED BY <2>6, <3>1, <3>2, <3>3, <3>4, <3>5, <3>6, <3>7 DEF Advance
  <2>7. ASSUME NEW r \in Runs, Finish(r) PROVE TypeInv'
    <3>1. run' \in [Runs -> RunRecord]
      BY <2>0, <2>7 DEF Finish, Resting, RunRecord
    <3> QED BY <2>0, <2>7, <2>t, <3>1, Counters DEF Finish, JobsType
  <2>8. ASSUME NEW s \in Servers, SyncBegin(s) \/ SyncEnd(s) PROVE TypeInv'
    <3>1. BoundsType'
      BY <2>0, <2>8, Counters DEF SyncBegin, SyncEnd
    <3>2. lock' \in [Servers -> Runs \cup {"sync", None}]
      BY <2>0, <2>8 DEF SyncBegin, SyncEnd
    <3>3. row' \in [Servers -> RowRecord]
      <4>1. Newer(s) \in MaybeRelease /\ box[s].version \in Releases
        BY <2>0, NewerType
      <4>2. \/ row' = row \/ row' = [row EXCEPT ![s].cooling = TRUE]
            \/ row' = [row EXCEPT ![s].version = box[s].version, ![s].latest = Newer(s),
                                  ![s].cooling = FALSE]
        BY <2>8 DEF SyncBegin, SyncEnd
      <4>3. [row EXCEPT ![s].cooling = TRUE] \in [Servers -> RowRecord]
        BY <2>0 DEF RowRecord
      <4>4. [row EXCEPT ![s].version = box[s].version, ![s].latest = Newer(s),
                        ![s].cooling = FALSE] \in [Servers -> RowRecord]
        <5> DEFINE asked == [row[s] EXCEPT !.version = box[s].version, !.latest = Newer(s),
                                           !.cooling = FALSE]
        <5>1. asked \in RowRecord
          <6>1. \A old \in RowRecord, version \in Releases, latest \in MaybeRelease :
                  [old EXCEPT !.version = version, !.latest = latest, !.cooling = FALSE]
                    \in RowRecord
            BY DEF RowRecord
          <6> QED BY <2>0, <4>1, <6>1
        <5>2. [row EXCEPT ![s].version = box[s].version, ![s].latest = Newer(s),
                          ![s].cooling = FALSE] = [row EXCEPT ![s] = asked]
          BY <2>0
        <5> HIDE DEF asked
        <5> QED BY <2>0, <5>1, <5>2
      <4> QED BY <2>0, <4>2, <4>3, <4>4
    <3> QED BY <2>0, <2>8, <2>t, <3>1, <3>2, <3>3 DEF SyncBegin, SyncEnd, JobsType
  <2>9. ASSUME NEW s \in Servers, CheckAsk(s) \/ CheckSave(s) PROVE TypeInv'
    <3>1. BoundsType'
      BY <2>0, <2>9, Counters DEF CheckAsk, CheckSave
    <3>2. checking' \in [Servers -> MaybeRelease \cup {None}]
      BY <2>0, <2>9, NewerType, RecordTypes DEF CheckAsk, CheckSave
    <3>3. row' \in [Servers -> RowRecord]
      <4>1. checking[s] # None => checking[s] \in MaybeRelease
        BY <2>0
      <4>2. \A latest \in MaybeRelease : [row[s] EXCEPT !.latest = latest] \in RowRecord
        BY <2>0 DEF RowRecord
      <4>3. CASE CheckAsk(s)
        BY <2>0, <4>3 DEF CheckAsk
      <4>4. CASE CheckSave(s)
        <5> DEFINE saved == [row[s] EXCEPT !.latest = checking[s]]
        <5>1. saved \in RowRecord
          BY <4>1, <4>2, <4>4 DEF CheckSave
        <5>2. row' = [row EXCEPT ![s] = saved]
          BY <4>4 DEF CheckSave
        <5> HIDE DEF saved
        <5> QED BY <2>0, <5>1, <5>2
      <4> QED BY <2>9, <4>3, <4>4
    <3> QED BY <2>0, <2>9, <2>t, <3>1, <3>2, <3>3 DEF CheckAsk, CheckSave, JobsType
  <2>10. ASSUME NEW s \in Servers, BoxBack(s) \/ OnBoxUpdate(s) PROVE TypeInv'
    <3>1. BoundsType'
      BY <2>0, <2>10, Counters DEF BoxBack, OnBoxUpdate
    <3>2. box' \in [Servers -> [version : Releases, up : BOOLEAN]]
      <4>1. \A up \in BOOLEAN : [box EXCEPT ![s].up = up]
                                  \in [Servers -> [version : Releases, up : BOOLEAN]]
        BY <2>0
      <4>2. [box EXCEPT ![s] = [version |-> release, up |-> TRUE]]
              \in [Servers -> [version : Releases, up : BOOLEAN]]
        BY <2>0
      <4> QED BY <2>10, <4>1, <4>2 DEF BoxBack, OnBoxUpdate, GoesDown
    <3> QED BY <2>0, <2>10, <2>t, <3>1, <3>2 DEF BoxBack, OnBoxUpdate, JobsType
  <2>11. ASSUME NEW s \in Servers, BackoffExpires(s) \/ CooldownExpires(s) PROVE TypeInv'
    <3>1. BoundsType'
      BY <2>0, <2>11, Counters DEF BackoffExpires, CooldownExpires
    <3>2. row' \in [Servers -> RowRecord]
      <4>1. [row EXCEPT ![s].backoff = FALSE] \in [Servers -> RowRecord]
        BY <2>0 DEF RowRecord
      <4>2. [row EXCEPT ![s].cooling = FALSE] \in [Servers -> RowRecord]
        BY <2>0 DEF RowRecord
      <4> QED BY <2>11, <4>1, <4>2 DEF BackoffExpires, CooldownExpires
    <3> QED BY <2>0, <2>11, <2>t, <3>1, <3>2 DEF BackoffExpires, CooldownExpires, JobsType
  <2>12. CASE NewRelease
    <3>1. release' \in Releases
      BY <2>12 DEF NewRelease, Releases, TypeOK
    <3> QED BY <2>0, <2>12, <2>t, <3>1, Counters DEF NewRelease, JobsType
  <2>13. CASE Restart
    <3>1. BoundsType'
      BY <2>0, <2>13, Counters DEF Restart
    <3>2. JobsType' /\ run' \in [Runs -> RunRecord]
      BY <2>13, RecordTypes DEF Restart, JobsType, Resting, RunRecord
    <3>3. /\ lock' \in [Servers -> Runs \cup {"sync", None}]
          /\ checking' \in [Servers -> MaybeRelease \cup {None}]
      BY <2>13 DEF Restart
    <3> QED BY <2>0, <2>13, <2>t, <3>1, <3>2, <3>3 DEF Restart
  <2> QED BY <2>1, <2>3, <2>4, <2>5, <2>6, <2>7, <2>8, <2>9, <2>10, <2>11, <2>12, <2>13 DEF Next
<1> QED BY <1>1, <1>2, PTL DEF Spec

\* Rows, boxes, locks, runs and jobs of updater.py keep their types.
THEOREM TypeCorrect == Spec => []TypeOK
<1>1. TypeInv => TypeOK
  BY DEF TypeInv
<1> QED BY <1>1, TypeInvHolds, PTL

-----------------------------------------------------------------------------

\* A job moves on alone: it was begun, and the other jobs stay.
LEMMA Alone ==
  ASSUME JobsType, NEW r \in Runs, NEW s \in Servers, Advance(r, s) \/ Fail(r, s)
  PROVE  /\ job[r][s].at # "none"
         /\ \A q \in Runs, t \in Servers : q # r \/ t # s => job'[q][t] = job[q][t]
<1>1. \E record : Become(r, s, record)
  BY DEF Advance, Fail, AskRelease, AskVersion, UpdateNow, AgentUpdate, Await,
         CameBack, GaveUp, Save
<1>2. job[r][s].at # "none"
  BY DEF Advance, Fail, At, AskRelease, AskVersion, UpdateNow, AgentUpdate,
         CameBack, GaveUp, Save
<1> QED BY <1>1, <1>2 DEF Become, JobsType

\* A run keeps the lock of a server until its job there is saved.
THEOREM LockHeld == Spec => []JobHasLock
<1> USE RunsAssumption DEF Runs
<1>1. Init => JobHasLock
  BY DEF Init, JobHasLock, NoJob
<1>2. TypeInv /\ JobHasLock /\ [Next]_vars => JobHasLock'
  <2> SUFFICES ASSUME TypeInv, JobHasLock, [Next]_vars PROVE JobHasLock'
    OBVIOUS
  <2>0. JobsType /\ lock \in [Servers -> Runs \cup {"sync", None}]
    BY DEF TypeInv, TypeOK
  <2>1. CASE UNCHANGED <<lock, job>>
    BY <2>1 DEF JobHasLock
  <2>2. ASSUME NEW r \in Runs, NEW s \in Servers, Take(r, s) PROVE JobHasLock'
    <3>1. \A q \in Runs : job[q][s].at = "none"
      BY <2>2 DEF Take, Free, JobHasLock
    <3>2. \A q \in Runs, t \in Servers : q # r \/ t # s => job'[q][t] = job[q][t]
      BY <2>0, <2>2 DEF Take, JobsType
    <3> QED BY <2>0, <2>2, <3>1, <3>2 DEF Take, JobHasLock
  <2>3. ASSUME NEW r \in Runs, NEW s \in Servers, Advance(r, s) \/ Fail(r, s), ~Save(r, s)
        PROVE  JobHasLock'
    <3>1. UNCHANGED lock
      BY <2>3 DEF Advance, Fail, AskRelease, AskVersion, UpdateNow, AgentUpdate,
                  CameBack, GaveUp
    <3> QED BY <2>0, <2>3, <3>1, Alone DEF JobHasLock
  <2>4. ASSUME NEW r \in Runs, NEW s \in Servers, Save(r, s) PROVE JobHasLock'
    <3>1. /\ \A q \in Runs, t \in Servers : q # r \/ t # s => job'[q][t] = job[q][t]
          /\ lock[s] = r
      BY <2>0, <2>4, Alone DEF Advance, JobHasLock
    <3>2. job'[r][s].at = "none"
      BY <2>0, <2>4 DEF Save, Become, NoJob, JobsType
    <3>3. \A q \in Runs : job'[q][s].at = "none"
      BY <3>1, <3>2 DEF JobHasLock
    <3>4. \A t \in Servers : t # s => lock'[t] = lock[t]
      BY <2>0, <2>4 DEF Save
    <3> QED BY <3>1, <3>3, <3>4 DEF JobHasLock
  <2>5. ASSUME NEW s \in Servers, SyncBegin(s) \/ SyncEnd(s) PROVE JobHasLock'
    <3>1. \A q \in Runs : job[q][s].at = "none"
      BY <2>5 DEF SyncBegin, SyncEnd, JobHasLock
    <3>2. UNCHANGED job /\ \A t \in Servers : t # s => lock'[t] = lock[t]
      BY <2>0, <2>5 DEF SyncBegin, SyncEnd
    <3> QED BY <3>1, <3>2 DEF JobHasLock
  <2>6. CASE Restart
    BY <2>6 DEF Restart, JobHasLock, NoJob
  <2>7. CASE StartPeriodic \/ \E r \in Manual : StartManual(r)
    BY <2>1, <2>7 DEF StartPeriodic, StartManual, Start
  <2>8. ASSUME NEW r \in Runs, Finish(r) \/ \E s \in Servers : Busy(r, s) PROVE JobHasLock'
    BY <2>1, <2>8 DEF Finish, Busy
  <2>9. ASSUME NEW s \in Servers,
               \/ CheckAsk(s) \/ CheckSave(s) \/ BoxBack(s) \/ OnBoxUpdate(s)
               \/ BackoffExpires(s) \/ CooldownExpires(s)
        PROVE  JobHasLock'
    BY <2>1, <2>9 DEF CheckAsk, CheckSave, BoxBack, OnBoxUpdate, BackoffExpires, CooldownExpires
  <2>10. CASE NewRelease \/ UNCHANGED vars
    BY <2>1, <2>10 DEF NewRelease, vars
  <2> QED
    <3> HIDE DEF Runs
    <3> QED BY <2>2, <2>3, <2>4, <2>5, <2>6, <2>7, <2>8, <2>9, <2>10 DEF Next
<1> QED BY <1>1, <1>2, TypeInvHolds, PTL DEF Spec

-----------------------------------------------------------------------------

\* What a run was told still holds if its job and its box did not change and no
\* release was taken back.
LEMMA StillAsked ==
  ASSUME TypeOK, NEW r \in Runs, NEW s \in Servers, Asked(r, s),
         job'[r][s] = job[r][s], box'[s] = box[s], UNCHANGED method,
         release' = release \/ release' = release + 1
  PROVE  Asked(r, s)'
<1>1. release \in Nat /\ release' \in Nat /\ job[r][s].target \in Nat /\ release <= release'
  BY FleetBoundsAssumption DEF TypeOK, Releases, MaybeRelease
<1>2. Held(r, s)' <=> Held(r, s)
  BY DEF Held
<1>3. job[r][s].target <= release => job'[r][s].target <= release'
  BY <1>1
<1> QED BY <1>2, <1>3 DEF Asked, At

\* What a box answered holds until the run with its lock acts on it.
THEOREM AskedHolds == Spec => []AskedInv
<1> USE FleetAssumption
<1>1. Init => AskedInv
  BY DEF Init, AskedInv, Asked, Held, At, NoJob
<1>2. TypeInv /\ JobHasLock /\ AskedInv /\ [Next]_vars => AskedInv'
  <2> SUFFICES ASSUME TypeInv, JobHasLock, AskedInv, [Next]_vars,
                      NEW q \in Runs, NEW t \in Servers
               PROVE  Asked(q, t)'
    BY DEF AskedInv
  <2>0. /\ TypeOK /\ JobsType /\ Asked(q, t) /\ method \in [Servers -> Methods]
        /\ box \in [Servers -> [version : Releases, up : BOOLEAN]]
    BY DEF TypeInv, TypeOK, AskedInv
  <2>1. CASE /\ job'[q][t] = job[q][t] /\ box'[t] = box[t] /\ UNCHANGED method
             /\ release' = release \/ release' = release + 1
    BY <2>0, <2>1, StillAsked
  \* A job at another place is not bound by anything.
  <2>u. CASE job'[q][t].at \notin {"comparing", "updating"}
    BY <2>u DEF Asked, Held, At
  <2>2. ASSUME NEW r \in Runs, NEW s \in Servers, Take(r, s) PROVE Asked(q, t)'
    <3>1. CASE q = r /\ t = s
      BY <2>0, <2>2, <2>u, <3>1 DEF Take, JobsType, NoJob
    <3>2. CASE q # r \/ t # s
      BY <2>0, <2>1, <2>2, <3>2 DEF Take, JobsType
    <3> QED BY <3>1, <3>2
  <2>3. ASSUME NEW r \in Runs, NEW s \in Servers, Advance(r, s) \/ Fail(r, s)
        PROVE  Asked(q, t)'
    <3>0. job[r][s].at # "none" /\ (q # r \/ t # s => job'[q][t] = job[q][t])
      BY <2>0, <2>3, Alone
    <3>m. UNCHANGED <<method, release>>
      BY <2>3 DEF Advance, Fail, AskRelease, AskVersion, UpdateNow, AgentUpdate,
                  CameBack, GaveUp, Save
    <3>b. t # s => box'[t] = box[t]
      BY <2>0, <2>3 DEF Advance, Fail, AskRelease, AskVersion, UpdateNow, AgentUpdate,
                        GoesDown, CameBack, GaveUp, Save
    <3>1. CASE t # s
      BY <2>1, <3>0, <3>m, <3>b, <3>1
    \* The lock keeps another run's job out.
    <3>2. CASE t = s /\ q # r
      <4>1. job[q][t].at = "none"
        BY <3>0, <3>2 DEF JobHasLock
      <4> QED BY <2>u, <3>0, <3>2, <4>1
    <3>3. CASE t = s /\ q = r
      <4>b. \A record : Become(r, s, record) => job'[q][t] = record
        BY <2>0, <3>3 DEF Become, JobsType
      <4>s. \A state, target : Outcome(s, state, target).at = "saving"
        BY DEF Outcome, NoJob
      <4>f. Failing(r, s).at = "saving"
        BY <4>s DEF Failing
      <4>j. job[q][t] \in JobRecord
        BY <2>0 DEF JobsType
      <4>1. CASE AskRelease(r, s)
        <5>1. CASE ~box[s].up
          BY <2>u, <4>1, <4>b, <4>f, <5>1 DEF AskRelease
        <5>2. CASE box[s].up
          <6>1. job'[q][t] = [job[r][s] EXCEPT !.at = "comparing", !.target = Newer(s)]
            BY <4>1, <4>b, <5>2 DEF AskRelease
          <6>2. job'[q][t].at = "comparing" /\ job'[q][t].target = Newer(s)
            BY <3>3, <4>j, <6>1 DEF JobRecord
          <6>3. box'[s] = box[s] /\ release' = release
            BY <4>1 DEF AskRelease
          <6>4. Newer(s) # 0 => box[s].version < Newer(s)
            BY <2>0, NewerType
          <6>5. Newer(s) <= release
            BY <2>0, NewerType
          <6> QED BY <3>3, <5>2, <6>2, <6>3, <6>4, <6>5 DEF Asked, At, Held
        <5> QED BY <5>1, <5>2
      <4>2. CASE AskVersion(r, s)
        <5> DEFINE target == job[r][s].target
                   updating == [job[r][s] EXCEPT !.at = "updating", !.from = box[s].version]
                   recreating == [job[r][s] EXCEPT !.at = "recreating", !.from = box[s].version]
        <5>1. /\ updating.at = "updating" /\ updating.target = target
              /\ recreating.at = "recreating"
          BY <3>3, <4>j DEF JobRecord
        <5>2. \/ /\ job'[q][t] = updating /\ method[s] = "native" /\ target # 0
              \/ job'[q][t].at \in {"saving", "recreating"}
          <6>1. \/ Become(r, s, Failing(r, s)) \/ Become(r, s, Outcome(s, "idle", 0))
                \/ Become(r, s, Outcome(s, "delegated", target)) \/ Become(r, s, recreating)
                \/ Become(r, s, updating) /\ method[s] = "native" /\ target # 0
            <7> HIDE DEF updating, recreating
            <7> QED BY <2>0, <4>2, <3>3 DEF AskVersion, Methods, updating, recreating
          <6> HIDE DEF updating, recreating
          <6> QED BY <4>b, <4>f, <4>s, <5>1, <6>1
        <5>3. At(r, s, "comparing") /\ UNCHANGED box
          BY <4>2 DEF AskVersion
        <5>4. CASE job'[q][t] = updating /\ method[s] = "native" /\ target # 0
          <6>1. box[s].up /\ box[s].version < target /\ target <= release
            BY <2>0, <3>3, <5>3, <5>4 DEF Asked, Held, At
          <6> QED BY <3>3, <3>m, <5>1, <5>3, <5>4, <6>1 DEF Asked, At
        <5> QED BY <2>u, <5>2, <5>4
      <4>3. CASE UpdateNow(r, s) \/ AgentUpdate(r, s)
        <5>1. [job[r][s] EXCEPT !.at = "awaiting"].at = "awaiting"
          BY <3>3, <4>j DEF JobRecord
        <5> QED BY <2>u, <4>3, <4>b, <4>s, <5>1 DEF UpdateNow, AgentUpdate, Await
      <4>4. CASE CameBack(r, s) \/ GaveUp(r, s) \/ Save(r, s) \/ Fail(r, s)
        BY <2>u, <4>4, <4>b, <4>s, <4>f DEF CameBack, GaveUp, Save, Fail, NoJob
      <4> QED BY <2>3, <4>1, <4>2, <4>3, <4>4 DEF Advance
    <3> QED BY <3>1, <3>2, <3>3
  \* A box that comes back was down, and nobody had been answered by it; the
  \* on-box updater is of no native install.
  <2>4. ASSUME NEW s \in Servers, BoxBack(s) \/ OnBoxUpdate(s) PROVE Asked(q, t)'
    <3>1. CASE t # s
      BY <2>0, <2>1, <2>4, <3>1 DEF BoxBack, OnBoxUpdate, GoesDown
    <3>2. CASE t = s
      <4>1. UNCHANGED <<job, method>>
        BY <2>4 DEF BoxBack, OnBoxUpdate
      <4>2. ~Held(q, t)
        BY <2>0, <2>4, <3>2 DEF BoxBack, OnBoxUpdate, Asked, Held
      <4> QED BY <2>0, <4>1, <4>2 DEF Asked, Held, At
    <3> QED BY <3>1, <3>2
  <2>5. CASE Restart
    BY <2>u, <2>5 DEF Restart, NoJob
  <2>6. CASE StartPeriodic \/ \E r \in Manual : StartManual(r)
    BY <2>1, <2>6 DEF StartPeriodic, StartManual, Start
  <2>7. ASSUME NEW r \in Runs, Finish(r) \/ \E s \in Servers : Busy(r, s) PROVE Asked(q, t)'
    BY <2>1, <2>7 DEF Finish, Busy
  <2>8. ASSUME NEW s \in Servers,
               \/ SyncBegin(s) \/ SyncEnd(s) \/ CheckAsk(s) \/ CheckSave(s)
               \/ BackoffExpires(s) \/ CooldownExpires(s)
        PROVE  Asked(q, t)'
    BY <2>1, <2>8 DEF SyncBegin, SyncEnd, CheckAsk, CheckSave, BackoffExpires, CooldownExpires
  <2>9. CASE NewRelease \/ UNCHANGED vars
    BY <2>1, <2>9 DEF NewRelease, vars
  <2> QED BY <2>2, <2>3, <2>4, <2>5, <2>6, <2>7, <2>8, <2>9 DEF Next
<1> QED BY <1>1, <1>2, TypeInvHolds, LockHeld, PTL DEF Spec

\* A native install is restarted only for a release newer than its own.
THEOREM RestartNeeded == Spec => NoNeedlessRestart
<1> DEFINE Needed == \A r \in Runs, s \in Servers :
             At(r, s, "updating") /\ box[s].up /\ ~box'[s].up => release > box[s].version
<1>1. TypeOK /\ AskedInv => Needed
  <2> SUFFICES ASSUME TypeOK, AskedInv, NEW r \in Runs, NEW s \in Servers,
                      At(r, s, "updating")
               PROVE  release > box[s].version
    OBVIOUS
  <2>1. box[s].version < job[r][s].target /\ job[r][s].target <= release
    BY DEF AskedInv, Asked, Held, At
  <2>2. box[s].version \in Nat /\ job[r][s].target \in Nat /\ release \in Nat
    BY FleetBoundsAssumption DEF TypeOK, Releases, MaybeRelease
  <2> QED BY <2>1, <2>2
<1> QED BY <1>1, TypeCorrect, AskedHolds, PTL DEF NoNeedlessRestart

-----------------------------------------------------------------------------

\* No lock is left behind by a run, or no run and no reconcile pass would ever
\* work on that server again; and a run that is over has nothing in hand, or the
\* next one would start beside it.  (update_server's lock, run_updates' gather)
LockUsed(s) == lock[s] \in Runs => job[lock[s]][s].at # "none"
OverIsOver(r) ==
  ~run[r].on => run[r].waiting = {} /\ \A s \in Servers : job[r][s].at = "none"

NothingLeft == (\A s \in Servers : LockUsed(s)) /\ (\A r \in Runs : OverIsOver(r))

\* What a run makes of the version that a box runs.
Answered(r, s, record) ==
  \/ record = Failing(r, s)
  \/ record = Outcome(s, "idle", 0)
  \/ record = Outcome(s, "delegated", job[r][s].target)
  \/ record = [job[r][s] EXCEPT !.at = "recreating", !.from = box[s].version]
  \/ record = [job[r][s] EXCEPT !.at = "updating", !.from = box[s].version]

LEMMA VersionAsked ==
  ASSUME NEW r \in Runs, NEW s \in Servers, AskVersion(r, s)
  PROVE  \E record : Become(r, s, record) /\ Answered(r, s, record)
<1> DEFINE updating == [job[r][s] EXCEPT !.at = "updating", !.from = box[s].version]
           recreating == [job[r][s] EXCEPT !.at = "recreating", !.from = box[s].version]
<1>1. \/ Become(r, s, Failing(r, s)) \/ Become(r, s, Outcome(s, "idle", 0))
      \/ Become(r, s, Outcome(s, "delegated", job[r][s].target))
      \/ Become(r, s, recreating) \/ Become(r, s, updating)
  <2> HIDE DEF updating, recreating
  <2> QED BY DEF AskVersion, updating, recreating
<1>2. /\ Answered(r, s, Failing(r, s)) /\ Answered(r, s, Outcome(s, "idle", 0))
      /\ Answered(r, s, Outcome(s, "delegated", job[r][s].target))
      /\ Answered(r, s, recreating) /\ Answered(r, s, updating)
  BY DEF Answered
<1> HIDE DEF updating, recreating
<1> QED BY <1>1, <1>2

\* A job that is not saved is still there after its next step.
LEMMA StillThere ==
  ASSUME JobsType, NEW r \in Runs, NEW s \in Servers, Advance(r, s) \/ Fail(r, s), ~Save(r, s)
  PROVE  job'[r][s].at # "none" /\ UNCHANGED <<lock, run>>
<1>1. \A record : Become(r, s, record) => job'[r][s] = record
  BY DEF Become, JobsType
<1>2. \A state, target : Outcome(s, state, target).at = "saving"
  BY DEF Outcome, NoJob
<1>3. Failing(r, s).at = "saving"
  BY <1>2 DEF Failing
<1>4. \A place : [job[r][s] EXCEPT !.at = place].at = place
  BY DEF JobsType, JobRecord
<1>5. CASE AskRelease(r, s)
  <2>1. [job[r][s] EXCEPT !.at = "comparing", !.target = Newer(s)].at = "comparing"
    BY DEF JobsType, JobRecord
  <2> QED BY <1>1, <1>3, <1>5, <2>1 DEF AskRelease
<1>6. CASE AskVersion(r, s)
  <2>1. PICK record : Become(r, s, record) /\ Answered(r, s, record)
    BY <1>6, VersionAsked
  <2> DEFINE updating == [job[r][s] EXCEPT !.at = "updating", !.from = box[s].version]
             recreating == [job[r][s] EXCEPT !.at = "recreating", !.from = box[s].version]
  <2>2. updating.at = "updating" /\ recreating.at = "recreating"
    BY DEF JobsType, JobRecord
  <2>3. record.at # "none"
    <3>1. \/ record \in {Failing(r, s), Outcome(s, "idle", 0)}
          \/ record = Outcome(s, "delegated", job[r][s].target)
          \/ record \in {updating, recreating}
      BY <2>1 DEF Answered
    <3> HIDE DEF updating, recreating
    <3> QED BY <1>2, <1>3, <2>2, <3>1
  <2>4. UNCHANGED <<lock, run>>
    BY <1>6 DEF AskVersion
  <2> QED BY <1>1, <2>1, <2>3, <2>4
<1>7. CASE UpdateNow(r, s) \/ AgentUpdate(r, s)
  BY <1>1, <1>2, <1>4, <1>7 DEF UpdateNow, AgentUpdate, Await
<1>8. CASE CameBack(r, s)
  BY <1>1, <1>2, <1>8 DEF CameBack
<1>9. CASE GaveUp(r, s) \/ Fail(r, s)
  BY <1>1, <1>3, <1>9 DEF GaveUp, Fail
<1> QED BY <1>5, <1>6, <1>7, <1>8, <1>9 DEF Advance

\* Every lock has its run, and every job its run, from the first step to the save.
THEOREM LocksReleased == Spec => []NothingLeft
<1>1. Init => NothingLeft
  BY RunsAssumption DEF Init, NothingLeft, LockUsed, OverIsOver, Resting, NoJob
<1>2. TypeInv /\ NothingLeft /\ [Next]_vars => NothingLeft'
  <2> SUFFICES ASSUME TypeInv, NothingLeft, [Next]_vars PROVE NothingLeft'
    OBVIOUS
  <2>0. /\ JobsType /\ lock \in [Servers -> Runs \cup {"sync", None}]
        /\ run \in [Runs -> [on : BOOLEAN, waiting : SUBSET Servers]]
        /\ None \notin Runs /\ "sync" \notin Runs
    BY RunsAssumption DEF TypeInv, TypeOK, Runs
  <2> HIDE DEF Runs
  <2>1. CASE UNCHANGED <<lock, run, job>>
    BY <2>1 DEF NothingLeft, LockUsed, OverIsOver
  <2>2. ASSUME NEW r \in Runs, NEW s \in Servers, Take(r, s) PROVE NothingLeft'
    <3>1. /\ \A q \in Runs, t \in Servers : q # r \/ t # s => job'[q][t] = job[q][t]
          /\ job'[r][s].at = "asking"
      BY <2>0, <2>2 DEF Take, JobsType, NoJob
    <3>2. lock'[s] = r /\ \A t \in Servers : t # s => lock'[t] = lock[t]
      BY <2>0, <2>2 DEF Take
    <3>3. /\ \A q \in Runs : q # r => run'[q] = run[q]
          /\ run[r].on /\ run'[r].on
      BY <2>0, <2>2 DEF Take, NothingLeft, OverIsOver
    <3>4. \A t \in Servers : LockUsed(t)'
      BY <3>1, <3>2 DEF NothingLeft, LockUsed
    <3>5. \A q \in Runs : OverIsOver(q)'
      BY <3>1, <3>3 DEF NothingLeft, OverIsOver
    <3> QED BY <3>4, <3>5 DEF NothingLeft
  <2>3. ASSUME NEW r \in Runs, NEW s \in Servers, Advance(r, s) \/ Fail(r, s), ~Save(r, s)
        PROVE  NothingLeft'
    <3>1. /\ \A q \in Runs, t \in Servers : q # r \/ t # s => job'[q][t] = job[q][t]
          /\ job[r][s].at # "none" /\ job'[r][s].at # "none" /\ UNCHANGED <<lock, run>>
      BY <2>0, <2>3, Alone, StillThere
    <3>2. \A t \in Servers : LockUsed(t)'
      BY <3>1 DEF NothingLeft, LockUsed
    <3>3. \A q \in Runs : OverIsOver(q)'
      BY <3>1 DEF NothingLeft, OverIsOver
    <3> QED BY <3>2, <3>3 DEF NothingLeft
  <2>4. ASSUME NEW r \in Runs, NEW s \in Servers, Save(r, s) PROVE NothingLeft'
    <3>1. /\ \A q \in Runs, t \in Servers : q # r \/ t # s => job'[q][t] = job[q][t]
          /\ job'[r][s].at = "none"
      BY <2>0, <2>4 DEF Save, Become, NoJob, JobsType
    <3>2. UNCHANGED run /\ lock'[s] = None /\ \A t \in Servers : t # s => lock'[t] = lock[t]
      BY <2>0, <2>4 DEF Save
    <3>3. \A t \in Servers : LockUsed(t)'
      BY <2>0, <3>1, <3>2 DEF NothingLeft, LockUsed
    <3>4. \A q \in Runs : OverIsOver(q)'
      BY <3>1, <3>2 DEF NothingLeft, OverIsOver
    <3> QED BY <3>3, <3>4 DEF NothingLeft
  <2>5. ASSUME NEW s \in Servers, SyncBegin(s) \/ SyncEnd(s) PROVE NothingLeft'
    <3>1. /\ UNCHANGED <<run, job>> /\ lock'[s] \notin Runs
          /\ \A t \in Servers : t # s => lock'[t] = lock[t]
      BY <2>0, <2>5 DEF SyncBegin, SyncEnd
    <3> QED BY <3>1 DEF NothingLeft, LockUsed, OverIsOver
  <2>6. CASE Restart
    BY <2>0, <2>6 DEF Restart, NothingLeft, LockUsed, OverIsOver, Resting, NoJob
  <2>7. ASSUME NEW r \in Runs, NEW forced, NEW scope, Start(r, forced, scope) PROVE NothingLeft'
    <3>1. /\ UNCHANGED <<lock, job>> /\ run'[r].on
          /\ \A q \in Runs : q # r => run'[q] = run[q]
      BY <2>0, <2>7 DEF Start
    <3> QED BY <3>1 DEF NothingLeft, LockUsed, OverIsOver
  <2>8. CASE StartPeriodic \/ \E r \in Manual : StartManual(r)
    BY <2>7, <2>8 DEF StartPeriodic, StartManual, Runs
  <2>9. ASSUME NEW r \in Runs, Finish(r) PROVE NothingLeft'
    <3>1. /\ UNCHANGED <<lock, job>> /\ run'[r].waiting = {}
          /\ \A q \in Runs : q # r => run'[q] = run[q]
          /\ \A s \in Servers : job[r][s].at = "none"
      BY <2>0, <2>9 DEF Finish, Resting, Active
    <3> QED BY <3>1 DEF NothingLeft, LockUsed, OverIsOver
  <2>10. ASSUME NEW r \in Runs, NEW s \in Servers, Busy(r, s) PROVE NothingLeft'
    <3>1. /\ UNCHANGED <<lock, job>> /\ \A q \in Runs : q # r => run'[q] = run[q]
          /\ run'[r].on = run[r].on /\ run'[r].waiting \subseteq run[r].waiting
      BY <2>0, <2>10 DEF Busy
    <3> QED BY <3>1 DEF NothingLeft, LockUsed, OverIsOver
  <2>11. ASSUME NEW s \in Servers,
                \/ CheckAsk(s) \/ CheckSave(s) \/ BoxBack(s) \/ OnBoxUpdate(s)
                \/ BackoffExpires(s) \/ CooldownExpires(s)
         PROVE  NothingLeft'
    BY <2>1, <2>11 DEF CheckAsk, CheckSave, BoxBack, OnBoxUpdate, BackoffExpires,
                       CooldownExpires
  <2>12. CASE NewRelease \/ UNCHANGED vars
    BY <2>1, <2>12 DEF NewRelease, vars
  <2> QED BY <2>2, <2>3, <2>4, <2>5, <2>6, <2>8, <2>9, <2>10, <2>11, <2>12 DEF Next
<1> QED BY <1>1, <1>2, TypeInvHolds, PTL DEF Spec

-----------------------------------------------------------------------------
\* The answers on their way are no further than the rows may be, and no box has
\* what is not out.
AnswerBehind(s) ==
  /\ box[s].version <= release
  /\ checking[s] # None => checking[s] <= release
JobBehind(r, s) == job[r][s].state = "succeeded" => job[r][s].to <= box[s].version

ViewInv ==
  /\ RowsBehind
  /\ \A s \in Servers : AnswerBehind(s) /\ \A r \in Runs : JobBehind(r, s)

\* What is compared is a number.
LEMMA Numbers ==
  ASSUME TypeInv, NEW s \in Servers
  PROVE  /\ release \in Nat /\ box[s].version \in Nat /\ row[s].version \in Nat
         /\ row[s].latest \in Nat /\ (checking[s] # None => checking[s] \in Nat)
         /\ \A r \in Runs : job[r][s].to \in Nat
BY FleetBoundsAssumption DEF TypeInv, TypeOK, JobsType, JobRecord, Releases, MaybeRelease

\* What a box answers to a version check is out.
LEMMA NewerIsOut == \A s \in Servers : release \in Nat => Newer(s) \in Nat /\ Newer(s) <= release
BY DEF Newer

\* No box goes back to an older version, and no release is taken back.
LEMMA VersionsGrow ==
  ASSUME TypeInv, NEW s \in Servers, box[s].version <= release, [Next]_vars
  PROVE  /\ box[s].version <= box'[s].version /\ box'[s].version <= release'
         /\ release <= release'
<1>1. /\ release \in Nat /\ box[s].version \in Nat
      /\ box \in [Servers -> [version : Releases, up : BOOLEAN]]
  BY Numbers DEF TypeInv, TypeOK
<1>2. CASE UNCHANGED <<box, release>>
  BY <1>1, <1>2
<1>3. CASE UNCHANGED release /\ \E t \in Servers : GoesDown(t)
  <2>1. box'[s].version = box[s].version
    BY <1>1, <1>3 DEF GoesDown
  <2> QED BY <1>1, <1>3, <2>1
<1>4. ASSUME NEW t \in Servers, BoxBack(t) PROVE box'[s].version \in {box[s].version, release}
                                                /\ UNCHANGED release
  BY <1>1, <1>4 DEF BoxBack
<1>5. CASE NewRelease
  BY <1>1, <1>5 DEF NewRelease
<1>6. ASSUME NEW r \in Runs, NEW t \in Servers, Advance(r, t) \/ Fail(r, t)
      PROVE  UNCHANGED release /\ (UNCHANGED box \/ GoesDown(t))
  <2>1. CASE UpdateNow(r, t) \/ AgentUpdate(r, t)
    BY <2>1 DEF UpdateNow, AgentUpdate
  <2>2. CASE AskRelease(r, t) \/ CameBack(r, t) \/ GaveUp(r, t) \/ Save(r, t) \/ Fail(r, t)
    BY <2>2 DEF AskRelease, CameBack, GaveUp, Save, Fail
  <2>3. CASE AskVersion(r, t)
    BY <2>3 DEF AskVersion
  <2> QED BY <1>6, <2>1, <2>2, <2>3 DEF Advance
<1>7. ASSUME NEW t \in Servers,
             SyncBegin(t) \/ SyncEnd(t) \/ CheckAsk(t) \/ CheckSave(t) \/ BackoffExpires(t)
             \/ CooldownExpires(t)
      PROVE  UNCHANGED <<box, release>>
  BY <1>7 DEF SyncBegin, SyncEnd, CheckAsk, CheckSave, BackoffExpires, CooldownExpires
<1>8. ASSUME NEW r \in Runs, NEW t \in Servers, Finish(r) \/ Take(r, t) \/ Busy(r, t)
      PROVE  UNCHANGED <<box, release>>
  BY <1>8 DEF Finish, Take, Busy
<1>9. StartPeriodic \/ (\E r \in Manual : StartManual(r)) \/ Restart => UNCHANGED <<box, release>>
  BY DEF StartPeriodic, StartManual, Start, Restart
<1>10. \A t \in Servers : OnBoxUpdate(t) => GoesDown(t) /\ UNCHANGED release
  BY DEF OnBoxUpdate
<1>11. \A r \in Runs : Finish(r) => UNCHANGED <<box, release>>
  BY DEF Finish
<1>12. UNCHANGED vars => UNCHANGED <<box, release>>
  BY DEF vars
<1>13. ASSUME NEW t \in Servers, BoxBack(t) PROVE
          /\ box[s].version <= box'[s].version /\ box'[s].version <= release'
          /\ release <= release'
  BY <1>1, <1>4, <1>13
<1> QED BY <1>2, <1>3, <1>5, <1>6, <1>7, <1>8, <1>9, <1>10, <1>11, <1>12, <1>13 DEF Next

\* The rows are written from what is behind.
Written(s) ==
  /\ row'[s].version = row[s].version \/ row'[s].version <= box[s].version
  /\ row'[s].latest = row[s].latest \/ row'[s].latest <= release
  /\ checking'[s] = checking[s] \/ checking'[s] = None \/ checking'[s] <= release

LEMMA RowsWritten ==
  ASSUME TypeInv, ViewInv, NEW s \in Servers, [Next]_vars
  PROVE  Written(s)
<1>1. /\ row \in [Servers -> RowRecord] /\ checking \in [Servers -> MaybeRelease \cup {None}]
      /\ row[s] \in RowRecord
  BY DEF TypeInv, TypeOK, RowRecord
<1>n. /\ box[s].version <= box[s].version /\ Newer(s) <= release /\ 0 <= release
  BY Numbers, NewerIsOut
<1>r. \A t \in Servers, new \in RowRecord : row' = [row EXCEPT ![t] = new] =>
        IF t = s THEN row'[s] = new ELSE row'[s] = row[s]
  BY <1>1
<1>2. CASE UNCHANGED <<row, checking>>
  BY <1>2 DEF Written
<1>3. ASSUME NEW r \in Runs, NEW t \in Servers, Save(r, t) PROVE Written(s)
  <2> DEFINE done == job[r][t]
             failed == done.state = "failed"
             latest == IF done.state = "succeeded" THEN 0 ELSE row[t].latest
             version == Version(done, row[t].version)
  <2>1. row' = [row EXCEPT ![t].state = done.state, ![t].attempted = done.target,
                           ![t].backoff = failed, ![t].version = version,
                           ![t].latest = latest]
        /\ UNCHANGED checking
    BY <1>3 DEF Save
  <2>2. /\ version = row[t].version \/ version <= box[t].version
        /\ latest = row[t].latest \/ latest = 0
    BY DEF Version, ViewInv, JobBehind
  <2> HIDE DEF done, failed, latest, version
  <2>3. t = s => row'[s].version = version /\ row'[s].latest = latest
    BY <1>1, <2>1 DEF RowRecord
  <2>4. t # s => row'[s] = row[s]
    BY <1>1, <2>1
  <2> QED BY <1>n, <2>1, <2>2, <2>3, <2>4 DEF Written
<1>4. ASSUME NEW t \in Servers, SyncEnd(t) PROVE Written(s)
  <2> DEFINE version == box[t].version
             newer == Newer(t)
  <2>1. UNCHANGED checking
    BY <1>4 DEF SyncEnd
  <2>2. CASE UNCHANGED row
    BY <2>1, <2>2 DEF Written
  <2>3. CASE row' = [row EXCEPT ![t].cooling = TRUE]
    <3>1. row'[s].version = row[s].version /\ row'[s].latest = row[s].latest
      BY <1>1, <2>3 DEF RowRecord
    <3> QED BY <2>1, <3>1 DEF Written
  <2>4. CASE row' = [row EXCEPT ![t].version = version, ![t].latest = newer,
                                ![t].cooling = FALSE]
    <3> HIDE DEF version, newer
    <3>1. t = s => row'[s].version = version /\ row'[s].latest = newer
      BY <1>1, <2>4 DEF RowRecord
    <3>2. t # s => row'[s] = row[s]
      BY <1>1, <2>4
    <3> QED BY <1>n, <2>1, <3>1, <3>2 DEF Written, version, newer
  <2> QED BY <1>4, <2>2, <2>3, <2>4 DEF SyncEnd
<1>5. ASSUME NEW t \in Servers, CheckSave(t) PROVE Written(s)
  <2>1. /\ checking[t] # None /\ row' = [row EXCEPT ![t].latest = checking[t]]
        /\ checking' = [checking EXCEPT ![t] = None]
    BY <1>5 DEF CheckSave
  <2>2. checking[t] <= release
    BY <2>1 DEF ViewInv, AnswerBehind
  <2>3. t = s => row'[s].latest = checking[t] /\ row'[s].version = row[s].version
    BY <1>1, <2>1 DEF RowRecord
  <2>4. t # s => row'[s] = row[s]
    BY <1>1, <2>1
  <2>5. checking'[s] = checking[s] \/ checking'[s] = None
    BY <1>1, <2>1
  <2> QED BY <2>2, <2>3, <2>4, <2>5 DEF Written
<1>6. ASSUME NEW t \in Servers, CheckAsk(t) PROVE Written(s)
  <2>1. checking'[s] = checking[s] \/ checking'[s] = Newer(s) \/ checking'[s] = 0
    BY <1>1, <1>6 DEF CheckAsk
  <2>2. UNCHANGED row
    BY <1>6 DEF CheckAsk
  <2> QED BY <1>n, <2>1, <2>2 DEF Written
<1>7. ASSUME NEW t \in Servers, BackoffExpires(t) \/ CooldownExpires(t) PROVE Written(s)
  <2>1. UNCHANGED checking
    BY <1>7 DEF BackoffExpires, CooldownExpires
  <2>2. row'[s].version = row[s].version /\ row'[s].latest = row[s].latest
    <3>1. CASE BackoffExpires(t)
      BY <1>1, <3>1 DEF BackoffExpires, RowRecord
    <3>2. CASE CooldownExpires(t)
      BY <1>1, <3>2 DEF CooldownExpires, RowRecord
    <3> QED BY <1>7, <3>1, <3>2
  <2> QED BY <2>1, <2>2 DEF Written
<1>8. CASE Restart
  <2>1. UNCHANGED row /\ checking'[s] = None
    BY <1>8 DEF Restart
  <2> QED BY <2>1 DEF Written
<1>9. ASSUME NEW r \in Runs, NEW t \in Servers, Advance(r, t) \/ Fail(r, t), ~Save(r, t)
      PROVE  Written(s)
  <2>1. UNCHANGED <<row, checking>>
    BY <1>9 DEF Advance, Fail, AskRelease, AskVersion, UpdateNow, AgentUpdate, CameBack, GaveUp
  <2> QED BY <1>2, <2>1
<1>10. ASSUME NEW t \in Servers, SyncBegin(t) \/ BoxBack(t) \/ OnBoxUpdate(t)
       PROVE  Written(s)
  BY <1>2, <1>10 DEF SyncBegin, BoxBack, OnBoxUpdate
<1>11. ASSUME NEW r \in Runs, NEW t \in Servers, Take(r, t) \/ Busy(r, t)
       PROVE  Written(s)
  BY <1>2, <1>11 DEF Take, Busy
<1>12. ASSUME NEW r \in Runs, Finish(r) PROVE Written(s)
  BY <1>2, <1>12 DEF Finish
<1>13. CASE StartPeriodic \/ (\E r \in Manual : StartManual(r)) \/ NewRelease \/ UNCHANGED vars
  BY <1>2, <1>13 DEF StartPeriodic, StartManual, Start, NewRelease, vars
<1> QED BY <1>3, <1>4, <1>5, <1>6, <1>7, <1>8, <1>9, <1>10, <1>11, <1>12, <1>13 DEF Next

\* An upgrade that succeeded came back on a version that the box still has, or is past.
LEMMA SucceededBehind ==
  ASSUME TypeInv, ViewInv, NEW r \in Runs, NEW s \in Servers, [Next]_vars,
         job'[r][s].state = "succeeded"
  PROVE  job'[r][s].to <= box[s].version
<1>1. /\ JobsType /\ job[r][s] \in JobRecord /\ box[s].version <= box[s].version
      /\ (job[r][s].state = "succeeded" => job[r][s].to <= box[s].version)
  BY Numbers DEF TypeInv, JobsType, ViewInv, JobBehind
<1>o. \A state, target : /\ Outcome(s, state, target).state = state
                         /\ state = "succeeded" => Outcome(s, state, target).to = box[s].version
  BY DEF Outcome, NoJob
<1>f. Failing(r, s).state = "failed"
  BY <1>o DEF Failing
<1>2. CASE job'[r][s] = job[r][s]
  BY <1>1, <1>2
<1>3. CASE job'[r][s].state = job[r][s].state /\ job'[r][s].to = job[r][s].to
  BY <1>1, <1>3
<1>4. CASE job'[r][s].state # "succeeded"
  BY <1>4
<1>5. ASSUME NEW q \in Runs, NEW t \in Servers, Advance(q, t) \/ Fail(q, t)
      PROVE  job'[r][s].to <= box[s].version
  <2>1. CASE q # r \/ t # s
    BY <1>1, <1>2, <1>5, <2>1, Alone
  <2>2. CASE q = r /\ t = s
    <3>1. \A record : Become(r, s, record) => job'[r][s] = record
      BY <1>1 DEF Become, JobsType
    <3>2. CASE AskRelease(r, s)
      <4> DEFINE comparing == [job[r][s] EXCEPT !.at = "comparing", !.target = Newer(s)]
      <4>1. comparing.state = job[r][s].state /\ comparing.to = job[r][s].to
        BY <1>1 DEF JobRecord
      <4>2. job'[r][s] = comparing \/ job'[r][s] = Failing(r, s)
        BY <3>1, <3>2 DEF AskRelease
      <4> HIDE DEF comparing
      <4> QED BY <1>3, <1>4, <1>f, <4>1, <4>2
    <3>3. CASE AskVersion(r, s)
      <4> DEFINE updating == [job[r][s] EXCEPT !.at = "updating", !.from = box[s].version]
                 recreating == [job[r][s] EXCEPT !.at = "recreating", !.from = box[s].version]
      <4>1. /\ updating.state = job[r][s].state /\ updating.to = job[r][s].to
            /\ recreating.state = job[r][s].state /\ recreating.to = job[r][s].to
        BY <1>1 DEF JobRecord
      <4>2. \/ job'[r][s] = Failing(r, s) \/ job'[r][s] = Outcome(s, "idle", 0)
            \/ job'[r][s] = Outcome(s, "delegated", job[r][s].target)
            \/ job'[r][s] = updating \/ job'[r][s] = recreating
        <5>1. PICK record : Become(r, s, record) /\ Answered(r, s, record)
          BY <3>3, VersionAsked
        <5>2. job'[r][s] = record
          BY <3>1, <5>1
        <5> QED BY <5>1, <5>2 DEF Answered
      <4> HIDE DEF updating, recreating
      <4> QED BY <1>3, <1>4, <1>f, <1>o, <4>1, <4>2
    <3>4. CASE UpdateNow(r, s) \/ AgentUpdate(r, s)
      <4> DEFINE awaiting == [job[r][s] EXCEPT !.at = "awaiting"]
      <4>1. awaiting.state = job[r][s].state /\ awaiting.to = job[r][s].to
        BY <1>1 DEF JobRecord
      <4>2. job'[r][s] = awaiting \/ job'[r][s] = Outcome(s, "idle", 0)
        BY <3>1, <3>4 DEF UpdateNow, AgentUpdate, Await
      <4> HIDE DEF awaiting
      <4> QED BY <1>3, <1>4, <1>o, <4>1, <4>2
    <3>5. CASE CameBack(r, s)
      <4>1. \E target : job'[r][s] = Outcome(s, "succeeded", target)
        BY <3>1, <3>5 DEF CameBack
      <4>2. job'[r][s].to = box[s].version
        BY <1>o, <4>1
      <4> QED BY <1>1, <4>2
    <3>6. CASE GaveUp(r, s) \/ Fail(r, s)
      BY <1>4, <1>f, <3>1, <3>6 DEF GaveUp, Fail
    <3>7. CASE Save(r, s)
      BY <1>4, <3>1, <3>7 DEF Save, NoJob
    <3> QED BY <1>5, <2>2, <3>2, <3>3, <3>4, <3>5, <3>6, <3>7 DEF Advance
  <2> QED BY <2>1, <2>2
<1>6. ASSUME NEW q \in Runs, NEW t \in Servers, Take(q, t) PROVE job'[r][s].to <= box[s].version
  <2>1. CASE q = r /\ t = s
    <3>1. job'[r][s].state = "idle"
      BY <1>1, <1>6, <2>1 DEF Take, JobsType, NoJob
    <3> QED BY <1>4, <3>1
  <2>2. CASE q # r \/ t # s
    BY <1>1, <1>2, <1>6, <2>2 DEF Take, JobsType
  <2> QED BY <2>1, <2>2
<1>7. CASE Restart
  BY <1>4, <1>7 DEF Restart, NoJob
<1>8. CASE UNCHANGED job
  BY <1>2, <1>8
<1>9. ASSUME NEW t \in Servers,
             \/ SyncBegin(t) \/ SyncEnd(t) \/ CheckAsk(t) \/ CheckSave(t) \/ BoxBack(t)
             \/ OnBoxUpdate(t) \/ BackoffExpires(t) \/ CooldownExpires(t)
      PROVE  UNCHANGED job
  BY <1>9 DEF SyncBegin, SyncEnd, CheckAsk, CheckSave, BoxBack, OnBoxUpdate, BackoffExpires,
              CooldownExpires
<1>10. ASSUME NEW q \in Runs, Finish(q) \/ \E t \in Servers : Busy(q, t) PROVE UNCHANGED job
  BY <1>10 DEF Finish, Busy
<1>11. CASE StartPeriodic \/ (\E q \in Manual : StartManual(q)) \/ NewRelease \/ UNCHANGED vars
  BY <1>8, <1>11 DEF StartPeriodic, StartManual, Start, NewRelease, vars
<1> QED BY <1>5, <1>6, <1>7, <1>8, <1>9, <1>10, <1>11 DEF Next

\* The fleet view shows no version that a box has not reached.
THEOREM ViewBehind == Spec => []RowsBehind
<1>1. TypeInv /\ Init => ViewInv
  <2> SUFFICES ASSUME TypeInv, Init, NEW s \in Servers
               PROVE  Behind(s) /\ AnswerBehind(s) /\ \A r \in Runs : JobBehind(r, s)
    BY DEF ViewInv, RowsBehind
  <2> QED BY DEF Init, Behind, AnswerBehind, JobBehind, NoJob
<1>2. TypeInv /\ TypeInv' /\ ViewInv /\ [Next]_vars => ViewInv'
  <2> SUFFICES ASSUME TypeInv, TypeInv', ViewInv, [Next]_vars, NEW s \in Servers
               PROVE  Behind(s)' /\ AnswerBehind(s)' /\ \A r \in Runs : JobBehind(r, s)'
    BY DEF ViewInv, RowsBehind
  <2>1. Behind(s) /\ AnswerBehind(s)
    BY DEF ViewInv, RowsBehind
  <2>2. /\ box[s].version <= box'[s].version /\ box'[s].version <= release'
        /\ release <= release'
    BY <2>1, VersionsGrow DEF AnswerBehind
  <2>3. /\ release \in Nat /\ box[s].version \in Nat /\ row[s].version \in Nat
        /\ row[s].latest \in Nat /\ (checking[s] # None => checking[s] \in Nat)
    BY Numbers
  <2>4. /\ release' \in Nat /\ box'[s].version \in Nat /\ row'[s].version \in Nat
        /\ row'[s].latest \in Nat /\ (checking'[s] # None => checking'[s] \in Nat)
        /\ \A r \in Runs : job'[r][s].to \in Nat
    BY FleetBoundsAssumption
       DEF TypeInv, TypeOK, JobsType, JobRecord, Releases, MaybeRelease
  <2>5. Written(s)
    BY RowsWritten
  <2>6. Behind(s)'
    BY <2>1, <2>2, <2>3, <2>4, <2>5 DEF Behind, Written
  <2>7. AnswerBehind(s)'
    BY <2>1, <2>2, <2>3, <2>4, <2>5 DEF AnswerBehind, Written
  <2>8. ASSUME NEW r \in Runs, job'[r][s].state = "succeeded"
        PROVE  job'[r][s].to <= box'[s].version
    BY <2>2, <2>3, <2>4, <2>8, SucceededBehind
  <2> QED BY <2>6, <2>7, <2>8 DEF JobBehind
<1>3. ViewInv => RowsBehind
  BY DEF ViewInv
<1> QED BY <1>1, <1>2, <1>3, TypeInvHolds, PTL DEF Spec

=============================================================================
