-------------------------- MODULE ServerSyncProofs --------------------------
(***************************************************************************)
(* Proofs about ServerSync, for every set of rewrites, lists, filters and  *)
(* services, any number of passes and any bounds.                          *)
(*                                                                         *)
(* OnePassPerServer is inductive given TypeOK, and so is LockUsed, which   *)
(* says that the lock never outlives its pass.  InSyncTruthful is not: the *)
(* row is written long after the box was read, and an earlier row stands   *)
(* while a later pass changes the box.  SyncInv follows a pass from its    *)
(* snapshot on: what it plans is what is wanted (Planned), a pass that has *)
(* found no difference has nothing left to do (Quiet) and has found every  *)
(* part it read as it is wanted (Found), so that its outcome is true       *)
(* (Outcome); and a pass over a server whose row truly says "in sync" finds *)
(* no difference and changes nothing but services (Still).                 *)
(*                                                                         *)
(* OnlyWhatWasAsked is about the call of a pass, decided some calls before. *)
(* AllowedInv says that what is left for a pass to do was decided under    *)
(* flags that allow it, and that the services it has seen are those the    *)
(* box still has; together with Planned that is what is wanted now.        *)
(***************************************************************************)
EXTENDS ServerSync, TLAPS

InPass(p) == pass[p].at \in Working

Planned == \A p \in Passes : InPass(p) /\ p \notin touched => pass[p].plan = wanted

Fresh == \A p \in Passes : InPass(p) /\ Row \notin touched => p \notin touched

NothingLeft(p) ==
  /\ pass[p].at = "rewriting" => MissingRewrites(p) = {} /\ ForeignRewrites(p) = {}
  /\ pass[p].at = "setting" => ListsToSet(pass[p].plan, pass[p].seen) = {}
  /\ pass[p].at = "filtering" => /\ pass[p].todo = {}
                                 /\ ~EngineToFix(pass[p].plan, pass[p].seen)
  /\ pass[p].at # "blocking"

Quiet == \A p \in Passes : InPass(p) /\ ~pass[p].changed => NothingLeft(p)

FoundRight(p) ==
  /\ pass[p].at # "listing" => RewritesMatch
  /\ pass[p].at \in {"setting", "set", "filtering"} => ListsMatch
  /\ pass[p].at = "filtering" => FiltersMatch

Found == \A p \in Passes :
           InPass(p) /\ ~pass[p].changed /\ p \notin touched => FoundRight(p)

Outcome == \A p \in Passes :
             At(p, "saving") /\ InSync(p) /\ p \notin touched => Matches

Still == row.inSync /\ Row \notin touched =>
           \A p \in Passes :
             pass[p].at \in {"rewriting", "setting", "set", "filtering"} => ~pass[p].changed

SyncInv == Planned /\ Fresh /\ Quiet /\ Found /\ Outcome /\ Still /\ InSyncTruthful

-----------------------------------------------------------------------------

BoundsType == requests \in 0 .. MaxManual /\ edits \in 0 .. MaxEdits /\ faults \in 0 .. MaxFaults

\* A counter stays under its bound.
LEMMA Counters ==
  ASSUME BoundsType,
         Fault \/ Edits \/ UNCHANGED bounds
            \/ (requests < MaxManual /\ requests' = requests + 1 /\ UNCHANGED <<edits, faults>>)
  PROVE  BoundsType'
BY SyncBoundsAssumption DEF BoundsType, Fault, Edits, bounds

\* What a new server, an idle pass and an outcome look like is well typed.
LEMMA RecordTypes ==
  /\ Nothing \in Settings
  /\ Unseen \in Box
  /\ Idle \in PassRecord
  /\ \A result \in Failures \cup {"online"}, changed \in BOOLEAN :
       Updates(result, changed) \in PassRecord
<1>1. Nothing \in Settings
  BY FiltersAssumption DEF Nothing, Settings
<1>2. Unseen \in Box
  BY DEF Unseen, Box, Presence, Engine
<1>3. Idle \in PassRecord
  BY <1>1, <1>2 DEF Idle, PassRecord, Places, Working
<1>4. ASSUME NEW result \in Failures \cup {"online"}, NEW changed \in BOOLEAN
      PROVE  Updates(result, changed) \in PassRecord
  BY <1>3, <1>4 DEF Updates, PassRecord, Places
<1> QED BY <1>1, <1>2, <1>3, <1>4

PassesType == pass \in [Passes -> PassRecord]

\* A step that gives a pass a well-typed record, or ends it, keeps the types of
\* all passes.
LEMMA BecomeType ==
  ASSUME PassesType, NEW p \in Passes, NEW record \in PassRecord, Become(p, record)
  PROVE  PassesType'
BY DEF PassesType, Become

\* So does a call that took effect, whether its answer arrives or is lost.
LEMMA AnsweredType ==
  ASSUME PassesType, BoundsType, NEW p \in Passes, NEW record \in PassRecord,
         Answered(p, record)
  PROVE  PassesType' /\ BoundsType'
<1>1. CASE Become(p, record) /\ UNCHANGED bounds
  BY <1>1, BecomeType, Counters
<1>2. ASSUME Fault, NEW k \in Failures, Become(p, Failed(k))
      PROVE  PassesType' /\ BoundsType'
  <2>1. Failed(k) \in PassRecord
    BY RecordTypes DEF Failed
  <2> QED BY <2>1, <1>2, BecomeType, Counters
<1> QED BY <1>1, <1>2 DEF Answered

\* What is written on the row but by a pass: the operator, time and hosts passes.
RowSteps ==
  \/ EditCredentials \/ EditEnabled \/ CooldownExpires
  \/ RoleReady \/ RoleNotReady \/ HostUnreachable \/ Reinstall

\* None of it says "in sync", and none of it is about the settings or the box.
LEMMA RowWritten ==
  ASSUME row \in RowRecord, BoundsType, RowSteps
  PROVE  /\ UNCHANGED <<wanted, box, lock, pass, touched>> /\ BoundsType'
         /\ row' \in RowRecord /\ (row'.inSync => row.inSync)
<1>1. UNCHANGED <<wanted, box, lock, pass, touched>>
  BY DEF RowSteps, EditCredentials, EditEnabled, CooldownExpires, RoleReady, RoleNotReady,
         HostUnreachable, Reinstall
<1>2. Fault \/ Edits \/ UNCHANGED bounds
  BY DEF RowSteps, EditCredentials, EditEnabled, CooldownExpires, RoleReady, RoleNotReady,
         HostUnreachable, Reinstall
<1>3. CASE EditCredentials \/ EditEnabled \/ CooldownExpires
  <2>1. (~row.enabled) \in BOOLEAN
    BY Zenon DEF RowRecord
  <2>2. PICK v \in BOOLEAN : row' \in {[row EXCEPT !.enabled = v], [row EXCEPT !.cooling = v]}
    BY <1>3, <2>1 DEF EditCredentials, EditEnabled, CooldownExpires
  <2>3. row' \in RowRecord /\ (row'.inSync => row.inSync)
    BY <2>2 DEF RowRecord
  <2> QED BY <1>1, <1>2, <2>3, Counters
<1>4. CASE RoleReady \/ RoleNotReady \/ HostUnreachable \/ Reinstall
  <2>1. row' \in RowRecord /\ (row'.inSync => row.inSync)
    BY <1>4 DEF RoleReady, RoleNotReady, HostUnreachable, Reinstall, NotReady, RowRecord, Roles
  <2> QED BY <1>1, <1>2, <2>1, Counters
<1> QED BY <1>3, <1>4 DEF RowSteps

-----------------------------------------------------------------------------

\* The row, the locks, the box and the passes of sync.py keep their types
\* through every call, edit, fault and restart.
THEOREM TypeCorrect == Spec => []TypeOK
<1> USE PassesAssumption, FiltersAssumption, SyncBoundsAssumption
<1>1. Init => TypeOK
  <2> SUFFICES ASSUME Init PROVE TypeOK
    OBVIOUS
  <2>1. PassesType
    BY RecordTypes DEF Init, PassesType
  <2>2. requests \in 0 .. MaxManual /\ edits \in 0 .. MaxEdits /\ faults \in 0 .. MaxFaults
    BY DEF Init
  <2>3. row \in RowRecord
    <3>1. Added("none", "unknown") \in RowRecord /\ Added("installing", "provisioning") \in RowRecord
      BY DEF Added, RowRecord, Roles
    <3> QED BY <3>1 DEF Init
  <2>4. /\ wanted \in Settings /\ box \in Box /\ lock = None
        /\ touched = Passes \cup {Row}
    BY DEF Init
  <2> QED BY <2>1, <2>2, <2>3, <2>4 DEF TypeOK, PassesType
<1>2. TypeOK /\ [Next]_vars => TypeOK'
  <2> SUFFICES ASSUME TypeOK, [Next]_vars PROVE TypeOK'
    OBVIOUS
  <2>0. PassesType /\ BoundsType
    BY DEF TypeOK, PassesType, BoundsType
  <2>1. CASE UNCHANGED vars
    BY <2>1 DEF TypeOK, vars, bounds
  <2>2. ASSUME NEW p \in Passes, NEW forced \in BOOLEAN, NEW dry \in BOOLEAN,
               Choose(p, forced, dry), BoundsType'
        PROVE  TypeOK'
    <3>1. [Idle EXCEPT !.at = "due", !.dry = dry] \in PassRecord
      BY RecordTypes DEF PassRecord, Places
    <3>2. PassesType'
      BY <2>0, <2>2, <3>1, BecomeType DEF Choose
    <3> QED BY <2>2, <3>2 DEF Choose, TypeOK, PassesType, BoundsType
  <2>3. CASE ChoosePeriodic
    <3>1. BoundsType'
      BY <2>0, <2>3, Counters DEF ChoosePeriodic
    <3> QED BY <2>2, <2>3, <3>1 DEF ChoosePeriodic, Passes
  <2>4. ASSUME NEW p \in Manual, NEW dry \in BOOLEAN, ChooseManual(p, dry) PROVE TypeOK'
    <3>1. BoundsType'
      BY <2>0, <2>4, Counters DEF ChooseManual
    <3> QED BY <2>2, <2>4, <3>1 DEF ChooseManual, Passes
  <2>5. ASSUME NEW p \in Passes, Advance(p) \/ ServicesFail(p) \/ Fail(p) PROVE TypeOK'
    <3> DEFINE me == pass[p]
    <3>0. me \in PassRecord
      BY <2>0 DEF PassesType
    <3> HIDE DEF me
    <3>a. /\ wanted \in Settings /\ box \in Box
          /\ row \in RowRecord
          /\ lock \in Passes \cup {None} /\ touched \subseteq Passes \cup {Row}
      BY DEF TypeOK
    <3>q. ASSUME NEW record \in PassRecord, Become(p, record), UNCHANGED bounds,
                 wanted' \in Settings, box' \in Box, UNCHANGED row,
                 lock' \in Passes \cup {None}, touched' \subseteq Passes \cup {Row}
          PROVE  TypeOK'
      <4>1. PassesType' /\ BoundsType'
        BY <2>0, <3>q, BecomeType, Counters
      <4> QED BY <4>1, <3>q DEF TypeOK, PassesType, BoundsType
    <3>r. ASSUME NEW record \in PassRecord, Answered(p, record),
                 box' \in Box, UNCHANGED <<wanted, row, lock, touched>>
          PROVE  TypeOK'
      <4>1. PassesType' /\ BoundsType'
        BY <2>0, <3>r, AnsweredType
      <4> QED BY <4>1, <3>r, <3>a DEF TypeOK, PassesType, BoundsType
    <3>1. CASE Skip(p)
      BY <3>1, <3>a, <3>q, RecordTypes DEF Skip
    <3>2. CASE Begin(p)
      <4>1. [me EXCEPT !.at = "listing", !.plan = wanted] \in PassRecord
        BY <3>0, <3>a DEF PassRecord, Places, Working
      <4> QED BY <3>2, <3>a, <3>q, <4>1 DEF Begin, me
    <3>3. CASE ListRewrites(p)
      <4> DEFINE differs == \/ me.plan.rewrites \ box.rewrites # {}
                            \/ "prune" \in me.plan.flags /\ box.rewrites \ me.plan.rewrites # {}
                 next == [me EXCEPT !.at = "rewriting", !.seen.rewrites = box.rewrites,
                                    !.changed = differs]
      <4>1. next \in PassRecord
        <5>1. differs \in BOOLEAN
          OBVIOUS
        <5> HIDE DEF differs
        <5> QED BY <3>0, <3>a, <5>1 DEF PassRecord, Places, Working, Box
      <4>2. Become(p, next)
        BY <3>3, Zenon DEF ListRewrites, me
      <4> HIDE DEF next
      <4> QED BY <3>3, <3>a, <3>q, <4>1, <4>2 DEF ListRewrites
    <3>4. ASSUME NEW r \in Rewrites, AddRewrite(p, r) PROVE TypeOK'
      <4>1. [me EXCEPT !.seen.rewrites = @ \cup {r}] \in PassRecord
        BY <3>0 DEF PassRecord, Box
      <4>2. box' \in Box
        BY <3>4, <3>a DEF AddRewrite, Box
      <4> QED BY <3>4, <3>a, <3>r, <4>1, <4>2 DEF AddRewrite, me
    <3>5. ASSUME NEW r \in Rewrites, DeleteRewrite(p, r) PROVE TypeOK'
      <4>1. [me EXCEPT !.seen.rewrites = @ \ {r}] \in PassRecord
        BY <3>0 DEF PassRecord, Box
      <4>2. box' \in Box
        BY <3>5, <3>a DEF DeleteRewrite, Box
      <4> QED BY <3>5, <3>a, <3>r, <4>1, <4>2 DEF DeleteRewrite, me
    <3>6. CASE ReadUpstreams(p)
      <4> DEFINE differs == me.changed \/ ListsToSet(me.plan, box) # {}
                 read == [me EXCEPT !.at = "setting", !.seen.lists = box.lists,
                                    !.changed = differs]
                 none == [me EXCEPT !.at = "set"]
      <4>1. read \in PassRecord /\ none \in PassRecord
        <5>1. differs \in BOOLEAN
          BY <3>0 DEF PassRecord
        <5> HIDE DEF differs
        <5> QED BY <3>0, <3>a, <5>1 DEF PassRecord, Places, Working, Box
      <4>2. Become(p, read) \/ Become(p, none)
        BY <3>6, Zenon DEF ReadUpstreams, me
      <4> HIDE DEF read, none
      <4> QED BY <3>6, <3>a, <3>q, <4>1, <4>2 DEF ReadUpstreams
    <3>7. CASE SetUpstreams(p)
      <4>1. [me EXCEPT !.at = "set"] \in PassRecord
        BY <3>0 DEF PassRecord, Places, Working
      <4>2. box' \in Box
        BY <3>7, <3>a, <3>0 DEF SetUpstreams, Box, PassRecord, Settings, me
      <4> QED BY <3>7, <3>a, <3>q, <3>r, <4>1, <4>2 DEF SetUpstreams, me
    <3>8. CASE ReadFilters(p)
      <4>1. \A d \in BOOLEAN : Updates("online", d) \in PassRecord
        BY RecordTypes
      <4>2. FilterCalls(me.plan, box) \subseteq Filters \X {"on", "off", "absent", "disable"}
        BY DEF FilterCalls
      <4>3. ASSUME NEW calls \in SUBSET (Filters \X {"on", "off", "absent", "disable"}),
                   NEW d \in BOOLEAN
            PROVE  [me EXCEPT !.at = "filtering", !.todo = calls, !.changed = d,
                              !.seen.filters = box.filters, !.seen.engine = box.engine]
                     \in PassRecord
        <5> DEFINE read == [me EXCEPT !.at = "filtering", !.todo = calls, !.changed = d]
        <5>1. read \in PassRecord
          BY <3>0 DEF PassRecord, Places, Working
        <5> HIDE DEF read
        <5>2. [read EXCEPT !.seen.filters = box.filters] \in PassRecord
          BY <5>1, <3>a DEF PassRecord, Box
        <5>3. [[read EXCEPT !.seen.filters = box.filters] EXCEPT !.seen.engine = box.engine]
                \in PassRecord
          BY <5>2, <3>a DEF PassRecord, Box
        <5> QED BY <5>3 DEF read
      <4>4. CASE "filtering" \in me.plan.flags
        <5> DEFINE calls == FilterCalls(me.plan, box)
                   d == me.changed \/ calls # {} \/ EngineToFix(me.plan, box)
        <5>1. (IF me.dry THEN {} ELSE calls) \in SUBSET (Filters \X {"on", "off", "absent", "disable"})
          BY <4>2
        <5>2. d \in BOOLEAN
          OBVIOUS
        <5> HIDE DEF calls, d
        <5>3. [me EXCEPT !.at = "filtering", !.todo = IF me.dry THEN {} ELSE calls, !.changed = d,
                         !.seen.filters = box.filters, !.seen.engine = box.engine] \in PassRecord
          BY <4>3, <5>1, <5>2, Zenon
        <5> QED BY <3>8, <3>a, <3>q, <4>4, <5>3 DEF ReadFilters, me, calls, d
      <4>5. CASE "filtering" \notin me.plan.flags
        BY <3>8, <3>a, <3>0, <3>q, <4>1, <4>5 DEF ReadFilters, me, PassRecord
      <4> QED BY <4>4, <4>5
    <3>9. ASSUME NEW c \in me.todo, FixFilter(p, c[1], c[2]) PROVE TypeOK'
      <4>1. c[1] \in Filters /\ c[2] \in {"on", "off", "absent", "disable"}
        BY <3>0 DEF PassRecord
      <4>2. \A rest \in {{}, {<<c[1], "disable">>}} :
              [me EXCEPT !.todo = (@ \ {<<c[1], c[2]>>}) \cup rest] \in PassRecord
        BY <3>0, <4>1 DEF PassRecord
      <4>3. box' \in Box
        BY <3>9, <3>a, <4>1 DEF FixFilter, Box, Presence
      <4> QED BY <3>9, <3>a, <3>r, <4>2, <4>3 DEF FixFilter, me
    <3>10. ASSUME NEW c \in me.todo, FixFilterRefused(p, c[1], c[2]) PROVE TypeOK'
      <4>1. Failed("offline") \in PassRecord
        BY RecordTypes DEF Failed, Failures
      <4> QED BY <3>10, <3>a, <3>q, <4>1 DEF FixFilterRefused
    <3>11. CASE FixEngine(p)
      <4>1. [me EXCEPT !.seen.engine = TRUE] \in PassRecord
        BY <3>11, <3>0 DEF FixEngine, EngineToFix, EngineWanted, PassRecord, Box, Engine
      <4>2. box' \in Box
        BY <3>11, <3>a DEF FixEngine, EngineToFix, EngineWanted, Box, Engine
      <4> QED BY <3>11, <3>a, <3>r, <4>1, <4>2 DEF FixEngine, me
    <3>12. CASE ReadServices(p)
      <4>1. \A d \in BOOLEAN : Updates("online", d) \in PassRecord
        BY RecordTypes
      <4>2. [me EXCEPT !.at = "blocking", !.changed = TRUE, !.seen.services = box.services]
              \in PassRecord
        BY <3>0, <3>a DEF PassRecord, Places, Working, Box
      <4>3. me.changed \in BOOLEAN
        BY <3>0 DEF PassRecord
      <4>4. PICK record \in PassRecord : Become(p, record)
        BY <3>12, <4>1, <4>2, <4>3 DEF ReadServices, me
      <4> QED BY <3>12, <3>a, <3>q, <4>4 DEF ReadServices
    <3>13. CASE SetServices(p)
      <4>1. Updates("online", me.changed) \in PassRecord
        BY <3>0, RecordTypes DEF PassRecord
      <4>2. box' \in Box
        BY <3>13, <3>a, <3>0 DEF SetServices, ServicesTarget, PassRecord, Settings, Box, me
      <4> QED BY <3>13, <3>a, <3>q, <4>1, <4>2 DEF SetServices, me
    <3>14. CASE Record(p)
      <4>1. PassesType' /\ BoundsType'
        BY <2>0, <3>14, RecordTypes, BecomeType, Counters DEF Record
      <4>2. row' \in RowRecord
        BY <3>14, <3>a, <3>0 DEF Record, Status, InSync, PassRecord, RowRecord, Failures, me
      <4>3. lock' \in Passes \cup {None} /\ touched' \subseteq Passes \cup {Row}
        BY <3>14, <3>a DEF Record, Released
      <4> QED BY <3>14, <3>a, <4>1, <4>2, <4>3 DEF Record, TypeOK, PassesType, BoundsType
    <3>15. CASE ServicesFail(p)
      <4>1. Updates("online", me.changed) \in PassRecord
        BY <3>0, RecordTypes DEF PassRecord
      <4>2. PassesType' /\ BoundsType'
        BY <2>0, <3>15, <4>1, BecomeType, Counters DEF ServicesFail, me
      <4> QED BY <3>15, <3>a, <4>2 DEF ServicesFail, TypeOK, PassesType, BoundsType
    <3>16. CASE Fail(p)
      <4>1. \A k \in Failures : Failed(k) \in PassRecord
        BY RecordTypes DEF Failed
      <4>2. PassesType' /\ BoundsType'
        BY <2>0, <3>16, <4>1, BecomeType, Counters DEF Fail
      <4> QED BY <3>16, <3>a, <4>2 DEF Fail, TypeOK, PassesType, BoundsType
    <3> QED BY <2>5, <3>1, <3>2, <3>3, <3>4, <3>5, <3>6, <3>7, <3>8, <3>9, <3>10, <3>11,
               <3>12, <3>13, <3>14, <3>15, <3>16 DEF Advance, me
  <2>6. CASE EditRewrites \/ EditLists \/ EditFilters \/ EditServices \/ EditFlags
    <3>1. Edit
      BY <2>6 DEF EditRewrites, EditLists, EditFilters, EditServices, EditFlags
    <3>2. BoundsType'
      BY <2>0, <3>1, Counters DEF Edit
    <3>3. wanted' \in Settings
      BY <2>6 DEF EditRewrites, EditLists, EditFilters, EditServices, EditFlags, TypeOK, Settings
    <3> QED BY <3>1, <3>2, <3>3 DEF Edit, TypeOK, BoundsType
  <2>7. CASE RowSteps
    <3>1. /\ UNCHANGED <<wanted, box, lock, pass, touched>> /\ BoundsType'
          /\ row' \in RowRecord
      BY <2>0, <2>7, RowWritten DEF TypeOK
    <3> QED BY <3>1 DEF TypeOK, BoundsType
  <2>8. CASE Drift
    <3>1. BoundsType'
      BY <2>0, <2>8, Counters DEF Drift
    <3>2. box' \in Box
      BY <2>8 DEF Drift, TypeOK, Box
    <3> QED BY <2>8, <3>1, <3>2 DEF Drift, TypeOK, BoundsType
  <2>9. CASE Restart
    <3>1. BoundsType'
      BY <2>0, <2>9, Counters DEF Restart
    <3>2. PassesType'
      BY <2>9, RecordTypes DEF Restart, PassesType
    <3> QED BY <2>9, <3>1, <3>2 DEF Restart, TypeOK, BoundsType, PassesType
  <2> QED BY <2>1, <2>3, <2>4, <2>5, <2>6, <2>7, <2>8, <2>9 DEF Next, NothingDue, RowSteps
<1> QED BY <1>1, <1>2, PTL DEF Spec

-----------------------------------------------------------------------------

\* The pass at work has the lock, and keeps it, whoever steps.
LEMMA LockStep == TypeOK /\ OnePassPerServer /\ [Next]_vars => OnePassPerServer'
<1> SUFFICES ASSUME TypeOK, OnePassPerServer, [Next]_vars PROVE OnePassPerServer'
  OBVIOUS
<1> USE PassesAssumption DEF OnePassPerServer, Become
<1>0. pass \in [Passes -> PassRecord]
  BY DEF TypeOK
<1>a. Idle.at = "idle" /\ \A result, changed : Updates(result, changed).at = "saving"
  BY DEF Idle, Updates
<1>1. CASE UNCHANGED vars
  BY <1>1 DEF vars
<1>2. ASSUME NEW p \in Passes, NEW forced, NEW dry, Choose(p, forced, dry)
      PROVE  OnePassPerServer'
  <2>1. pass'[p].at = "due" /\ \A q \in Passes \ {p} : pass'[q] = pass[q]
    BY <1>0, <1>2 DEF Choose, Idle
  <2> QED BY <2>1, <1>2 DEF Choose
<1>3. ASSUME NEW p \in Passes, Skip(p) PROVE OnePassPerServer'
  <2>1. pass'[p].at = "idle" /\ \A q \in Passes \ {p} : pass'[q] = pass[q]
    BY <1>0, <1>a, <1>3 DEF Skip
  <2> QED BY <2>1, <1>3 DEF Skip
<1>4. ASSUME NEW p \in Passes, Begin(p) PROVE OnePassPerServer'
  <2>1. lock' = p /\ \A q \in Passes \ {p} : pass'[q] = pass[q]
    BY <1>0, <1>4 DEF Begin
  <2>2. \A q \in Passes : pass[q].at \in {"idle", "due"}
    BY <1>4 DEF Begin, Unlocked
  <2> QED BY <2>1, <2>2
<1>5. ASSUME NEW p \in Passes, Record(p) PROVE OnePassPerServer'
  <2>1. pass'[p].at = "idle" /\ \A q \in Passes \ {p} : pass'[q] = pass[q]
    BY <1>0, <1>a, <1>5 DEF Record
  <2>2. \A q \in Passes \ {p} : pass[q].at \in {"idle", "due"}
    BY <1>5 DEF Record, At
  <2> QED BY <2>1, <2>2
\* Any other step of a pass is one of a pass that has the lock.
<1>6. ASSUME NEW p \in Passes, NEW n, InPass(p), Become(p, n), UNCHANGED lock
      PROVE  OnePassPerServer'
  <2>1. lock = p
    BY <1>6 DEF InPass, Working
  <2>2. \A q \in Passes \ {p} : pass'[q] = pass[q]
    BY <1>0, <1>6
  <2> QED BY <2>1, <2>2, <1>6
<1>7. ASSUME NEW p \in Passes, Advance(p) \/ ServicesFail(p) \/ Fail(p)
      PROVE  OnePassPerServer'
  <2>1. \/ Skip(p) \/ Begin(p) \/ Record(p)
        \/ InPass(p) /\ UNCHANGED lock /\ \E n : Become(p, n)
    BY <1>7, Zenon DEF Advance, ListRewrites, AddRewrite, DeleteRewrite, ReadUpstreams,
          RewritesDone, SetUpstreams, ReadFilters, FilterCall, FixFilter, FixFilterRefused,
          FixEngine, FiltersDone, ReadServices, SetServices, ServicesFail, Fail, Answered,
          At, InPass, Working
  <2> QED BY <2>1, <1>3, <1>4, <1>5, <1>6
<1>8. CASE UNCHANGED <<lock, pass>>
  BY <1>8
<1>9. CASE Restart
  BY <1>9, <1>a DEF Restart
<1> QED BY <1>1, <1>2, <1>7, <1>8, <1>9
     DEF Next, ChoosePeriodic, ChooseManual, NothingDue, vars, EditRewrites, EditLists, EditFilters,
         EditServices, EditFlags, Edit, EditCredentials, EditEnabled, CooldownExpires, Drift,
         RoleReady, RoleNotReady, HostUnreachable, Reinstall, Passes

\* Two passes never talk to a server at once: _reconcile_one takes lock_for the
\* server for as long as it works on it, for any number of passes.
THEOREM OnePass == Spec => []OnePassPerServer
<1>1. Init => OnePassPerServer
  BY DEF Init, OnePassPerServer, Idle
<1> QED BY <1>1, LockStep, TypeCorrect, PTL DEF Spec

\* A lock that is held has a pass that goes on until it lets it go: none is left
\* behind by a failed call, a skipped pass or a restart, or no pass would ever
\* work on the server again.  (sync.py _reconcile_one's "async with lock")
LockUsed == lock # None => pass[lock].at \notin {"idle", "due"}

\* A call ends in another one or in an outcome, with the lock held.
LEMMA Onward ==
  ASSUME TypeOK, NEW p \in Passes,
         Advance(p) \/ ServicesFail(p) \/ Fail(p), ~Skip(p), ~Begin(p), ~Record(p)
  PROVE  UNCHANGED lock /\ pass'[p].at \notin {"idle", "due"}
<1>0. pass \in [Passes -> PassRecord] /\ pass[p] \in PassRecord
  BY DEF TypeOK
<1>1. \A n : Become(p, n) => pass'[p] = n
  BY <1>0 DEF Become
<1>2. \A result, changed : Updates(result, changed).at = "saving"
  BY DEF Updates, Idle
<1>3. \A k : Failed(k).at = "saving"
  BY <1>2 DEF Failed
<1>4. \A n : Answered(p, n) => pass'[p] = n \/ pass'[p].at = "saving"
  BY <1>1, <1>3 DEF Answered
<1>5. CASE ListRewrites(p)
  <2>1. \A seen, differs :
          [pass[p] EXCEPT !.at = "rewriting", !.seen.rewrites = seen, !.changed = differs].at
            = "rewriting"
    BY <1>0 DEF PassRecord
  <2> QED BY <1>1, <1>5, <2>1 DEF ListRewrites
<1>6. ASSUME NEW r \in Rewrites, AddRewrite(p, r) \/ DeleteRewrite(p, r)
      PROVE  UNCHANGED lock /\ pass'[p].at \notin {"idle", "due"}
  <2>1. \A seen : [pass[p] EXCEPT !.seen.rewrites = seen].at = pass[p].at
    BY <1>0 DEF PassRecord
  <2>2. pass[p].at = "rewriting" /\ UNCHANGED lock
    BY <1>6 DEF AddRewrite, DeleteRewrite, At
  <2> QED BY <1>4, <1>6, <2>1, <2>2 DEF AddRewrite, DeleteRewrite
<1>7. CASE ReadUpstreams(p)
  <2> DEFINE setting == [pass[p] EXCEPT !.at = "setting", !.seen.lists = box.lists,
                           !.changed = @ \/ ListsToSet(pass[p].plan, box) # {}]
             done    == [pass[p] EXCEPT !.at = "set"]
  <2>1. setting.at = "setting" /\ done.at = "set"
    BY <1>0 DEF PassRecord
  <2>2. (Become(p, setting) \/ Become(p, done)) /\ UNCHANGED lock
    BY <1>7 DEF ReadUpstreams
  <2> HIDE DEF setting, done
  <2> QED BY <1>1, <2>1, <2>2
<1>8. CASE SetUpstreams(p)
  <2>1. [pass[p] EXCEPT !.at = "set"].at = "set"
    BY <1>0 DEF PassRecord
  <2> QED BY <1>1, <1>4, <1>8, <2>1 DEF SetUpstreams
<1>9. CASE ReadFilters(p)
  <2> DEFINE calls     == FilterCalls(pass[p].plan, box)
             filtering == [pass[p] EXCEPT
                !.at = "filtering", !.todo = IF pass[p].dry THEN {} ELSE calls,
                !.changed = @ \/ calls # {} \/ EngineToFix(pass[p].plan, box),
                !.seen.filters = box.filters, !.seen.engine = box.engine]
  <2>1. filtering.at = "filtering"
    BY <1>0 DEF PassRecord
  <2>2. /\ Become(p, filtering) \/ Become(p, Updates("online", pass[p].changed))
        /\ UNCHANGED lock
    BY <1>9 DEF ReadFilters
  <2> HIDE DEF filtering
  <2> QED BY <1>1, <1>2, <2>1, <2>2
<1>10. ASSUME NEW u, NEW to, FixFilter(p, u, to) \/ FixFilterRefused(p, u, to)
       PROVE  UNCHANGED lock /\ pass'[p].at \notin {"idle", "due"}
  <2>1. \A todo : [pass[p] EXCEPT !.todo = todo].at = pass[p].at
    BY <1>0 DEF PassRecord
  <2>2. pass[p].at = "filtering" /\ UNCHANGED lock
    BY <1>10 DEF FixFilter, FixFilterRefused, FilterCall, At
  <2>3. CASE FixFilterRefused(p, u, to)
    BY <1>1, <1>3, <2>2, <2>3 DEF FixFilterRefused
  <2>4. CASE FixFilter(p, u, to)
    BY <1>4, <2>1, <2>2, <2>4 DEF FixFilter
  <2> QED BY <1>10, <2>3, <2>4
<1>11. CASE FixEngine(p)
  <2>1. [pass[p] EXCEPT !.seen.engine = TRUE].at = pass[p].at
    BY <1>0 DEF PassRecord
  <2>2. pass[p].at = "filtering" /\ UNCHANGED lock
    BY <1>11 DEF FixEngine, At
  <2> QED BY <1>4, <1>11, <2>1, <2>2 DEF FixEngine
<1>12. CASE ReadServices(p)
  <2>1. \A services :
          [pass[p] EXCEPT !.at = "blocking", !.changed = TRUE, !.seen.services = services].at
            = "blocking"
    BY <1>0 DEF PassRecord
  <2> QED BY <1>1, <1>2, <1>12, <2>1 DEF ReadServices
<1>13. CASE SetServices(p) \/ ServicesFail(p)
  BY <1>1, <1>2, <1>13 DEF SetServices, ServicesFail
<1>14. CASE Fail(p)
  BY <1>1, <1>3, <1>14 DEF Fail
<1> QED BY <1>5, <1>6, <1>7, <1>8, <1>9, <1>10, <1>11, <1>12, <1>13, <1>14 DEF Advance

\* No lock is left behind.
THEOREM LockReleased == Spec => []LockUsed
<1>1. Init => LockUsed
  BY DEF Init, LockUsed
<1>2. TypeOK /\ OnePassPerServer /\ LockUsed /\ [Next]_vars => LockUsed'
  <2> SUFFICES ASSUME TypeOK, OnePassPerServer, LockUsed, [Next]_vars PROVE LockUsed'
    OBVIOUS
  <2>0. pass \in [Passes -> PassRecord] /\ lock \in Passes \cup {None}
    BY DEF TypeOK
  <2>1. CASE UNCHANGED <<lock, pass>>
    BY <2>1 DEF LockUsed
  \* A pass without the lock leaves the pass that has it alone.
  <2>2. ASSUME NEW p \in Passes, NEW n, pass[p].at \in {"idle", "due"}, Become(p, n),
               UNCHANGED lock
        PROVE  LockUsed'
    BY <2>0, <2>2 DEF Become, LockUsed
  <2>3. ASSUME NEW p \in Passes, NEW forced, NEW dry, Choose(p, forced, dry) PROVE LockUsed'
    BY <2>2, <2>3 DEF Choose, At
  <2>4. ASSUME NEW p \in Passes, Skip(p) PROVE LockUsed'
    BY <2>2, <2>4 DEF Skip, At
  <2>5. ASSUME NEW p \in Passes, Begin(p) PROVE LockUsed'
    <3>1. pass'[p].at = "listing" /\ lock' = p
      BY <2>0, <2>5 DEF Begin, Become, PassRecord
    <3> QED BY <3>1 DEF LockUsed
  <2>6. ASSUME NEW p \in Passes, Record(p) PROVE LockUsed'
    BY <2>6 DEF Record, Released, LockUsed
  <2>7. ASSUME NEW p \in Passes, Advance(p) \/ ServicesFail(p) \/ Fail(p),
               ~Skip(p), ~Begin(p), ~Record(p)
        PROVE  LockUsed'
    <3>1. UNCHANGED lock /\ pass'[p].at \notin {"idle", "due"}
      BY <2>7, Onward
    <3>2. \E n : Become(p, n)
      BY <2>7, Zenon DEF Advance, ListRewrites, AddRewrite, DeleteRewrite, ReadUpstreams,
            SetUpstreams, ReadFilters, FixFilter, FixFilterRefused,
            FixEngine, ReadServices, SetServices, ServicesFail, Fail, Answered
    <3>3. \A q \in Passes \ {p} : pass'[q] = pass[q]
      BY <2>0, <3>2 DEF Become
    <3> QED BY <2>0, <3>1, <3>3 DEF LockUsed
  <2>8. CASE Restart
    BY <2>8 DEF Restart, LockUsed
  <2> QED BY <2>1, <2>3, <2>4, <2>5, <2>6, <2>7, <2>8
       DEF Next, ChoosePeriodic, ChooseManual, NothingDue, vars, EditRewrites, EditLists,
           EditFilters, EditServices, EditFlags, Edit, EditCredentials, EditEnabled,
           CooldownExpires, RoleReady, RoleNotReady, HostUnreachable, Reinstall, Drift, Passes
<1> QED BY <1>1, <1>2, OnePass, TypeCorrect, PTL DEF Spec

-----------------------------------------------------------------------------

\* What a step of apply_plan, by the pass at work, has to show: its own record stays right, and
\* the row, if it says "in sync", too.
LEMMA PassStep ==
  ASSUME TypeOK, OnePassPerServer, SyncInv, NEW p \in Passes, NEW n,
         InPass(p), Become(p, n), UNCHANGED <<wanted, row, touched>>,
         n.at \in Working => n.plan = pass[p].plan,
         n.at \in Working \cup {"saving"},
         n.at \in Working /\ ~n.changed => NothingLeft(p)',
         n.at \in Working /\ ~n.changed /\ p \notin touched => FoundRight(p)',
         n.at = "saving" /\ n.result = "online" /\ ~n.changed /\ p \notin touched => Matches',
         row.inSync /\ Row \notin touched => Matches',
         row.inSync /\ Row \notin touched /\ n.at \in {"rewriting", "setting", "set", "filtering"}
           => ~n.changed
  PROVE  SyncInv'
<1> USE DEF SyncInv, InPass
<1>1. pass'[p] = n
  BY DEF TypeOK, Become
<1>2. \A q \in Passes \ {p} :
        pass'[q] = pass[q] /\ pass[q].at \notin Working /\ pass[q].at # "saving"
  BY DEF OnePassPerServer, Working, TypeOK, Become
<1>3. Planned'
  BY <1>1, <1>2 DEF Planned
<1>4. Fresh'
  BY <1>1, <1>2 DEF Fresh
<1>5. Quiet'
  BY <1>1, <1>2 DEF Quiet
<1>6. Found'
  BY <1>1, <1>2 DEF Found
<1>7. Outcome'
  BY <1>1, <1>2 DEF Outcome, At, InSync
<1>8. Still'
  BY <1>1, <1>2 DEF Still, Working
<1>9. InSyncTruthful'
  BY DEF InSyncTruthful
<1> QED BY <1>3, <1>4, <1>5, <1>6, <1>7, <1>8, <1>9

\* A pass that ends badly leaves whatever it has done to the box, as far as the
\* row does not say "in sync".
LEMMA FailedStep ==
  ASSUME TypeOK, OnePassPerServer, SyncInv, NEW p \in Passes, NEW k \in Failures,
         InPass(p), Become(p, Failed(k)), UNCHANGED <<wanted, row, touched>>,
         row.inSync /\ Row \notin touched => Matches'
  PROVE  SyncInv'
<1>1. Failed(k).at = "saving" /\ Failed(k).changed = TRUE
  BY DEF Failed, Updates, Idle
<1>2. "saving" \notin Working
  BY DEF Working
<1> HIDE DEF Failed, Working
<1> QED BY <1>1, <1>2, PassStep

\* The pass at work over a row that truly says "in sync": it knows what is
\* wanted and has found no difference so far.
LEMMA AtRest ==
  ASSUME TypeOK, SyncInv, NEW p \in Passes, InPass(p), row.inSync, Row \notin touched
  PROVE  /\ p \notin touched /\ Matches /\ pass[p].plan = wanted
         /\ pass[p].at \notin {"listing", "blocking"} =>
              ~pass[p].changed /\ NothingLeft(p) /\ FoundRight(p)
<1>1. p \notin touched
  BY DEF SyncInv, Fresh
<1>2. pass[p].plan = wanted /\ Matches
  BY <1>1 DEF SyncInv, Planned, InSyncTruthful
<1>3. ASSUME pass[p].at \notin {"listing", "blocking"}
      PROVE  ~pass[p].changed /\ NothingLeft(p) /\ FoundRight(p)
  <2>1. ~pass[p].changed
    BY <1>3 DEF SyncInv, Still, InPass, Working
  <2> QED BY <2>1, <1>1 DEF SyncInv, Quiet, Found
<1> QED BY <1>1, <1>2, <1>3

\* apply_plan, rewrites: the difference found in the list is what sets changed,
\* and a rewrite is added or deleted only where there was one.
LEMMA RewriteSteps ==
  ASSUME TypeOK, OnePassPerServer, SyncInv, NEW p \in Passes,
         ListRewrites(p) \/ \E r \in Rewrites : AddRewrite(p, r) \/ DeleteRewrite(p, r)
  PROVE  SyncInv'
<1> USE DEF At
<1>0. pass[p] \in PassRecord
  BY DEF TypeOK
<1>1. CASE ListRewrites(p)
  <2> DEFINE plan == pass[p].plan
             differs == \/ plan.rewrites \ box.rewrites # {}
                        \/ "prune" \in plan.flags /\ box.rewrites \ plan.rewrites # {}
             n == [pass[p] EXCEPT !.at = "rewriting", !.seen.rewrites = box.rewrites,
                                  !.changed = differs]
  <2>1. /\ InPass(p) /\ Become(p, n) /\ UNCHANGED <<wanted, row, touched, box>>
        /\ pass[p].at = "listing"
    BY <1>1 DEF ListRewrites, InPass, Working
  <2>2. /\ n.at = "rewriting" /\ n.plan = pass[p].plan /\ n.changed = differs
        /\ n.seen.rewrites = box.rewrites
    BY <1>0 DEF PassRecord, Box
  <2>3. pass'[p] = n
    BY <2>1 DEF TypeOK, Become
  <2>4. ~differs => NothingLeft(p)'
    BY <2>2, <2>3 DEF NothingLeft, MissingRewrites, ForeignRewrites
  <2>5. ~differs /\ p \notin touched => FoundRight(p)'
    <3>1. p \notin touched => plan = wanted
      BY <2>1 DEF SyncInv, Planned
    <3> QED BY <2>1, <2>2, <2>3, <3>1 DEF FoundRight, RewritesMatch
  <2>6. row.inSync /\ Row \notin touched => ~differs /\ Matches'
    <3> SUFFICES ASSUME row.inSync, Row \notin touched PROVE ~differs /\ Matches'
      OBVIOUS
    <3>1. plan = wanted /\ Matches
      BY <2>1, AtRest
    <3>2. Matches'
      BY <2>1, <3>1 DEF Matches, RewritesMatch, ListsMatch, FiltersMatch, EngineWanted
    <3> QED BY <3>1, <3>2 DEF Matches, RewritesMatch
  <2> HIDE DEF n, differs
  <2> QED BY <2>1, <2>2, <2>4, <2>5, <2>6, PassStep DEF Working
<1>2. ASSUME NEW r \in Rewrites, AddRewrite(p, r) \/ DeleteRewrite(p, r) PROVE SyncInv'
  <2>1. /\ InPass(p) /\ UNCHANGED <<wanted, row, touched>> /\ pass[p].at = "rewriting"
        /\ MissingRewrites(p) # {} \/ ForeignRewrites(p) # {}
    BY <1>2 DEF AddRewrite, DeleteRewrite, InPass, Working
  <2>2. pass[p].changed
    BY <2>1 DEF SyncInv, Quiet, NothingLeft
  <2>3. ~(row.inSync /\ Row \notin touched)
    BY <2>1, <2>2, AtRest
  <2>4. ASSUME NEW n, Become(p, n), n.at = "rewriting", n.plan = pass[p].plan, n.changed
        PROVE  SyncInv'
    BY <2>1, <2>3, <2>4, PassStep DEF Working
  <2>5. ASSUME NEW k \in Failures, Become(p, Failed(k)) PROVE SyncInv'
    BY <2>1, <2>3, <2>5, FailedStep
  <2>6. ASSUME NEW s
        PROVE  LET n == [pass[p] EXCEPT !.seen.rewrites = s]
               IN  n.at = pass[p].at /\ n.plan = pass[p].plan /\ n.changed = pass[p].changed
    BY <1>0 DEF PassRecord, Box
  <2> QED BY <1>2, <2>1, <2>2, <2>4, <2>5, <2>6 DEF AddRewrite, DeleteRewrite, Answered
<1> QED BY <1>1, <1>2

\* apply_plan, upstreams: no list is pushed unless it was found to differ.
LEMMA ListSteps ==
  ASSUME TypeOK, OnePassPerServer, SyncInv, NEW p \in Passes,
         ReadUpstreams(p) \/ SetUpstreams(p)
  PROVE  SyncInv'
<1> USE DEF At
<1>0. pass[p] \in PassRecord
  BY DEF TypeOK
<1>1. CASE ReadUpstreams(p)
  <2> DEFINE plan == pass[p].plan
             differs == ListsToSet(plan, box) # {}
             read == [pass[p] EXCEPT !.at = "setting", !.seen.lists = box.lists,
                                     !.changed = @ \/ differs]
             skip == [pass[p] EXCEPT !.at = "set"]
  <2>1. /\ InPass(p) /\ UNCHANGED <<wanted, row, touched, box>> /\ pass[p].at = "rewriting"
        /\ IF "upstreams" \in plan.flags THEN Become(p, read) ELSE Become(p, skip)
    BY <1>1 DEF ReadUpstreams, RewritesDone, InPass, Working
  <2>2. /\ read.at = "setting" /\ read.plan = pass[p].plan
        /\ read.changed = (pass[p].changed \/ differs) /\ read.seen.lists = box.lists
        /\ skip.at = "set" /\ skip.plan = pass[p].plan /\ skip.changed = pass[p].changed
    BY <1>0 DEF PassRecord, Box
  <2> HIDE DEF differs, read, skip
  <2>3. p \notin touched => plan = wanted
    BY <2>1 DEF SyncInv, Planned
  <2>4. ~pass[p].changed /\ p \notin touched => RewritesMatch /\ RewritesMatch'
    BY <2>1 DEF SyncInv, Found, FoundRight, RewritesMatch
  <2>5. row.inSync /\ Row \notin touched => Matches' /\ ~pass[p].changed /\ plan = wanted /\ ListsMatch
    BY <2>1, AtRest DEF Matches, RewritesMatch, ListsMatch, FiltersMatch, EngineWanted
  <2>6. CASE "upstreams" \in plan.flags
    <3>1. pass'[p] = read
      BY <2>1, <2>6 DEF TypeOK, Become
    <3>2. ~read.changed => NothingLeft(p)'
      BY <2>2, <3>1 DEF NothingLeft, ListsToSet, differs
    <3>3. ~read.changed /\ p \notin touched => FoundRight(p)'
      BY <2>1, <2>2, <2>3, <2>4, <3>1 DEF FoundRight, ListsMatch, ListsToSet, differs
    <3>4. plan = wanted /\ ListsMatch => ~differs
      BY <2>6 DEF ListsMatch, ListsToSet, differs
    <3> QED BY <2>1, <2>2, <2>5, <2>6, <3>2, <3>3, <3>4, PassStep DEF Working
  <2>7. CASE "upstreams" \notin plan.flags
    <3>1. pass'[p] = skip
      BY <2>1, <2>7 DEF TypeOK, Become
    <3>2. NothingLeft(p)'
      BY <2>2, <3>1 DEF NothingLeft
    <3>3. ~skip.changed /\ p \notin touched => FoundRight(p)'
      BY <2>1, <2>2, <2>3, <2>4, <2>7, <3>1 DEF FoundRight, ListsMatch
    <3> QED BY <2>1, <2>2, <2>5, <2>7, <3>2, <3>3, PassStep DEF Working
  <2> QED BY <2>6, <2>7
<1>2. CASE SetUpstreams(p)
  <2> DEFINE plan == pass[p].plan
             payload == IF pass[p].dry THEN {} ELSE ListsToSet(plan, pass[p].seen)
             n == [pass[p] EXCEPT !.at = "set"]
  <2>1. /\ InPass(p) /\ UNCHANGED <<wanted, row, touched>> /\ pass[p].at = "setting"
        /\ box' = [box EXCEPT !.lists = [l \in Lists |-> IF l \in payload THEN plan.lists[l] ELSE @[l]]]
        /\ Become(p, n) \/ (payload # {} /\ \E k \in Failures : Become(p, Failed(k)))
    BY <1>2, Zenon DEF SetUpstreams, Answered, InPass, Working
  <2>2. n.at = "set" /\ n.plan = pass[p].plan /\ n.changed = pass[p].changed
    BY <1>0 DEF PassRecord
  <2>3. ~pass[p].changed => payload = {}
    BY <2>1 DEF SyncInv, Quiet, NothingLeft
  <2>4. payload = {} => box' = box
    <3> SUFFICES ASSUME payload = {} PROVE box' = box
      OBVIOUS
    <3>1. box \in Box
      BY DEF TypeOK
    <3>2. [l \in Lists |-> IF l \in payload THEN plan.lists[l] ELSE box.lists[l]] = box.lists
      BY <3>1 DEF Box
    <3>3. [box EXCEPT !.lists = box.lists] = box
      BY <3>1 DEF Box
    <3> QED BY <2>1, <3>2, <3>3
  <2>5. ~pass[p].changed => box' = box
    BY <2>3, <2>4
  <2>6. row.inSync /\ Row \notin touched => Matches' /\ ~pass[p].changed
    <3> SUFFICES ASSUME row.inSync, Row \notin touched PROVE Matches' /\ ~pass[p].changed
      OBVIOUS
    <3>1. Matches /\ ~pass[p].changed
      BY <2>1, AtRest
    <3> QED BY <2>1, <2>5, <3>1 DEF Matches, RewritesMatch, ListsMatch, FiltersMatch, EngineWanted
  <2>7. ASSUME NEW k \in Failures, Become(p, Failed(k)) PROVE SyncInv'
    BY <2>1, <2>6, <2>7, FailedStep
  <2>8. CASE Become(p, n)
    <3>1. pass'[p] = n
      BY <2>8 DEF TypeOK, Become
    <3>2. NothingLeft(p)'
      BY <2>2, <3>1 DEF NothingLeft
    <3>3. ~n.changed /\ p \notin touched => FoundRight(p)'
      BY <2>1, <2>2, <2>5, <3>1 DEF SyncInv, Found, FoundRight, RewritesMatch, ListsMatch
    <3> HIDE DEF n
    <3> QED BY <2>1, <2>2, <2>6, <2>8, <3>2, <3>3, PassStep DEF Working
  <2> QED BY <2>1, <2>7, <2>8
<1> QED BY <1>1, <1>2

\* _reconcile_filtering, lists and engine: no call is made unless a difference
\* was found in the one answer all calls are decided from.
LEMMA FilterSteps ==
  ASSUME TypeOK, OnePassPerServer, SyncInv, NEW p \in Passes,
         \/ ReadFilters(p) \/ FixEngine(p)
         \/ \E c \in pass[p].todo : FixFilter(p, c[1], c[2]) \/ FixFilterRefused(p, c[1], c[2])
  PROVE  SyncInv'
<1> USE DEF At
<1>0. pass[p] \in PassRecord /\ box \in Box
  BY DEF TypeOK
<1>1. CASE ReadFilters(p)
  <2> DEFINE plan == pass[p].plan
             calls == FilterCalls(plan, box)
             differs == calls # {} \/ EngineToFix(plan, box)
             read == [pass[p] EXCEPT
                        !.at = "filtering", !.todo = IF pass[p].dry THEN {} ELSE calls,
                        !.changed = @ \/ calls # {} \/ EngineToFix(plan, box),
                        !.seen.filters = box.filters, !.seen.engine = box.engine]
             skip == Updates("online", pass[p].changed)
  <2>1. /\ InPass(p) /\ UNCHANGED <<wanted, row, touched, box>> /\ pass[p].at = "set"
        /\ IF "filtering" \in plan.flags THEN Become(p, read) ELSE Become(p, skip)
    BY <1>1 DEF ReadFilters, InPass, Working
  <2>2. /\ read.at = "filtering" /\ read.plan = pass[p].plan
        /\ read.changed = (pass[p].changed \/ differs) /\ read.seen.engine = box.engine
        /\ calls = {} => read.todo = {}
    BY <1>0 DEF PassRecord, Box
  <2>3. skip.at = "saving" /\ skip.changed = pass[p].changed
    BY DEF Updates, Idle
  <2> HIDE DEF calls, read, skip
  <2>4. p \notin touched => plan = wanted
    BY <2>1 DEF SyncInv, Planned
  <2>5. ~pass[p].changed /\ p \notin touched =>
          RewritesMatch /\ ListsMatch /\ RewritesMatch' /\ ListsMatch'
    BY <2>1 DEF SyncInv, Found, FoundRight, RewritesMatch, ListsMatch
  <2>6. row.inSync /\ Row \notin touched =>
          Matches' /\ ~pass[p].changed /\ plan = wanted /\ FiltersMatch
    BY <2>1, AtRest DEF Matches, RewritesMatch, ListsMatch, FiltersMatch, EngineWanted
  <2>7. CASE "filtering" \in plan.flags
    <3>1. pass'[p] = read
      BY <2>1, <2>7 DEF TypeOK, Become
    <3>2. ~read.changed => NothingLeft(p)'
      BY <2>2, <3>1 DEF NothingLeft, EngineToFix
    <3>3. ~differs /\ plan = wanted => FiltersMatch'
      <4> SUFFICES ASSUME ~differs, plan = wanted PROVE FiltersMatch'
        OBVIOUS
      <4>1. \A u \in Filters : \A to \in wanted.filters[u] : box.filters[u] = to
        <5> SUFFICES ASSUME NEW u \in Filters, NEW to \in wanted.filters[u], box.filters[u] # to
                     PROVE  FALSE
          OBVIOUS
        <5>1. to \in {"on", "off"}
          BY FiltersAssumption DEF TypeOK, Settings
        <5>2. <<u, to>> \in calls
          BY <5>1 DEF calls, FilterCalls
        <5> QED BY <5>2
      <4>2. ASSUME "prune" \in wanted.flags, NEW u \in Filters, wanted.filters[u] = {},
                   box.filters[u] # "absent"
            PROVE  FALSE
        <5>1. <<u, "absent">> \in calls
          BY <4>2 DEF calls, FilterCalls
        <5> QED BY <5>1
      <4>3. EngineWanted(wanted) => box.engine
        BY DEF EngineToFix
      <4> QED BY <2>1, <4>1, <4>2, <4>3 DEF FiltersMatch, EngineWanted
    <3>4. ~read.changed /\ p \notin touched => FoundRight(p)'
      BY <2>2, <2>4, <2>5, <3>1, <3>3 DEF FoundRight
    <3>5. plan = wanted /\ FiltersMatch => ~differs
      <4> SUFFICES ASSUME plan = wanted, FiltersMatch PROVE ~differs
        OBVIOUS
      <4>1. calls = {}
        BY <2>7 DEF calls, FilterCalls, FiltersMatch
      <4>2. ~EngineToFix(plan, box)
        BY <2>7 DEF EngineToFix, FiltersMatch
      <4> QED BY <4>1, <4>2
    <3> HIDE DEF differs
    <3> QED BY <2>1, <2>2, <2>6, <2>7, <3>2, <3>4, <3>5, PassStep DEF Working
  <2>8. CASE "filtering" \notin plan.flags
    <3>1. ~pass[p].changed /\ p \notin touched => Matches'
      BY <2>1, <2>4, <2>5, <2>8 DEF Matches, FiltersMatch
    <3> QED BY <2>1, <2>3, <2>6, <2>8, <3>1, PassStep DEF Working
  <2> QED BY <2>7, <2>8
<1>2. CASE \/ FixEngine(p)
           \/ \E c \in pass[p].todo : FixFilter(p, c[1], c[2]) \/ FixFilterRefused(p, c[1], c[2])
  <2>1. /\ InPass(p) /\ UNCHANGED <<wanted, row, touched>> /\ pass[p].at = "filtering"
        /\ pass[p].todo # {} \/ EngineToFix(pass[p].plan, pass[p].seen)
    BY <1>2 DEF FixEngine, FixFilter, FixFilterRefused, FilterCall, InPass, Working
  <2>2. pass[p].changed
    BY <2>1 DEF SyncInv, Quiet, NothingLeft
  <2>3. ~(row.inSync /\ Row \notin touched)
    BY <2>1, <2>2, AtRest
  <2>4. ASSUME NEW n, Become(p, n), n.at = "filtering", n.plan = pass[p].plan, n.changed
        PROVE  SyncInv'
    BY <2>1, <2>3, <2>4, PassStep DEF Working
  <2>5. ASSUME NEW k \in Failures, Become(p, Failed(k)) PROVE SyncInv'
    BY <2>1, <2>3, <2>5, FailedStep
  <2>6. ASSUME NEW n, Answered(p, n), n.at = "filtering", n.plan = pass[p].plan, n.changed
        PROVE  SyncInv'
    BY <2>4, <2>5, <2>6 DEF Answered
  <2>7. CASE FixEngine(p)
    <3>1. LET n == [pass[p] EXCEPT !.seen.engine = TRUE]
          IN  n.at = "filtering" /\ n.plan = pass[p].plan /\ n.changed
      BY <1>0, <2>1, <2>2 DEF PassRecord, Box
    <3> QED BY <2>6, <2>7, <3>1 DEF FixEngine
  <2>8. ASSUME NEW c \in pass[p].todo, FixFilter(p, c[1], c[2]) PROVE SyncInv'
    <3>1. ASSUME NEW t
          PROVE  LET n == [pass[p] EXCEPT !.todo = t]
                 IN  n.at = "filtering" /\ n.plan = pass[p].plan /\ n.changed
      BY <1>0, <2>1, <2>2 DEF PassRecord
    <3> QED BY <2>6, <2>8, <3>1 DEF FixFilter
  <2>9. ASSUME NEW c \in pass[p].todo, FixFilterRefused(p, c[1], c[2]) PROVE SyncInv'
    BY <2>5, <2>9 DEF FixFilterRefused, Failures
  <2> QED BY <1>2, <2>7, <2>8, <2>9
<1> QED BY <1>1, <1>2

\* _reconcile_filtering, services, and the ways a pass fails: neither makes an
\* outcome truer than what the pass had found.
LEMMA ServiceSteps ==
  ASSUME TypeOK, OnePassPerServer, SyncInv, NEW p \in Passes,
         ReadServices(p) \/ SetServices(p) \/ ServicesFail(p) \/ Fail(p)
  PROVE  SyncInv'
<1> USE DEF At
<1>0. pass[p] \in PassRecord /\ box \in Box
  BY DEF TypeOK
<1>1. CASE Fail(p)
  <2>1. InPass(p) /\ UNCHANGED <<wanted, box, row, touched>> /\ \E k \in Failures : Become(p, Failed(k))
    BY <1>1 DEF Fail, InPass
  <2>2. row.inSync /\ Row \notin touched => Matches'
    BY <2>1, AtRest DEF Matches, RewritesMatch, ListsMatch, FiltersMatch, EngineWanted
  <2> QED BY <2>1, <2>2, FailedStep
<1>2. CASE ReadServices(p) \/ SetServices(p) \/ ServicesFail(p)
  <2> DEFINE skip == Updates("online", pass[p].changed)
             seen == [pass[p] EXCEPT !.at = "blocking", !.changed = TRUE,
                                     !.seen.services = box.services]
  <2>1. /\ InPass(p) /\ UNCHANGED <<wanted, row, touched>>
        /\ pass[p].at \in {"filtering", "blocking"}
        /\ \/ Become(p, skip) \/ Become(p, Updates("online", TRUE))
           \/ pass[p].at = "filtering" /\ Become(p, seen)
    BY <1>2 DEF ReadServices, SetServices, ServicesFail, FiltersDone, InPass, Working
  <2>2. \A c \in BOOLEAN : Updates("online", c).at = "saving" /\ Updates("online", c).changed = c
    BY DEF Updates, Idle
  <2>3. seen.at = "blocking" /\ seen.plan = pass[p].plan /\ seen.changed
    BY <1>0 DEF PassRecord, Box
  <2>4. Matches => Matches'
    <3>1. UNCHANGED <<box.rewrites, box.lists, box.filters, box.engine>>
      BY <1>0, <1>2 DEF ReadServices, SetServices, ServicesFail, Box
    <3> QED BY <2>1, <3>1 DEF Matches, RewritesMatch, ListsMatch, FiltersMatch, EngineWanted
  <2>5. ~pass[p].changed /\ p \notin touched => Matches'
    <3> SUFFICES ASSUME ~pass[p].changed, p \notin touched PROVE Matches'
      OBVIOUS
    <3>1. pass[p].at = "filtering"
      BY <2>1 DEF SyncInv, Quiet, NothingLeft
    <3> QED BY <2>1, <2>4, <3>1 DEF SyncInv, Found, FoundRight, Matches
  <2>6. row.inSync /\ Row \notin touched => Matches'
    BY <2>1, <2>4, AtRest
  <2>7. pass[p].changed \in BOOLEAN
    BY <1>0 DEF PassRecord
  <2>8. CASE Become(p, skip)
    <3>1. skip.at = "saving" /\ skip.changed = pass[p].changed
      BY <2>2, <2>7
    <3> HIDE DEF skip
    <3> QED BY <2>1, <2>5, <2>6, <2>8, <3>1, PassStep DEF Working
  <2>9. CASE Become(p, Updates("online", TRUE))
    BY <2>1, <2>2, <2>6, <2>9, PassStep DEF Working
  <2>10. CASE pass[p].at = "filtering" /\ Become(p, seen)
    <3> HIDE DEF seen
    <3> QED BY <2>1, <2>3, <2>6, <2>10, PassStep DEF Working
  <2> QED BY <2>1, <2>8, <2>9, <2>10
<1> QED BY <1>1, <1>2

\* Taking the lock, and writing the outcome.
LEMMA EndSteps ==
  ASSUME TypeOK, OnePassPerServer, SyncInv, NEW p \in Passes, Begin(p) \/ Record(p)
  PROVE  SyncInv'
<1> USE PassesAssumption DEF SyncInv, InPass
<1>0. pass \in [Passes -> PassRecord] /\ p # Row
  BY DEF TypeOK
<1>1. CASE Begin(p)
  <2>1. \A q \in Passes : pass[q].at \notin Working /\ pass[q].at # "saving"
    BY <1>1 DEF Begin, Unlocked, OnePassPerServer, Working
  <2>2. /\ pass'[p].at = "listing" /\ pass'[p].plan = wanted
        /\ \A q \in Passes \ {p} : pass'[q] = pass[q]
    BY <1>0, <1>1 DEF Begin, Become, PassRecord
  <2>3. touched' = touched \ {p} /\ UNCHANGED <<wanted, box, row>>
    BY <1>1 DEF Begin
  <2>4. Planned' /\ Fresh' /\ Quiet' /\ Found' /\ Outcome' /\ Still'
    BY <1>0, <2>1, <2>2, <2>3
       DEF Planned, Fresh, Quiet, Found, Outcome, Still, NothingLeft, FoundRight, At
  <2>5. InSyncTruthful'
    BY <1>0, <2>3 DEF InSyncTruthful, Matches, RewritesMatch, ListsMatch, FiltersMatch, EngineWanted
  <2> QED BY <2>4, <2>5
<1>2. CASE Record(p)
  <2>1. \A q \in Passes \ {p} : pass[q].at \notin Working /\ pass[q].at # "saving"
    BY <1>2 DEF Record, At, OnePassPerServer, Working
  <2>2. pass'[p] = Idle /\ \A q \in Passes \ {p} : pass'[q] = pass[q]
    BY <1>0, <1>2 DEF Record, Become
  <2>3. \A q \in Passes : pass'[q].at \notin Working /\ pass'[q].at # "saving"
    BY <2>1, <2>2 DEF Idle, Working
  <2>4. Planned' /\ Fresh' /\ Quiet' /\ Found' /\ Outcome' /\ Still'
    BY <2>3 DEF Planned, Fresh, Quiet, Found, Outcome, Still, At, Working
  <2>5. InSyncTruthful'
    <3> SUFFICES ASSUME row'.inSync, Row \notin touched' PROVE Matches'
      BY DEF InSyncTruthful
    <3>1. p \notin touched
      BY <1>2 DEF Record
    <3>2. InSync(p)
      BY <1>2 DEF Record, TypeOK
    <3>3. Matches
      BY <1>2, <3>1, <3>2 DEF Record, Outcome
    <3> QED BY <1>2, <3>3 DEF Record, Matches, RewritesMatch, ListsMatch, FiltersMatch, EngineWanted
  <2> QED BY <2>4, <2>5
<1> QED BY <1>1, <1>2

\* Every step keeps the invariant.
LEMMA SyncStep == TypeOK /\ OnePassPerServer /\ SyncInv /\ [Next]_vars => SyncInv'
<1> SUFFICES ASSUME TypeOK, OnePassPerServer, SyncInv, [Next]_vars PROVE SyncInv'
  OBVIOUS
<1> USE DEF SyncInv, InPass
<1>0. pass \in [Passes -> PassRecord] /\ Row \notin Passes
  BY PassesAssumption DEF TypeOK
\* Passes may come and go, as long as none is at work that was not before.
<1>1. ASSUME UNCHANGED <<wanted, box, touched>>, row'.inSync => row.inSync,
             \A p \in Passes : pass'[p] = pass[p] \/ pass'[p].at \in {"idle", "due"}
      PROVE  SyncInv'
  <2>1. Planned' /\ Fresh' /\ Quiet' /\ Outcome' /\ Still'
    BY <1>1 DEF Planned, Fresh, Quiet, Outcome, Still, NothingLeft, MissingRewrites,
          ForeignRewrites, At, InSync, Working, Matches, RewritesMatch, ListsMatch, FiltersMatch,
          EngineWanted
  <2>2. Found'
    BY <1>1 DEF Found, FoundRight, Working, RewritesMatch, ListsMatch, FiltersMatch, EngineWanted
  <2>3. InSyncTruthful'
    BY <1>1 DEF InSyncTruthful, Matches, RewritesMatch, ListsMatch, FiltersMatch, EngineWanted
  <2> QED BY <2>1, <2>2, <2>3
\* Whatever changes what is wanted, or the box, puts every view out of date.
<1>2. ASSUME touched' = Passes \cup {Row}, UNCHANGED <<row, pass>> PROVE SyncInv'
  <2>1. \A p \in Passes : p \in touched' /\ (InPass(p)' <=> InPass(p))
    BY <1>2
  <2>2. Planned' /\ Fresh' /\ Found' /\ Outcome' /\ Still' /\ InSyncTruthful'
    BY <1>2, <2>1 DEF Planned, Fresh, Found, Outcome, Still, InSyncTruthful
  <2>3. Quiet'
    BY <1>2 DEF Quiet, NothingLeft, MissingRewrites, ForeignRewrites
  <2> QED BY <2>2, <2>3
<1>3. CASE UNCHANGED vars
  BY <1>1, <1>3 DEF vars
<1>4. ASSUME NEW p \in Passes, NEW forced, NEW dry, Choose(p, forced, dry) PROVE SyncInv'
  <2>1. \A q \in Passes : pass'[q] = pass[q] \/ pass'[q].at = "due"
    BY <1>0, <1>4 DEF Choose, Become, Idle
  <2> QED BY <1>1, <1>4, <2>1 DEF Choose
<1>5. ASSUME NEW p \in Passes, Skip(p) PROVE SyncInv'
  <2>1. \A q \in Passes : pass'[q] = pass[q] \/ pass'[q].at = "idle"
    BY <1>0, <1>5 DEF Skip, Become, Idle
  <2> QED BY <1>1, <1>5, <2>1 DEF Skip
<1>6. ASSUME NEW p \in Passes, Advance(p) \/ ServicesFail(p) \/ Fail(p) PROVE SyncInv'
  BY <1>5, <1>6, RewriteSteps, ListSteps, FilterSteps, ServiceSteps, EndSteps DEF Advance
<1>7. CASE EditRewrites \/ EditLists \/ EditFilters \/ EditServices \/ EditFlags \/ Drift
  BY <1>2, <1>7 DEF EditRewrites, EditLists, EditFilters, EditServices, EditFlags, Edit, Drift
<1>8. CASE RowSteps
  <2>1. UNCHANGED <<wanted, box, pass, touched>> /\ (row'.inSync => row.inSync)
    BY <1>8, RowWritten DEF TypeOK, BoundsType
  <2> QED BY <1>1, <2>1
<1>9. CASE Restart
  <2>1. \A p \in Passes : pass'[p].at = "idle"
    BY <1>9 DEF Restart, Idle
  <2> QED BY <1>1, <1>9, <2>1 DEF Restart
<1> QED BY <1>3, <1>4, <1>6, <1>7, <1>8, <1>9
     DEF Next, ChoosePeriodic, ChooseManual, NothingDue, RowSteps, Passes

\* A row that apply_updates has marked in sync is right until an edit or an
\* outside change later than the snapshot it was decided from, for any policy
\* flags, any number of overlapping passes, failures, lost answers and restarts.
THEOREM InSyncIsTrue == Spec => []InSyncTruthful
<1>1. Init => SyncInv
  BY DEF Init, SyncInv, Planned, Fresh, Quiet, Found, Outcome, Still, InSyncTruthful,
         InPass, Idle, At, Working
<1>2. SyncInv => InSyncTruthful
  BY DEF SyncInv
<1> QED BY <1>1, <1>2, SyncStep, TypeCorrect, OnePass, PTL DEF Spec

-----------------------------------------------------------------------------
\* What is left for p to do was decided by a pass that may do it, under the
\* flags it goes by; the services it sets are made from those there are.
Allowed(p) ==
  /\ At(p, "setting") => "upstreams" \in pass[p].plan.flags
  /\ pass[p].at \in {"filtering", "blocking"} => "filtering" \in pass[p].plan.flags
  /\ At(p, "filtering") =>
       \A c \in pass[p].todo : ~pass[p].dry /\ (c[2] = "absent" => "prune" \in pass[p].plan.flags)
  /\ At(p, "blocking") =>
       ~pass[p].dry /\ (p \notin touched => pass[p].seen.services = box.services)

AllowedInv == \A p \in Passes : Allowed(p)

\* A pass that is at none of the places where something is left is allowed it.
LEMMA AllowedElsewhere ==
  ASSUME TypeOK, OnePassPerServer, AllowedInv, NEW p \in Passes,
         \A q \in Passes \ {p} :
           pass'[q] = pass[q] /\ pass[q].at \notin {"setting", "filtering", "blocking"},
         pass'[p].at \notin {"setting", "filtering", "blocking"}
  PROVE  AllowedInv'
BY DEF AllowedInv, Allowed, At

\* Nobody else is at work beside the pass that has the lock.
LEMMA AloneAtWork ==
  ASSUME TypeOK, OnePassPerServer, NEW p \in Passes, NEW n, Become(p, n),
         InPass(p) \/ lock = None \/ At(p, "saving")
  PROVE  /\ pass'[p] = n
         /\ \A q \in Passes \ {p} :
              pass'[q] = pass[q] /\ pass[q].at \notin {"setting", "filtering", "blocking"}
BY PassesAssumption DEF TypeOK, Become, OnePassPerServer, InPass, Working, At

\* The calls that ReadFilters decides on delete lists only with prune; a call that
\* takes two steps is of a pass that may make it.
LEMMA AllowedFilters ==
  ASSUME TypeOK, OnePassPerServer, AllowedInv, NEW p \in Passes,
         \/ ReadFilters(p) \/ FixEngine(p)
         \/ \E c \in pass[p].todo : FixFilter(p, c[1], c[2]) \/ FixFilterRefused(p, c[1], c[2])
  PROVE  AllowedInv'
<1>0. pass[p] \in PassRecord /\ box \in Box
  BY DEF TypeOK
<1>a. Idle.at = "idle" /\ \A result, changed : Updates(result, changed).at = "saving"
  BY DEF Idle, Updates
<1>b. ASSUME InPass(p), NEW result, NEW changed, Become(p, Updates(result, changed))
      PROVE  AllowedInv'
  BY <1>a, <1>b, AloneAtWork, AllowedElsewhere
<1>1. CASE ReadFilters(p)
  <2> DEFINE plan == pass[p].plan
             calls == FilterCalls(plan, box)
             read == [pass[p] EXCEPT
                        !.at = "filtering", !.todo = IF pass[p].dry THEN {} ELSE calls,
                        !.changed = @ \/ calls # {} \/ EngineToFix(plan, box),
                        !.seen.filters = box.filters, !.seen.engine = box.engine]
  <2>1. /\ InPass(p)
        /\ IF "filtering" \in plan.flags
             THEN Become(p, read) ELSE Become(p, Updates("online", pass[p].changed))
    BY <1>1 DEF ReadFilters, InPass, Working, At
  <2>2. /\ read.at = "filtering" /\ read.plan = pass[p].plan /\ read.dry = pass[p].dry
        /\ read.todo = IF pass[p].dry THEN {} ELSE calls
    BY <1>0 DEF PassRecord, Box
  <2>3. \A c \in calls : c[2] = "absent" => "prune" \in plan.flags
    BY DEF FilterCalls
  <2> HIDE DEF calls, read
  <2>4. CASE "filtering" \in plan.flags
    <3>1. /\ pass'[p] = read
          /\ \A q \in Passes \ {p} :
               pass'[q] = pass[q] /\ pass[q].at \notin {"setting", "filtering", "blocking"}
      BY <2>1, <2>4, AloneAtWork
    <3> QED BY <2>2, <2>3, <2>4, <3>1 DEF AllowedInv, Allowed, At
  <2> QED BY <1>b, <2>1, <2>4
<1>2. ASSUME NEW n, Answered(p, n), At(p, "filtering"), n.at = "filtering",
             n.plan = pass[p].plan, n.dry = pass[p].dry,
             \A c \in n.todo : ~n.dry /\ (c[2] = "absent" => "prune" \in n.plan.flags)
      PROVE  AllowedInv'
  <2>1. InPass(p) /\ "filtering" \in n.plan.flags
    BY <1>2 DEF InPass, At, Working, AllowedInv, Allowed
  <2>2. CASE Become(p, n)
    <3>1. /\ pass'[p] = n
          /\ \A q \in Passes \ {p} :
               pass'[q] = pass[q] /\ pass[q].at \notin {"setting", "filtering", "blocking"}
      BY <2>1, <2>2, AloneAtWork
    <3> QED BY <1>2, <2>1, <3>1 DEF AllowedInv, Allowed, At
  <2> QED BY <1>2, <1>b, <2>1, <2>2 DEF Answered, Failed
<1>3. CASE FixEngine(p)
  <2>1. LET n == [pass[p] EXCEPT !.seen.engine = TRUE]
        IN  n.at = pass[p].at /\ n.plan = pass[p].plan /\ n.dry = pass[p].dry /\ n.todo = pass[p].todo
    BY <1>0 DEF PassRecord, Box
  <2> QED BY <1>2, <1>3, <2>1 DEF FixEngine, AllowedInv, Allowed, At
<1>4. ASSUME NEW c \in pass[p].todo, FixFilter(p, c[1], c[2]) PROVE AllowedInv'
  <2>1. At(p, "filtering") /\ ~pass[p].dry
    BY <1>4 DEF FixFilter, FilterCall, AllowedInv, Allowed
  <2>2. \A t : LET n == [pass[p] EXCEPT !.todo = t]
               IN  n.at = pass[p].at /\ n.plan = pass[p].plan /\ n.dry = pass[p].dry /\ n.todo = t
    BY <1>0 DEF PassRecord
  <2>3. PICK rest : /\ Answered(p, [pass[p] EXCEPT !.todo = rest])
                    /\ \A d \in rest : d \in pass[p].todo \/ d[2] = "disable"
    <3> DEFINE adds == Adds(p, c[1], c[2])
               rest == IF adds /\ c[2] = "off" THEN {<<c[1], "disable">>} ELSE {}
               left == (pass[p].todo \ {<<c[1], c[2]>>}) \cup rest
    <3>1. Answered(p, [pass[p] EXCEPT !.todo = left])
      BY <1>4 DEF FixFilter
    <3>2. \A d \in left : d \in pass[p].todo \/ d[2] = "disable"
      OBVIOUS
    <3> HIDE DEF left
    <3> QED BY <3>1, <3>2
  <2>4. \A d \in rest : d[2] = "absent" => "prune" \in pass[p].plan.flags
    BY <2>1, <2>3 DEF AllowedInv, Allowed
  <2> QED BY <1>2, <2>1, <2>2, <2>3, <2>4 DEF At
<1>5. ASSUME NEW c \in pass[p].todo, FixFilterRefused(p, c[1], c[2]) PROVE AllowedInv'
  <2>1. InPass(p) /\ Become(p, Updates("offline", TRUE))
    BY <1>5 DEF FixFilterRefused, FilterCall, InPass, At, Working, Failed
  <2> QED BY <1>b, <2>1
<1> QED BY <1>1, <1>3, <1>4, <1>5

\* The other steps of a pass.
LEMMA AllowedStep ==
  ASSUME TypeOK, OnePassPerServer, AllowedInv, NEW p \in Passes,
         Advance(p) \/ ServicesFail(p) \/ Fail(p)
  PROVE  AllowedInv'
<1>0. pass[p] \in PassRecord /\ box \in Box
  BY DEF TypeOK
<1>a. Idle.at = "idle" /\ \A result, changed : Updates(result, changed).at = "saving"
  BY DEF Idle, Updates
<1>b. ASSUME NEW n, Become(p, n), InPass(p) \/ lock = None \/ At(p, "saving"),
             n.at \notin {"setting", "filtering", "blocking"}
      PROVE  AllowedInv'
  BY <1>b, AloneAtWork, AllowedElsewhere
<1>c. ASSUME NEW n, Answered(p, n), InPass(p), n.at \notin {"setting", "filtering", "blocking"}
      PROVE  AllowedInv'
  BY <1>a, <1>b, <1>c DEF Answered, Failed
<1>1. CASE Skip(p)
  <2>1. pass'[p] = Idle /\ \A q \in Passes \ {p} : pass'[q] = pass[q]
    BY <1>1 DEF Skip, Become, TypeOK
  <2> QED BY <1>1, <1>a, <2>1 DEF Skip, AllowedInv, Allowed, At
<1>2. CASE Begin(p) \/ Record(p) \/ ListRewrites(p)
  <2>1. [pass[p] EXCEPT !.at = "listing", !.plan = wanted].at = "listing"
    BY <1>0 DEF PassRecord
  <2>2. \A v, w : [pass[p] EXCEPT !.at = "rewriting", !.seen.rewrites = v, !.changed = w].at
                    = "rewriting"
    BY <1>0 DEF PassRecord
  <2>3. CASE Begin(p)
    BY <1>b, <2>1, <2>3 DEF Begin, Unlocked
  <2>4. CASE Record(p)
    BY <1>a, <1>b, <2>4 DEF Record
  <2>5. CASE ListRewrites(p)
    BY <1>b, <2>2, <2>5 DEF ListRewrites, InPass, At, Working
  <2> QED BY <1>2, <2>3, <2>4, <2>5
<1>3. ASSUME NEW r \in Rewrites, AddRewrite(p, r) \/ DeleteRewrite(p, r) PROVE AllowedInv'
  <2>1. InPass(p) /\ pass[p].at = "rewriting"
    BY <1>3 DEF AddRewrite, DeleteRewrite, InPass, At, Working
  <2>2. \A v : [pass[p] EXCEPT !.seen.rewrites = v].at = "rewriting"
    BY <1>0, <2>1 DEF PassRecord
  <2>3. \E n : Answered(p, n) /\ n.at = "rewriting"
    BY <1>3, <2>2 DEF AddRewrite, DeleteRewrite
  <2> QED BY <1>c, <2>1, <2>3
<1>4. CASE ReadUpstreams(p)
  <2> DEFINE look == [pass[p] EXCEPT !.at = "setting", !.seen.lists = box.lists,
                         !.changed = @ \/ ListsToSet(pass[p].plan, box) # {}]
             pass_by == [pass[p] EXCEPT !.at = "set"]
  <2>1. /\ InPass(p)
        /\ IF "upstreams" \in pass[p].plan.flags THEN Become(p, look) ELSE Become(p, pass_by)
    BY <1>4 DEF ReadUpstreams, RewritesDone, InPass, At, Working
  <2>2. look.at = "setting" /\ look.plan = pass[p].plan /\ pass_by.at = "set"
    BY <1>0 DEF PassRecord
  <2> HIDE DEF look, pass_by
  <2>3. CASE "upstreams" \in pass[p].plan.flags
    <3>1. /\ pass'[p] = look
          /\ \A q \in Passes \ {p} :
               pass'[q] = pass[q] /\ pass[q].at \notin {"setting", "filtering", "blocking"}
      BY <2>1, <2>3, AloneAtWork
    <3> QED BY <2>2, <2>3, <3>1 DEF AllowedInv, Allowed, At
  <2> QED BY <1>b, <2>1, <2>2, <2>3
<1>5. CASE SetUpstreams(p)
  <2>1. InPass(p) /\ \E n : n.at = "set" /\ (Become(p, n) \/ Answered(p, n))
    <3>1. [pass[p] EXCEPT !.at = "set"].at = "set"
      BY <1>0 DEF PassRecord
    <3> QED BY <1>5, <3>1 DEF SetUpstreams, InPass, At, Working
  <2> QED BY <1>b, <1>c, <2>1
<1>6. CASE ReadServices(p)
  <2> DEFINE seen == [pass[p] EXCEPT !.at = "blocking", !.changed = TRUE,
                                     !.seen.services = box.services]
  <2>1. /\ InPass(p) /\ pass[p].at = "filtering" /\ UNCHANGED box
        /\ \/ \E changed : Become(p, Updates("online", changed))
           \/ ~pass[p].dry /\ Become(p, seen)
    BY <1>6 DEF ReadServices, FiltersDone, InPass, At, Working
  <2>2. /\ seen.at = "blocking" /\ seen.plan = pass[p].plan /\ seen.dry = pass[p].dry
        /\ seen.seen.services = box.services
    BY <1>0 DEF PassRecord, Box
  <2> HIDE DEF seen
  <2>3. CASE ~pass[p].dry /\ Become(p, seen)
    <3>1. /\ pass'[p] = seen
          /\ \A q \in Passes \ {p} :
               pass'[q] = pass[q] /\ pass[q].at \notin {"setting", "filtering", "blocking"}
      BY <2>1, <2>3, AloneAtWork
    <3>2. "filtering" \in pass[p].plan.flags
      BY <2>1 DEF AllowedInv, Allowed
    <3> QED BY <2>1, <2>2, <2>3, <3>1, <3>2 DEF AllowedInv, Allowed, At
  <2> QED BY <1>a, <1>b, <2>1, <2>3
<1>7. CASE SetServices(p) \/ ServicesFail(p) \/ Fail(p)
  <2>1. InPass(p) /\ \E result, changed : Become(p, Updates(result, changed))
    BY <1>7 DEF SetServices, ServicesFail, FiltersDone, Fail, Failed, InPass, At, Working
  <2> QED BY <1>a, <1>b, <2>1
<1> QED BY <1>1, <1>2, <1>3, <1>4, <1>5, <1>6, <1>7, AllowedFilters DEF Advance

\* Every step keeps it: the others leave the passes, or put their views out of date.
LEMMA AllowedNext == TypeOK /\ OnePassPerServer /\ AllowedInv /\ [Next]_vars => AllowedInv'
<1> SUFFICES ASSUME TypeOK, OnePassPerServer, AllowedInv, [Next]_vars PROVE AllowedInv'
  OBVIOUS
<1>1. ASSUME UNCHANGED pass, UNCHANGED <<box, touched>> \/ touched' = Passes \cup {Row}
      PROVE  AllowedInv'
  BY <1>1 DEF AllowedInv, Allowed, At
<1>2. ASSUME NEW p \in Passes, NEW forced, NEW dry, Choose(p, forced, dry) PROVE AllowedInv'
  <2>1. /\ pass'[p].at = "due" /\ \A q \in Passes \ {p} : pass'[q] = pass[q]
        /\ UNCHANGED <<box, touched>>
    BY <1>2 DEF Choose, Become, Idle, TypeOK
  <2> QED BY <2>1 DEF AllowedInv, Allowed, At
<1>3. ASSUME NEW p \in Passes, Advance(p) \/ ServicesFail(p) \/ Fail(p) PROVE AllowedInv'
  BY <1>3, AllowedStep
<1>4. CASE EditRewrites \/ EditLists \/ EditFilters \/ EditServices \/ EditFlags \/ Drift
  BY <1>1, <1>4 DEF EditRewrites, EditLists, EditFilters, EditServices, EditFlags, Edit, Drift
<1>5. CASE RowSteps \/ UNCHANGED vars
  <2>1. UNCHANGED <<pass, box, touched>>
    BY <1>5, RowWritten DEF vars, TypeOK, BoundsType
  <2> QED BY <1>1, <2>1
<1>6. CASE Restart
  <2>1. \A p \in Passes : pass'[p].at = "idle"
    BY <1>6 DEF Restart, Idle
  <2> QED BY <2>1 DEF AllowedInv, Allowed, At
<1> QED BY <1>2, <1>3, <1>4, <1>5, <1>6
     DEF Next, ChoosePeriodic, ChooseManual, NothingDue, RowSteps, Passes

\* What a change of the box spares under these flags.
Spares(flags) ==
  /\ "prune" \notin flags =>
       /\ box.rewrites \subseteq box'.rewrites
       /\ box.services \subseteq box'.services
       /\ \A u \in Filters : box'.filters[u] = "absent" => box.filters[u] = "absent"
  /\ \A l \in Lists : box'.lists[l] = {} => box.lists[l] = {}
  /\ "upstreams" \notin flags => box'.lists = box.lists
  /\ "filtering" \notin flags => /\ box'.filters = box.filters
                                 /\ box'.services = box.services
                                 /\ box'.engine = box.engine

\* A pass that changes the box is the one that has the lock, is no dry run, and
\* spares what its plan says it must.
LEMMA Sparing ==
  ASSUME TypeOK, OnePassPerServer, AllowedInv, box' # box, NEW p \in Passes, Advance(p)
  PROVE  lock = p /\ ~pass[p].dry /\ InPass(p) /\ (p \notin touched => Spares(pass[p].plan.flags))
<1>0. pass[p] \in PassRecord /\ box \in Box
  BY DEF TypeOK
<1>1. SUFFICES InPass(p) /\ ~pass[p].dry /\ (p \notin touched => Spares(pass[p].plan.flags))
  BY DEF InPass, OnePassPerServer, Working
<1>2. ASSUME NEW r \in Rewrites, AddRewrite(p, r) \/ DeleteRewrite(p, r)
      PROVE  InPass(p) /\ ~pass[p].dry /\ Spares(pass[p].plan.flags)
  <2>1. InPass(p) /\ ~pass[p].dry
    BY <1>2 DEF AddRewrite, DeleteRewrite, InPass, At, Working
  <2>2. /\ box'.lists = box.lists /\ box'.filters = box.filters
        /\ box'.services = box.services /\ box'.engine = box.engine
    BY <1>0, <1>2 DEF AddRewrite, DeleteRewrite, Box
  <2>3. "prune" \notin pass[p].plan.flags => box.rewrites \subseteq box'.rewrites
    BY <1>0, <1>2 DEF AddRewrite, DeleteRewrite, ForeignRewrites, Box
  <2> QED BY <2>1, <2>2, <2>3 DEF Spares
<1>3. CASE SetUpstreams(p)
  <2> DEFINE plan == pass[p].plan
             payload == IF pass[p].dry THEN {} ELSE ListsToSet(plan, pass[p].seen)
             lists == [l \in Lists |-> IF l \in payload THEN plan.lists[l] ELSE box.lists[l]]
  <2>1. /\ InPass(p) /\ "upstreams" \in plan.flags
        /\ box' = [box EXCEPT !.lists = lists]
    BY <1>3 DEF SetUpstreams, InPass, At, Working, AllowedInv, Allowed
  <2>2. /\ box'.lists = lists /\ box'.filters = box.filters /\ box'.rewrites = box.rewrites
        /\ box'.services = box.services /\ box'.engine = box.engine
    BY <1>0, <2>1 DEF Box
  <2>3. payload = {} => box' = box
    <3> SUFFICES ASSUME payload = {} PROVE box' = box
      OBVIOUS
    <3>1. box.lists \in [Lists -> SUBSET Addresses]
      BY <1>0 DEF Box
    <3>2. lists = box.lists
      BY <3>1
    <3> QED BY <1>0, <2>1, <3>2 DEF Box
  <2>4. ~pass[p].dry
    BY <2>3
  <2>5. \A l \in Lists : lists[l] = {} => box.lists[l] = {}
    BY DEF ListsToSet
  <2> QED BY <2>1, <2>2, <2>4, <2>5 DEF Spares
<1>4. ASSUME NEW c \in pass[p].todo, FixFilter(p, c[1], c[2])
      PROVE  InPass(p) /\ ~pass[p].dry /\ Spares(pass[p].plan.flags)
  <2> DEFINE plan == pass[p].plan
             next == IF Adds(p, c[1], c[2]) THEN "on" ELSE IF c[2] = "disable" THEN "off" ELSE c[2]
  <2>1. /\ InPass(p) /\ ~pass[p].dry /\ "filtering" \in plan.flags
        /\ c[2] = "absent" => "prune" \in plan.flags
    BY <1>4 DEF FixFilter, FilterCall, InPass, At, Working, AllowedInv, Allowed
  <2>2. box' = [box EXCEPT !.filters[c[1]] = next]
    BY <1>4 DEF FixFilter
  <2>3. next = "absent" => c[2] = "absent"
    OBVIOUS
  <2> HIDE DEF next
  <2>4. /\ box'.lists = box.lists /\ box'.rewrites = box.rewrites
        /\ box'.services = box.services /\ box'.engine = box.engine
    BY <1>0, <2>2 DEF Box
  <2>5. \A u \in Filters : box'.filters[u] = IF u = c[1] THEN next ELSE box.filters[u]
    BY <1>0, <2>2 DEF Box
  <2> QED BY <2>1, <2>3, <2>4, <2>5 DEF Spares
<1>5. CASE FixEngine(p)
  <2>1. InPass(p) /\ ~pass[p].dry /\ "filtering" \in pass[p].plan.flags
    BY <1>5 DEF FixEngine, InPass, At, Working, AllowedInv, Allowed
  <2>2. /\ box'.lists = box.lists /\ box'.filters = box.filters
        /\ box'.services = box.services /\ box'.rewrites = box.rewrites
    BY <1>0, <1>5 DEF FixEngine, Box
  <2> QED BY <2>1, <2>2 DEF Spares
<1>6. CASE SetServices(p)
  <2>1. /\ InPass(p) /\ ~pass[p].dry /\ "filtering" \in pass[p].plan.flags
        /\ p \notin touched => pass[p].seen.services = box.services
    BY <1>6 DEF SetServices, InPass, At, Working, AllowedInv, Allowed
  <2>2. /\ box'.lists = box.lists /\ box'.filters = box.filters
        /\ box'.engine = box.engine /\ box'.rewrites = box.rewrites
        /\ box'.services = ServicesTarget(pass[p].plan, pass[p].seen.services)
    BY <1>0, <1>6 DEF SetServices, Box
  <2> QED BY <2>1, <2>2 DEF Spares, ServicesTarget
<1>7. CASE UNCHANGED box
  BY <1>7
<1> QED BY <1>2, <1>3, <1>4, <1>5, <1>6, <1>7
     DEF Advance, Skip, Begin, ListRewrites, ReadUpstreams, ReadFilters, FixFilterRefused,
         ReadServices, Record

\* Only the pass that has the lock changes the box, never on a dry run, and it spares
\* what the settings say, if they are still those it knows, for any flags, lists and
\* passes.  (apply_plan, _reconcile_filtering; concepts.md on prune)
THEOREM AskedOnly == Spec => OnlyWhatWasAsked
<1>1. Init => SyncInv /\ AllowedInv
  BY DEF Init, SyncInv, Planned, Fresh, Quiet, Found, Outcome, Still, InSyncTruthful,
         InPass, Idle, At, Working, AllowedInv, Allowed
<1>2. TypeOK /\ OnePassPerServer /\ SyncInv /\ AllowedInv /\ [Next]_vars
      => [box' # box /\ pass' # pass =>
            /\ lock \in Passes /\ ~pass[lock].dry
            /\ lock \notin touched => Spares(wanted.flags)]_vars
  <2> SUFFICES ASSUME TypeOK, OnePassPerServer, SyncInv, AllowedInv, Next,
                      box' # box, pass' # pass
               PROVE  /\ lock \in Passes /\ ~pass[lock].dry
                      /\ lock \notin touched => Spares(wanted.flags)
    OBVIOUS
  <2>1. PICK p \in Passes : Advance(p)
    <3>1. ~RowSteps
      BY RowWritten DEF TypeOK, BoundsType
    <3>2. ~NothingDue /\ ~Restart /\ ~Drift
      BY DEF NothingDue, vars, Restart, Drift
    <3>3. ~(EditRewrites \/ EditLists \/ EditFilters \/ EditServices \/ EditFlags)
      BY DEF EditRewrites, EditLists, EditFilters, EditServices, EditFlags, Edit
    <3>4. /\ ~ChoosePeriodic
          /\ \A p, dry : ~ChooseManual(p, dry) /\ ~ServicesFail(p) /\ ~Fail(p)
      <4>1. /\ \A p, forced, dry : Choose(p, forced, dry) => UNCHANGED box
            /\ \A p : ServicesFail(p) \/ Fail(p) => UNCHANGED box
        BY Zenon DEF Choose, ServicesFail, Fail
      <4> QED BY <4>1 DEF ChoosePeriodic, ChooseManual
    <3> QED BY <3>1, <3>2, <3>3, <3>4 DEF Next, RowSteps
  <2>2. lock = p /\ ~pass[p].dry /\ InPass(p) /\ (p \notin touched => Spares(pass[p].plan.flags))
    BY <2>1, Sparing
  <2>3. p \notin touched => pass[p].plan = wanted
    BY <2>2 DEF SyncInv, Planned
  <2> QED BY <2>2, <2>3
<1> QED BY <1>1, <1>2, SyncStep, AllowedNext, TypeCorrect, OnePass, PTL
     DEF Spec, OnlyWhatWasAsked, Spares
=============================================================================
