--------------------------- MODULE HostsPassProofs ---------------------------
(***************************************************************************)
(* Proofs about HostsPass, for every set of roles and of modes, and any    *)
(* bound on the edits, the passes of the operator and the faults.          *)
(*                                                                         *)
(* BalancerInSync is about one row and one role, but what makes it so is   *)
(* every pass under way at once: a row is fresh only while no pass whose   *)
(* plan is older than an edit can still tell the agent something else      *)
(* (TouchedInv, RowInv), and each pass that is not so old asks the agent   *)
(* for what the rows want and for nothing else (CurrentInv).               *)
(*                                                                         *)
(* The last part is about the host: each role takes only the steps that    *)
(* AgentRole allows (RolesPromise), so that what a pass finds, and what a  *)
(* row says, is true of what runs there (RunsInv).                         *)
(***************************************************************************)
EXTENDS HostsPass, SequenceTheorems, TLAPS

\* The role a balancer's row is about, and the spec its rows ask of it.
Balancer == Main("balancer", conf)
Want == Wanted(conf)[Balancer]

\* A balancer pass whose plan is no older than the last edit, nor met one that is.
Current(t) == pass[t].at # "idle" /\ pass[t].kind = "balancer" /\ t \notin touched

\* A pass with the PUTs todo has one for role r, and asks only for want there.
Due(todo, r) == \E i \in 1 .. Len(todo) : todo[i].role = r
AsksOnly(todo, r, want) == \A i \in 1 .. Len(todo) : todo[i].role = r => todo[i].spec = want

\* Only passes at work are touched, all balancer passes together, and a deletion
\* as soon as the balancer is there again.
TouchedInv ==
  /\ \A t \in touched : Balancing(t)
  /\ touched # {} => \A t \in Tasks : ~Current(t)
  /\ \A t \in Tasks \ touched :
       pass[t].at # "idle" /\ pass[t].kind = "deletion" => ~conf.exists

\* The pass of t plans what is wanted, and has the agent desire it once it has no
\* PUT left to make.
Sound(t) ==
  /\ conf.exists /\ pass[t].main = Balancer
  /\ pass[t].at # "failed" => pass[t].plan[Balancer] = Want
  /\ pass[t].at \in {"calling", "saving"} /\ Want # None =>
       /\ AsksOnly(pass[t].todo, Balancer, Want)
       /\ ~Due(pass[t].todo, Balancer) => roles[Balancer].desired = Want
  /\ pass[t].at = "saving" =>
       pass[t].todo = <<>> /\ (pass[t].synced => Want # None)

CurrentInv == \A t \in Tasks : Current(t) => Sound(t)

\* A host pass makes no PUT for the roles of a balancer.
HostInv ==
  \A t \in Tasks : pass[t].kind = "host" =>
    ~Due(pass[t].todo, "dnsdist") /\ ~Due(pass[t].todo, "keepalived")

\* An agent that is started again desires what it desired before.
StoredInv == \A r \in Roles : roles[r].stored = roles[r].desired

\* What a fresh row says is what its balancer wants, and what the agent desires; no
\* older pass is about then.
RowInv ==
  /\ fresh => touched = {}
  /\ ~conf.exists => ~row.in_sync
  /\ fresh /\ row.in_sync =>
       Want # None /\ row.desired = Want /\ roles[Balancer].desired = Want

\* The inductive invariant.
IInv == TypeOK /\ TouchedInv /\ CurrentInv /\ HostInv /\ StoredInv /\ RowInv
-----------------------------------------------------------------------------
\* One PUT.
CallType == [role : Roles, spec : Specs]

\* A pass at rest.
LEMMA IdleType == \A kind \in Kinds : Idle(kind) \in PassType /\ Idle(kind).todo = <<>>
  /\ Idle(kind).at = "idle" /\ Idle(kind).kind = kind
BY RolesAssumption DEF Idle, PassType

\* What the rows ask is a spec, or nothing, for each role.  (dns_assignments.py, hosts.py)
LEMMA WantedType ==
  ASSUME NEW c \in [exists : BOOLEAN, on : BOOLEAN, mode : Modes, vip : BOOLEAN]
  PROVE  Wanted(c) \in [Roles -> Specs \cup {None}]
<1>1. \A r \in Roles : r \in {"adguard", "ipvs_backend", "dnsdist", "keepalived"}
  BY RolesAssumption
<1>2. c.mode \in {"dnsdist", "ipvs"} /\ c.on \in BOOLEAN
  BY RolesAssumption
<1>3. \A r \in Roles : Wanted(c)[r] \in Specs \cup {None}
  BY <1>1, <1>2 DEF Wanted, Run, Specs
<1> QED BY <1>3 DEF Wanted

\* The role of a balancer is one of its host's, and the same for all its passes.
LEMMA MainType ==
  ASSUME NEW c \in [exists : BOOLEAN, on : BOOLEAN, mode : Modes, vip : BOOLEAN],
         NEW kind \in Kinds
  PROVE  /\ Main(kind, c) \in Roles
         /\ kind # "host" =>
              Main(kind, c) = Main("balancer", c) /\ Main(kind, c) \in {"dnsdist", "keepalived"}
BY RolesAssumption DEF Main

\* Looking at some of the roles keeps the plan for those.
LEMMA OnlyType ==
  ASSUME NEW plan \in [Roles -> Specs \cup {None}], NEW rs
  PROVE  /\ Only(rs, plan) \in [Roles -> Specs \cup {None}]
         /\ \A r \in Roles \cap rs : Only(rs, plan)[r] = plan[r]
BY DEF Only

\* There is no PUT for a role that desires what is planned, or one PUT for it.
LEMMA CallTypes ==
  ASSUME TypeOK, NEW plan \in [Roles -> Specs \cup {None}], NEW r \in Roles
  PROVE  /\ Call(r, plan[r]) \in Seq(CallType)
         /\ \/ Call(r, plan[r]) = <<>>
            \/ \E s \in Specs : Call(r, plan[r]) = <<[role |-> r, spec |-> s]>>
         /\ plan[r] # None =>
              \/ Call(r, plan[r]) = <<>> /\ roles[r].desired = plan[r]
              \/ Call(r, plan[r]) = <<[role |-> r, spec |-> plan[r]]>>
<1>1. Off \in Specs
  BY DEF Off, Specs
<1>2. plan[r] # None => plan[r] \in Specs
  OBVIOUS
<1>3. \A s \in Specs : Put(r, s) \in Seq(CallType)
  BY DEF Put, CallType
<1>4. <<>> \in Seq(CallType)
  OBVIOUS
<1> QED BY <1>1, <1>2, <1>3, <1>4 DEF Call, Put

\* What a pass has to do: at most one PUT for each of its two roles.
LEMMA CallsFacts ==
  ASSUME TypeOK, NEW plan \in [Roles -> Specs \cup {None}], NEW kind \in Kinds
  PROVE  /\ Calls(kind, plan) \in Seq(CallType)
         /\ \A i \in 1 .. Len(Calls(kind, plan)) :
              LET c == Calls(kind, plan)[i]
              IN  /\ kind = "host" => c.role \in {"adguard", "ipvs_backend"}
                  /\ plan[c.role] # None => c.spec = plan[c.role]
         /\ \A r \in Roles \cap {"dnsdist", "keepalived"} :
              kind # "host" /\ plan[r] # None =>
                \/ roles[r].desired = plan[r]
                \/ \E i \in 1 .. Len(Calls(kind, plan)) : Calls(kind, plan)[i].role = r
<1> DEFINE call(r) == IF r \in Roles THEN Call(r, plan[r]) ELSE <<>>
           Both(p, q) == call(p) \o call(q)
           One(r) == \E s \in Specs : /\ call(r) = <<[role |-> r, spec |-> s]>>
                                      /\ plan[r] # None => s = plan[r]
<1>1. \A r : call(r) \in Seq(CallType) /\ (call(r) = <<>> \/ (r \in Roles /\ One(r)))
  <2>1. \A r : r \notin Roles => call(r) = <<>> /\ call(r) \in Seq(CallType)
    OBVIOUS
  <2>2. ASSUME NEW r \in Roles PROVE call(r) \in Seq(CallType) /\ (call(r) = <<>> \/ One(r))
    BY CallTypes
  <2> QED BY <2>1, <2>2
<1>2. ASSUME NEW p, NEW q
      PROVE  /\ Both(p, q) \in Seq(CallType)
             /\ \A i \in 1 .. Len(Both(p, q)) :
                  /\ Both(p, q)[i].role \in {p, q}
                  /\ plan[Both(p, q)[i].role] # None =>
                       Both(p, q)[i].spec = plan[Both(p, q)[i].role]
             /\ \A r \in {p, q} :
                  call(r) = <<>> \/ \E i \in 1 .. Len(Both(p, q)) : Both(p, q)[i].role = r
  <2>1. call(p) \in Seq(CallType) /\ call(q) \in Seq(CallType)
    BY <1>1
  <2>2. \A r \in {p, q} :
          \/ Len(call(r)) = 0 /\ call(r) = <<>>
          \/ /\ Len(call(r)) = 1 /\ call(r)[1].role = r
             /\ plan[r] # None => call(r)[1].spec = plan[r]
    <3>1. ASSUME NEW r \in {p, q}, call(r) # <<>>
          PROVE  /\ Len(call(r)) = 1 /\ call(r)[1].role = r
                 /\ plan[r] # None => call(r)[1].spec = plan[r]
      <4>1. PICK s \in Specs : /\ call(r) = <<[role |-> r, spec |-> s]>>
                               /\ plan[r] # None => s = plan[r]
        <5> HIDE DEF call, One
        <5>1. One(r)
          BY <1>1, <3>1
        <5> QED BY <5>1 DEF One
      <4> HIDE DEF call
      <4>2. Len(call(r)) = 1 /\ call(r)[1] = [role |-> r, spec |-> s]
        BY <4>1
      <4> QED BY <4>1, <4>2
    <3> HIDE DEF call
    <3>2. Len(<<>>) = 0
      OBVIOUS
    <3> QED BY <3>1, <3>2
  <2> HIDE DEF call
  <2>4. Both(p, q) \in Seq(CallType) /\ Len(Both(p, q)) = Len(call(p)) + Len(call(q))
        /\ \A i \in 1 .. Len(Both(p, q)) :
             Both(p, q)[i] = IF i <= Len(call(p)) THEN call(p)[i] ELSE call(q)[i - Len(call(p))]
    BY <2>1
  <2> QED BY <2>2, <2>4
<1>3. Calls(kind, plan) = IF kind = "host" THEN Both("adguard", "ipvs_backend")
                                           ELSE Both("dnsdist", "keepalived")
  BY DEF Calls
<1>4. \A r \in Roles : plan[r] # None /\ call(r) = <<>> => roles[r].desired = plan[r]
  <2>1. ASSUME NEW r \in Roles, plan[r] # None, call(r) = <<>> PROVE roles[r].desired = plan[r]
    <3>1. Call(r, plan[r]) = <<>>
      BY <2>1
    <3>2. <<[role |-> r, spec |-> plan[r]]>> # <<>>
      OBVIOUS
    <3> QED BY <2>1, <3>1, <3>2, CallTypes
  <2> QED BY <2>1
<1> HIDE DEF call, Both
<1> QED BY <1>2, <1>3, <1>4
-----------------------------------------------------------------------------
\* What a pass keeps of itself, its next PUT and those after it.
LEMMA PassTypeFacts ==
  ASSUME TypeOK, NEW t \in Tasks
  PROVE  /\ pass[t] \in PassType /\ pass[t].main \in Roles /\ pass[t].kind \in Kinds
         /\ pass[t].plan \in [Roles -> Specs \cup {None}]
         /\ pass[t].todo \in Seq(CallType)
         /\ pass[t].todo # <<>> =>
              /\ Head(pass[t].todo) \in CallType /\ Tail(pass[t].todo) \in Seq(CallType)
              /\ Head(pass[t].todo) = pass[t].todo[1]
              /\ Len(Tail(pass[t].todo)) = Len(pass[t].todo) - 1
              /\ \A i \in 1 .. Len(pass[t].todo) - 1 : Tail(pass[t].todo)[i] = pass[t].todo[i + 1]
<1>1. pass[t] \in PassType
  BY DEF TypeOK
<1>2. pass[t].todo \in Seq(CallType) /\ pass[t].main \in Roles /\ pass[t].kind \in Kinds
      /\ pass[t].plan \in [Roles -> Specs \cup {None}]
  BY <1>1 DEF PassType, CallType
<1>3. ASSUME NEW s \in Seq(CallType), s # <<>>
      PROVE  /\ Head(s) \in CallType /\ Tail(s) \in Seq(CallType) /\ Head(s) = s[1]
             /\ Len(Tail(s)) = Len(s) - 1
             /\ \A i \in 1 .. Len(s) - 1 : Tail(s)[i] = s[i + 1]
  BY <1>3
<1> QED BY <1>1, <1>2, <1>3

\* A plan keeps the types.
LEMMA PlanType ==
  ASSUME TypeOK, NEW t \in Tasks, NEW kind \in Kinds, Plan(t, kind)
  PROVE  /\ pass' \in [Tasks -> PassType] /\ touched' \subseteq Tasks
         /\ UNCHANGED <<conf, row, ready, roles, fresh>>
<1>1. Idle(kind) \in PassType /\ Wanted(conf) \in [Roles -> Specs \cup {None}]
      /\ Main(kind, conf) \in Roles
  BY IdleType, WantedType, MainType DEF TypeOK
<1>2. Only(RolesOf(kind), Wanted(conf)) \in [Roles -> Specs \cup {None}]
  BY <1>1, OnlyType
<1>3. [Idle(kind) EXCEPT !.at = "planned", !.plan = Only(RolesOf(kind), Wanted(conf)),
                         !.main = Main(kind, conf)] \in PassType
  BY <1>1, <1>2 DEF PassType
<1> QED BY <1>1, <1>3 DEF Plan, Meets, TypeOK

\* So does the end of a pass.
LEMMA EndsType ==
  ASSUME TypeOK, NEW t \in Tasks, Ends(t)
  PROVE  pass' \in [Tasks -> PassType] /\ touched' \subseteq Tasks
<1>1. \A kind \in Kinds : Idle(kind) \in PassType
  BY IdleType
<1>2. (IF t = "cycle" THEN pass[t].kind ELSE "balancer") \in Kinds
  BY PassTypeFacts DEF Kinds
<1> QED BY <1>1, <1>2 DEF Ends, TypeOK

\* So does the row it writes.
LEMMA SaveType ==
  ASSUME TypeOK, NEW t \in Tasks, NEW synced \in BOOLEAN, SaveLb(t, synced)
  PROVE  row' \in [in_sync : BOOLEAN, desired : Specs \cup {None}] /\ fresh' \in BOOLEAN
<1>1. pass[t].plan[pass[t].main] \in Specs \cup {None}
  BY PassTypeFacts
<1>2. CASE UNCHANGED <<row, fresh>>
  BY <1>2 DEF TypeOK
<1>3. CASE /\ row' = [in_sync |-> synced, desired |-> pass[t].plan[pass[t].main]]
           /\ fresh' = (t \notin touched)
  BY <1>1, <1>3
<1> QED BY <1>2, <1>3 DEF SaveLb

\* The steps of a pass keep the types.
LEMMA StepType ==
  ASSUME TypeOK, NEW t \in Tasks, Step(t)
  PROVE  TypeOK'
<1>0. /\ pass[t] \in PassType /\ pass[t].main \in Roles /\ pass[t].kind \in Kinds
      /\ pass[t].plan \in [Roles -> Specs \cup {None}]
  BY PassTypeFacts
<1>1. CASE Info(t)
  <2>1. Calls(pass[t].kind, pass[t].plan) \in Seq([role : Roles, spec : Specs])
    BY <1>0, CallsFacts DEF CallType
  <2>2. Only({pass[t].main}, pass[t].plan) \in [Roles -> Specs \cup {None}]
    BY <1>0, OnlyType
  <2>3. pass'[t] \in PassType
    <3>1. pass'[t] = [pass[t] EXCEPT !.at = "calling",
                                     !.plan = Only({pass[t].main}, pass[t].plan),
                                     !.todo = Calls(pass[t].kind, pass[t].plan)]
      BY <1>1 DEF Info, TypeOK
    <3> QED BY <1>0, <2>1, <2>2, <3>1 DEF PassType
  <2>4. pass' \in [Tasks -> PassType]
    BY <1>1, <2>3 DEF Info, TypeOK
  <2> QED BY <1>1, <2>4 DEF Info, TypeOK, ghosts, bounds
<1>2. CASE PutSpec(t)
  <2> DEFINE call == Head(pass[t].todo)
  <2>1. call \in CallType /\ Tail(pass[t].todo) \in Seq(CallType)
    BY <1>2, PassTypeFacts DEF PutSpec
  <2>2. /\ call.role \in Roles /\ call.spec \in Specs
        /\ Tail(pass[t].todo) \in Seq([role : Roles, spec : Specs])
    BY <2>1 DEF CallType
  <2>3. pass' \in [Tasks -> PassType]
    <3>1. pass'[t] = [pass[t] EXCEPT !.todo = Tail(pass[t].todo)]
      BY <1>2 DEF PutSpec, TypeOK
    <3>2. pass'[t] \in PassType
      BY <1>0, <2>2, <3>1 DEF PassType
    <3> QED BY <1>2, <3>2 DEF PutSpec, TypeOK
  <2>4. roles' = [roles EXCEPT ![call.role] = R!Accept(R!Store(@, call.spec), call.spec)]
    BY <1>2 DEF PutSpec
  <2> HIDE DEF call
  <2>5. roles' \in [Roles -> RoleType]
    <3>1. roles[call.role] \in RoleType
      BY <2>2 DEF TypeOK
    <3>2. R!Accept(R!Store(roles[call.role], call.spec), call.spec) \in RoleType
      BY <2>2, <3>1 DEF RoleType, R!Accept, R!Store
    <3> QED BY <2>4, <3>2 DEF TypeOK
  <2> QED BY <1>2, <2>3, <2>5 DEF PutSpec, TypeOK, ghosts, bounds
<1>3. CASE Read(t)
  <2>1. Synced(roles[pass[t].main], pass[t].kind, pass[t].plan[pass[t].main]) \in BOOLEAN
    <3>1. roles[pass[t].main].ok \in BOOLEAN
      BY <1>0 DEF TypeOK, RoleType
    <3> QED BY <3>1 DEF Synced
  <2>2. pass'[t] = [pass[t] EXCEPT !.at = "saving", 
                     !.synced = Synced(roles[pass[t].main], pass[t].kind, pass[t].plan[pass[t].main])]
    BY <1>3 DEF Read, TypeOK
  <2>3. pass'[t] \in PassType
    BY <1>0, <2>1, <2>2 DEF PassType
  <2> QED BY <1>3, <2>3 DEF Read, TypeOK, ghosts, bounds
<1>4. CASE Save(t)
  <2>1. pass[t].synced \in BOOLEAN
    BY <1>0 DEF PassType
  <2>2. SaveLb(t, pass[t].synced) /\ Ends(t) /\ SaveAgent(t)
    BY <1>4 DEF Save
  <2>3. /\ row' \in [in_sync : BOOLEAN, desired : Specs \cup {None}] /\ fresh' \in BOOLEAN
        /\ pass' \in [Tasks -> PassType] /\ touched' \subseteq Tasks
    BY <2>1, <2>2, SaveType, EndsType
  <2> QED BY <1>4, <2>1, <2>2, <2>3 DEF Save, SaveAgent, TypeOK, bounds
<1>5. CASE SaveFailed(t)
  <2>2. SaveLb(t, FALSE) /\ Ends(t)
    BY <1>5 DEF SaveFailed
  <2>3. /\ row' \in [in_sync : BOOLEAN, desired : Specs \cup {None}] /\ fresh' \in BOOLEAN
        /\ pass' \in [Tasks -> PassType] /\ touched' \subseteq Tasks
    BY <2>2, SaveType, EndsType
  <2> QED BY <1>5, <2>3 DEF SaveFailed, TypeOK, bounds
<1>6. CASE Deleted(t)
  <2>1. pass' \in [Tasks -> PassType] /\ touched' \subseteq Tasks
    BY <1>6, EndsType DEF Deleted
  <2> QED BY <1>6, <2>1 DEF Deleted, TypeOK, bounds
<1> QED BY <1>1, <1>2, <1>3, <1>4, <1>5, <1>6 DEF Step

\* Faults stay under their bound.
LEMMA FaultType ==
  ASSUME TypeOK, Fault
  PROVE  (edits \in 0 .. MaxEdits /\ manual \in 0 .. MaxManual /\ faults \in 0 .. MaxFaults)'
BY BoundsAssumption DEF TypeOK, Fault

\* So do edits.
LEMMA EditType ==
  ASSUME TypeOK, Edit
  PROVE  /\ touched' \subseteq Tasks /\ fresh' = FALSE
         /\ (edits \in 0 .. MaxEdits /\ manual \in 0 .. MaxManual /\ faults \in 0 .. MaxFaults)'
BY BoundsAssumption DEF TypeOK, Edit

\* The operator's steps keep the types.
LEMMA OperatorType ==
  ASSUME TypeOK, Operator
  PROVE  TypeOK'
<1>1. ASSUME NEW kind \in Kinds, OperatorPlan(kind) PROVE TypeOK'
  <2>1. "operator" \in Tasks /\ Plan("operator", kind)
    BY <1>1 DEF OperatorPlan, Tasks
  <2> QED BY <1>1, <2>1, PlanType, BoundsAssumption DEF OperatorPlan, TypeOK
<1>2. ASSUME NEW on \in BOOLEAN, NEW mode \in Modes, CreateLb(on, mode) PROVE TypeOK'
  <2>1. Edit
    BY <1>2 DEF CreateLb
  <2> QED BY <1>2, <2>1, EditType DEF CreateLb, TypeOK
<1>3. ASSUME NEW on \in BOOLEAN, NEW mode \in Modes, UpdateLb(on, mode) PROVE TypeOK'
  <2>1. Edit
    BY <1>3 DEF UpdateLb
  <2> QED BY <1>3, <2>1, EditType DEF UpdateLb, TypeOK
<1>4. ASSUME UpdateZone PROVE TypeOK'
  <2>1. Edit
    BY <1>4 DEF UpdateZone
  <2> QED BY <1>4, <2>1, EditType DEF UpdateZone, TypeOK
<1>5. ASSUME DeleteLb PROVE TypeOK'
  <2>1. Edit
    BY <1>5 DEF DeleteLb
  <2>2. "deletion" \in Kinds /\ Idle("deletion") \in PassType /\ Main("deletion", conf) \in Roles
    BY IdleType, MainType DEF TypeOK, Kinds
  <2>3. [Idle("deletion") EXCEPT !.at = "calling", !.main = Main("deletion", conf),
                                 !.todo = Put(Main("deletion", conf), Off)] \in PassType
    <3>1. Off \in Specs
      BY DEF Off, Specs
    <3>2. Put(Main("deletion", conf), Off) \in Seq([role : Roles, spec : Specs])
      BY <2>2, <3>1 DEF Put
    <3> QED BY <2>2, <3>2 DEF PassType
  <2>4. \A t \in Tasks : [pass[t] EXCEPT !.orphan = @ \/ Balancing(t)] \in PassType
    <3>1. \A p \in PassType, orphan \in BOOLEAN : [p EXCEPT !.orphan = orphan] \in PassType
      BY DEF PassType
    <3>2. \A t \in Tasks : pass[t] \in PassType /\ (pass[t].orphan \/ Balancing(t)) \in BOOLEAN
      BY DEF TypeOK, Balancing
    <3> QED BY <3>1, <3>2
  <2>5. pass' \in [Tasks -> PassType]
    BY <1>5, <2>3, <2>4 DEF DeleteLb
  <2> QED BY <1>5, <2>1, <2>5, EditType DEF DeleteLb, TypeOK
<1> QED BY <1>1, <1>2, <1>3, <1>4, <1>5 DEF Operator

\* The agent's steps keep the types.
LEMMA AgentType ==
  ASSUME TypeOK, NEW r \in Roles, Agent(r)
  PROVE  TypeOK'
<1>0. roles[r] \in RoleType /\ roles \in [Roles -> RoleType]
  BY DEF TypeOK
<1>1. CASE AgentBegin(r)
  <2>1. R!Begin(roles[r]) \in RoleType
    BY <1>0 DEF RoleType, R!Begin
  <2>2. roles' \in [Roles -> RoleType]
    BY <1>0, <1>1, <2>1 DEF AgentBegin
  <2> QED BY <1>1, <2>2 DEF AgentBegin, TypeOK, ghosts, bounds
<1>2. CASE AgentSucceed(r)
  <2>1. R!Succeed(roles[r]) \in RoleType
    BY <1>0 DEF RoleType, R!Succeed
  <2>2. roles' \in [Roles -> RoleType]
    BY <1>0, <1>2, <2>1 DEF AgentSucceed
  <2> QED BY <1>2, <2>2 DEF AgentSucceed, TypeOK, ghosts, bounds
<1>3. CASE AgentFail(r)
  <2>1. PICK left \in R!Left(roles[r]) : roles' = [roles EXCEPT ![r] = R!Fail(@, left)]
    BY <1>3 DEF AgentFail
  <2>2. R!Fail(roles[r], left) \in RoleType
    BY <1>0, <2>1 DEF RoleType, R!Fail, R!Left
  <2>3. roles' \in [Roles -> RoleType]
    BY <1>0, <2>1, <2>2
  <2>4. (edits \in 0 .. MaxEdits /\ manual \in 0 .. MaxManual /\ faults \in 0 .. MaxFaults)'
    BY <1>3, FaultType DEF AgentFail, bounds, TypeOK
  <2> QED BY <1>3, <2>3, <2>4 DEF AgentFail, TypeOK, ghosts
<1> QED BY <1>1, <1>2, <1>3 DEF Agent

\* Every step keeps the types.
LEMMA TypeStep ==
  ASSUME TypeOK, [Next]_vars
  PROVE  TypeOK'
<1>1. ASSUME CyclePlan PROVE TypeOK'
  <2>1. /\ "cycle" \in Tasks
        /\ (IF pass["cycle"].kind = "host" THEN "balancer" ELSE "host") \in Kinds
    BY DEF Tasks, Kinds
  <2> QED BY <1>1, <2>1, PlanType DEF CyclePlan, TypeOK, bounds
<1>2. ASSUME NEW t \in Tasks, Step(t) PROVE TypeOK'
  BY <1>2, StepType
<1>3. ASSUME NEW t \in Tasks, CallFails(t) PROVE TypeOK'
  <2>1. pass[t] \in PassType
    BY PassTypeFacts
  <2>2. pass' \in [Tasks -> PassType]
    <3>1. [pass[t] EXCEPT !.at = "failed"] \in PassType
      BY <2>1 DEF PassType
    <3> QED BY <1>3, <3>1 DEF CallFails, TypeOK
  <2> QED BY <1>3, <2>2, FaultType DEF CallFails, TypeOK, ghosts
<1>4. ASSUME ControlPlaneRestart PROVE TypeOK'
  <2>1. Idle("balancer") \in PassType
    BY IdleType DEF Kinds
  <2>2. pass' \in [Tasks -> PassType]
    BY <1>4, <2>1 DEF ControlPlaneRestart
  <2>3. touched' = {} /\ fresh' \in BOOLEAN
    BY <1>4 DEF ControlPlaneRestart
  <2> QED BY <1>4, <2>2, <2>3, FaultType DEF ControlPlaneRestart, TypeOK
<1>5. ASSUME Operator PROVE TypeOK'
  BY <1>5, OperatorType
<1>6. ASSUME NEW r \in Roles, Agent(r) PROVE TypeOK'
  BY <1>6, AgentType
<1>7. ASSUME AgentRestart PROVE TypeOK'
  <2>1. PICK cut \in SUBSET {r \in Roles : roles[r].working # None} :
          roles' = [r \in Roles |->
            R!Crash(roles[r], roles[r].applied, IF r \in cut THEN Partial ELSE roles[r].host)]
    BY <1>7 DEF AgentRestart
  <2>2. \A r \in Roles :
          R!Crash(roles[r], roles[r].applied, IF r \in cut THEN Partial ELSE roles[r].host)
            \in RoleType
    <3>1. ASSUME NEW r \in Roles, NEW h \in Specs \cup {None, Partial}
          PROVE  R!Crash(roles[r], roles[r].applied, h) \in RoleType
      <4>1. roles[r] \in RoleType
        BY DEF TypeOK
      <4> QED BY <4>1 DEF RoleType, R!Crash
    <3>2. \A r \in Roles : roles[r].host \in Specs \cup {None, Partial}
      BY DEF TypeOK, RoleType
    <3> QED BY <3>1, <3>2
  <2>3. roles' \in [Roles -> RoleType]
    BY <2>1, <2>2
  <2> QED BY <1>7, <2>3, FaultType DEF AgentRestart, TypeOK, ghosts
<1>8. CASE UNCHANGED vars
  BY <1>8 DEF vars, ghosts, bounds, TypeOK
<1> QED BY <1>1, <1>2, <1>3, <1>4, <1>5, <1>6, <1>7, <1>8 DEF Next
-----------------------------------------------------------------------------
\* The inductive invariant but for the types.
Rest == TouchedInv /\ CurrentInv /\ HostInv /\ StoredInv /\ RowInv

\* A balancer pass plans its role.
LEMMA BalancerFacts ==
  ASSUME TypeOK
  PROVE  /\ Balancer \in Roles /\ Balancer \in {"dnsdist", "keepalived"}
         /\ Want \in Specs \cup {None}
         /\ Balancer \in RolesOf("balancer")
BY MainType, WantedType DEF TypeOK, Balancer, Want, Kinds, RolesOf

\* With no PUT left, none is for a role.
LEMMA NothingDue == \A r, want : ~Due(<<>>, r) /\ AsksOnly(<<>>, r, want)
BY DEF Due, AsksOnly

\* A pass stays sound while it rests and the agent desires no less what is wanted.
LEMMA SoundKept ==
  ASSUME Balancer' = Balancer, Want' = Want, conf' = conf, NEW t, pass'[t] = pass[t], Sound(t),
         Want # None /\ roles[Balancer].desired = Want => roles'[Balancer].desired = Want
  PROVE  Sound(t)'
BY DEF Sound, AsksOnly, Due

\* A pass that rests has the same PUTs left.
LEMMA NoPutKept ==
  ASSUME NEW t, NEW r, pass'[t].todo = pass[t].todo, ~Due(pass[t].todo, r)
  PROVE  ~Due(pass[t].todo, r)'
BY DEF Due

\* A pass that begins plans what is wanted now, and is touched if it meets an older one.
LEMMA PlanStep ==
  ASSUME IInv, NEW t \in Tasks, NEW kind \in {"host", "balancer"}, Plan(t, kind)
  PROVE  Rest'
<1>0. /\ TypeOK /\ kind \in Kinds /\ pass[t].at = "idle"
      /\ UNCHANGED <<conf, row, ready, roles, fresh>>
      /\ pass \in [Tasks -> PassType] /\ touched \subseteq Tasks
  BY DEF IInv, Plan, Kinds, TypeOK
<1>1. Balancer' = Balancer /\ Want' = Want
  BY <1>0 DEF Balancer, Want
<1>2. Balancer \in Roles /\ Balancer \in RolesOf("balancer")
  BY <1>0, BalancerFacts
<1>3. Only(RolesOf("balancer"), Wanted(conf))[Balancer] = Want
  BY <1>0, <1>2, WantedType, OnlyType DEF Want, TypeOK
<1>4. t \notin touched
  BY <1>0 DEF IInv, TouchedInv, Balancing
<1>5. /\ Idle(kind).at = "idle" /\ Idle(kind).todo = <<>>
      /\ Idle(kind).kind = kind /\ Idle(kind) \in PassType
  BY <1>0, IdleType
<1>6. CASE kind = "balancer" /\ ~conf.exists
  <2>1. touched' = touched /\ pass'[t] = Idle(kind) /\ \A u \in Tasks \ {t} : pass'[u] = pass[u]
    BY <1>0, <1>6 DEF Plan
  <2>2. TouchedInv'
    BY <1>0, <1>4, <1>5, <2>1 DEF IInv, TouchedInv, Current, Balancing
  <2>3. CurrentInv'
    <3>1. ASSUME NEW u \in Tasks, Current(u)' PROVE Sound(u)'
      <4>1. u # t /\ Current(u) /\ pass'[u] = pass[u]
        BY <1>5, <2>1, <3>1 DEF Current
      <4>2. Sound(u)
        BY <4>1 DEF IInv, CurrentInv
      <4> QED BY <1>0, <1>1, <4>1, <4>2, SoundKept
    <3> QED BY <3>1 DEF CurrentInv
  <2>4. HostInv' /\ StoredInv'
    <3>1. \A u \in Tasks : pass'[u].kind = "host" =>
            pass[u].kind = "host" /\ pass'[u].todo = pass[u].todo
      BY <1>5, <1>6, <2>1
    <3> QED BY <1>0, <3>1, NoPutKept DEF IInv, HostInv, StoredInv
  <2>5. RowInv'
    BY <1>0, <1>1, <2>1 DEF IInv, RowInv
  <2> QED BY <2>2, <2>3, <2>4, <2>5 DEF Rest
<1>7. CASE ~(kind = "balancer" /\ ~conf.exists)
  <2>1. /\ Meets(t, kind) /\ \A u \in Tasks \ {t} : pass'[u] = pass[u]
        /\ pass'[t] = [Idle(kind) EXCEPT !.at = "planned",
                                         !.plan = Only(RolesOf(kind), Wanted(conf)),
                                         !.main = Main(kind, conf)]
    BY <1>0, <1>7 DEF Plan
  <2>2. /\ pass'[t].at = "planned" /\ pass'[t].kind = kind /\ pass'[t].todo = <<>>
        /\ pass'[t].plan = Only(RolesOf(kind), Wanted(conf)) /\ pass'[t].main = Main(kind, conf)
    BY <1>5, <2>1 DEF PassType
  <2>3. touched' = IF kind = "balancer" /\ touched # {} THEN touched \cup {t} ELSE touched
    BY <1>4, <2>1 DEF Meets
  <2>4. TouchedInv'
    <3>1. ASSUME NEW u \in touched' PROVE Balancing(u)'
      <4>1. CASE u = t
        BY <1>4, <2>2, <2>3, <4>1 DEF Balancing
      <4>2. CASE u # t
        BY <1>0, <2>1, <2>3, <4>2 DEF IInv, TouchedInv, Balancing
      <4> QED BY <4>1, <4>2
    <3>2. touched' # {} => \A u \in Tasks : ~Current(u)'
      <4>1. touched' # {} => touched # {} /\ touched \subseteq touched'
        BY <2>3
      <4>2. touched # {} => \A u \in Tasks : ~Current(u)
        BY DEF IInv, TouchedInv
      <4>3. \A u \in Tasks \ {t} : touched \subseteq touched' /\ ~Current(u) => ~Current(u)'
        BY <2>1 DEF Current
      <4>4. touched' # {} => ~Current(t)'
        BY <2>2, <2>3 DEF Current
      <4> QED BY <4>1, <4>2, <4>3, <4>4
    <3>3. \A u \in Tasks \ touched' :
            pass'[u].at # "idle" /\ pass'[u].kind = "deletion" => ~conf'.exists
      BY <1>0, <2>1, <2>2, <2>3 DEF IInv, TouchedInv
    <3> QED BY <3>1, <3>2, <3>3 DEF TouchedInv
  <2>5. CurrentInv'
    <3>1. ASSUME NEW u \in Tasks, Current(u)' PROVE Sound(u)'
      <4>1. CASE u = t
        <5>1. kind = "balancer" /\ conf.exists
          BY <1>7, <2>2, <3>1, <4>1 DEF Current
        <5>2. pass'[t].main = Balancer /\ pass'[t].plan[Balancer] = Want
          BY <1>3, <2>2, <5>1 DEF Balancer
        <5> QED BY <1>0, <1>1, <2>2, <4>1, <5>1, <5>2 DEF Sound
      <4>2. CASE u # t
        <5>1. pass'[u] = pass[u] /\ Current(u)
          BY <2>1, <2>3, <3>1, <4>2 DEF Current
        <5>2. Sound(u)
          BY <5>1 DEF IInv, CurrentInv
        <5> QED BY <1>0, <1>1, <5>1, <5>2, SoundKept
      <4> QED BY <4>1, <4>2
    <3> QED BY <3>1 DEF CurrentInv
  <2>6. HostInv' /\ StoredInv'
    <3>1. ASSUME NEW u \in Tasks, pass'[u].kind = "host"
          PROVE  ~Due(pass[u].todo, "dnsdist")' /\ ~Due(pass[u].todo, "keepalived")'
      <4>1. CASE u = t
        BY <2>2, <4>1, NothingDue DEF Due
      <4>2. CASE u # t
        BY <2>1, <3>1, <4>2, NoPutKept DEF IInv, HostInv
      <4> QED BY <4>1, <4>2
    <3> QED BY <1>0, <3>1 DEF IInv, HostInv, StoredInv
  <2>7. RowInv'
    BY <1>0, <1>1, <2>3 DEF IInv, RowInv
  <2> QED BY <2>4, <2>5, <2>6, <2>7 DEF Rest
<1> QED BY <1>6, <1>7

\* The PUTs of a pass are those its plan lacks on the agent.
LEMMA InfoStep ==
  ASSUME IInv, NEW t \in Tasks, Info(t)
  PROVE  Rest'
<1>0. TypeOK /\ pass[t].at = "planned" /\ UNCHANGED <<conf, row, ready, roles, ghosts, bounds>>
      /\ touched' = touched /\ fresh' = fresh /\ pass[t] \in PassType
      /\ touched \subseteq Tasks
  BY PassTypeFacts DEF IInv, Info, ghosts, TypeOK
<1>1. Balancer' = Balancer /\ Want' = Want /\ Balancer \in Roles \cap {"dnsdist", "keepalived"}
  BY <1>0, BalancerFacts DEF Balancer, Want
<1>2. /\ \A u \in Tasks \ {t} : pass'[u] = pass[u]
      /\ pass'[t] = [pass[t] EXCEPT !.at = "calling", !.plan = Only({pass[t].main}, pass[t].plan),
                                    !.todo = Calls(pass[t].kind, pass[t].plan)]
  BY <1>0 DEF Info, TypeOK
<1>3. /\ pass'[t].at = "calling" /\ pass'[t].kind = pass[t].kind /\ pass'[t].main = pass[t].main
      /\ pass'[t].plan = Only({pass[t].main}, pass[t].plan)
      /\ pass'[t].todo = Calls(pass[t].kind, pass[t].plan)
  BY <1>0, <1>2 DEF PassType
<1>4. /\ pass[t].kind \in Kinds /\ pass[t].main \in Roles
      /\ pass[t].plan \in [Roles -> Specs \cup {None}]
  BY <1>0, PassTypeFacts
<1>9. \A u \in Tasks :
        (pass'[u].at = "idle" <=> pass[u].at = "idle") /\ pass'[u].kind = pass[u].kind
  BY <1>0, <1>2, <1>3
<1>5. TouchedInv'
  BY <1>0, <1>9 DEF IInv, TouchedInv, Current, Balancing
<1>6. CurrentInv'
  <2>1. ASSUME Current(t)
        PROVE  /\ conf.exists /\ pass'[t].main = Balancer /\ pass'[t].plan[Balancer] = Want
               /\ Want # None =>
                    /\ AsksOnly(pass'[t].todo, Balancer, Want)
                    /\ ~Due(pass'[t].todo, Balancer) => roles[Balancer].desired = Want
    <3>1. conf.exists /\ pass[t].main = Balancer /\ pass[t].plan[Balancer] = Want
          /\ pass[t].kind = "balancer"
      BY <1>0, <2>1 DEF IInv, CurrentInv, Current, Sound
    <3>2. pass'[t].plan[Balancer] = Want
      BY <1>1, <1>3, <1>4, <3>1, OnlyType
    <3>3. ASSUME Want # None
          PROVE  /\ AsksOnly(pass'[t].todo, Balancer, Want)
                 /\ ~Due(pass'[t].todo, Balancer) => roles[Balancer].desired = Want
      BY <1>0, <1>1, <1>3, <1>4, <3>1, <3>3, CallsFacts DEF AsksOnly, Due
    <3> QED BY <1>3, <3>1, <3>2, <3>3
  <2>2. Current(t)' => Sound(t)'
    <3>1. Current(t)' => Current(t)
      BY <1>0, <1>3 DEF Current
    <3> QED BY <1>0, <1>1, <1>3, <2>1, <3>1 DEF Sound, AsksOnly, Due
  <2>3. ASSUME NEW u \in Tasks \ {t}, Current(u)' PROVE Sound(u)'
    <3>1. pass'[u] = pass[u] /\ Current(u)
      BY <1>0, <1>2, <2>3 DEF Current
    <3>2. Sound(u)
      BY <3>1 DEF IInv, CurrentInv
    <3> QED BY <1>0, <1>1, <3>1, <3>2, SoundKept
  <2> QED BY <2>2, <2>3 DEF CurrentInv
<1>7. HostInv' /\ StoredInv'
  <2>1. ASSUME pass[t].kind = "host"
        PROVE  ~Due(pass'[t].todo, "dnsdist") /\ ~Due(pass'[t].todo, "keepalived")
    BY <1>0, <1>3, <1>4, <2>1, CallsFacts DEF Due
  <2>2. ASSUME NEW u \in Tasks, pass'[u].kind = "host"
        PROVE  ~Due(pass[u].todo, "dnsdist")' /\ ~Due(pass[u].todo, "keepalived")'
    <3>1. CASE u = t
      BY <1>3, <2>1, <2>2, <3>1 DEF Due
    <3>2. CASE u # t
      BY <1>2, <2>2, <3>2, NoPutKept DEF IInv, HostInv
    <3> QED BY <3>1, <3>2
  <2> QED BY <1>0, <2>2 DEF IInv, HostInv, StoredInv
<1>8. RowInv'
  BY <1>0, <1>1 DEF IInv, RowInv
<1> QED BY <1>5, <1>6, <1>7, <1>8 DEF Rest

\* A PUT of a current pass has the agent desire what is wanted; while there is no older
\* pass, no other PUT is for the balancer's role: a deletion's would be, but then there
\* is no balancer.
LEMMA PutStep ==
  ASSUME IInv, NEW t \in Tasks, PutSpec(t)
  PROVE  Rest'
<1> DEFINE call == Head(pass[t].todo)
           rest == Tail(pass[t].todo)
<1>0. /\ TypeOK /\ pass[t].at = "calling" /\ pass[t].todo # <<>>
      /\ UNCHANGED <<conf, row, ready, ghosts, bounds>> /\ touched' = touched /\ fresh' = fresh
      /\ pass[t] \in PassType /\ touched \subseteq Tasks
  BY PassTypeFacts DEF IInv, PutSpec, ghosts, TypeOK
<1>1. Balancer' = Balancer /\ Want' = Want /\ Balancer \in Roles \cap {"dnsdist", "keepalived"}
  BY <1>0, BalancerFacts DEF Balancer, Want
<1>2. /\ \A u \in Tasks \ {t} : pass'[u] = pass[u]
      /\ pass'[t] = [pass[t] EXCEPT !.todo = rest]
      /\ roles' = [roles EXCEPT ![call.role] = R!Accept(R!Store(@, call.spec), call.spec)]
  BY <1>0 DEF PutSpec, TypeOK
<1>3. /\ call \in CallType /\ call.role \in Roles /\ call.spec \in Specs
      /\ rest \in Seq(CallType)
      /\ call = pass[t].todo[1] /\ Len(rest) = Len(pass[t].todo) - 1
      /\ \A i \in 1 .. Len(pass[t].todo) - 1 : rest[i] = pass[t].todo[i + 1]
      /\ pass[t].todo \in Seq(CallType) /\ Len(pass[t].todo) >= 1
  <2>1. pass[t].todo \in Seq(CallType) /\ Len(pass[t].todo) >= 1
    BY <1>0, PassTypeFacts
  <2> QED BY <1>0, <2>1, PassTypeFacts DEF CallType
<1> HIDE DEF call, rest
<1>4. \A r, want :
        /\ AsksOnly(pass[t].todo, r, want) =>
             AsksOnly(rest, r, want) /\ (call.role = r => call.spec = want)
        /\ Due(pass[t].todo, r) <=> (Due(rest, r) \/ call.role = r)
  <2>1. ASSUME NEW r, NEW want, AsksOnly(pass[t].todo, r, want)
        PROVE  AsksOnly(rest, r, want) /\ (call.role = r => call.spec = want)
    BY <1>3, <2>1 DEF AsksOnly
  <2>2. ASSUME NEW r, Due(rest, r) PROVE Due(pass[t].todo, r)
    BY <1>3, <2>2 DEF Due
  <2>3. ASSUME NEW r, call.role = r PROVE Due(pass[t].todo, r)
    BY <1>3, <2>3 DEF Due
  <2>4. ASSUME NEW r, Due(pass[t].todo, r), call.role # r PROVE Due(rest, r)
    <3>1. PICK i \in 1 .. Len(pass[t].todo) : pass[t].todo[i].role = r
      BY <2>4 DEF Due
    <3>2. i # 1 /\ i - 1 \in 1 .. Len(rest) /\ rest[i - 1] = pass[t].todo[i]
      BY <1>3, <2>4, <3>1
    <3> QED BY <3>1, <3>2 DEF Due
  <2> QED BY <2>1, <2>2, <2>3, <2>4
<1>5. /\ pass'[t].at = "calling" /\ pass'[t].kind = pass[t].kind /\ pass'[t].main = pass[t].main
      /\ pass'[t].plan = pass[t].plan /\ pass'[t].todo = rest
  BY <1>0, <1>2 DEF PassType
<1>6. /\ \A r \in Roles \ {call.role} : roles'[r] = roles[r]
      /\ roles'[call.role].desired = call.spec /\ roles'[call.role].stored = call.spec
  <2>1. roles[call.role] \in RoleType
    BY <1>0, <1>3 DEF TypeOK
  <2>2. roles'[call.role] = R!Accept(R!Store(roles[call.role], call.spec), call.spec)
    BY <1>0, <1>2, <1>3 DEF TypeOK
  <2>3. \A r \in Roles \ {call.role} : roles'[r] = roles[r]
    BY <1>0, <1>2, <1>3 DEF TypeOK
  <2> QED BY <2>1, <2>2, <2>3 DEF R!Accept, R!Store, RoleType
<1>7. ASSUME touched = {}, conf.exists, Want # None, call.role = Balancer
      PROVE  call.spec = Want
  <2>1. pass[t].kind # "host"
    <3>1. Due(pass[t].todo, Balancer)
      BY <1>4, <1>7
    <3> QED BY <1>1, <3>1 DEF IInv, HostInv
  <2>2. pass[t].kind = "balancer"
    BY <1>0, <1>7, <2>1, PassTypeFacts DEF IInv, TouchedInv, Kinds
  <2>3. AsksOnly(pass[t].todo, Balancer, Want)
    BY <1>0, <1>7, <2>2 DEF IInv, CurrentInv, Current, Sound
  <2> QED BY <1>4, <1>7, <2>3
<1>8. touched = {} /\ conf.exists /\ Want # None =>
        roles'[Balancer].desired \in {roles[Balancer].desired, Want}
  BY <1>1, <1>6, <1>7
<1>14. \A u \in Tasks :
        (pass'[u].at = "idle" <=> pass[u].at = "idle") /\ pass'[u].kind = pass[u].kind
  BY <1>0, <1>2, <1>5
<1>9. TouchedInv'
  BY <1>0, <1>14 DEF IInv, TouchedInv, Current, Balancing
<1>10. CurrentInv'
  <2>1. ASSUME NEW u \in Tasks, Current(u) PROVE touched = {} /\ conf.exists /\ Sound(u)
    BY <2>1 DEF IInv, TouchedInv, CurrentInv, Sound
  <2>2. Current(t)' => Sound(t)'
    <3>0. SUFFICES ASSUME Current(t)' PROVE Sound(t)'
      OBVIOUS
    <3>1. touched = {} /\ conf.exists /\ Sound(t)
      BY <1>0, <1>5, <2>1, <3>0 DEF Current
    <3>2. ASSUME Want # None
          PROVE  /\ AsksOnly(rest, Balancer, Want)
                 /\ ~Due(rest, Balancer) => roles'[Balancer].desired = Want
      <4>1. /\ AsksOnly(pass[t].todo, Balancer, Want)
            /\ ~Due(pass[t].todo, Balancer) => roles[Balancer].desired = Want
        BY <1>0, <3>1, <3>2 DEF Sound
      <4>2. call.role = Balancer => roles'[Balancer].desired = Want
        BY <1>6, <1>7, <3>1, <3>2
      <4>3. call.role # Balancer => roles'[Balancer].desired = roles[Balancer].desired
        BY <1>1, <1>6
      <4> QED BY <1>4, <4>1, <4>2, <4>3
    <3>3. pass[t].main = Balancer /\ pass[t].plan[Balancer] = Want
      BY <1>0, <3>1 DEF Sound
    <3> QED BY <1>0, <1>1, <1>5, <3>1, <3>2, <3>3 DEF Sound, AsksOnly, Due
  <2>3. ASSUME NEW u \in Tasks \ {t}, Current(u)' PROVE Sound(u)'
    <3>1. pass'[u] = pass[u] /\ Current(u)
      BY <1>0, <1>2, <2>3 DEF Current
    <3>2. touched = {} /\ conf.exists /\ Sound(u)
      BY <2>1, <3>1
    <3>3. Want # None /\ roles[Balancer].desired = Want => roles'[Balancer].desired = Want
      BY <1>8, <3>2
    <3> QED BY <1>0, <1>1, <3>1, <3>2, <3>3, SoundKept
  <2> QED BY <2>2, <2>3 DEF CurrentInv
<1>11. HostInv'
  <2>1. ASSUME NEW u \in Tasks, pass'[u].kind = "host"
        PROVE  ~Due(pass[u].todo, "dnsdist")' /\ ~Due(pass[u].todo, "keepalived")'
    <3>1. CASE u = t
      <4>1. ~Due(rest, "dnsdist") /\ ~Due(rest, "keepalived")
        BY <1>4, <1>5, <2>1, <3>1 DEF IInv, HostInv
      <4> QED BY <1>5, <3>1, <4>1 DEF Due
    <3>2. CASE u # t
      BY <1>2, <2>1, <3>2, NoPutKept DEF IInv, HostInv
    <3> QED BY <3>1, <3>2
  <2> QED BY <2>1 DEF HostInv
<1>12. StoredInv'
  BY <1>6 DEF IInv, StoredInv
<1>13. RowInv'
  BY <1>0, <1>1, <1>8 DEF IInv, RowInv
<1> QED BY <1>9, <1>10, <1>11, <1>12, <1>13 DEF Rest

\* A pass reads its role after its last PUT.
LEMMA ReadStep ==
  ASSUME IInv, NEW t \in Tasks, Read(t)
  PROVE  Rest'
<1>0. /\ TypeOK /\ pass[t].at = "calling" /\ pass[t].todo = <<>>
      /\ UNCHANGED <<conf, row, ready, roles>> /\ touched' = touched /\ fresh' = fresh
      /\ pass[t] \in PassType /\ touched \subseteq Tasks
  BY PassTypeFacts DEF IInv, Read, ghosts, TypeOK
<1>1. Balancer' = Balancer /\ Want' = Want /\ Balancer \in Roles
  BY <1>0, BalancerFacts DEF Balancer, Want
<1>2. /\ \A u \in Tasks \ {t} : pass'[u] = pass[u]
      /\ pass'[t] = [pass[t] EXCEPT !.at = "saving",
           !.synced = Synced(roles[pass[t].main], pass[t].kind, pass[t].plan[pass[t].main])]
  BY <1>0 DEF Read, TypeOK
<1>3. /\ pass'[t].at = "saving" /\ pass'[t].kind = pass[t].kind /\ pass'[t].main = pass[t].main
      /\ pass'[t].plan = pass[t].plan /\ pass'[t].todo = pass[t].todo
      /\ pass'[t].synced = Synced(roles[pass[t].main], pass[t].kind, pass[t].plan[pass[t].main])
  BY <1>0, <1>2 DEF PassType
<1>4. \A u \in Tasks :
        (pass'[u].at = "idle" <=> pass[u].at = "idle") /\ pass'[u].kind = pass[u].kind
  BY <1>0, <1>2, <1>3
<1>5. TouchedInv'
  BY <1>0, <1>4 DEF IInv, TouchedInv, Current, Balancing
<1>6. CurrentInv'
  <2>1. Current(t)' => Sound(t)'
    <3>0. SUFFICES ASSUME Current(t)' PROVE Sound(t)'
      OBVIOUS
    <3>1. Current(t) /\ pass[t].kind = "balancer"
      BY <1>0, <1>3, <3>0 DEF Current
    <3>2. Sound(t)
      BY <3>1 DEF IInv, CurrentInv
    <3>3. pass'[t].synced => Want # None
      BY <1>0, <1>3, <3>1, <3>2 DEF Sound, Synced
    <3> QED BY <1>0, <1>1, <1>3, <3>2, <3>3 DEF Sound, AsksOnly, Due
  <2>2. ASSUME NEW u \in Tasks \ {t}, Current(u)' PROVE Sound(u)'
    <3>1. pass'[u] = pass[u] /\ Current(u)
      BY <1>0, <1>2, <2>2 DEF Current
    <3>2. Sound(u)
      BY <3>1 DEF IInv, CurrentInv
    <3> QED BY <1>0, <1>1, <3>1, <3>2, SoundKept
  <2> QED BY <2>1, <2>2 DEF CurrentInv
<1>7. HostInv' /\ StoredInv'
  <2>1. \A u \in Tasks : pass'[u].kind = pass[u].kind /\ pass'[u].todo = pass[u].todo
    BY <1>2, <1>3
  <2> QED BY <1>0, <2>1, NoPutKept DEF IInv, HostInv, StoredInv
<1>8. RowInv'
  BY <1>0, <1>1 DEF IInv, RowInv
<1> QED BY <1>5, <1>6, <1>7, <1>8 DEF Rest

\* A pass that fails makes no more PUTs.
LEMMA CallFailsStep ==
  ASSUME IInv, NEW t \in Tasks, CallFails(t)
  PROVE  Rest'
<1>0. /\ TypeOK /\ pass[t].at \in {"planned", "calling"}
      /\ UNCHANGED <<conf, row, ready, roles>> /\ touched' = touched /\ fresh' = fresh
      /\ pass[t] \in PassType /\ touched \subseteq Tasks
  BY PassTypeFacts DEF IInv, CallFails, ghosts, TypeOK
<1>1. Balancer' = Balancer /\ Want' = Want /\ Balancer \in Roles
  BY <1>0, BalancerFacts DEF Balancer, Want
<1>2. /\ \A u \in Tasks \ {t} : pass'[u] = pass[u]
      /\ pass'[t] = [pass[t] EXCEPT !.at = "failed"]
  BY <1>0 DEF CallFails, TypeOK
<1>3. /\ pass'[t].at = "failed" /\ pass'[t].kind = pass[t].kind /\ pass'[t].main = pass[t].main
      /\ pass'[t].plan = pass[t].plan /\ pass'[t].todo = pass[t].todo
  BY <1>0, <1>2 DEF PassType
<1>4. \A u \in Tasks :
        (pass'[u].at = "idle" <=> pass[u].at = "idle") /\ pass'[u].kind = pass[u].kind
  BY <1>0, <1>2, <1>3
<1>5. TouchedInv'
  BY <1>0, <1>4 DEF IInv, TouchedInv, Current, Balancing
<1>6. CurrentInv'
  <2>1. ASSUME NEW u \in Tasks, Current(u)' PROVE Current(u) /\ Sound(u)
    BY <1>0, <1>4, <2>1 DEF IInv, CurrentInv, Current
  <2>2. Current(t)' => Sound(t)'
    BY <1>0, <1>1, <1>3, <2>1 DEF Sound
  <2>3. ASSUME NEW u \in Tasks \ {t}, Current(u)' PROVE Sound(u)'
    BY <1>0, <1>1, <1>2, <2>1, <2>3, SoundKept
  <2> QED BY <2>2, <2>3 DEF CurrentInv
<1>7. HostInv' /\ StoredInv'
  <2>1. \A u \in Tasks : pass'[u].kind = pass[u].kind /\ pass'[u].todo = pass[u].todo
    BY <1>2, <1>3
  <2> QED BY <1>0, <2>1, NoPutKept DEF IInv, HostInv, StoredInv
<1>8. RowInv'
  BY <1>0, <1>1 DEF IInv, RowInv
<1> QED BY <1>5, <1>6, <1>7, <1>8 DEF Rest

\* A pass that is over leaves the others as they were.
LEMMA EndsStep ==
  ASSUME IInv, NEW t \in Tasks, Ends(t), UNCHANGED <<conf, roles>>
  PROVE  /\ TouchedInv' /\ CurrentInv' /\ HostInv' /\ StoredInv'
         /\ touched' \subseteq touched
<1>0. TypeOK /\ touched \subseteq Tasks /\ touched' = touched \ {t}
  BY DEF IInv, TypeOK, Ends
<1>1. Balancer' = Balancer /\ Want' = Want
  BY DEF Balancer, Want
<1>2. /\ \A u \in Tasks \ {t} : pass'[u] = pass[u]
      /\ pass'[t] = Idle(IF t = "cycle" THEN pass[t].kind ELSE "balancer")
  BY <1>0 DEF Ends, TypeOK
<1>3. pass'[t].at = "idle" /\ pass'[t].todo = <<>>
  <2>1. (IF t = "cycle" THEN pass[t].kind ELSE "balancer") \in Kinds
    BY <1>0, PassTypeFacts DEF Kinds
  <2> QED BY <1>2, <2>1, IdleType
<1>4. TouchedInv'
  <2>1. \A u \in touched' : Balancing(u)'
    BY <1>0, <1>2 DEF IInv, TouchedInv, Balancing
  <2>2. touched' # {} => \A u \in Tasks : ~Current(u)'
    BY <1>0, <1>2, <1>3 DEF IInv, TouchedInv, Current
  <2>3. \A u \in Tasks \ touched' :
          pass'[u].at # "idle" /\ pass'[u].kind = "deletion" => ~conf'.exists
    BY <1>0, <1>2, <1>3 DEF IInv, TouchedInv
  <2> QED BY <2>1, <2>2, <2>3 DEF TouchedInv
<1>5. ASSUME NEW u \in Tasks, Current(u)' PROVE Sound(u)'
  <2>1. u # t /\ pass'[u] = pass[u] /\ Current(u)
    BY <1>0, <1>2, <1>3, <1>5 DEF Current
  <2>2. Sound(u)
    BY <2>1 DEF IInv, CurrentInv
  <2> QED BY <1>1, <2>1, <2>2, SoundKept
<1>6. ASSUME NEW u \in Tasks, pass'[u].kind = "host"
      PROVE  ~Due(pass[u].todo, "dnsdist")' /\ ~Due(pass[u].todo, "keepalived")'
  <2>1. CASE u = t
    BY <1>3, <2>1, NothingDue DEF Due
  <2>2. CASE u # t
    BY <1>2, <1>6, <2>2, NoPutKept DEF IInv, HostInv
  <2> QED BY <2>1, <2>2
<1>7. StoredInv'
  BY DEF IInv, StoredInv
<1> QED BY <1>0, <1>4, <1>5, <1>6, <1>7 DEF CurrentInv, HostInv

\* A fresh row that says "in sync" was saved by a current pass.
LEMMA SaveLbStep ==
  ASSUME IInv, NEW t \in Tasks, NEW synced \in BOOLEAN, SaveLb(t, synced), Ends(t),
         UNCHANGED <<conf, roles>>, pass[t].at # "idle",
         synced => pass[t].at = "saving" /\ pass[t].synced
  PROVE  RowInv'
<1>0. Balancer' = Balancer /\ Want' = Want
  BY DEF Balancer, Want
<1>1. touched' \subseteq touched
  BY EndsStep
<1>2. CASE UNCHANGED <<row, fresh>>
  BY <1>0, <1>1, <1>2 DEF IInv, RowInv
<1>3. CASE /\ pass[t].kind = "balancer" /\ conf.exists
           /\ row' = [in_sync |-> synced, desired |-> pass[t].plan[pass[t].main]]
           /\ fresh' = (t \notin touched)
  <2>1. ASSUME t \notin touched
        PROVE  /\ touched = {}
               /\ synced => /\ Want # None /\ pass[t].plan[pass[t].main] = Want
                            /\ roles[Balancer].desired = Want
    <3>1. Current(t)
      BY <1>3, <2>1 DEF Current
    <3>2. Sound(t) /\ touched = {}
      BY <3>1 DEF IInv, CurrentInv, TouchedInv
    <3>3. ASSUME synced PROVE /\ Want # None /\ pass[t].plan[pass[t].main] = Want
                              /\ roles[Balancer].desired = Want
      <4>1. pass[t].at = "saving" /\ pass[t].synced
        BY <3>3
      <4>2. pass[t].todo = <<>> /\ Want # None
        BY <3>2, <4>1 DEF Sound
      <4>3. ~Due(pass[t].todo, Balancer)
        BY <4>2, NothingDue
      <4> QED BY <3>2, <4>1, <4>2, <4>3 DEF Sound
    <3> QED BY <3>2, <3>3
  <2>2. row'.in_sync = synced /\ row'.desired = pass[t].plan[pass[t].main]
    BY <1>3
  <2>3. fresh' => touched' = {}
    BY <1>1, <1>3, <2>1
  <2>4. fresh' /\ row'.in_sync =>
          Want # None /\ row'.desired = Want /\ roles[Balancer].desired = Want
    BY <1>3, <2>1, <2>2
  <2> QED BY <1>0, <1>3, <2>3, <2>4 DEF RowInv
<1> QED BY <1>2, <1>3 DEF SaveLb, IInv, TypeOK

\* A pass that saves, saves its failure, or needs to save nothing, keeps the invariant.
LEMMA SaveStep ==
  ASSUME IInv, NEW t \in Tasks, Save(t) \/ SaveFailed(t) \/ Deleted(t)
  PROVE  Rest'
<1>1. CASE Save(t)
  <2>1. /\ SaveLb(t, pass[t].synced) /\ Ends(t) /\ UNCHANGED <<conf, roles>>
        /\ pass[t].at = "saving" /\ pass[t].synced \in BOOLEAN
    BY <1>1, PassTypeFacts DEF Save, IInv, PassType
  <2> QED BY <2>1, EndsStep, SaveLbStep DEF Rest
<1>2. CASE SaveFailed(t)
  <2>1. SaveLb(t, FALSE) /\ Ends(t) /\ UNCHANGED <<conf, roles>> /\ pass[t].at = "failed"
    BY <1>2 DEF SaveFailed
  <2> QED BY <2>1, EndsStep, SaveLbStep DEF Rest
<1>3. CASE Deleted(t)
  <2>1. Ends(t) /\ UNCHANGED <<conf, row, roles, fresh>>
    BY <1>3 DEF Deleted
  <2>2. Balancer' = Balancer /\ Want' = Want
    BY <2>1 DEF Balancer, Want
  <2>3. RowInv'
    BY <2>1, <2>2, EndsStep DEF IInv, RowInv
  <2> QED BY <2>1, <2>3, EndsStep DEF Rest
<1> QED BY <1>1, <1>2, <1>3

\* No pass outlives the control plane; a row is no fresher for it.
LEMMA RestartStep ==
  ASSUME IInv, ControlPlaneRestart
  PROVE  Rest'
<1>0. /\ UNCHANGED <<conf, row, ready, roles>> /\ touched' = {}
      /\ fresh' = (fresh /\ touched = {})
      /\ pass' = [t \in Tasks |-> Idle("balancer")]
  BY DEF ControlPlaneRestart
<1>1. \A t \in Tasks : pass'[t].at = "idle" /\ pass'[t].todo = <<>>
  BY <1>0, IdleType DEF Kinds
<1>2. Balancer' = Balancer /\ Want' = Want
  BY <1>0 DEF Balancer, Want
<1>3. TouchedInv' /\ CurrentInv'
  BY <1>0, <1>1 DEF TouchedInv, CurrentInv, Current
<1>4. HostInv' /\ StoredInv'
  <2>1. \A t \in Tasks : ~Due(pass[t].todo, "dnsdist")' /\ ~Due(pass[t].todo, "keepalived")'
    BY <1>1, NothingDue DEF Due
  <2> QED BY <1>0, <2>1 DEF HostInv, IInv, StoredInv
<1>5. RowInv'
  BY <1>0, <1>2 DEF IInv, RowInv
<1> QED BY <1>3, <1>4, <1>5 DEF Rest
-----------------------------------------------------------------------------
\* After an edit, every balancer pass under way is touched.
LEMMA EditStep ==
  ASSUME TypeOK, Edit,
         \A t \in Tasks : ~Balancing(t) => pass'[t].at = "idle" \/ pass'[t].kind # "balancer",
         \A t \in Tasks : Balancing(t) => Balancing(t)',
         \A t \in Tasks : ~Balancing(t) /\ pass'[t].at # "idle" /\ pass'[t].kind = "deletion"
            => ~conf'.exists
  PROVE  TouchedInv' /\ CurrentInv'
<1>1. touched' = {t \in Tasks : Balancing(t)}
  BY DEF Edit
<1>2. \A t \in Tasks : ~Current(t)'
  BY <1>1 DEF Current
<1>3. \A t \in touched' : Balancing(t)'
  BY <1>1
<1>4. \A t \in Tasks \ touched' :
        pass'[t].at # "idle" /\ pass'[t].kind = "deletion" => ~conf'.exists
  BY <1>1
<1> QED BY <1>2, <1>3, <1>4 DEF TouchedInv, CurrentInv

\* The operator's steps keep the invariant.
LEMMA OperatorStep ==
  ASSUME IInv, Operator
  PROVE  Rest'
<1>0. TypeOK
  BY DEF IInv
<1>1. ASSUME NEW kind \in Kinds, OperatorPlan(kind) PROVE Rest'
  BY <1>1, PlanStep DEF OperatorPlan, Tasks
<1>2. ASSUME Edit, UNCHANGED <<pass, roles>>,
             conf'.exists \/ (row' = row /\ conf'.exists = conf.exists)
      PROVE  Rest'
  <2>1. pass' = pass /\ fresh' = FALSE
    BY <1>2 DEF Edit
  <2>2. /\ \A t \in Tasks : ~Balancing(t) => pass'[t].at = "idle" \/ pass'[t].kind # "balancer"
        /\ \A t \in Tasks : ~Balancing(t) /\ pass'[t].at # "idle" /\ pass'[t].kind = "deletion"
             => ~conf'.exists
        /\ \A t \in Tasks : Balancing(t) => Balancing(t)'
    BY <2>1 DEF Balancing
  <2>3. TouchedInv' /\ CurrentInv'
    BY <1>0, <1>2, <2>2, EditStep
  <2>4. HostInv' /\ StoredInv'
    BY <1>2, <2>1, NoPutKept DEF IInv, HostInv, StoredInv
  <2>5. RowInv'
    BY <1>2, <2>1 DEF IInv, RowInv
  <2> QED BY <2>3, <2>4, <2>5 DEF Rest
<1>3. ASSUME NEW on \in BOOLEAN, NEW mode \in Modes, CreateLb(on, mode) \/ UpdateLb(on, mode)
      PROVE  Rest'
  <2>1. Edit /\ UNCHANGED <<pass, roles>> /\ conf'.exists
    BY <1>0, <1>3 DEF CreateLb, UpdateLb, TypeOK
  <2> QED BY <1>2, <2>1
<1>4. ASSUME UpdateZone PROVE Rest'
  <2>1. Edit /\ UNCHANGED <<pass, roles, row>> /\ conf'.exists = conf.exists
    BY <1>0, <1>4 DEF UpdateZone, TypeOK
  <2> QED BY <1>2, <2>1
<1>5. ASSUME DeleteLb PROVE Rest'
  <2> DEFINE main == Main("deletion", conf)
             put == Put(main, Off)
  <2>0. /\ Edit /\ pass["deletion"].at = "idle" /\ UNCHANGED roles /\ fresh' = FALSE
        /\ row' = [in_sync |-> FALSE, desired |-> None] /\ "deletion" \in Tasks
    BY <1>5 DEF DeleteLb, Edit, Tasks
  <2>1. /\ pass'["deletion"] =
             [Idle("deletion") EXCEPT !.at = "calling", !.main = main, !.todo = put]
        /\ \A t \in Tasks \ {"deletion"} :
             pass'[t] = [pass[t] EXCEPT !.orphan = @ \/ Balancing(t)]
    BY <1>5, <2>0 DEF DeleteLb
  <2>2. pass'["deletion"].at = "calling" /\ pass'["deletion"].kind = "deletion"
    BY <2>1, IdleType DEF PassType, Kinds
  <2>3. \A t \in Tasks \ {"deletion"} :
          /\ pass'[t].at = pass[t].at /\ pass'[t].kind = pass[t].kind
          /\ pass'[t].todo = pass[t].todo
    <3>1. \A t \in Tasks : pass[t] \in PassType
      BY <1>0 DEF TypeOK
    <3>2. ASSUME NEW p \in PassType, NEW o
          PROVE  LET q == [p EXCEPT !.orphan = o]
                 IN  q.at = p.at /\ q.kind = p.kind /\ q.todo = p.todo
      BY DEF PassType
    <3>3. ASSUME NEW t \in Tasks \ {"deletion"}
          PROVE  pass'[t].at = pass[t].at /\ pass'[t].kind = pass[t].kind
                 /\ pass'[t].todo = pass[t].todo
      <4>1. PICK o : o = (pass[t].orphan \/ Balancing(t))
        OBVIOUS
      <4>2. pass'[t] = [pass[t] EXCEPT !.orphan = o]
        BY <2>1, <4>1, Zenon
      <4> QED BY <3>1, <3>2, <4>2
    <3> QED BY <3>3
  <2>4. ~conf'.exists
    BY <1>0, <1>5 DEF DeleteLb, TypeOK
  <2>5. ~Balancing("deletion")
    BY <2>0 DEF Balancing
  <2>6. /\ \A t \in Tasks : ~Balancing(t) => pass'[t].at = "idle" \/ pass'[t].kind # "balancer"
        /\ \A t \in Tasks : Balancing(t) => Balancing(t)'
    BY <2>2, <2>3, <2>5 DEF Balancing
  <2>7. TouchedInv' /\ CurrentInv'
    BY <1>0, <2>0, <2>4, <2>6, EditStep
  <2>8. HostInv'
    BY <2>2, <2>3, NoPutKept DEF IInv, HostInv
  <2>9. StoredInv'
    BY <2>0 DEF IInv, StoredInv
  <2>10. RowInv'
    BY <2>0 DEF RowInv
  <2> QED BY <2>7, <2>8, <2>9, <2>10 DEF Rest
<1> QED BY <1>1, <1>3, <1>4, <1>5 DEF Operator

\* Whatever else becomes of its roles, the agent desires and keeps the same specs.
LEMMA RolesStep ==
  ASSUME IInv, UNCHANGED <<conf, row, pass, touched, fresh>>,
         \A r \in Roles : /\ roles'[r].desired = roles[r].desired
                           /\ roles'[r].stored = roles[r].stored
  PROVE  Rest'
<1>1. Balancer' = Balancer /\ Want' = Want /\ Balancer \in Roles
  BY BalancerFacts DEF IInv, Balancer, Want
<1>2. TouchedInv'
  BY DEF IInv, TouchedInv, Balancing, Current
<1>3. CurrentInv'
  <2>1. ASSUME NEW u \in Tasks, Current(u)' PROVE Sound(u)'
    <3>1. Sound(u)
      BY <2>1 DEF IInv, CurrentInv, Current
    <3> QED BY <1>1, <3>1, SoundKept
  <2> QED BY <2>1 DEF CurrentInv
<1>4. HostInv'
  BY NoPutKept DEF IInv, HostInv
<1>5. StoredInv'
  BY DEF IInv, StoredInv
<1>6. RowInv'
  BY <1>1 DEF IInv, RowInv
<1> QED BY <1>2, <1>3, <1>4, <1>5, <1>6 DEF Rest

\* So do a pass over a role, and a restart of the agent, which loads what it stored.
LEMMA AgentStep ==
  ASSUME IInv, (\E r \in Roles : Agent(r)) \/ AgentRestart
  PROVE  Rest'
<1>0. roles \in [Roles -> RoleType] /\ \A r \in Roles : roles[r].stored = roles[r].desired
  BY DEF IInv, TypeOK, StoredInv
<1>1. ASSUME NEW r \in Roles, Agent(r) PROVE Rest'
  <2>1. UNCHANGED <<conf, row, pass, touched, fresh>>
    BY <1>1 DEF Agent, AgentBegin, AgentSucceed, AgentFail, ghosts
  <2>2. /\ \A q \in Roles \ {r} : roles'[q] = roles[q]
        /\ roles'[r].desired = roles[r].desired /\ roles'[r].stored = roles[r].stored
    <3>1. CASE AgentBegin(r)
      BY <1>0, <3>1 DEF AgentBegin, R!Begin, RoleType
    <3>2. CASE AgentSucceed(r)
      BY <1>0, <3>2 DEF AgentSucceed, R!Succeed, RoleType
    <3>3. CASE AgentFail(r)
      <4>1. PICK left \in R!Left(roles[r]) : roles' = [roles EXCEPT ![r] = R!Fail(@, left)]
        BY <3>3 DEF AgentFail
      <4> QED BY <1>0, <4>1 DEF R!Fail, RoleType
    <3> QED BY <1>1, <3>1, <3>2, <3>3 DEF Agent
  <2> QED BY <2>1, <2>2, RolesStep
<1>2. ASSUME AgentRestart PROVE Rest'
  <2>1. UNCHANGED <<conf, row, pass, touched, fresh>>
    BY <1>2 DEF AgentRestart, ghosts
  <2>2. PICK cut \in SUBSET {r \in Roles : roles[r].working # None} :
          roles' = [r \in Roles |->
            R!Crash(roles[r], roles[r].applied, IF r \in cut THEN Partial ELSE roles[r].host)]
    BY <1>2 DEF AgentRestart
  <2>3. ASSUME NEW r \in Roles
        PROVE  roles'[r].desired = roles[r].desired /\ roles'[r].stored = roles[r].stored
    <3>1. roles'[r] = R!Crash(roles[r], roles[r].applied,
                              IF r \in cut THEN Partial ELSE roles[r].host)
      BY <2>2
    <3>2. roles[r] \in RoleType /\ roles[r].stored = roles[r].desired
      BY <1>0
    <3> QED BY <3>1, <3>2 DEF R!Crash, RoleType
  <2> QED BY <2>1, <2>3, RolesStep
<1> QED BY <1>1, <1>2

\* The initial states satisfy the invariant.
LEMMA Start ==
  ASSUME Init
  PROVE  IInv
<1>1. \A t \in Tasks : pass[t] = Idle("balancer")
  BY DEF Init
<1>2. /\ Idle("balancer") \in PassType /\ Idle("balancer").todo = <<>>
      /\ Idle("balancer").at = "idle" /\ Idle("balancer").kind = "balancer"
  BY IdleType DEF Kinds
<1>3. TypeOK
  <2>1. conf \in [exists : BOOLEAN, on : BOOLEAN, mode : Modes, vip : BOOLEAN]
    BY DEF Init
  <2>2. roles \in [Roles -> RoleType]
    BY DEF Init, R!Absent, RoleType
  <2>3. pass \in [Tasks -> PassType]
    BY <1>2 DEF Init
  <2>4. row \in [in_sync : BOOLEAN, desired : Specs \cup {None}]
    BY DEF Init
  <2>5. edits \in 0 .. MaxEdits /\ manual \in 0 .. MaxManual /\ faults \in 0 .. MaxFaults
    BY BoundsAssumption DEF Init
  <2>6. ready \in BOOLEAN /\ fresh \in BOOLEAN /\ touched \subseteq Tasks
    BY DEF Init
  <2> QED BY <2>1, <2>2, <2>3, <2>4, <2>5, <2>6 DEF TypeOK
<1>4. TouchedInv /\ CurrentInv
  BY <1>1, <1>2 DEF Init, TouchedInv, CurrentInv, Current
<1>5. HostInv
  BY <1>1, <1>2 DEF HostInv
<1>6. StoredInv
  BY DEF Init, StoredInv, R!Absent
<1>7. RowInv
  BY DEF Init, RowInv
<1> QED BY <1>3, <1>4, <1>5, <1>6, <1>7 DEF IInv

\* Every step keeps it.
LEMMA NextStep ==
  ASSUME IInv, [Next]_vars
  PROVE  IInv'
<1>0. TypeOK'
  BY TypeStep DEF IInv
<1>1. ASSUME CyclePlan PROVE Rest'
  <2>1. (IF pass["cycle"].kind = "host" THEN "balancer" ELSE "host") \in {"host", "balancer"}
        /\ "cycle" \in Tasks
    BY DEF Tasks
  <2> QED BY <1>1, <2>1, PlanStep DEF CyclePlan
<1>2. ASSUME NEW t \in Tasks, Step(t) PROVE Rest'
  BY <1>2, InfoStep, PutStep, ReadStep, SaveStep DEF Step
<1>3. ASSUME NEW t \in Tasks, CallFails(t) PROVE Rest'
  BY <1>3, CallFailsStep
<1>4. ASSUME ControlPlaneRestart PROVE Rest'
  BY <1>4, RestartStep
<1>5. ASSUME Operator PROVE Rest'
  BY <1>5, OperatorStep
<1>6. ASSUME (\E r \in Roles : Agent(r)) \/ AgentRestart PROVE Rest'
  BY <1>6, AgentStep
<1>7. ASSUME UNCHANGED vars PROVE Rest'
  <2>1. UNCHANGED <<conf, row, pass, touched, fresh>> /\ roles' = roles
    BY <1>7 DEF vars, ghosts
  <2> QED BY <2>1, RolesStep
<1>8. ASSUME Next PROVE Rest'
  BY <1>1, <1>2, <1>3, <1>4, <1>5, <1>6, <1>8 DEF Next
<1> QED BY <1>0, <1>7, <1>8 DEF IInv, Rest

\* The inductive invariant holds.
LEMMA Inductive == Spec => []IInv
<1>1. Init => IInv
  BY Start
<1>2. IInv /\ [Next]_vars => IInv'
  BY NextStep
<1> QED BY <1>1, <1>2, PTL DEF Spec

\* Rows, roles and passes are what they should be.  (hosts.py)
THEOREM TypeCorrect == Spec => []TypeOK
<1>1. IInv => TypeOK
  BY DEF IInv
<1> QED BY <1>1, Inductive, PTL

\* A fresh row that says "in sync" is true of what the agent converges to, whatever
\* passes, edits, failures and restarts were interleaved.  (hosts.py _run_lb_plan,
\* _record_lb)
THEOREM InSync == Spec => []BalancerInSync
<1>1. IInv => BalancerInSync
  BY DEF IInv, RowInv, BalancerInSync, Balancer
<1> QED BY <1>1, Inductive, PTL

-----------------------------------------------------------------------------
\* A role that reports success runs the spec it reports.
RunsInv ==
  \A r \in Roles : roles[r].ok => roles[r].applied # None /\ roles[r].host = roles[r].applied

\* What a pass calls "synced" runs on the host when it looks: the main role of the
\* balancer runs the plan, AdGuard runs the spec it reports.  (hosts.py
\* _run_lb_plan's and _reconcile_host's "synced")
FoundRunning ==
  [][\A t \in Tasks : Read(t) /\ pass'[t].synced =>
       LET main == roles[pass[t].main]
       IN  /\ main.applied # None /\ main.host = main.applied
           /\ pass[t].kind = "balancer" => main.host = pass[t].plan[pass[t].main]]_vars

\* When the role of a balancer in sync has no more to do, its host runs it.
InSyncServes == row.in_sync /\ fresh /\ Settled(roles[Balancer]) => AsWanted(Balancer)

\* A role of the agent, as AgentRole promises it.
Role(r) == INSTANCE AgentRole WITH role <- roles[r]

\* A PUT, from the answer back: a spec is stored, then accepted.
PutWhole(r) == \E s \in Specs : roles'[r] = R!Accept(R!Store(roles[r], s), s)

\* Nothing becomes of a role here but what AgentRole lets become of it.
RolesPromise ==
  [][\A r \in Roles : roles'[r] = roles[r] \/ Role(r)!Next \/ PutWhole(r)]_vars

\* The steps that change a role.
LEMMA RoleActions ==
  ASSUME Next
  PROVE  \/ UNCHANGED roles
         \/ \E t \in Tasks : PutSpec(t)
         \/ \E r \in Roles : Agent(r)
         \/ AgentRestart
<1>1. ASSUME NEW t, NEW kind, Plan(t, kind) PROVE UNCHANGED roles
  BY <1>1 DEF Plan
<1>2. CyclePlan => UNCHANGED roles
  BY <1>1, Zenon DEF CyclePlan
<1>3. ASSUME NEW t \in Tasks, Step(t) \/ CallFails(t) PROVE UNCHANGED roles \/ PutSpec(t)
  BY <1>3 DEF Step, Info, Read, Save, SaveFailed, Deleted, CallFails
<1>4. ControlPlaneRestart => UNCHANGED roles
  BY DEF ControlPlaneRestart
<1>5. Operator => UNCHANGED roles
  <2>1. ASSUME NEW kind, OperatorPlan(kind) PROVE UNCHANGED roles
    BY <1>1, <2>1, Zenon DEF OperatorPlan
  <2>2. ASSUME NEW on, NEW mode, CreateLb(on, mode) \/ UpdateLb(on, mode) PROVE UNCHANGED roles
    BY <2>2 DEF CreateLb, UpdateLb
  <2>3. UpdateZone \/ DeleteLb => UNCHANGED roles
    BY DEF UpdateZone, DeleteLb
  <2> QED BY <2>1, <2>2, <2>3 DEF Operator
<1> QED BY <1>2, <1>3, <1>4, <1>5 DEF Next

\* Whatever has to be done with the roles is a step of each.
LEMMA RoleSteps ==
  ASSUME TypeOK, Next, NEW r \in Roles
  PROVE  roles'[r] = roles[r] \/ Role(r)!Next \/ PutWhole(r)
<1>0. roles \in [Roles -> RoleType] /\ pass \in [Tasks -> PassType] /\ roles[r] \in RoleType
  BY DEF TypeOK
<1>1. ASSUME NEW t \in Tasks, PutSpec(t)
      PROVE  roles'[r] = roles[r] \/ Role(r)!Next \/ PutWhole(r)
  <2> DEFINE call == Head(pass[t].todo)
  <2>1. call.role \in Roles /\ call.spec \in Specs
    BY <1>1, PassTypeFacts DEF PutSpec, CallType
  <2>2. roles' = [roles EXCEPT ![call.role] = R!Accept(R!Store(@, call.spec), call.spec)]
    BY <1>1 DEF PutSpec
  <2> HIDE DEF call
  <2> QED BY <1>0, <2>1, <2>2 DEF PutWhole
<1>2. ASSUME NEW q \in Roles, Agent(q)
      PROVE  roles'[r] = roles[r] \/ Role(r)!Next \/ PutWhole(r)
  <2>1. CASE AgentBegin(q)
    <3>1. q # r => roles'[r] = roles[r]
      BY <1>0, <2>1 DEF AgentBegin
    <3>2. q = r => Role(r)!CanBegin(roles[r]) /\ roles'[r] = Role(r)!Begin(roles[r])
      BY <1>0, <2>1 DEF AgentBegin, R!CanBegin, R!Begin, Role!CanBegin, Role!Begin
    <3> QED BY <3>1, <3>2 DEF Role!Next, Role!Pass
  <2>2. CASE AgentSucceed(q)
    <3>1. q # r => roles'[r] = roles[r]
      BY <1>0, <2>2 DEF AgentSucceed
    <3>2. q = r => roles[r].working # None /\ roles'[r] = Role(r)!Succeed(roles[r])
      BY <1>0, <2>2 DEF AgentSucceed, R!Succeed, Role!Succeed
    <3> QED BY <3>1, <3>2 DEF Role!Next, Role!Pass
  <2>3. CASE AgentFail(q)
    <3>1. PICK left \in R!Left(roles[q]) : roles' = [roles EXCEPT ![q] = R!Fail(@, left)]
      BY <2>3 DEF AgentFail
    <3>2. q # r => roles'[r] = roles[r]
      BY <1>0, <3>1
    <3>3. q = r => /\ roles[r].working # None /\ left \in Role(r)!Left(roles[r])
                   /\ roles'[r] = Role(r)!Fail(roles[r], left)
      BY <1>0, <2>3, <3>1 DEF AgentFail, R!Fail, R!Left, Role!Fail, Role!Left
    <3> QED BY <3>2, <3>3 DEF Role!Next, Role!Pass
  <2> QED BY <1>2, <2>1, <2>2, <2>3 DEF Agent
<1>3. ASSUME AgentRestart
      PROVE  roles'[r] = roles[r] \/ Role(r)!Next \/ PutWhole(r)
  <2>1. PICK cut \in SUBSET {q \in Roles : roles[q].working # None} :
          roles' = [q \in Roles |->
            R!Crash(roles[q], roles[q].applied, IF q \in cut THEN Partial ELSE roles[q].host)]
    BY <1>3 DEF AgentRestart
  <2> DEFINE left == IF r \in cut THEN Partial ELSE roles[r].host
  <2>2. left \in Role(r)!Left(roles[r])
    BY <2>1 DEF Role!Left
  <2>3. roles[r].applied \in Role(r)!MaybeSpec
    BY <1>0 DEF RoleType, Role!MaybeSpec
  <2>4. roles'[r] = R!Crash(roles[r], roles[r].applied, left)
    BY <2>1
  <2> HIDE DEF left
  <2>5. roles'[r] = Role(r)!Crash(roles[r], roles[r].applied, left)
    BY <2>4 DEF R!Crash, Role!Crash
  <2> QED BY <2>2, <2>3, <2>5 DEF Role!Next, Role!Environment
<1> QED BY <1>1, <1>2, <1>3, RoleActions

\* Each role of the agent that the passes talk to keeps AgentRole's promise, a
\* whole PUT being two steps of it: with RoleManagerProofs!RoleImplements, what
\* is shown here of the fleet rests on what the agent's role manager does.
THEOREM RolesKept == Spec => RolesPromise
<1>1. TypeOK /\ [Next]_vars =>
        [\A r \in Roles : roles'[r] = roles[r] \/ Role(r)!Next \/ PutWhole(r)]_vars
  BY RoleSteps
<1> QED BY <1>1, TypeCorrect, PTL DEF Spec, RolesPromise

\* A step of a role keeps what its success means.
LEMMA RunsStep ==
  ASSUME TypeOK, RunsInv, [Next]_vars
  PROVE  RunsInv'
<1>0. roles \in [Roles -> RoleType] /\ pass \in [Tasks -> PassType]
  BY DEF TypeOK
<1>1. CASE UNCHANGED roles
  BY <1>1 DEF RunsInv
<1>2. ASSUME NEW t \in Tasks, PutSpec(t) PROVE RunsInv'
  <2> DEFINE call == Head(pass[t].todo)
  <2>1. call.role \in Roles /\ call.spec \in Specs
    BY <1>2, PassTypeFacts DEF PutSpec, CallType
  <2>2. roles' = [roles EXCEPT ![call.role] = R!Accept(R!Store(@, call.spec), call.spec)]
    BY <1>2 DEF PutSpec
  <2> HIDE DEF call
  <2>3. \A q \in Roles \ {call.role} : roles'[q] = roles[q]
    BY <1>0, <2>2
  <2>4. ASSUME NEW r \in RoleType, NEW s \in Specs
        PROVE  LET next == R!Accept(R!Store(r, s), s)
               IN  (next.ok => r.ok) /\ next.applied = r.applied /\ next.host = r.host
    BY DEF R!Accept, R!Store, RoleType
  <2>5. roles'[call.role] = R!Accept(R!Store(roles[call.role], call.spec), call.spec)
    BY <1>0, <2>1, <2>2
  <2>6. /\ roles'[call.role].ok => roles[call.role].ok
        /\ roles'[call.role].applied = roles[call.role].applied
        /\ roles'[call.role].host = roles[call.role].host
    BY <1>0, <2>1, <2>4, <2>5
  <2> QED BY <2>3, <2>6 DEF RunsInv
<1>3. ASSUME NEW q \in Roles, Agent(q) PROVE RunsInv'
  <2>1. \A r \in Roles \ {q} : roles'[r] = roles[r]
    BY <1>0, <1>3 DEF Agent, AgentBegin, AgentSucceed, AgentFail
  <2>2. roles'[q].ok => roles'[q].applied # None /\ roles'[q].host = roles'[q].applied
    <3>1. CASE AgentBegin(q)
      <4>1. roles'[q] = R!Begin(roles[q])
        BY <1>0, <3>1 DEF AgentBegin
      <4>2. /\ R!Begin(roles[q]).ok = roles[q].ok
            /\ R!Begin(roles[q]).applied = roles[q].applied
            /\ R!Begin(roles[q]).host = roles[q].host
        BY <1>0 DEF R!Begin, RoleType
      <4> QED BY <4>1, <4>2 DEF RunsInv
    <3>2. CASE AgentSucceed(q)
      BY <1>0, <3>2 DEF AgentSucceed, R!Succeed, RoleType
    <3>3. CASE AgentFail(q)
      <4>1. PICK left \in R!Left(roles[q]) : roles' = [roles EXCEPT ![q] = R!Fail(@, left)]
        BY <3>3 DEF AgentFail
      <4> QED BY <1>0, <4>1 DEF R!Fail, RoleType
    <3> QED BY <1>3, <3>1, <3>2, <3>3 DEF Agent
  <2> QED BY <2>1, <2>2 DEF RunsInv
<1>4. ASSUME AgentRestart PROVE RunsInv'
  <2>1. PICK cut \in SUBSET {q \in Roles : roles[q].working # None} :
          roles' = [q \in Roles |->
            R!Crash(roles[q], roles[q].applied, IF q \in cut THEN Partial ELSE roles[q].host)]
    BY <1>4 DEF AgentRestart
  <2>2. ASSUME NEW r \in RoleType, NEW applied, NEW left
        PROVE  R!Crash(r, applied, left).ok = FALSE
    BY DEF R!Crash, RoleType
  <2>3. \A q \in Roles : roles'[q].ok = FALSE
    BY <1>0, <2>1, <2>2
  <2> QED BY <2>3 DEF RunsInv
<1> QED BY <1>1, <1>2, <1>3, <1>4, RoleActions DEF vars

LEMMA RunsAlways == Spec => []RunsInv
<1>1. Init => RunsInv
  BY DEF Init, RunsInv, R!Absent
<1> QED BY <1>1, RunsStep, TypeCorrect, PTL DEF Spec

\* What a pass writes down as "synced" was on the host when it asked, whatever
\* the agent was doing and however often it had been started again.
THEOREM SyncedRuns == Spec => FoundRunning
<1>1. TypeOK /\ RunsInv /\ [Next]_vars =>
        [\A t \in Tasks : Read(t) /\ pass'[t].synced =>
           LET main == roles[pass[t].main]
           IN  /\ main.applied # None /\ main.host = main.applied
               /\ pass[t].kind = "balancer" => main.host = pass[t].plan[pass[t].main]]_vars
  <2> SUFFICES ASSUME TypeOK, RunsInv, NEW t \in Tasks, Read(t), pass'[t].synced
               PROVE  /\ roles[pass[t].main].applied # None
                      /\ roles[pass[t].main].host = roles[pass[t].main].applied
                      /\ pass[t].kind = "balancer" =>
                           roles[pass[t].main].host = pass[t].plan[pass[t].main]
    OBVIOUS
  <2> DEFINE found == Synced(roles[pass[t].main], pass[t].kind, pass[t].plan[pass[t].main])
  <2>1. pass' = [pass EXCEPT ![t].at = "saving", ![t].synced = found]
    BY DEF Read
  <2> HIDE DEF found
  <2>2. pass[t] \in PassType /\ pass \in [Tasks -> PassType] /\ pass[t].main \in Roles
    BY PassTypeFacts DEF TypeOK
  <2>3. found
    BY <2>1, <2>2 DEF PassType
  <2> QED BY <2>2, <2>3 DEF found, Synced, RunsInv
<1> QED BY <1>1, RunsAlways, TypeCorrect, PTL DEF Spec, FoundRunning

\* A row that says "in sync" is true of the host itself, once the role has
\* done what it was asked.  (hosts.py _record_lb)
THEOREM RowsAreTrue == Spec => []InSyncServes
<1>1. IInv => InSyncServes
  <2> SUFFICES ASSUME IInv, row.in_sync, fresh, Settled(roles[Balancer]) PROVE AsWanted(Balancer)
    BY DEF InSyncServes
  <2>1. Want # None /\ roles[Balancer].desired = Want
    BY DEF IInv, RowInv
  <2> QED BY <2>1 DEF Settled, AsWanted, Want
<1> QED BY <1>1, Inductive, PTL
==============================================================================
