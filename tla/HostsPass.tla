----------------------------- MODULE HostsPass -----------------------------
(***************************************************************************)
(* The passes of hosts.py over one host, its agent and its load balancer.  *)
(*                                                                         *)
(* A host pass tells the agent what AdGuard and the direct-routing backend *)
(* are to do; a balancer pass tells it about dnsdist and keepalived.  The  *)
(* sync cycle makes one after the other, for ever; the operator may start  *)
(* either at any time, and the deletion of a balancer tells the host to    *)
(* stop.  Nothing excludes these from one another.                         *)
(*                                                                         *)
(* Each role of the agent keeps the promise of AgentRole, which            *)
(* RoleManager implements, and nothing more is known of it here.           *)
(***************************************************************************)
EXTENDS Naturals, Sequences, FiniteSets

CONSTANTS
  Roles,      \* the roles of the agent that are looked at
  Modes,      \* the modes of a balancer that are looked at
  None,       \* no spec
  Partial,    \* a host left part-way
  MaxEdits,   \* bound: edits and deletions by the operator
  MaxManual,  \* bound: passes the operator starts
  MaxFaults   \* bound: lost calls, failed converges, crashes and updates of the agent

ASSUME RolesAssumption ==
  /\ {"adguard", "dnsdist"} \subseteq Roles
  /\ Roles \subseteq {"adguard", "ipvs_backend", "dnsdist", "keepalived"}
  /\ Modes \subseteq {"dnsdist", "ipvs"} /\ Modes # {}
  /\ "ipvs" \in Modes => "keepalived" \in Roles
ASSUME BoundsAssumption == MaxEdits \in Nat /\ MaxManual \in Nat /\ MaxFaults \in Nat

Kinds == {"host", "balancer", "deletion"}
Tasks == {"cycle", "operator", "deletion"}

VARIABLES
  conf,     \* the balancer's row, if it exists, and its zone's VIP
  row,      \* the balancer's in_sync and desired_hash
  ready,    \* the server's agent_state says "ready"
  roles,    \* the agent's roles
  pass,     \* what each task of the control plane is doing
  touched,  \* ghost: balancer passes whose plan is older than an edit, and those they met
  fresh,    \* ghost: the row was written by a pass not among those, and nothing was edited since
  edits, manual, faults

bounds == <<edits, manual, faults>>
ghosts == <<touched, fresh>>
vars == <<conf, row, ready, roles, pass, ghosts, bounds>>

\* A spec is what is to run and whether it is to run at all.  dns_port is 53.
Specs == [on : BOOLEAN, what : {"all", "loopback", "vip", "dnsdist", "ipvs", "nothing"}]
Run(what) == [on |-> TRUE, what |-> what]
Off == [on |-> FALSE, what |-> "nothing"]

R == INSTANCE AgentRole WITH role <- roles

Idle(kind) == [at |-> "idle", kind |-> kind, plan |-> [r \in Roles |-> None],
               main |-> "adguard", todo |-> <<>>, synced |-> FALSE, orphan |-> FALSE]

RoleType ==
  [stored : Specs \cup {None}, desired : Specs \cup {None}, applied : Specs \cup {None},
   ok : BOOLEAN, working : Specs \cup {None}, wiping : {FALSE},
   host : Specs \cup {None, Partial}, disturbed : {FALSE}]

\* What a task does: its plan for the roles, the role it is measured against,
\* the PUTs to make, what it found, and whether its balancer was deleted since.
PassType ==
  [at : {"idle", "planned", "calling", "saving", "failed"}, kind : Kinds,
   plan : [Roles -> Specs \cup {None}], main : Roles,
   todo : Seq([role : Roles, spec : Specs]), synced : BOOLEAN, orphan : BOOLEAN]

TypeOK ==
  /\ conf \in [exists : BOOLEAN, on : BOOLEAN, mode : Modes, vip : BOOLEAN]
  /\ row \in [in_sync : BOOLEAN, desired : Specs \cup {None}]
  /\ ready \in BOOLEAN
  /\ roles \in [Roles -> RoleType]
  /\ pass \in [Tasks -> PassType]
  /\ touched \subseteq Tasks
  /\ fresh \in BOOLEAN
  /\ edits \in 0 .. MaxEdits /\ manual \in 0 .. MaxManual /\ faults \in 0 .. MaxFaults

Fault == faults < MaxFaults /\ faults' = faults + 1 /\ UNCHANGED <<edits, manual>>

-----------------------------------------------------------------------------
\* What the rows ask of the host

\* Mutant: AdGuard keeps every address beside a dnsdist balancer.
Colocated_Never(c) == FALSE

\* A dnsdist balancer owns :53 and pushes AdGuard to loopback.
Colocated(c) == c.exists /\ c.on /\ c.mode = "dnsdist"

DirectRouting(c) == c.exists /\ c.mode = "ipvs" /\ c.vip

Wanted(c) ==
  [r \in Roles |->
    CASE r = "adguard" -> Run(IF Colocated(c) THEN "loopback" ELSE "all")
      [] r = "ipvs_backend" -> IF DirectRouting(c) THEN Run("vip") ELSE None
      [] r = "dnsdist" -> IF c.mode = "dnsdist" THEN [on |-> c.on, what |-> "dnsdist"] ELSE None
      [] r = "keepalived" -> IF c.vip THEN [on |-> c.on, what |-> c.mode] ELSE None]

\* The role "in sync" is measured against.
\* Mutant: dnsdist, whatever the mode.
Main_Dnsdist(kind, c) == IF kind = "host" THEN "adguard" ELSE "dnsdist"

Main(kind, c) ==
  CASE kind = "host" -> "adguard"
    [] c.mode = "ipvs" -> "keepalived"
    [] OTHER -> "dnsdist"

-----------------------------------------------------------------------------
\* A pass

Balancing(t) == pass[t].at # "idle" /\ pass[t].kind # "host"

\* A balancer pass is touched from the start when it meets one that is.
Meets(t, kind) ==
  touched' = IF kind # "host" /\ touched \ {t} # {} THEN touched \cup {t} ELSE touched

RolesOf(kind) == Roles \cap (IF kind = "host" THEN {"adguard", "ipvs_backend"}
                                              ELSE {"dnsdist", "keepalived"})
Only(rs, plan) == [r \in Roles |-> IF r \in rs THEN plan[r] ELSE None]

\* A balancer whose row is gone has no plan.
Plan(t, kind) ==
  /\ pass[t].at = "idle"
  /\ IF kind = "balancer" /\ ~conf.exists
       THEN pass' = [pass EXCEPT ![t] = Idle(kind)] /\ UNCHANGED touched
       ELSE /\ pass' = [pass EXCEPT ![t] =
                 [Idle(kind) EXCEPT !.at = "planned", !.plan = Only(RolesOf(kind), Wanted(conf)),
                                    !.main = Main(kind, conf)]]
            /\ Meets(t, kind)
  /\ UNCHANGED <<conf, row, ready, roles, fresh>>

\* Agents first, balancers last.
CyclePlan ==
  /\ Plan("cycle", IF pass["cycle"].kind = "host" THEN "balancer" ELSE "host")
  /\ UNCHANGED bounds

\* "Sync now" of a balancer, "Refresh" of a host.
OperatorPlan(kind) ==
  /\ kind \in {"host", "balancer"}
  /\ kind = "balancer" => conf.exists
  /\ manual < MaxManual /\ manual' = manual + 1
  /\ Plan("operator", kind)
  /\ UNCHANGED <<edits, faults>>

\* The PUTs, from the hashes the agent said it desires: of a spec that differs,
\* and to stand down a role that is not wanted but has one.
Put(r, s) == <<[role |-> r, spec |-> s]>>

\* Mutant: compared with the spec the agent applied.
Call_Applied(r, want) ==
  CASE want = None /\ roles[r].desired = None -> <<>>
    [] want = None /\ roles[r].desired # None -> Put(r, Off)
    [] want # None /\ roles[r].applied = want -> <<>>
    [] OTHER -> Put(r, want)

Call(r, want) ==
  CASE want = None /\ roles[r].desired = None -> <<>>
    [] want = None /\ roles[r].desired # None -> Put(r, Off)
    [] want # None /\ roles[r].desired = want -> <<>>
    [] OTHER -> Put(r, want)

Calls(kind, plan) ==
  LET call(r) == IF r \in Roles THEN Call(r, plan[r]) ELSE <<>>
  IN  IF kind = "host" THEN call("adguard") \o call("ipvs_backend")
                       ELSE call("dnsdist") \o call("keepalived")

Info(t) ==
  /\ pass[t].at = "planned"
  /\ pass' = [pass EXCEPT ![t].at = "calling", ![t].plan = Only({pass[t].main}, @),
                         ![t].todo = Calls(pass[t].kind, pass[t].plan)]
  /\ UNCHANGED <<conf, row, ready, roles, ghosts, bounds>>

\* The agent stores a spec, takes it in memory and answers.  That overlapping
\* PUTs of one role may mix is for RoleManager to show; here a PUT is one step.
PutSpec(t) ==
  /\ pass[t].at = "calling" /\ pass[t].todo # <<>>
  /\ LET call == Head(pass[t].todo)
     IN  roles' = [roles EXCEPT ![call.role] = R!Accept(R!Store(@, call.spec), call.spec)]
  /\ pass' = [pass EXCEPT ![t].todo = Tail(@)]
  /\ UNCHANGED <<conf, row, ready, ghosts, bounds>>

\* What the main role says of itself, and what the pass makes of it.  A
\* deletion does not look.
Synced(r, kind, want) == r.ok /\ (kind = "host" \/ (want # None /\ r.applied = want))

Read(t) ==
  /\ pass[t].at = "calling" /\ pass[t].todo = <<>> /\ pass[t].kind # "deletion"
  /\ LET main == pass[t].main
     IN  pass' = [pass EXCEPT ![t].at = "saving",
                    ![t].synced = Synced(roles[main], pass[t].kind, pass[t].plan[main])]
  /\ UNCHANGED <<conf, row, ready, roles, ghosts, bounds>>

Ends(t) ==
  /\ pass' = [pass EXCEPT ![t] = Idle(IF t = "cycle" THEN @.kind ELSE "balancer")]
  /\ touched' = touched \ {t}

\* The outcome goes to the row of that id: a balancer made since then may have
\* been given the id of a deleted one, or not.
SaveLb(t, synced) ==
  IF pass[t].kind # "balancer" THEN UNCHANGED <<row, fresh>>
  ELSE \/ /\ conf.exists
          /\ row' = [in_sync |-> synced, desired |-> pass[t].plan[pass[t].main]]
          /\ fresh' = (t \notin touched)
       \/ (~conf.exists \/ pass[t].orphan) /\ UNCHANGED <<row, fresh>>

SaveAgent(t) ==
  ready' = IF pass[t].kind = "host" THEN pass[t].synced ELSE ready

Save(t) ==
  /\ pass[t].at = "saving"
  /\ SaveLb(t, pass[t].synced)
  /\ SaveAgent(t)
  /\ Ends(t)
  /\ UNCHANGED <<conf, roles, bounds>>

\* A deletion is over after its PUT.
Deleted(t) ==
  /\ pass[t].at = "calling" /\ pass[t].todo = <<>> /\ pass[t].kind = "deletion"
  /\ Ends(t)
  /\ UNCHANGED <<conf, row, ready, roles, fresh, bounds>>

\* A call fails before it takes effect, or its answer is lost: as good as the
\* failure of the next one.
CallFails(t) ==
  /\ pass[t].at \in {"planned", "calling"}
  /\ Fault
  /\ pass' = [pass EXCEPT ![t].at = "failed"]
  /\ UNCHANGED <<conf, row, ready, roles, ghosts>>

\* A failed pass says so of the balancer.  agent_state stays as it was, unless
\* it was the look at the role that failed.
SaveFailed(t) ==
  /\ pass[t].at = "failed"
  /\ SaveLb(t, FALSE)
  /\ ready' \in (IF pass[t].kind = "host" THEN {ready, FALSE} ELSE {ready})
  /\ Ends(t)
  /\ UNCHANGED <<conf, roles, bounds>>

\* The control plane dies and is started again: the cycle begins anew.
ControlPlaneRestart ==
  /\ Fault
  /\ \E t \in Tasks : pass[t].at # "idle"
  /\ pass' = [t \in Tasks |-> Idle("balancer")]
  /\ touched' = {}
  /\ fresh' = (fresh /\ touched = {})
  /\ UNCHANGED <<conf, row, ready, roles>>

-----------------------------------------------------------------------------
\* The operator

Edit ==
  /\ edits < MaxEdits /\ edits' = edits + 1 /\ UNCHANGED <<manual, faults>>
  /\ touched' = {t \in Tasks : Balancing(t)}
  /\ fresh' = FALSE

\* IPVS needs a VIP when the mode is set, not later.
CreateLb(on, mode) ==
  /\ ~conf.exists
  /\ mode = "ipvs" => conf.vip
  /\ Edit
  /\ conf' = [conf EXCEPT !.exists = TRUE, !.on = on, !.mode = mode]
  /\ UNCHANGED <<row, ready, roles, pass>>

UpdateLb(on, mode) ==
  /\ conf.exists /\ <<on, mode>> # <<conf.on, conf.mode>>
  /\ mode = "ipvs" /\ mode # conf.mode => conf.vip
  /\ Edit
  /\ conf' = [conf EXCEPT !.on = on, !.mode = mode]
  /\ row' = [row EXCEPT !.in_sync = FALSE]
  /\ UNCHANGED <<ready, roles, pass>>

UpdateZone ==
  /\ Edit
  /\ conf' = [conf EXCEPT !.vip = ~@]
  /\ UNCHANGED <<row, ready, roles, pass>>

\* The row goes first, then the host is told to stop the main role only.
DeleteLb ==
  /\ conf.exists
  /\ pass["deletion"].at = "idle"
  /\ Edit
  /\ conf' = [conf EXCEPT !.exists = FALSE]
  /\ row' = [in_sync |-> FALSE, desired |-> None]
  /\ LET main == Main("deletion", conf)
     IN  pass' = [t \in Tasks |->
           IF t = "deletion"
             THEN [Idle("deletion") EXCEPT !.at = "calling", !.main = main,
                                           !.todo = Put(main, Off)]
             ELSE [pass[t] EXCEPT !.orphan = @ \/ Balancing(t)]]
  /\ UNCHANGED <<ready, roles>>

-----------------------------------------------------------------------------
\* The agent

\* AdGuard on every address and a running dnsdist both want :53.
Fits(r, s) ==
  /\ r = "adguard" /\ s = Run("all") => roles["dnsdist"].host # Run("dnsdist")
  /\ r = "dnsdist" /\ s.on => roles["adguard"].host # Run("all")

\* A pass over a role that has nothing to do changes nothing and is left out.
Settled(r) == r.ok /\ r.applied = r.desired /\ r.host = r.desired

AgentBegin(r) ==
  /\ R!CanBegin(roles[r]) /\ ~Settled(roles[r])
  /\ roles' = [roles EXCEPT ![r] = R!Begin(@)]
  /\ UNCHANGED <<conf, row, ready, pass, ghosts, bounds>>

AgentSucceed(r) ==
  /\ roles[r].working # None /\ Fits(r, roles[r].working)
  /\ roles' = [roles EXCEPT ![r] = R!Succeed(@)]
  /\ UNCHANGED <<conf, row, ready, pass, ghosts, bounds>>

AgentFail(r) ==
  /\ roles[r].working # None
  /\ IF Fits(r, roles[r].working) THEN Fault ELSE UNCHANGED bounds
  /\ \E left \in R!Left(roles[r]) : roles' = [roles EXCEPT ![r] = R!Fail(@, left)]
  /\ UNCHANGED <<conf, row, ready, pass, ghosts>>

\* The agent dies, or replaces its own binary, and is started again.
AgentRestart ==
  /\ Fault
  /\ \E cut \in SUBSET {r \in Roles : roles[r].working # None} :
       roles' = [r \in Roles |->
         R!Crash(roles[r], roles[r].applied, IF r \in cut THEN Partial ELSE roles[r].host)]
  /\ UNCHANGED <<conf, row, ready, pass, ghosts>>

-----------------------------------------------------------------------------

\* A host has just been enrolled, with a balancer or without.
Init ==
  /\ conf \in [exists : BOOLEAN, on : {TRUE}, mode : Modes, vip : BOOLEAN]
  /\ conf.exists /\ conf.mode = "ipvs" => conf.vip
  /\ row = [in_sync |-> FALSE, desired |-> None]
  /\ ready = FALSE
  /\ roles = [r \in Roles |-> R!Absent]
  /\ pass = [t \in Tasks |-> Idle("balancer")]
  /\ touched = {} /\ fresh = FALSE
  /\ edits = 0 /\ manual = 0 /\ faults = 0

Step(t) ==
  \/ Info(t) \/ PutSpec(t) \/ Read(t) \/ Save(t) \/ SaveFailed(t) \/ Deleted(t)

Agent(r) == AgentBegin(r) \/ AgentSucceed(r) \/ AgentFail(r)

Operator ==
  \/ \E kind \in Kinds : OperatorPlan(kind)
  \/ \E on \in BOOLEAN, mode \in Modes : CreateLb(on, mode) \/ UpdateLb(on, mode)
  \/ UpdateZone \/ DeleteLb

Next ==
  \/ CyclePlan
  \/ \E t \in Tasks : Step(t) \/ CallFails(t)
  \/ ControlPlaneRestart
  \/ Operator
  \/ \E r \in Roles : Agent(r)
  \/ AgentRestart

Fairness ==
  /\ WF_vars(CyclePlan)
  /\ \A t \in Tasks : WF_vars(Step(t))
  /\ \A r \in Roles : WF_vars(AgentBegin(r)) /\ WF_vars(AgentSucceed(r) \/ AgentFail(r))

Spec == Init /\ [][Next]_vars
FairSpec == Spec /\ Fairness

-----------------------------------------------------------------------------
(***************************************************************************)
(* Properties                                                              *)
(***************************************************************************)

\* A balancer's row that says "in sync", written by a pass that met no older
\* plan and followed by no edit, is true of what the agent converges to, and
\* stays true when the agent is restarted.  (hosts.py _run_lb_plan, _record_lb)
BalancerInSync ==
  row.in_sync /\ fresh => roles[Main("balancer", conf)].desired = row.desired

\* What the host comes to: every role that is wanted runs its spec, and no
\* other role runs.
AsWanted(r) ==
  LET want == Wanted(conf)[r]
  IN  IF want = None THEN roles[r].host \in {None, Off}
                     ELSE roles[r].host = want /\ roles[r].applied = want

\* While the balancer stays, its host comes to run what its rows ask for, a
\* change of mode or the loss of the VIP included, whatever was lost on the
\* way, and the rows come to say so.  (hosts.py reconcile_hosts,
\* reconcile_balancers; docs/load-balancing.md: "the agents stand the old role
\* down")
Served == conf.exists /\ (conf.mode = "ipvs" => conf.vip)
HostConverges == <>[](Served => \A r \in Roles : AsWanted(r))
RowsFollow == []<>(Served => row.in_sync /\ ready)

\* The host of a deleted balancer comes to balance no more.  (loadbalancers.py:
\* "a host that is down keeps serving its last config until it next
\* reconciles")
DeletedBalancerStops ==
  <>[](~conf.exists => ~(roles["dnsdist"].host = Run("dnsdist")))
=============================================================================
