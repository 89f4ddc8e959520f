---------------------------- MODULE BalancerRole ----------------------------
(***************************************************************************)
(* A balancing role of the agent and the daemon it keeps: dnsdist in a     *)
(* container or as a package (dnsdist.go), or keepalived with IPVS         *)
(* (keepalived.go).                                                        *)
(*                                                                         *)
(* The converge loop renders the spec to the daemon's configuration file,  *)
(* decides whether the daemon has to be restarted, and after every pass    *)
(* drains again the backends that are to be drained.  dnsdist decides by a *)
(* mark it leaves when it has applied a spec, keepalived by comparing the  *)
(* file.  Drains and undrains come from handlers that talk to the daemon   *)
(* at any time, and so do restarts of the daemon.                          *)
(***************************************************************************)
EXTENDS Naturals, FiniteSets

CONSTANTS
  Kinds,        \* which daemons: "docker", "native", "keepalived"
  Backends,     \* names of backends
  Images,       \* container images
  Specs,        \* specs that may be PUT; one for keepalived that is on has IPVS on
  None,         \* nothing
  Handlers,     \* concurrent drain and undrain handlers
  MaxRequests,  \* bound: PUTs, drains, undrains and restarts asked for
  MaxFaults     \* bound: failed commands, crashes, restarts and outside changes

KindsAssumption == Kinds \subseteq {"docker", "native", "keepalived"}
SpecsAssumption ==
  Specs \subseteq [on : BOOLEAN, image : Images, pool : SUBSET Backends]
NoneAssumption == None \notin Specs
BoundsAssumption == MaxRequests \in Nat /\ MaxFaults \in Nat

VARIABLES
  kind,     \* the daemon of this host
  desired,  \* the spec the manager has for the role
  said,     \* the spec the role reports as applied, ready or stopped
  pass,     \* what the converge loop is doing
  conf,     \* the configuration file, by the spec it was rendered from
  mark,     \* applied.json of dnsdist
  daemon,   \* the daemon: its container, whether it runs, what it loaded, what it holds down
  drained,  \* the drained set in memory
  file,     \* drained.json
  req,      \* what each handler is doing
  torn,     \* ghost: a pass has changed the file and ended before it was through
  requests, faults

bounds == <<requests, faults>>
vars == <<kind, desired, said, pass, conf, mark, daemon, drained, file, req, torn, bounds>>

MaybeSpec == Specs \cup {None}

Resting == [at |-> "idle", target |-> None, changed |-> FALSE, todo |-> {}]
NoRequest == [at |-> "idle", name |-> None, drain |-> FALSE, names |-> {}]

TypeOK ==
  /\ kind \in Kinds
  /\ desired \in MaybeSpec /\ said \in MaybeSpec /\ conf \in MaybeSpec /\ mark \in MaybeSpec
  /\ pass \in [at : {"idle", "render", "apply", "restart", "wait", "drain", "stop"},
               target : MaybeSpec, changed : BOOLEAN, todo : SUBSET Backends]
  /\ daemon \in [exists : BOOLEAN, up : BOOLEAN, image : Images \cup {None},
                 loaded : MaybeSpec, down : SUBSET Backends]
  /\ daemon.up <=> daemon.loaded # None
  /\ drained \subseteq Backends /\ file \subseteq Backends
  /\ req \in [Handlers -> [at : {"idle", "console", "remember", "save"},
                           name : Backends \cup {None}, drain : BOOLEAN, names : SUBSET Backends]]
  /\ torn \in BOOLEAN
  /\ requests \in 0 .. MaxRequests /\ faults \in 0 .. MaxFaults

Request == requests < MaxRequests /\ requests' = requests + 1 /\ UNCHANGED faults
Fault == faults < MaxFaults /\ faults' = faults + 1 /\ UNCHANGED requests

-----------------------------------------------------------------------------
\* The daemon

\* A daemon that starts reads the file and holds nothing down.
Started(d) == [d EXCEPT !.up = TRUE, !.loaded = conf, !.down = {}]

Stopped(d) == [d EXCEPT !.up = FALSE, !.loaded = None, !.down = {}]

Created(image) == [exists |-> TRUE, up |-> TRUE, image |-> image, loaded |-> conf, down |-> {}]
Removed == [exists |-> FALSE, up |-> FALSE, image |-> None, loaded |-> None, down |-> {}]

\* The console of dnsdist, which ignores a name that the daemon does not know,
\* and ipvsadm, which refuses it.
Knows(name) == daemon.up /\ (kind = "keepalived" => name \in daemon.loaded.pool)
Held(d, name) == [d EXCEPT !.down = @ \cup ({name} \cap d.loaded.pool)]
Let(d, name) == [d EXCEPT !.down = @ \ {name}]

-----------------------------------------------------------------------------
\* The converge loop

Put(spec) ==
  /\ Request
  /\ desired' = spec
  /\ said' = IF said = spec THEN said ELSE None
  /\ UNCHANGED <<kind, pass, conf, mark, daemon, drained, file, req, torn>>

Begin ==
  /\ pass.at = "idle" /\ desired # None
  /\ pass' = [Resting EXCEPT !.at = IF desired.on THEN "render" ELSE "stop", !.target = desired]
  /\ UNCHANGED <<kind, desired, said, conf, mark, daemon, drained, file, req, torn, bounds>>

\* Whether the daemon has to be restarted: dnsdist goes by the mark,
\* keepalived by the file.
\* Mutant: only a daemon that is down is started.
Changed_Never == FALSE
\* Mutant: every pass restarts.
Changed_Always == TRUE

Changed == IF kind = "keepalived" THEN conf # pass.target ELSE mark # pass.target

Render ==
  /\ pass.at = "render"
  /\ conf' = pass.target
  /\ pass' = [pass EXCEPT !.at = "apply", !.changed = Changed]
  /\ UNCHANGED <<kind, desired, said, mark, daemon, drained, file, req, torn, bounds>>

\* Before it disturbs the daemon a pass says "installing".
Disturbing == said' = None

\* A container that is missing or of another image is made anew.
ApplyContainer ==
  /\ pass.at = "apply" /\ kind = "docker"
  /\ \/ /\ ~daemon.exists
        /\ daemon' = Created(pass.target.image) /\ pass' = [pass EXCEPT !.at = "wait"]
     \/ /\ daemon.exists /\ daemon.image # pass.target.image
        /\ daemon' = Removed /\ UNCHANGED pass
     \/ /\ daemon.exists /\ daemon.image = pass.target.image
        /\ pass.changed
        /\ daemon' = Started(daemon) /\ pass' = [pass EXCEPT !.at = "wait"]
  /\ Disturbing
  /\ UNCHANGED <<kind, desired, conf, mark, drained, file, req, torn, bounds>>

\* Mutant: a container that is down is left down.
StartContainer_Left(d) == d

StartContainer(d) == IF d.up THEN d ELSE Started(d)

KeepContainer ==
  /\ pass.at = "apply" /\ kind = "docker"
  /\ daemon.exists /\ daemon.image = pass.target.image /\ ~pass.changed
  /\ daemon' = StartContainer(daemon)
  /\ pass' = [pass EXCEPT !.at = "wait"]
  /\ UNCHANGED <<kind, desired, said, conf, mark, drained, file, req, torn, bounds>>

\* systemctl enable --now, then systemctl restart.
ApplyUnit ==
  /\ pass.at = "apply" /\ kind # "docker"
  /\ daemon' = IF daemon.up THEN daemon ELSE Started(daemon)
  /\ pass' = [pass EXCEPT !.at = IF pass.changed THEN "restart" ELSE "wait"]
  /\ UNCHANGED <<kind, desired, said, conf, mark, drained, file, req, torn, bounds>>

RestartUnit ==
  /\ pass.at = "restart"
  /\ daemon' = Started(daemon)
  /\ pass' = [pass EXCEPT !.at = "wait"]
  /\ Disturbing
  /\ UNCHANGED <<kind, desired, conf, mark, drained, file, req, torn, bounds>>

\* dnsdist has to answer before the spec is marked.
Answers ==
  /\ pass.at = "wait" /\ (kind # "keepalived" => daemon.up)
  /\ mark' = IF kind = "keepalived" THEN mark ELSE pass.target
  /\ pass' = [pass EXCEPT !.at = "drain", !.todo = drained]
  /\ UNCHANGED <<kind, desired, said, conf, daemon, drained, file, req, torn, bounds>>

\* The drains again, from a copy of the set; a name that is not in the spec is
\* forgotten, in memory.
\* Mutant: after a restart only.
ToDrain_Restarted == IF pass.changed THEN pass.todo ELSE {}

ToDrain == pass.todo

DrainAgain(name) ==
  /\ pass.at = "drain" /\ name \in ToDrain
  /\ pass' = [pass EXCEPT !.todo = @ \ {name}]
  /\ \/ /\ name \notin pass.target.pool
        /\ drained' = drained \ {name} /\ UNCHANGED daemon
     \/ /\ name \in pass.target.pool /\ Knows(name)
        /\ daemon' = Held(daemon, name) /\ UNCHANGED drained
  /\ UNCHANGED <<kind, desired, said, conf, mark, file, req, torn, bounds>>

\* The pass is through.  Drains that cannot be made again are only reported.
Done ==
  /\ pass.at = "drain"
  /\ \/ /\ ToDrain = {} \/ \E name \in ToDrain \cap pass.target.pool : ~Knows(name)
        /\ UNCHANGED bounds
     \/ ToDrain # {} /\ Fault
  /\ said' = pass.target
  /\ torn' = (torn /\ ~pass.changed)
  /\ pass' = Resting
  /\ UNCHANGED <<kind, desired, conf, mark, daemon, drained, file, req>>

\* A stop that fails is an error for a container only, and not even for that
\* when docker does not tell whether it runs.
Stop ==
  /\ pass.at = "stop"
  /\ \/ daemon' = Stopped(daemon) /\ said' = pass.target /\ UNCHANGED bounds
     \/ /\ Fault
        /\ said' \in {pass.target} \cup IF kind = "docker" THEN {None} ELSE {}
        /\ UNCHANGED daemon
  /\ pass' = Resting
  /\ UNCHANGED <<kind, desired, conf, mark, drained, file, req, torn>>

\* A pass that ends here leaves a file whose daemon it has not restarted, or a
\* daemon whose spec it has not marked.
Tearing == pass.at \in {"apply", "restart", "wait"} /\ pass.changed

\* A command fails, without effect or for one that makes a container with the
\* container half made; or dnsdist is down and does not answer in time.
PassFails ==
  /\ \/ pass.at \in {"render", "apply", "restart", "wait"} /\ Fault
     \/ pass.at = "wait" /\ kind # "keepalived" /\ ~daemon.up /\ UNCHANGED bounds
  /\ \/ UNCHANGED daemon
     \/ /\ pass.at = "apply" /\ kind = "docker" /\ ~daemon.exists
        /\ daemon' = Stopped(Created(pass.target.image))
  /\ said' = None
  /\ torn' = (torn \/ Tearing)
  /\ pass' = Resting
  /\ UNCHANGED <<kind, desired, conf, mark, drained, file, req>>

-----------------------------------------------------------------------------
\* Drain and undrain

DrainAsked(h, name, drain) ==
  /\ req[h].at = "idle"
  /\ Request
  /\ desired # None /\ name \in desired.pool
  /\ kind = "keepalived" => desired.on
  /\ req' = [req EXCEPT ![h] = [at |-> "console", name |-> name, drain |-> drain, names |-> {}]]
  /\ UNCHANGED <<kind, desired, said, pass, conf, mark, daemon, drained, file, torn>>

DrainConsole(h) ==
  /\ req[h].at = "console"
  /\ IF Knows(req[h].name)
       THEN /\ daemon' = IF req[h].drain THEN Held(daemon, req[h].name) ELSE Let(daemon, req[h].name)
            /\ req' = [req EXCEPT ![h].at = "remember"]
       ELSE req' = [req EXCEPT ![h] = NoRequest] /\ UNCHANGED daemon
  /\ UNCHANGED <<kind, desired, said, pass, conf, mark, drained, file, torn, bounds>>

DrainRemember(h) ==
  /\ req[h].at = "remember"
  /\ drained' = IF req[h].drain THEN drained \cup {req[h].name} ELSE drained \ {req[h].name}
  /\ req' = [req EXCEPT ![h].at = "save", ![h].names = drained']
  /\ UNCHANGED <<kind, desired, said, pass, conf, mark, daemon, file, torn, bounds>>

DrainSave(h) ==
  /\ req[h].at = "save"
  /\ file' = req[h].names
  /\ req' = [req EXCEPT ![h] = NoRequest]
  /\ UNCHANGED <<kind, desired, said, pass, conf, mark, daemon, drained, torn, bounds>>

-----------------------------------------------------------------------------
\* What happens to the daemon and to the agent

CanStart == (kind = "docker" => daemon.exists) /\ conf # None

\* The operator restarts the service, whether it runs or not.
RestartService ==
  /\ Request /\ CanStart
  /\ daemon' = Started(daemon)
  /\ UNCHANGED <<kind, desired, said, pass, conf, mark, drained, file, req, torn>>

\* The daemon dies; docker or systemd may start it again.
DaemonDies ==
  /\ Fault /\ daemon.up
  /\ daemon' \in {Stopped(daemon), Started(daemon)}
  /\ UNCHANGED <<kind, desired, said, pass, conf, mark, drained, file, req, torn>>

\* keepalived gives a backend its weight back when its check comes good again.
WeightRestored(name) ==
  /\ Fault /\ kind = "keepalived" /\ name \in daemon.down
  /\ daemon' = Let(daemon, name)
  /\ UNCHANGED <<kind, desired, said, pass, conf, mark, drained, file, req, torn>>

AgentRestart ==
  /\ Fault
  /\ pass' = Resting /\ said' = None
  /\ torn' = (torn \/ Tearing)
  /\ drained' = file
  /\ req' = [h \in Handlers |-> NoRequest]
  /\ UNCHANGED <<kind, desired, conf, mark, daemon, file>>

-----------------------------------------------------------------------------

Init ==
  /\ kind \in Kinds
  /\ desired = None /\ said = None /\ conf = None /\ mark = None
  /\ pass = Resting
  /\ daemon = Removed
  /\ drained = {} /\ file = {}
  /\ req = [h \in Handlers |-> NoRequest]
  /\ torn = FALSE
  /\ requests = 0 /\ faults = 0

Converge ==
  \/ Begin \/ Render \/ ApplyContainer \/ KeepContainer \/ ApplyUnit \/ RestartUnit
  \/ Answers \/ (\E name \in Backends : DrainAgain(name)) \/ Done \/ Stop \/ PassFails

Handle(h) == DrainConsole(h) \/ DrainRemember(h) \/ DrainSave(h)

Operator ==
  \/ \E spec \in Specs : Put(spec)
  \/ \E h \in Handlers, name \in Backends, drain \in BOOLEAN : DrainAsked(h, name, drain)
  \/ RestartService

Environment ==
  \/ DaemonDies \/ AgentRestart
  \/ \E name \in Backends : WeightRestored(name)

Next ==
  \/ Converge
  \/ \E h \in Handlers : Handle(h)
  \/ Operator
  \/ Environment

Fairness == WF_vars(Converge) /\ \A h \in Handlers : WF_vars(Handle(h))

Spec == Init /\ [][Next]_vars
FairSpec == Spec /\ Fairness

-----------------------------------------------------------------------------
(***************************************************************************)
(* Properties                                                              *)
(***************************************************************************)

\* Between passes the daemon that runs is configured as the role reports, as
\* long as no pass has been torn.  (dnsdist.go Converge, keepalived.go Converge)
ReportedRuns ==
  ~torn /\ said # None /\ said.on /\ pass.at = "idle" /\ daemon.up => daemon.loaded = said

\* The same whatever became of earlier passes.  (keepalived.go Converge;
\* docs/design/agent-api.md: "systemctl restart keepalived on change")
RestartedOnChange ==
  said # None /\ said.on /\ pass.at = "idle" /\ daemon.up => daemon.loaded = said

\* A pass over the spec that was last reported leaves a running daemon and its
\* backends alone, but for drains.  (dnsdist.go convergeDocker, convergeBare,
\* keepalived.go Converge)
Undisturbed ==
  [][Converge /\ daemon.up /\ said # None /\ pass.target = said /\ said.on
       => daemon'.up /\ daemon'.loaded = daemon.loaded /\ daemon.down \subseteq daemon'.down]_vars

\* The host comes to run the spec it was last given, or nothing, and says so.
\* (dnsdist.go Converge, stop; keepalived.go Converge)
Settles ==
  <>[](desired # None /\ ~torn =>
         /\ said = desired
         /\ IF desired.on THEN daemon.up /\ daemon.loaded = desired ELSE ~daemon.up)

\* Drains survive restarts of the daemon: what is to be drained comes to be
\* held down.  (dnsdist.go reapplyDrains, keepalived.go reapplyDrains;
\* docs/load-balancing.md: "Drains survive a dnsdist restart")
DrainsHold ==
  <>[](desired # None /\ desired.on /\ ~torn => drained \cap desired.pool \subseteq daemon.down)

\* A backend that is not to be drained comes to be served again.
\* (docs/load-balancing.md: "undrain returns it to health-checked state")
UndrainedServes == <>[](daemon.down \subseteq drained)
=============================================================================
