-------------------------- MODULE AdGuardContainer --------------------------
(***************************************************************************)
(* AdGuard Home on one host: the container (on the host's network) or the  *)
(* native service that the agent keeps (roles/adguard/adguard.go), with    *)
(* the on-box updater beside it that the control plane serves as a script  *)
(* (update_agent.py).                                                      *)
(*                                                                         *)
(* The agent and the script replace a container alike: the old one is      *)
(* stopped and renamed, a new one is started and, when it comes up, the    *)
(* old one is removed; otherwise it is put back.  Each docker command is a *)
(* step.  The converge loop, the update and reset handlers and the script  *)
(* take these steps side by side: only the loop and a reset exclude each   *)
(* other.                                                                  *)
(***************************************************************************)
EXTENDS Naturals

CONSTANTS
  Kinds,        \* of "docker" and "native": how AdGuard Home is installed
  Addresses,    \* addresses for DNS to listen on
  Specs,        \* specs that may be PUT
  Ids,          \* builds of AdGuard Home
  Broken,       \* those that do not come to answer
  First,        \* the build the host begins with
  None,         \* nothing
  MaxEvents     \* bound: PUTs, updates, resets, runs of the script, failed
                \* commands, crashes and stops by hand, together

Binds == (SUBSET Addresses) \ {{}}

ASSUME KindsAssumption == Kinds \subseteq {"docker", "native"}
ASSUME SpecsAssumption == Specs \subseteq [on : BOOLEAN, binds : Binds]
ASSUME IdsAssumption == Broken \subseteq Ids /\ First \in Ids \ Broken
ASSUME BoundsAssumption == MaxEvents \in Nat

VARIABLES
  kind,        \* how AdGuard Home is installed
  desired,     \* the spec the manager has for the role
  said,        \* the spec the role reports as applied, ready or stopped
  containers,  \* the container of each name; "main" is also the native install
  conf,        \* AdGuardHome.yaml, in a volume that containers share
  local,       \* the build the image's name stands for on this host
  proc,        \* what the converge loop, the handlers and the script are doing
  torn,        \* ghost: a replacement was meddled with, cut short, or had two running
  crossed,     \* ghost: an update or the script was under way beside the last pass,
               \* or an update took a spec that no pass had reached
  events

vars == <<kind, desired, said, containers, conf, local, proc, torn, crossed, events>>

MaybeSpec == Specs \cup {None}

Names == {"main", "prev", "preupdate"}
Container == [id : Ids, spec : MaybeSpec, up : BOOLEAN]
\* What AdGuard Home is set to, and whether the credentials are the agent's.
Conf == [binds : Binds, ours : BOOLEAN]

ASSUME NoneAssumption == \A set \in {Specs, Ids, Container, Conf} : None \notin set

Actors == {"pass", "update", "reset", "script"}
Replacing == {"clear", "rename", "stop", "run", "answer", "drop", "remove", "restore", "restart"}
Places == Replacing \cup {"idle", "pull", "look", "verify", "compare", "halt", "write", "start",
                          "final", "wipe", "erase"}
Resting == [at |-> "idle", spec |-> None, id |-> None]

TypeOK ==
  /\ kind \in Kinds
  /\ desired \in MaybeSpec /\ said \in MaybeSpec
  /\ containers \in [Names -> Container \cup {None}]
  /\ conf \in Conf \cup {None}
  /\ local \in Ids
  /\ proc \in [Actors -> [at : Places, spec : MaybeSpec, id : Ids \cup {None}]]
  /\ torn \in BOOLEAN /\ crossed \in BOOLEAN
  /\ events \in 0 .. MaxEvents

Event == events < MaxEvents /\ events' = events + 1

Exists(name) == containers[name] # None
Running(name) == Exists(name) /\ containers[name].up
Works(name) == Exists(name) /\ containers[name].id \notin Broken
\* All are on the host's network: whichever runs is reached.
Answers == \E name \in Names : Running(name) /\ Works(name)

With(name, container) == [containers EXCEPT ![name] = container]
Started(name) == [containers EXCEPT ![name].up = TRUE]
Stopped(name) == [containers EXCEPT ![name].up = FALSE]

New(spec) == [id |-> local, spec |-> spec, up |-> TRUE]

At(a, place) == proc[a].at = place
Goes(a, place) == proc' = [proc EXCEPT ![a].at = place]
Ends(a) == proc' = [proc EXCEPT ![a] = Resting]

\* An error ends what was being done; a pass reports it.
GivesUp(a) ==
  /\ Ends(a)
  /\ said' = IF a = "pass" THEN None ELSE said

-----------------------------------------------------------------------------
\* The replacement of a container, by a pass, an update or the script

Backup(a) == IF a = "script" THEN "preupdate" ELSE "prev"

\* Somebody else is replacing the container.
Overlaps(a) == \E b \in Actors \ {a} : proc[b].at \in Replacing
Meddles(a) == torn' = (torn \/ Overlaps(a))

\* The command after this one; the script stops the container first, the agent
\* renames it first.
AfterClear(a) == IF a = "script" THEN "stop" ELSE "rename"
AfterRename(a) == IF a = "script" THEN "run" ELSE "stop"
AfterStop(a) == IF a = "script" THEN "rename" ELSE "run"

\* One command: it works, or it does not.
Command(possible, result) == possible /\ containers' = result /\ UNCHANGED events
CommandFails(possible) ==
  /\ IF possible THEN Event ELSE UNCHANGED events
  /\ UNCHANGED containers

Steady == UNCHANGED <<kind, desired, conf, local, crossed>>

Clear(a) ==
  /\ At(a, "clear")
  /\ \/ Command(TRUE, With(Backup(a), None)) /\ Goes(a, AfterClear(a)) /\ UNCHANGED <<said, torn>>
     \/ CommandFails(TRUE) /\ Goes(a, AfterClear(a)) /\ UNCHANGED <<said, torn>>
  /\ Steady

RenameEffect(a) == [containers EXCEPT !["main"] = None, ![Backup(a)] = containers["main"]]

Rename(a) ==
  LET possible == Exists("main") /\ ~Exists(Backup(a))
  IN  /\ At(a, "rename")
      /\ \/ Command(possible, RenameEffect(a)) /\ Goes(a, AfterRename(a)) /\ UNCHANGED <<said, torn>>
         \/ CommandFails(possible) /\ GivesUp(a) /\ UNCHANGED torn
      /\ Steady

\* The agent does not look whether the old container has stopped.
StopOld(a) ==
  LET name == IF a = "script" THEN "main" ELSE Backup(a)
      possible == Exists(name)
  IN  /\ At(a, "stop")
      /\ \/ Command(possible, Stopped(name)) /\ Goes(a, AfterStop(a)) /\ UNCHANGED <<said, torn>>
         \/ /\ CommandFails(possible)
            /\ IF a = "script" THEN GivesUp(a) /\ UNCHANGED torn
                               ELSE Goes(a, "run") /\ torn' = TRUE /\ UNCHANGED said
      /\ Steady

RunNew(a) ==
  LET possible == ~Exists("main")
  IN  /\ At(a, "run")
      /\ \/ Command(possible, With("main", New(proc[a].spec))) /\ Goes(a, "answer") /\ UNCHANGED <<said, torn>>
         \/ CommandFails(possible) /\ Goes(a, "remove") /\ UNCHANGED <<said, torn>>
      /\ Steady

\* The agent waits for an answer; the script looks whether the container runs,
\* which one that does not answer may do.
\* Mutant: the new container is taken for good when it has been started.
CameUp_Started(a) == Exists("main")

CameUp(a) == IF a = "script" THEN Running("main") ELSE Answers

StaysDown(a) == IF a = "script" THEN ~(Running("main") /\ Works("main")) ELSE ~Answers

Answer(a) ==
  /\ At(a, "answer")
  /\ \/ CameUp(a) /\ Goes(a, "drop")
     \/ StaysDown(a) /\ Goes(a, "remove")
  /\ UNCHANGED <<said, containers, torn, events>>
  /\ Steady

\* The script's rm does not remove a container that runs.
DropOld(a) ==
  LET possible == a = "script" => ~Running(Backup(a))
  IN  /\ At(a, "drop")
      /\ Command(possible, With(Backup(a), None)) \/ CommandFails(possible)
      /\ IF a = "pass" THEN Goes(a, "verify") ELSE Ends(a)
      \* The script may have taken one that does not answer.
      /\ torn' = (torn \/ (a = "script" /\ ~Works("main")))
      /\ UNCHANGED said /\ Steady

Remove(a) ==
  /\ At(a, "remove")
  /\ \/ Command(TRUE, With("main", None)) /\ Goes(a, "restore") /\ UNCHANGED <<said, torn>>
     \/ CommandFails(TRUE) /\ Goes(a, "restore") /\ UNCHANGED <<said, torn>>
  /\ Steady

Restore(a) ==
  LET possible == Exists(Backup(a)) /\ ~Exists("main")
      back == [containers EXCEPT ![Backup(a)] = None, !["main"] = containers[Backup(a)]]
  IN  /\ At(a, "restore")
      /\ \/ Command(possible, back) /\ Goes(a, "restart") /\ UNCHANGED <<said, torn>>
         \/ /\ CommandFails(possible)
            /\ IF a = "script" THEN GivesUp(a) ELSE Goes(a, "restart") /\ UNCHANGED said
            /\ torn' = TRUE
      /\ Steady

StartAgain(a) ==
  /\ At(a, "restart")
  /\ \/ Exists("main") /\ containers' = Started("main") /\ UNCHANGED events
     \/ CommandFails(Exists("main"))
  /\ GivesUp(a)
  /\ UNCHANGED torn /\ Steady

Replace(a) ==
  \/ Clear(a) \/ Rename(a) \/ StopOld(a) \/ RunNew(a) \/ Answer(a) \/ DropOld(a)
  \/ Remove(a) \/ Restore(a) \/ StartAgain(a)

-----------------------------------------------------------------------------
\* The converge loop

Put(spec) ==
  /\ Event
  /\ desired' = spec
  /\ said' = IF said = spec THEN said ELSE None
  /\ UNCHANGED <<kind, containers, conf, local, proc, torn, crossed>>

\* A pass and a reset hold the converge lock.
Begin ==
  /\ At("pass", "idle") /\ At("reset", "idle") /\ desired # None
  /\ crossed' = ~(At("update", "idle") /\ At("script", "idle"))
  /\ proc' = [proc EXCEPT !["pass"] = [at |-> "look", spec |-> desired, id |-> None]]
  /\ UNCHANGED <<kind, desired, said, containers, conf, local, torn, events>>

target == proc["pass"].spec

Off ==
  /\ At("pass", "look") /\ ~target.on
  /\ \/ /\ containers' = IF Exists("main") THEN Stopped("main") ELSE containers
        /\ said' = target /\ Ends("pass") /\ UNCHANGED events
     \/ Running("main") /\ CommandFails(TRUE) /\ GivesUp("pass")
     \* docker inspect that fails stands for no container.
     \/ /\ kind = "docker" /\ Running("main") /\ CommandFails(TRUE)
        /\ said' = target /\ Ends("pass")
  /\ Meddles("pass") /\ Steady

\* Mutant: any container will do.
Fits_Any == TRUE

Fits == containers["main"].spec = target

\* A container is made, or the native installer run.
Create ==
  /\ At("pass", "look") /\ target.on /\ ~Exists("main")
  /\ Meddles("pass")
  /\ IF kind = "docker"
       THEN containers' = With("main", New(target)) /\ Goes("pass", "verify")
       ELSE containers' = With("main", [New(target) EXCEPT !.up = FALSE]) /\ UNCHANGED proc
  /\ said' = None
  /\ UNCHANGED events /\ Steady

Recreate ==
  /\ At("pass", "look") /\ target.on /\ Exists("main")
  /\ kind = "docker" /\ ~Fits
  /\ Meddles("pass")
  /\ Goes("pass", "clear")
  /\ said' = None
  /\ UNCHANGED <<containers, events>> /\ Steady

\* A native install that is configured has its listen addresses looked at first.
Start ==
  /\ At("pass", "look") /\ target.on /\ Exists("main")
  /\ kind = "docker" => Fits
  /\ IF kind = "native" /\ conf # None
       THEN Goes("pass", "compare") /\ UNCHANGED <<containers, said>>
       ELSE containers' = Started("main") /\ Goes("pass", "verify") /\ said' = None
  /\ Meddles("pass")
  /\ UNCHANGED events /\ Steady

\* A fresh instance is taken through the first-run wizard, which can set one
\* address; another has to accept the credentials.
Configured(next) ==
  \/ /\ conf = None
     /\ \E b \in target.binds : conf' = [binds |-> {b}, ours |-> TRUE]
     /\ Goes("pass", next) /\ UNCHANGED said
  \/ conf # None /\ conf.ours /\ Goes("pass", next) /\ UNCHANGED <<conf, said>>
  \/ conf # None /\ ~conf.ours /\ GivesUp("pass") /\ UNCHANGED conf

Verify ==
  /\ At("pass", "verify") /\ Answers
  /\ Configured("compare")
  /\ UNCHANGED <<kind, desired, containers, local, torn, events, crossed>>

\* Mutant: listen addresses are the wizard's.
SameBinds_Wizard == conf.binds \subseteq target.binds

\* Mutant: several addresses, listed in another order, are not the same.
SameBinds_Ordered == \E b \in Addresses : conf.binds = {b} /\ target.binds = {b}

SameBinds == conf.binds = target.binds

Finished == said' = target /\ Ends("pass")

Compare ==
  /\ At("pass", "compare")
  /\ \/ conf = None /\ GivesUp("pass")
     \/ conf # None /\ ~SameBinds /\ Goes("pass", "halt") /\ said' = None
     \/ conf # None /\ SameBinds
        /\ IF kind = "docker" THEN Finished ELSE Goes("pass", "start") /\ UNCHANGED said
  /\ UNCHANGED <<containers, torn, events>> /\ Steady

Halt ==
  /\ At("pass", "halt")
  /\ \/ Command(Exists("main"), Stopped("main")) /\ Goes("pass", "write") /\ UNCHANGED said
     \/ CommandFails(Exists("main")) /\ GivesUp("pass")
  /\ Meddles("pass") /\ Steady

Write ==
  /\ At("pass", "write")
  /\ \/ conf # None /\ conf' = [conf EXCEPT !.binds = target.binds]
        /\ Goes("pass", "start") /\ UNCHANGED said
     \/ conf = None /\ GivesUp("pass") /\ UNCHANGED conf
  /\ UNCHANGED <<kind, desired, containers, local, torn, events, crossed>>

StartHalted ==
  /\ At("pass", "start")
  /\ \/ Command(Exists("main"), Started("main")) /\ Goes("pass", "final") /\ UNCHANGED said
     \/ CommandFails(Exists("main")) /\ GivesUp("pass")
  /\ Meddles("pass") /\ Steady

Final ==
  /\ At("pass", "final") /\ Answers
  /\ \/ conf # None /\ conf.ours /\ Finished
     \/ conf # None /\ ~conf.ours /\ GivesUp("pass")
     \/ conf = None /\ GivesUp("pass")
  /\ UNCHANGED <<containers, torn, events>> /\ Steady

\* Nothing answers in time, or a command or call fails.
PassFails ==
  /\ \/ proc["pass"].at \in {"verify", "final"} /\ ~Answers /\ UNCHANGED events
     \/ proc["pass"].at \in {"look", "verify", "compare", "write", "final"} /\ Event
  /\ GivesUp("pass")
  /\ UNCHANGED <<containers, torn>> /\ Steady

-----------------------------------------------------------------------------
\* Updates, resets and the script

\* Neither an update nor the script takes the converge lock; an update is given
\* the spec of the moment, which a pass in flight or to come may not have reached.
Crosses(spec) ==
  crossed' = (crossed \/ ~At("pass", "idle") \/ said \notin {None, spec})

UpdateAsked ==
  /\ At("update", "idle") /\ Event /\ desired # None
  /\ IF kind = "docker"
       THEN /\ proc' = [proc EXCEPT !["update"] = [at |-> "pull", spec |-> desired, id |-> None]]
            /\ UNCHANGED containers
       ELSE \* AdGuard Home replaces itself.
            /\ Answers /\ \E id \in Ids : containers' = [containers EXCEPT !["main"].id = id]
            /\ UNCHANGED proc
  /\ Crosses(desired)
  /\ UNCHANGED <<kind, desired, said, conf, local, torn>>

ScriptRuns ==
  /\ At("script", "idle") /\ Event /\ kind = "docker" /\ Exists("main")
  /\ proc' = [proc EXCEPT !["script"] = [at |-> "pull", spec |-> containers["main"].spec,
                                         id |-> containers["main"].id]]
  /\ Crosses(said)
  /\ UNCHANGED <<kind, desired, said, containers, conf, local, torn>>

\* The registry has some build under the image's name.
Pull(a) ==
  /\ At(a, "pull")
  /\ \/ \E id \in Ids : local' = id
        /\ Goes(a, "look") /\ UNCHANGED <<said, events>>
     \/ Event /\ GivesUp(a) /\ UNCHANGED local
  /\ UNCHANGED <<kind, desired, containers, conf, torn, crossed>>

Current(a) ==
  IF a = "script" THEN proc[a].id = local
                  ELSE ~Exists("main") \/ containers["main"].id = local

LookForNew(a) ==
  /\ At(a, "look")
  /\ IF Current(a) THEN Ends(a) /\ UNCHANGED torn
                   ELSE Goes(a, "clear") /\ Meddles(a)
  /\ UNCHANGED <<kind, desired, said, containers, conf, local, crossed, events>>

\* The reset handler: refused while a pass is in flight.
ResetAsked ==
  /\ At("reset", "idle") /\ At("pass", "idle") /\ Event /\ desired # None
  /\ Goes("reset", "wipe")
  /\ UNCHANGED <<kind, desired, said, containers, conf, local, torn, crossed>>

\* The agent's containers are removed, or the service is stopped.
Wipe ==
  /\ At("reset", "wipe")
  /\ containers' = IF kind = "docker" THEN [With("main", None) EXCEPT !["prev"] = None]
                   ELSE IF Exists("main") THEN Stopped("main") ELSE containers
  /\ Goes("reset", "erase")
  /\ Meddles("reset")
  /\ UNCHANGED <<kind, desired, said, conf, local, crossed, events>>

\* Then the volumes are, or the native install's files, and what was applied is
\* forgotten.  A volume that some container still has cannot be removed.
Erase ==
  LET possible == kind = "docker" => \A name \in Names : ~Exists(name)
  IN  /\ At("reset", "erase")
      /\ \/ possible /\ conf' = None /\ said' = None /\ UNCHANGED <<torn, events>>
         \/ CommandFails(possible) /\ torn' = TRUE /\ UNCHANGED <<conf, said>>
      /\ Ends("reset")
      /\ UNCHANGED <<kind, desired, containers, local, crossed>>

-----------------------------------------------------------------------------
\* What happens to the host

\* Somebody stops the container or the service.
StoppedByHand ==
  /\ Event /\ Running("main")
  /\ containers' = Stopped("main")
  /\ torn' = (torn \/ \E a \in Actors : proc[a].at \in Replacing)
  /\ UNCHANGED <<kind, desired, said, conf, local, proc, crossed>>

\* The agent dies and is started again, or the whole host with the script.
Crash ==
  /\ Event
  /\ said' = None
  /\ torn' = (torn \/ \E a \in Actors : proc[a].at \in Replacing)
  /\ \E dead \in {Actors, Actors \ {"script"}} :
       proc' = [a \in Actors |-> IF a \in dead THEN Resting ELSE proc[a]]
  /\ UNCHANGED <<kind, desired, containers, conf, local, crossed>>

-----------------------------------------------------------------------------

\* A host with nothing on it, with volumes somebody has left, or with AdGuard
\* Home that somebody has set up.
Init ==
  /\ kind \in Kinds
  /\ desired = None /\ said = None
  /\ \E main \in {None, [id |-> First, spec |-> None, up |-> TRUE]} :
       containers = [n \in Names |-> IF n = "main" THEN main ELSE None]
  /\ conf \in Conf \cup {None}
  /\ local = First
  /\ proc = [a \in Actors |-> Resting]
  /\ torn = FALSE /\ crossed = FALSE
  /\ events = 0

Converge ==
  \/ Begin \/ Off \/ Create \/ Recreate \/ Start \/ Verify \/ Compare \/ Halt \/ Write
  \/ StartHalted \/ Final \/ PassFails \/ Replace("pass")

Update == Pull("update") \/ LookForNew("update") \/ Replace("update")
Script == Pull("script") \/ LookForNew("script") \/ Replace("script")
Reset == Wipe \/ Erase

Operator ==
  \/ \E spec \in Specs : Put(spec)
  \/ UpdateAsked \/ ResetAsked \/ ScriptRuns

Environment == StoppedByHand \/ Crash

Next == Converge \/ Update \/ Reset \/ Script \/ Operator \/ Environment

Fairness == WF_vars(Converge) /\ WF_vars(Update) /\ WF_vars(Reset) /\ WF_vars(Script)

Spec == Init /\ [][Next]_vars
FairSpec == Spec /\ Fairness

-----------------------------------------------------------------------------
(***************************************************************************)
(* Properties                                                              *)
(***************************************************************************)

SetTo(spec) ==
  /\ Exists("main") /\ conf = [binds |-> spec.binds, ours |-> TRUE]
  /\ kind = "docker" => containers["main"].spec = spec

\* When nobody is at work on the host, the AdGuard Home that the role reports
\* was made from the spec it reports, and listens where that says.
\* (adguard.go convergeDocker, convergeBare)
ReportedIsSet ==
  ~torn /\ ~crossed /\ said # None /\ said.on /\ (\A a \in Actors : At(a, "idle"))
    => SetTo(said)

\* A pass or an update never leaves the host without a container that works,
\* if it had one, unless replacements were torn.  (adguard.go recreate: "keeping
\* the old one until the new one answers")
SomeWorks == \E name \in Names : Works(name)
WorkingKept ==
  [][kind = "docker" /\ (Converge \/ Update) /\ SomeWorks /\ ~torn' => SomeWorks']_vars

\* The same of every replacement.
PreviousKept == [][kind = "docker" /\ (Converge \/ Update) /\ SomeWorks => SomeWorks']_vars

\* A pass that finds AdGuard Home made from the spec and listening where that
\* says does not make it stop answering.  (adguard.go convergeDocker, convergeBare)
Undisturbed ==
  [][Converge /\ proc["pass"].at \notin Replacing \cup {"idle"} /\ target.on /\ SetTo(target)
        /\ Answers => Answers']_vars

\* The host comes to run what it was last given, or nothing, and says so time
\* and again, if every build it meets works and AdGuard Home accepts the
\* credentials.  (adguard.go Converge, recreate, Reset)
Owed == desired # None /\ (conf # None => conf.ours)
Settled == IF desired.on THEN Running("main") /\ SetTo(desired) ELSE ~Running("main")
Settles ==
  [](local \notin Broken /\ \A name \in Names : Exists(name) => Works(name))
    => <>[](Owed => Settled) /\ []<>(Owed => said = desired)
=============================================================================
