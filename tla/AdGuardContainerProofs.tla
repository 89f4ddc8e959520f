------------------------ MODULE AdGuardContainerProofs ------------------------
(***************************************************************************)
(* Proofs about AdGuardContainer, for every set of addresses, specs and    *)
(* builds, however many of those are broken, and any bound on the events;  *)
(* and about SelfUpdate (Agent of MCAdGuardContainer), for any callers and *)
(* builds.                                                                 *)
(*                                                                         *)
(* None of the properties is inductive.  ReplacedInv follows the one who   *)
(* replaces a container: what stands under which name at each of his       *)
(* steps, that no backup runs, and that the backup he is about to remove   *)
(* is not the only build that works.  PassInv says that what an undisturbed *)
(* pass looks at was made from its target, ConfInv what the pass knows of  *)
(* AdGuardHome.yaml, and KeptInv that an update or the script which came   *)
(* after that pass puts back what it found.                                *)
(*                                                                         *)
(* NoReinstall is about an agent that leaves, which was decided several    *)
(* steps of a handler before: WantInv, SaysInv and LeavingInv carry the    *)
(* version that was asked for from the call to the binary, and AloneInv is *)
(* why nobody else's file comes between.                                   *)
(***************************************************************************)
EXTENDS MCAdGuardContainer, TLAPS

\* Of those who replace a container, the two that are the agent's.
Agents == {"pass", "update"}
Replacers == Agents \cup {"script"}
\* The old container has its backup's name.
Holding(a) ==
  proc[a].at \in {"run", "answer", "drop", "remove", "restore"}
                 \cup (IF a = "script" THEN {} ELSE {"stop"})

\* Where everybody can be: a pass and a reset exclude each other, a native install is
\* not replaced, and a pass that goes past its first look has a spec that is on.
PlacesInv ==
  /\ At("pass", "idle") \/ At("reset", "idle")
  /\ proc["pass"].at \notin {"pull", "wipe", "erase"}
  /\ \A a \in {"update", "script"} : proc[a].at \in Replacing \cup {"idle", "pull", "look"}
  /\ proc["reset"].at \in {"idle", "wipe", "erase"}
  /\ kind = "native" =>
       /\ At("update", "idle") /\ At("script", "idle") /\ proc["pass"].at \notin Replacing
       /\ ~Exists("prev") /\ ~Exists("preupdate")
  /\ ~At("pass", "idle") => target \in Specs
  /\ proc["pass"].at \notin {"idle", "look"} => target.on

\* What a pass that has looked at AdGuardHome.yaml knows of it still holds.
ConfInv ==
  /\ proc["pass"].at \in {"halt", "write"} => conf = None \/ ~SameBinds
  /\ proc["pass"].at \in {"start", "final"} => conf # None /\ SameBinds
  /\ kind = "docker" /\ At("pass", "compare") => conf # None /\ conf.ours

\* Nobody else replaces.
Alone(a) == \A b \in Replacers \ {a} : proc[b].at \notin Replacing

\* The containers are as a left them so far.
BackedUp(a) ==
  /\ Holding(a) => Exists(Backup(a))
  /\ At(a, "run") \/ (a \in Agents /\ At(a, "stop")) => ~Exists("main")
  /\ proc[a].at \in {"answer", "drop", "restart"} => Exists("main")
  /\ proc[a].at \in {"clear", "rename"} /\ a \in Agents => Exists("main")

\* No backup runs, nor is the new container stopped while its answer is waited for.
Still(a) ==
  /\ Running("prev") => a \in Agents /\ At(a, "stop")
  /\ ~Running("preupdate")
  /\ a = "script" /\ At(a, "rename") => ~Running("main")
  /\ At(a, "answer") => Running("main")

\* What works is not the backup alone, or is not to be removed.
Safe(a) ==
  /\ ~Holding(a) /\ Works("prev") => Works("main")
  /\ a = "script" /\ Holding(a) /\ Works("prev") => Works("preupdate")
  /\ a \in Agents => (At(a, "drop") => Works("main")) /\ (At(a, "remove") => ~Works("main"))

\* a alone replaces, and is not disturbed.
Orderly(a) == Alone(a) /\ BackedUp(a) /\ Still(a) /\ Safe(a)

\* A replacement that was not torn is orderly.
ReplacedInv == ~torn => \E a \in Replacers : Orderly(a)

\* Nobody replaces beside a pass that is not crossed.
CrossInv == ~crossed /\ ~At("pass", "idle") => At("update", "idle") /\ At("script", "idle")

\* What a pass brought up, or found, was made from the spec it converges.
PassInv ==
  (/\ ~torn /\ ~crossed
   /\ proc["pass"].at \in {"answer", "drop", "verify", "compare", "halt", "write", "start", "final"})
  => Exists("main") /\ (kind = "docker" => containers["main"].spec = target)

\* AdGuard Home is set to spec, and who is at work brings back one that is.
Kept(spec) ==
  /\ conf = [binds |-> spec.binds, ours |-> TRUE]
  /\ Exists("main") => (kind = "docker" => containers["main"].spec = spec)
  /\ (\A a \in Replacers : ~Holding(a)) => Exists("main")
  /\ \A a \in {"update", "script"} :
       /\ ~At(a, "idle") => proc[a].spec = spec
       /\ Holding(a) => containers[Backup(a)].spec = spec

\* What the role reports is kept.
KeptInv ==
  ~torn /\ ~crossed /\ At("pass", "idle") /\ ~At("reset", "erase") /\ said # None /\ said.on
    => Kept(said)

\* The inductive invariant.
IInv == TypeOK /\ PlacesInv /\ ConfInv /\ ReplacedInv /\ CrossInv /\ PassInv /\ KeptInv
-----------------------------------------------------------------------------
\* What an actor is doing.
Procs == [at : Places, spec : MaybeSpec, id : Ids \cup {None}]

\* An actor that goes to a place takes its spec there; the others stay.
LEMMA Going ==
  ASSUME TypeOK, NEW a \in Actors, NEW place \in Places, Goes(a, place)
  PROVE  /\ proc' \in [Actors -> Procs]
         /\ proc'[a].at = place /\ proc'[a].spec = proc[a].spec
         /\ \A b \in Actors \ {a} : proc'[b] = proc[b]
BY DEF TypeOK, Goes, Procs

\* An actor that ends rests; the others stay.
LEMMA Ending ==
  ASSUME TypeOK, NEW a \in Actors, Ends(a)
  PROVE  /\ proc' \in [Actors -> Procs]
         /\ proc'[a].at = "idle"
         /\ \A b \in Actors \ {a} : proc'[b] = proc[b]
<1>1. Resting \in Procs
  BY NoneAssumption DEF Resting, Procs, Places, MaybeSpec
<1> QED BY <1>1 DEF TypeOK, Ends, Resting, Procs

\* Events stay under their bound.
LEMMA Spending == TypeOK /\ Event => events' \in 0 .. MaxEvents
BY BoundsAssumption DEF TypeOK, Event

\* Making, starting, stopping and removing a container keep the types.
LEMMA ContainerTypes ==
  ASSUME TypeOK, NEW name \in Names
  PROVE  /\ With(name, None) \in [Names -> Container \cup {None}]
         /\ \A c \in Container : With(name, c) \in [Names -> Container \cup {None}]
         /\ Exists(name) => containers[name] \in Container
         /\ Exists(name) => Started(name) \in [Names -> Container \cup {None}]
         /\ Exists(name) => Stopped(name) \in [Names -> Container \cup {None}]
         /\ \A spec \in MaybeSpec : New(spec) \in Container
<1>1. Exists(name) => containers[name] \in Container
  BY DEF TypeOK, Exists
<1>2. /\ With(name, None) \in [Names -> Container \cup {None}]
      /\ \A c \in Container : With(name, c) \in [Names -> Container \cup {None}]
  BY DEF TypeOK, With
<1>3. ASSUME Exists(name), NEW up \in BOOLEAN
      PROVE  [containers EXCEPT ![name].up = up] \in [Names -> Container \cup {None}]
  <2>1. [containers[name] EXCEPT !.up = up] \in Container
    BY <1>1, <1>3 DEF Container
  <2>2. [containers EXCEPT ![name].up = up] = [containers EXCEPT ![name] = [containers[name] EXCEPT !.up = up]]
    BY DEF TypeOK
  <2> QED BY <2>1, <2>2 DEF TypeOK
<1>4. \A spec \in MaybeSpec : New(spec) \in Container
  BY DEF New, Container, TypeOK
<1> QED BY <1>1, <1>2, <1>3, <1>4 DEF Started, Stopped


\* So do renaming, putting back and wiping.
LEMMA RenameTypes ==
  ASSUME TypeOK, NEW name \in Names
  PROVE  /\ [containers EXCEPT !["main"] = None, ![name] = containers["main"]]
              \in [Names -> Container \cup {None}]
         /\ [containers EXCEPT ![name] = None, !["main"] = containers[name]]
              \in [Names -> Container \cup {None}]
         /\ [With("main", None) EXCEPT !["prev"] = None] \in [Names -> Container \cup {None}]
BY DEF TypeOK, Names, With

\* The steps of a replacement keep the types.
LEMMA ReplaceType ==
  ASSUME TypeOK, NEW a \in Replacers, Replace(a)
  PROVE  TypeOK'
<1>a. a \in Actors /\ Backup(a) \in Names /\ "main" \in Names
  BY DEF Replacers, Agents, Actors, Backup, Names
<1>b. {"clear", "rename", "stop", "run", "answer", "drop", "remove", "restore", "restart", "verify"} \subseteq Places
  BY DEF Places, Replacing
<1>c. AfterClear(a) \in Places /\ AfterRename(a) \in Places /\ AfterStop(a) \in Places
  BY <1>b DEF AfterClear, AfterRename, AfterStop
<1>1. proc' \in [Actors -> Procs]
  BY <1>a, <1>b, <1>c, Going, Ending DEF Replace, Clear, Rename, StopOld, RunNew, Answer,
     DropOld, Remove, Restore, StartAgain, GivesUp
<1>2. said' \in MaybeSpec
  BY DEF TypeOK, MaybeSpec, Replace, Clear, Rename, StopOld, RunNew, Answer, DropOld, Remove,
     Restore, StartAgain, GivesUp
<1>3. events' \in 0 .. MaxEvents
  BY Spending DEF TypeOK, Replace, Clear, Rename, StopOld, RunNew, Answer, DropOld, Remove,
     Restore, StartAgain, Command, CommandFails
<1>4. containers' \in [Names -> Container \cup {None}]
  <2>1. New(proc[a].spec) \in Container
    BY <1>a, ContainerTypes DEF TypeOK
  <2>2. \/ Clear(a) \/ DropOld(a) \/ Remove(a) \/ RunNew(a) \/ Answer(a)
        => containers' \in [Names -> Container \cup {None}]
    BY <1>a, <2>1, ContainerTypes DEF TypeOK, Clear, DropOld, Remove, RunNew, Answer,
       Command, CommandFails
  <2>3. Rename(a) \/ Restore(a) => containers' \in [Names -> Container \cup {None}]
    BY <1>a, RenameTypes DEF TypeOK, Rename, RenameEffect, Restore, Command, CommandFails
  <2>4. StopOld(a) \/ StartAgain(a) => containers' \in [Names -> Container \cup {None}]
    BY <1>a, ContainerTypes DEF TypeOK, StopOld, StartAgain, Command, CommandFails
  <2> QED BY <2>2, <2>3, <2>4 DEF Replace
<1>5. torn' \in BOOLEAN
  BY DEF TypeOK, Replace, Clear, Rename, StopOld, RunNew, Answer, DropOld, Remove, Restore,
     StartAgain
<1> QED BY <1>1, <1>2, <1>3, <1>4, <1>5 DEF TypeOK, Replace, Clear, Rename, StopOld, RunNew,
        Answer, DropOld, Remove, Restore, StartAgain, Steady, Procs

\* The other steps of a pass keep the types.
LEMMA PassType ==
  ASSUME TypeOK, PlacesInv,
         \/ Begin \/ Off \/ Create \/ Recreate \/ Start \/ Verify \/ Compare \/ Halt \/ Write
         \/ StartHalted \/ Final \/ PassFails
  PROVE  TypeOK'
<1> DEFINE Containers == [Names -> Container \cup {None}]
<1>a. "pass" \in Actors /\ "main" \in Names
  BY DEF Actors, Names
<1>b. {"look", "verify", "clear", "compare", "halt", "write", "start", "final"} \subseteq Places
  BY DEF Places, Replacing
<1>c. ~At("pass", "idle") => target \in Specs
  BY DEF PlacesInv
<1>1. proc' \in [Actors -> Procs]
  <2>1. Begin => proc' \in [Actors -> Procs]
    BY <1>a, <1>b DEF Begin, TypeOK, Procs
  <2>2. ASSUME ~Begin PROVE proc' \in [Actors -> Procs]
    BY <1>a, <1>b, <2>2, Going, Ending DEF TypeOK, Procs, Off, Create, Recreate, Start,
       Verify, Configured, Compare, Finished, Halt, Write, StartHalted, Final, PassFails,
       GivesUp
  <2> QED BY <2>1, <2>2
<1>2. said' \in MaybeSpec
  BY <1>c DEF TypeOK, MaybeSpec, At, Begin, Off, Create, Recreate, Start, Verify, Configured,
     Compare, Finished, Halt, Write, StartHalted, Final, PassFails, GivesUp, Steady
<1>3. events' \in 0 .. MaxEvents
  BY Spending DEF TypeOK, Begin, Off, Create, Recreate, Start, Verify, Compare, Halt, Write,
     StartHalted, Final, PassFails, Command, CommandFails
<1>4. containers' \in Containers
  <2>1. New(target) \in Container /\ [New(target) EXCEPT !.up = FALSE] \in Container
    <3>1. New(target) \in Container
      BY <1>a, ContainerTypes DEF TypeOK, target
    <3> QED BY <3>1 DEF Container
  <2>2. Off \/ Start \/ Halt \/ StartHalted => containers' \in Containers
    BY <1>a, ContainerTypes DEF TypeOK, Off, Start, Halt, StartHalted, Running, Command,
       CommandFails
  <2>3. Create => containers' \in Containers
    BY <1>a, <2>1, ContainerTypes DEF Create
  <2> QED BY <2>2, <2>3 DEF TypeOK, Begin, Recreate, Verify, Compare, Write, Final, PassFails
<1>5. conf' \in Conf \cup {None}
  <2>1. Verify => conf' \in Conf \cup {None}
    <3>1. At("pass", "verify") => \A b \in target.binds : {b} \in Binds
      BY <1>c, SpecsAssumption DEF At, Binds
    <3>2. At("pass", "verify") => \A b \in target.binds : [binds |-> {b}, ours |-> TRUE] \in Conf
      BY <3>1 DEF Conf
    <3> QED BY <3>2 DEF Verify, Configured, TypeOK
  <2>2. Write => conf' \in Conf \cup {None}
    <3>1. At("pass", "write") => target.binds \in Binds
      BY <1>c, SpecsAssumption DEF At
    <3> QED BY <3>1 DEF Write, TypeOK, Conf
  <2> QED BY <2>1, <2>2 DEF TypeOK, Begin, Off, Create, Recreate, Start, Compare, Halt,
          StartHalted, Final, PassFails, Steady
<1>6. torn' \in BOOLEAN /\ crossed' \in BOOLEAN
  BY DEF TypeOK, Begin, Off, Create, Recreate, Start, Verify, Compare, Halt, Write,
     StartHalted, Final, PassFails, Meddles, Steady, At, Overlaps
<1>7. kind' = kind /\ desired' = desired /\ local' = local
  BY DEF Begin, Off, Create, Recreate, Start, Verify, Compare, Halt, Write, StartHalted,
     Final, PassFails, Steady
<1> QED BY <1>1, <1>2, <1>3, <1>4, <1>5, <1>6, <1>7 DEF TypeOK, Procs

\* The steps of the handlers, the script and the host keep the types.
LEMMA OthersType ==
  ASSUME TypeOK, PlacesInv,
         \/ \E a \in {"update", "script"} : Pull(a) \/ LookForNew(a)
         \/ Wipe \/ Erase
         \/ \E spec \in Specs : Put(spec)
         \/ UpdateAsked \/ ResetAsked \/ ScriptRuns
         \/ StoppedByHand \/ Crash
  PROVE  TypeOK'
<1> DEFINE Containers == [Names -> Container \cup {None}]
<1>a. {"update", "script", "reset", "pass"} \subseteq Actors /\ {"main", "prev"} \subseteq Names
  BY DEF Actors, Names
<1>b. {"look", "pull", "clear", "wipe", "erase", "idle"} \subseteq Places
  BY DEF Places, Replacing
<1>c. Resting \in Procs
  BY <1>b, NoneAssumption DEF Resting, Procs, MaybeSpec
<1>1. proc' \in [Actors -> Procs]
  <2>1. UpdateAsked => proc' \in [Actors -> Procs]
    BY <1>a, <1>b DEF UpdateAsked, TypeOK, Procs
  <2>3. ASSUME ScriptRuns PROVE proc' \in [Actors -> Procs]
    <3>1. containers["main"] \in Container
      BY <1>a, <2>3, ContainerTypes DEF ScriptRuns
    <3>2. [at |-> "pull", spec |-> containers["main"].spec, id |-> containers["main"].id] \in Procs
      BY <1>b, <3>1 DEF Container, Procs
    <3> QED BY <1>a, <2>3, <3>2 DEF ScriptRuns, TypeOK, Procs
  <2>2. Crash => proc' \in [Actors -> Procs]
    BY <1>c DEF Crash, TypeOK, Procs
  <2> QED BY <1>a, <1>b, <2>1, <2>2, <2>3, Going, Ending DEF TypeOK, Procs, Pull, GivesUp,
          LookForNew, Wipe, Erase, Put, ResetAsked, StoppedByHand
<1>2. said' \in MaybeSpec /\ desired' \in MaybeSpec /\ kind' = kind
  BY DEF TypeOK, MaybeSpec, Pull, GivesUp, LookForNew, Wipe, Erase, Put, UpdateAsked,
     ResetAsked, ScriptRuns, StoppedByHand, Crash
<1>3. events' \in 0 .. MaxEvents
  BY Spending DEF TypeOK, Pull, LookForNew, Wipe, Erase, Put, UpdateAsked, ResetAsked,
     ScriptRuns, StoppedByHand, Crash, CommandFails
<1>4. containers' \in Containers
  <2>1. Wipe => containers' \in Containers
    <3>1. "main" \in Names
      BY <1>a
    <3>2. [With("main", None) EXCEPT !["prev"] = None] \in Containers
      BY <3>1, RenameTypes
    <3>3. Exists("main") => Stopped("main") \in Containers
      BY <3>1, ContainerTypes
    <3> QED BY <3>2, <3>3 DEF TypeOK, Wipe
  <2>2. ASSUME UpdateAsked PROVE containers' \in Containers
    <3>1. CASE kind = "docker"
      BY <2>2, <3>1 DEF UpdateAsked, TypeOK
    <3>2. CASE kind # "docker"
      <4>1. Exists("main")
        BY <2>2, <3>2, KindsAssumption DEF UpdateAsked, TypeOK, PlacesInv, Answers, Running, Names
      <4>2. containers["main"] \in Container
        BY <1>a, <4>1, ContainerTypes
      <4>3. PICK id \in Ids : containers' = [containers EXCEPT !["main"].id = id]
        BY <2>2, <3>2 DEF UpdateAsked
      <4>4. [containers["main"] EXCEPT !.id = id] \in Container
        BY <4>2 DEF Container
      <4>5. containers' = [containers EXCEPT !["main"] = [containers["main"] EXCEPT !.id = id]]
        BY <4>3 DEF TypeOK
      <4> QED BY <4>4, <4>5 DEF TypeOK
    <3> QED BY <3>1, <3>2
  <2>3. StoppedByHand => containers' \in Containers
    BY <1>a, ContainerTypes DEF StoppedByHand, Running
  <2> QED BY <2>1, <2>2, <2>3 DEF TypeOK, Pull, LookForNew, Erase, Put, ResetAsked,
          ScriptRuns, Crash, CommandFails
<1>5. conf' \in Conf \cup {None} /\ local' \in Ids
  BY DEF TypeOK, Pull, LookForNew, Wipe, Erase, Put, UpdateAsked, ResetAsked, ScriptRuns,
     StoppedByHand, Crash
<1>6. torn' \in BOOLEAN /\ crossed' \in BOOLEAN
  BY DEF TypeOK, Pull, LookForNew, Wipe, Erase, Put, UpdateAsked, ResetAsked, ScriptRuns,
     StoppedByHand, Crash, Meddles, Crosses
<1> QED BY <1>1, <1>2, <1>3, <1>4, <1>5, <1>6 DEF TypeOK, Procs

-----------------------------------------------------------------------------
\* The steps of a pass outside a replacement.
PassSteps ==
  \/ Begin \/ Off \/ Create \/ Recreate \/ Start \/ Verify \/ Compare \/ Halt \/ Write
  \/ StartHalted \/ Final \/ PassFails

\* A replacement keeps everybody where they can be.
LEMMA PlacesReplace ==
  ASSUME TypeOK, PlacesInv, NEW a \in Replacers, Replace(a)
  PROVE  PlacesInv'
<1>a. a \in Actors
  BY DEF Replacers, Agents, Actors
<1>1. kind' = kind
  BY DEF Replace, Clear, Rename, StopOld, RunNew, Answer, DropOld, Remove, Restore,
     StartAgain, Steady
<1>2. /\ proc[a].at \in Replacing
      /\ proc'[a].at \in Replacing \cup (IF a = "pass" THEN {"idle", "verify"} ELSE {"idle"})
      /\ proc'[a].at # "idle" => proc'[a].spec = proc[a].spec
      /\ \A b \in Actors \ {a} : proc'[b] = proc[b]
  BY <1>a, Going, Ending DEF Replacing, Places, AfterClear, AfterRename, AfterStop, At,
     Replace, Clear, Rename, StopOld, RunNew, Answer, DropOld, Remove, Restore, StartAgain,
     GivesUp
<1>3. kind # "native"
  BY <1>2 DEF PlacesInv, At, Replacers, Agents, Replacing
<1> QED BY <1>a, <1>1, <1>2, <1>3 DEF PlacesInv, At, Replacers, Agents, Replacing, target, Actors

\* So does a pass.
LEMMA PlacesPass ==
  ASSUME TypeOK, PlacesInv, PassSteps
  PROVE  PlacesInv'
<1>a. "pass" \in Actors
  BY DEF Actors
<1>1. kind' = kind
  BY DEF PassSteps, Begin, Off, Create, Recreate, Start, Verify, Compare, Halt, Write,
     StartHalted, Final, PassFails, Steady
<1>2. \A b \in Actors \ {"pass"} : proc'[b] = proc[b]
  BY <1>a, Going, Ending DEF PassSteps, Begin, TypeOK, Off, Create, Recreate, Start, Verify,
     Configured, Compare, Finished, Halt, Write, StartHalted, Final, PassFails, GivesUp,
     Places, Replacing
<1>3. /\ proc'["pass"].at \in {"idle", "look", "verify", "compare", "halt", "write", "start", "final", "clear"}
      /\ proc'["pass"].at \notin {"idle", "look"} => target.on /\ target' = target
      /\ proc'["pass"].at # "idle" => target' \in Specs
      /\ kind = "native" => proc'["pass"].at # "clear"
  <2>1. CASE Begin
    BY <1>a, <2>1 DEF Begin, TypeOK, MaybeSpec, target
  <2>2. CASE ~Begin /\ Ends("pass")
    BY <1>a, <2>2, Ending
  <2>3. CASE ~Begin /\ ~Ends("pass")
    <3>1. ~At("pass", "idle") /\ (target.on \/ proc["pass"].at = "look") /\ target \in Specs
      BY <2>3 DEF PassSteps, PlacesInv, At, Off, Create, Recreate, Start, Verify, Compare,
         Halt, Write, StartHalted, Final, PassFails
    <3>2. \/ proc' = proc /\ Create /\ proc["pass"].at = "look"
          \/ \E place \in {"verify", "compare", "halt", "write", "start", "final"} :
               target.on /\ Goes("pass", place)
          \/ target.on /\ kind = "docker" /\ Goes("pass", "clear")
      BY <2>3, <3>1 DEF PassSteps, At, Off, Create, Recreate, Start, Verify, Configured,
         Compare, Finished, Halt, Write, StartHalted, Final, PassFails, GivesUp
    <3>3. {"verify", "compare", "halt", "write", "start", "final", "clear"} \subseteq Places
      BY DEF Places, Replacing
    <3> QED BY <1>a, <3>1, <3>2, <3>3, Going DEF target
  <2> QED BY <2>1, <2>2, <2>3
<1>4. At("reset", "idle")
  BY DEF PassSteps, PlacesInv, At, Begin, Off, Create, Recreate, Start, Verify, Compare,
     Halt, Write, StartHalted, Final, PassFails
<1>5. kind = "native" => ~Exists("prev")' /\ ~Exists("preupdate")'
  BY DEF PassSteps, PlacesInv, TypeOK, Exists, Names, With, Started, Stopped, Begin, Off,
     Create, Recreate, Start, Verify, Compare, Halt, Write, StartHalted, Final, PassFails,
     Command, CommandFails
<1> QED BY <1>1, <1>2, <1>3, <1>4, <1>5 DEF PlacesInv, At, Replacing, Actors
-----------------------------------------------------------------------------
\* The steps that are neither a pass's nor a replacement's.
OtherSteps ==
  \/ \E a \in {"update", "script"} : Pull(a) \/ LookForNew(a)
  \/ Wipe \/ Erase
  \/ \E spec \in Specs : Put(spec)
  \/ UpdateAsked \/ ResetAsked \/ ScriptRuns
  \/ StoppedByHand \/ Crash

\* So do the others.
LEMMA PlacesOthers ==
  ASSUME TypeOK, PlacesInv, OtherSteps
  PROVE  PlacesInv'
<1> DEFINE Early == {"idle", "pull", "look"}
           Keeps == kind' = kind /\ (kind = "native" => ~Exists("prev")' /\ ~Exists("preupdate")')
<1>a. {"look", "pull", "clear", "wipe", "erase", "idle"} \subseteq Places
  BY DEF Places, Replacing
<1>b. {"update", "script", "reset", "pass"} \subseteq Actors
  BY DEF Actors
<1>c. kind = "native" \/ kind = "docker"
  BY KindsAssumption DEF TypeOK
<1>1. ASSUME NEW a \in {"update", "script"}, Pull(a) \/ LookForNew(a)
      PROVE  PlacesInv'
  <2>1. kind' = kind /\ containers' = containers /\ ~At(a, "idle")
    BY <1>1 DEF Pull, LookForNew, At
  <2>2. proc'[a].at \in {"idle", "look", "clear"} /\ \A b \in Actors \ {a} : proc'[b] = proc[b]
    BY <1>1, <1>a, <1>b, Going, Ending DEF Pull, LookForNew, GivesUp
  <2> QED BY <1>1, <1>b, <2>1, <2>2 DEF PlacesInv, At, Exists, Replacing, target, Actors
<1>2. CASE Wipe \/ Erase
  <2>1. kind' = kind
    BY <1>2 DEF Wipe, Erase
  <2>2. ~At("reset", "idle") /\ proc'["reset"].at \in {"idle", "erase"}
        /\ \A b \in Actors \ {"reset"} : proc'[b] = proc[b]
    BY <1>2, <1>a, <1>b, Going, Ending DEF Wipe, Erase, At
  <2>3. kind = "native" => ~Exists("prev")' /\ ~Exists("preupdate")'
    BY <1>2 DEF Wipe, Erase, Exists, Stopped, TypeOK, Names, PlacesInv, CommandFails
  <2> QED BY <1>2, <1>b, <2>1, <2>2, <2>3 DEF PlacesInv, At, target, Actors
<1>3. CASE \/ StoppedByHand \/ \E spec \in Specs : Put(spec)
  <2>1. kind' = kind /\ proc' = proc
    BY <1>3 DEF StoppedByHand, Put
  <2>2. kind = "native" => ~Exists("prev")' /\ ~Exists("preupdate")'
    BY <1>3 DEF StoppedByHand, Put, Exists, Stopped, TypeOK, Names, PlacesInv
  <2> QED BY <2>1, <2>2 DEF PlacesInv, At, target
<1>4. CASE UpdateAsked
  <2>1. kind = "native" => ~Exists("prev")' /\ ~Exists("preupdate")'
    BY <1>4 DEF UpdateAsked, Exists, TypeOK, Names, PlacesInv
  <2>2. \A b \in Actors \ {"update"} : proc'[b] = proc[b]
    BY <1>4 DEF UpdateAsked, TypeOK
  <2>3. proc'["update"].at \in {"idle", "pull"} /\ (kind = "native" => proc' = proc)
    BY <1>4, <1>b, <1>c DEF UpdateAsked, TypeOK, At
  <2> QED BY <1>4, <1>b, <2>1, <2>2, <2>3 DEF UpdateAsked, PlacesInv, At, target, Actors
<1>5. CASE ScriptRuns
  <2>1. proc'["script"].at = "pull" /\ \A b \in Actors \ {"script"} : proc'[b] = proc[b]
    BY <1>5, <1>b DEF ScriptRuns, TypeOK
  <2> QED BY <1>5, <1>b, <2>1 DEF ScriptRuns, PlacesInv, At, target, Actors, Exists
<1>6. CASE ResetAsked
  <2>1. proc'["reset"].at = "wipe" /\ \A b \in Actors \ {"reset"} : proc'[b] = proc[b]
    BY <1>6, <1>a, <1>b, Going DEF ResetAsked
  <2> QED BY <1>6, <1>b, <2>1 DEF ResetAsked, PlacesInv, At, target, Actors, Exists
<1>7. CASE Crash
  <2>1. PICK dead \in {Actors, Actors \ {"script"}} :
          proc' = [a \in Actors |-> IF a \in dead THEN Resting ELSE proc[a]]
    BY <1>7 DEF Crash
  <2>2. \A a \in {"pass", "update", "reset"} : proc'[a] = Resting
    BY <2>1, <1>b
  <2>3. proc'["script"] \in {Resting, proc["script"]}
    BY <2>1, <1>b
  <2>4. kind' = kind /\ containers' = containers
    BY <1>7 DEF Crash
  <2>5. Resting.at = "idle"
    BY DEF Resting
  <2> QED BY <2>2, <2>3, <2>4, <2>5 DEF PlacesInv, At, target, Exists, Replacing
<1> QED BY <1>1, <1>2, <1>3, <1>4, <1>5, <1>6, <1>7 DEF OtherSteps

-----------------------------------------------------------------------------
\* A pass goes from one place to the next.
\* A pass keeps what it knows of AdGuardHome.yaml, step by step.
LEMMA ConfPass ==
  ASSUME TypeOK, PlacesInv, ConfInv, PassSteps
  PROVE  ConfInv'
<1>a. "pass" \in Actors /\ kind' = kind
  BY DEF Actors, PassSteps, Begin, Off, Create, Recreate, Start, Verify, Compare, Halt,
     Write, StartHalted, Final, PassFails, Steady
<1>b. {"look", "verify", "clear", "compare", "halt", "write", "start", "final"} \subseteq Places
  BY DEF Places, Replacing
<1>1. CASE Begin \/ Off \/ Create \/ Recreate \/ Final \/ PassFails
  <2>1. Begin => proc'["pass"].at = "look"
    BY <1>a DEF Begin, TypeOK
  <2>2. ~Begin => proc'["pass"].at \in {"idle", "look", "verify", "clear"}
    BY <1>a, <1>b, <1>1, Going, Ending DEF Off, Create, Recreate, Final, Finished, PassFails,
       GivesUp, At
  <2> QED BY <2>1, <2>2 DEF ConfInv, At
<1>2. CASE Start
  <2>1. proc'["pass"].at \in {"verify", "compare"} /\ (kind = "docker" => proc'["pass"].at = "verify")
    BY <1>a, <1>b, <1>2, Going DEF Start
  <2> QED BY <1>a, <2>1 DEF ConfInv, At
<1>3. CASE Verify
  <2>1. \/ proc'["pass"].at = "idle"
        \/ proc'["pass"].at = "compare" /\ conf' # None /\ conf'.ours
    <3>1. \A b \in target.binds : [binds |-> {b}, ours |-> TRUE] \in Conf
      BY <1>3, SpecsAssumption DEF Verify, PlacesInv, At, Conf, Binds
    <3> QED BY <1>a, <1>b, <1>3, <3>1, Going, Ending, NoneAssumption DEF Verify, Configured, GivesUp
  <2> QED BY <1>a, <2>1 DEF ConfInv, At
<1>4. CASE Compare
  <2>1. conf' = conf
    BY <1>4 DEF Compare, Steady
  <2>2. \/ proc'["pass"].at = "idle"
        \/ proc'["pass"].at = "halt" /\ target' = target /\ ~SameBinds
        \/ proc'["pass"].at = "start" /\ target' = target /\ conf # None /\ SameBinds
    BY <1>a, <1>b, <1>4, Going, Ending DEF Compare, Finished, GivesUp, target
  <2> QED BY <2>1, <2>2 DEF ConfInv, At, SameBinds
<1>5. CASE Halt
  <2>1. conf' = conf /\ At("pass", "halt")
    BY <1>5 DEF Halt, Steady
  <2>2. \/ proc'["pass"].at = "idle"
        \/ proc'["pass"].at = "write" /\ target' = target
    BY <1>a, <1>b, <1>5, Going, Ending DEF Halt, GivesUp, target
  <2> QED BY <2>1, <2>2 DEF ConfInv, At, SameBinds
<1>6. CASE Write
  <2>1. \/ proc'["pass"].at = "idle"
        \/ proc'["pass"].at = "start" /\ target' = target /\ conf # None
           /\ conf' = [conf EXCEPT !.binds = target.binds]
    BY <1>a, <1>b, <1>6, Going, Ending DEF Write, GivesUp, target
  <2>2. target.binds \in Binds
    BY <1>6, SpecsAssumption DEF Write, PlacesInv, At
  <2>3. conf # None => conf \in Conf
    BY DEF TypeOK
  <2> QED BY <2>1, <2>2, <2>3, NoneAssumption DEF ConfInv, At, SameBinds, Conf
<1>7. CASE StartHalted
  <2>1. conf' = conf /\ At("pass", "start")
    BY <1>7 DEF StartHalted, Steady
  <2>2. \/ proc'["pass"].at = "idle"
        \/ proc'["pass"].at = "final" /\ target' = target
    BY <1>a, <1>b, <1>7, Going, Ending DEF StartHalted, GivesUp, target
  <2> QED BY <2>1, <2>2 DEF ConfInv, At, SameBinds
<1> QED BY <1>1, <1>2, <1>3, <1>4, <1>5, <1>6, <1>7 DEF PassSteps

\* Nobody else writes what AdGuard Home is set to while a pass is under way.
LEMMA ConfReplace ==
  ASSUME TypeOK, PlacesInv, ConfInv, NEW a \in Replacers, Replace(a)
  PROVE  ConfInv'
<1>a. a \in Actors
  BY DEF Replacers, Agents, Actors
<1>1. kind' = kind /\ conf' = conf
  BY DEF Replace, Clear, Rename, StopOld, RunNew, Answer, DropOld, Remove, Restore,
     StartAgain, Steady
<1>2. CASE a = "pass"
  <2>1. proc'["pass"].at \in Replacing \cup {"idle", "verify"}
    BY <1>a, <1>2, Going, Ending DEF Replacing, Places, AfterClear, AfterRename, AfterStop,
       At, Replace, Clear, Rename, StopOld, RunNew, Answer, DropOld, Remove, Restore,
       StartAgain, GivesUp
  <2> QED BY <2>1 DEF ConfInv, At, Replacing
<1>3. CASE a # "pass"
  <2>1. proc'["pass"] = proc["pass"]
    BY <1>a, <1>3, Going, Ending DEF Actors, Replacing, Places, AfterClear, AfterRename,
       AfterStop, At, Replace, Clear, Rename, StopOld, RunNew, Answer, DropOld, Remove,
       Restore, StartAgain, GivesUp
  <2> QED BY <1>1, <2>1 DEF ConfInv, At, SameBinds, target
<1> QED BY <1>2, <1>3

\* Nor do the others: a reset waits for the pass.
LEMMA ConfOthers ==
  ASSUME TypeOK, PlacesInv, ConfInv, OtherSteps
  PROVE  ConfInv'
<1>a. {"look", "pull", "clear", "wipe", "erase"} \subseteq Places /\ {"update", "script", "reset", "pass"} \subseteq Actors
  BY DEF Places, Replacing, Actors
<1>1. CASE Crash
  <2>1. proc'["pass"].at = "idle"
    BY <1>1, <1>a DEF Crash, Resting
  <2> QED BY <2>1 DEF ConfInv, At
<1>2. CASE Erase
  <2>1. proc'["pass"].at = "idle"
    BY <1>2, <1>a, Ending DEF Erase, PlacesInv, At, Actors
  <2> QED BY <2>1 DEF ConfInv, At
<1>3. CASE ~Crash /\ ~Erase
  <2>1. kind' = kind /\ conf' = conf
    BY <1>3 DEF OtherSteps, Pull, LookForNew, Wipe, Put, UpdateAsked, ResetAsked, ScriptRuns,
       StoppedByHand
  <2>2. proc'["pass"] = proc["pass"]
    <3>1. UpdateAsked \/ ScriptRuns => proc'["pass"] = proc["pass"]
      BY <1>a DEF UpdateAsked, ScriptRuns, TypeOK
    <3> QED BY <1>3, <1>a, <3>1, Going, Ending DEF OtherSteps, Pull, GivesUp, LookForNew,
            Wipe, Put, ResetAsked, StoppedByHand, Actors
  <2> QED BY <2>1, <2>2 DEF ConfInv, At, SameBinds, target
<1> QED BY <1>1, <1>2, <1>3
-----------------------------------------------------------------------------
\* Who replaces does so in order.
LEMMA Mine ==
  ASSUME ReplacedInv, ~torn, NEW a \in Replacers, proc[a].at \in Replacing
  PROVE  Orderly(a)
BY DEF ReplacedInv, Orderly, Alone

\* When nobody replaces, no backup runs, and none is the only one that works.
LEMMA Free ==
  ASSUME ReplacedInv, ~torn, \A b \in Replacers : proc[b].at \notin Replacing
  PROVE  /\ \A b \in Replacers : Orderly(b)
         /\ ~Running("prev") /\ ~Running("preupdate") /\ (Works("prev") => Works("main"))
<1>1. PICK a \in Replacers : Orderly(a)
  BY DEF ReplacedInv
<1>2. \A b \in Replacers : ~Holding(b) /\ proc[b].at \notin {"run", "answer", "drop", "restart", "clear", "rename", "stop", "remove"}
  BY DEF Holding, Replacing
<1>3. ~Running("prev") /\ ~Running("preupdate") /\ (Works("prev") => Works("main"))
  BY <1>1, <1>2 DEF Orderly, Still, Safe, At
<1> QED BY <1>2, <1>3 DEF Orderly, Alone, BackedUp, Still, Safe, At

\* A replacement stays in order, command by command, unless it is torn.
LEMMA OrderlyReplace ==
  ASSUME TypeOK, NEW a \in Replacers, Orderly(a), Replace(a), ~torn'
  PROVE  Orderly(a)'
<1>a. a \in Actors /\ Backup(a) \in Names /\ Backup(a) # "main"
      /\ Backup(a) = (IF a = "script" THEN "preupdate" ELSE "prev")
      /\ (a = "script" \/ a \in Agents) /\ "script" \notin Agents
  BY DEF Replacers, Agents, Actors, Backup, Names
<1>b. Replacing \cup {"idle", "verify"} \subseteq Places
  BY DEF Places
<1>c. containers \in [Names -> Container \cup {None}] /\ "main" \in Names /\ "prev" \in Names /\ "preupdate" \in Names
  BY DEF TypeOK, Names
<1>1. Alone(a)'
  <2>1. \A b \in Actors \ {a} : proc'[b] = proc[b]
    BY <1>a, <1>b, Going, Ending DEF Replacing, AfterClear, AfterRename, AfterStop, Replace,
       Clear, Rename, StopOld, RunNew, Answer, DropOld, Remove, Restore, StartAgain, GivesUp
  <2> QED BY <2>1 DEF Orderly, Alone, Replacers, Agents, Actors
<1>2. ASSUME Clear(a) PROVE (BackedUp(a) /\ Still(a) /\ Safe(a))'
  <2>1. At(a, "clear") /\ proc'[a].at = AfterClear(a)
    BY <1>2, <1>a, <1>b, Going DEF Clear, AfterClear, Replacing
  <2>2. containers' \in {containers, With(Backup(a), None)}
    BY <1>2 DEF Clear, Command, CommandFails
  <2> QED BY <1>a, <1>c, <2>1, <2>2 DEF Orderly, BackedUp, Still, Safe, Holding, Exists,
          Running, Works, With, At, AfterClear, Backup
<1>3. ASSUME Rename(a) PROVE (BackedUp(a) /\ Still(a) /\ Safe(a))'
  <2>1. At(a, "rename")
    BY <1>3 DEF Rename
  <2>2. CASE Exists("main") /\ ~Exists(Backup(a)) /\ containers' = RenameEffect(a) /\ proc'[a].at = AfterRename(a)
    BY <1>a, <1>c, <2>1, <2>2 DEF Orderly, BackedUp, Still, Safe, Holding, Exists, Running,
       Works, RenameEffect, At, AfterRename, Backup
  <2>3. CASE containers' = containers /\ proc'[a].at = "idle"
    BY <1>a, <1>c, <2>1, <2>3 DEF Orderly, BackedUp, Still, Safe, Holding, Exists, Running,
       Works, At, Backup
  <2> QED BY <1>a, <1>b, <1>3, <2>2, <2>3, Going, Ending DEF Rename, Command, CommandFails,
          AfterRename, Replacing, GivesUp
<1>4. ASSUME StopOld(a) PROVE (BackedUp(a) /\ Still(a) /\ Safe(a))'
  <2>1. At(a, "stop")
    BY <1>4 DEF StopOld
  <2>2. CASE a = "script" /\ Exists("main") /\ containers' = Stopped("main") /\ proc'[a].at = "rename"
    <3>1. containers'["main"] = [containers["main"] EXCEPT !.up = FALSE] /\ containers["main"] \in Container
      BY <1>c, <2>2 DEF Stopped, Exists
    <3>2. containers'["prev"] = containers["prev"] /\ containers'["preupdate"] = containers["preupdate"]
      BY <1>c, <2>2 DEF Stopped
    <3> QED BY <1>a, <2>1, <2>2, <3>1, <3>2, NoneAssumption DEF Orderly, BackedUp, Still,
            Safe, Holding, Exists, Running, Works, At, Backup, Container
  <2>3. CASE a = "script" /\ containers' = containers /\ proc'[a].at = "idle"
    BY <1>a, <2>1, <2>3 DEF Orderly, BackedUp, Still, Safe, Holding, Exists, Running, Works,
       At, Backup
  <2>4. CASE a # "script" /\ Exists("prev") /\ containers' = Stopped("prev") /\ proc'[a].at = "run"
    <3>1. containers'["prev"] = [containers["prev"] EXCEPT !.up = FALSE] /\ containers["prev"] \in Container
      BY <1>c, <2>4 DEF Stopped, Exists
    <3>2. containers'["main"] = containers["main"] /\ containers'["preupdate"] = containers["preupdate"]
      BY <1>c, <2>4 DEF Stopped
    <3> QED BY <1>a, <2>1, <2>4, <3>1, <3>2, NoneAssumption DEF Orderly, BackedUp, Still,
            Safe, Holding, Exists, Running, Works, At, Backup, Container
  <2> QED BY <1>a, <1>b, <1>4, <2>2, <2>3, <2>4, Going, Ending DEF StopOld, Command,
          CommandFails, AfterStop, Replacing, GivesUp
<1>5. ASSUME RunNew(a) PROVE (BackedUp(a) /\ Still(a) /\ Safe(a))'
  <2>1. At(a, "run")
    BY <1>5 DEF RunNew
  <2>2. CASE containers' = With("main", New(proc[a].spec)) /\ proc'[a].at = "answer"
    <3>1. New(proc[a].spec) \in Container /\ New(proc[a].spec).up
      BY <1>a, ContainerTypes DEF TypeOK, New
    <3>2. containers'["main"] # None /\ containers'["main"].up
      BY <1>c, <2>2, <3>1, NoneAssumption DEF With
    <3>3. containers'["prev"] = containers["prev"] /\ containers'["preupdate"] = containers["preupdate"]
      BY <1>c, <2>2 DEF With
    <3> QED BY <1>a, <2>1, <2>2, <3>2, <3>3 DEF Orderly, BackedUp, Still, Safe, Holding,
            Exists, Running, Works, At, Backup
  <2>3. CASE containers' = containers /\ proc'[a].at = "remove"
    BY <1>a, <2>1, <2>3 DEF Orderly, BackedUp, Still, Safe, Holding, Exists, Running, Works,
       At, Backup
  <2> QED BY <1>a, <1>b, <1>5, <2>2, <2>3, Going DEF RunNew, Command, CommandFails, Replacing
<1>6. ASSUME Answer(a) PROVE (BackedUp(a) /\ Still(a) /\ Safe(a))'
  <2>1. At(a, "answer") /\ containers' = containers
    BY <1>6 DEF Answer
  <2>2. Answers <=> Works("main")
    BY <2>1 DEF Orderly, Still, Answers, Names, Running, At
  <2>3. CASE CameUp(a) /\ proc'[a].at = "drop"
    BY <1>a, <2>1, <2>2, <2>3 DEF Orderly, BackedUp, Still, Safe, Holding, Exists, Running,
       Works, At, Backup, CameUp
  <2>4. CASE StaysDown(a) /\ proc'[a].at = "remove"
    BY <1>a, <2>1, <2>2, <2>4 DEF Orderly, BackedUp, Still, Safe, Holding, Exists, Running,
       Works, At, Backup, StaysDown
  <2> QED BY <1>a, <1>b, <1>6, <2>3, <2>4, Going DEF Answer, Replacing
<1>7. ASSUME DropOld(a) PROVE (BackedUp(a) /\ Still(a) /\ Safe(a))'
  <2>1. At(a, "drop") /\ proc'[a].at \in {"idle", "verify"}
    BY <1>a, <1>b, <1>7, Going, Ending DEF DropOld
  <2>2. Works("main")
    BY <1>a, <1>7, <2>1 DEF DropOld, Orderly, Safe
  <2>3. containers' \in {containers, With(Backup(a), None)}
    BY <1>7 DEF DropOld, Command, CommandFails
  <2> QED BY <1>a, <1>c, <2>1, <2>2, <2>3 DEF Orderly, BackedUp, Still, Safe, Holding,
          Exists, Running, Works, At, Backup, With
<1>8. ASSUME Remove(a) PROVE (BackedUp(a) /\ Still(a) /\ Safe(a))'
  <2>1. At(a, "remove") /\ proc'[a].at = "restore"
    BY <1>a, <1>b, <1>8, Going DEF Remove, Replacing
  <2>2. containers' \in {containers, With("main", None)}
    BY <1>8 DEF Remove, Command, CommandFails
  <2> QED BY <1>a, <1>c, <2>1, <2>2 DEF Orderly, BackedUp, Still, Safe, Holding, Exists,
          Running, Works, At, Backup, With
<1>9. ASSUME Restore(a) PROVE (BackedUp(a) /\ Still(a) /\ Safe(a))'
  <2>1. At(a, "restore") /\ proc'[a].at = "restart"
    BY <1>a, <1>b, <1>9, Going DEF Restore, Replacing
  <2>2. Exists(Backup(a)) /\ containers' = [containers EXCEPT ![Backup(a)] = None, !["main"] = containers[Backup(a)]]
    BY <1>9 DEF Restore, Command
  <2> QED BY <1>a, <1>c, <2>1, <2>2 DEF Orderly, BackedUp, Still, Safe, Holding, Exists,
          Running, Works, At, Backup
<1>10. ASSUME StartAgain(a) PROVE (BackedUp(a) /\ Still(a) /\ Safe(a))'
  <2>1. At(a, "restart") /\ proc'[a].at = "idle"
    BY <1>a, <1>10, Ending DEF StartAgain, GivesUp
  <2>2. containers' = containers \/ (Exists("main") /\ containers' = Started("main"))
    BY <1>10 DEF StartAgain, CommandFails
  <2>3. containers'["prev"] = containers["prev"] /\ containers'["preupdate"] = containers["preupdate"]
    BY <1>c, <2>2 DEF Started
  <2>4. Works("main") => Works("main")'
    <3>1. CASE Exists("main") /\ containers' = Started("main")
      <4>1. containers'["main"] = [containers["main"] EXCEPT !.up = TRUE] /\ containers["main"] \in Container
        BY <1>c, <3>1 DEF Started, Exists
      <4> QED BY <4>1, NoneAssumption DEF Works, Exists, Container
    <3> QED BY <2>2, <3>1 DEF Works, Exists
  <2> QED BY <1>a, <2>1, <2>3, <2>4 DEF Orderly, BackedUp, Still, Safe, Holding, Exists,
          Running, Works, At, Backup
<1> QED BY <1>1, <1>2, <1>3, <1>4, <1>5, <1>6, <1>7, <1>8, <1>9, <1>10 DEF Replace, Orderly
-----------------------------------------------------------------------------
\* The containers when nobody replaces.
Quiet == ~Running("prev") /\ ~Running("preupdate") /\ (Works("prev") => Works("main"))
\* Nobody is between two commands of a replacement.
NobodyReplaces == \A a \in Replacers : proc[a].at \notin Replacing

\* Quiet containers that nobody replaces are in order.
LEMMA AtRest ==
  ASSUME NobodyReplaces, Quiet
  PROVE  ReplacedInv
<1>1. \A a \in Replacers : ~Holding(a) /\ proc[a].at \notin {"run", "answer", "drop", "restart", "clear", "rename", "stop", "remove"}
  BY DEF NobodyReplaces, Holding, Replacing
<1>2. Orderly("pass")
  BY <1>1 DEF NobodyReplaces, Quiet, Orderly, Alone, BackedUp, Still, Safe, At, Replacers, Agents
<1> QED BY <1>2 DEF ReplacedInv, Replacers, Agents

\* A step that leaves the containers, and those who replace them, keeps the order.
LEMMA Unmoved ==
  ASSUME ReplacedInv, containers' = containers, torn' \/ ~torn,
         \A a \in Replacers : \/ proc'[a].at = proc[a].at
                              \/ {proc[a].at, proc'[a].at} \cap Replacing = {}
  PROVE  ReplacedInv'
<1>1. CASE torn'
  BY <1>1 DEF ReplacedInv
<1>2. CASE ~torn' /\ NobodyReplaces
  <2>1. Quiet
    BY <1>2, Free DEF Quiet, NobodyReplaces
  <2>2. NobodyReplaces' /\ Quiet'
    BY <1>2, <2>1 DEF NobodyReplaces, Quiet, Running, Works, Exists
  <2> QED BY <2>2, AtRest, PTL
<1>3. CASE ~torn' /\ ~NobodyReplaces
  <2>1. PICK a \in Replacers : proc[a].at \in Replacing
    BY <1>3 DEF NobodyReplaces
  <2>2. Orderly(a)
    BY <1>3, <2>1, Mine
  <2>3. proc'[a].at = proc[a].at
    BY <2>1
  <2>4. Orderly(a)'
    BY <2>2, <2>3 DEF Orderly, Alone, BackedUp, Still, Safe, Holding, At, Exists, Running, Works
  <2> QED BY <2>4 DEF ReplacedInv
<1> QED BY <1>1, <1>2, <1>3
-----------------------------------------------------------------------------
\* A pass that does not replace moves itself only, and begins to replace by Recreate.
LEMMA PassKeepsNames ==
  ASSUME TypeOK, PassSteps
  PROVE  /\ \A b \in Actors \ {"pass"} : proc'[b] = proc[b]
         /\ proc["pass"].at \notin Replacing
         /\ proc'["pass"].at \notin Replacing \/ Recreate
<1>a. "pass" \in Actors
  BY DEF Actors
<1>b. {"verify", "compare", "halt", "write", "start", "final", "clear"} \subseteq Places /\ "look" \notin Replacing /\ "idle" \notin Replacing
      /\ {"verify", "compare", "halt", "write", "start", "final"} \cap Replacing = {}
  BY DEF Places, Replacing
<1>1. proc["pass"].at \notin Replacing
  BY DEF PassSteps, Begin, Off, Create, Recreate, Start, Verify, Compare, Halt, Write,
     StartHalted, Final, PassFails, At, Replacing
<1>2. CASE Begin
  BY <1>a, <1>b, <1>1, <1>2 DEF Begin, TypeOK
<1>3. CASE ~Begin
  BY <1>a, <1>b, <1>1, <1>3, Going, Ending DEF PassSteps, Off, Create, Recreate, Start,
     Verify, Configured, Compare, Finished, Halt, Write, StartHalted, Final, PassFails,
     GivesUp
<1> QED BY <1>2, <1>3

\* A new main container in place of none, or of one no better, keeps them quiet.
LEMMA MainChanges ==
  ASSUME TypeOK, Quiet, NEW c, containers' = With("main", c), c # None /\ (Works("main") => c.id \notin Broken)
  PROVE  Quiet'
BY DEF TypeOK, Quiet, With, Running, Works, Exists, Names

\* So does starting or stopping it.
LEMMA MainSwitched ==
  ASSUME TypeOK, Quiet, Exists("main"), containers' \in {Started("main"), Stopped("main")}
  PROVE  Quiet'
<1>1. containers["main"] \in Container
  BY DEF TypeOK, Exists, Names
<1>2. PICK up \in BOOLEAN : containers' = [containers EXCEPT !["main"].up = up]
  BY DEF Started, Stopped
<1>3. containers'["main"] = [containers["main"] EXCEPT !.up = up]
  BY <1>2 DEF TypeOK, Names
<1>4. containers'["main"] \in Container /\ containers'["main"].id = containers["main"].id
  BY <1>1, <1>3 DEF Container
<1>5. containers'["prev"] = containers["prev"] /\ containers'["preupdate"] = containers["preupdate"]
  BY <1>2 DEF TypeOK, Names
<1> QED BY <1>4, <1>5, NoneAssumption DEF Quiet, Running, Works, Exists

\* A pass keeps replacements in order, or tears them.
LEMMA ReplacedPass ==
  ASSUME TypeOK, PlacesInv, ReplacedInv, PassSteps
  PROVE  ReplacedInv'
<1>a. /\ \A b \in Actors \ {"pass"} : proc'[b] = proc[b]
      /\ proc["pass"].at \notin Replacing
      /\ proc'["pass"].at \notin Replacing \/ Recreate
  BY PassKeepsNames
<1>b. Replacers \subseteq Actors /\ "pass" \in Replacers
  BY DEF Replacers, Agents, Actors
<1>1. CASE Begin \/ Verify \/ Compare \/ Write \/ Final \/ PassFails
  <2>1. containers' = containers /\ torn' = torn
    BY <1>1 DEF Begin, Verify, Compare, Write, Final, PassFails
  <2>2. proc'["pass"].at \notin Replacing
    <3>1. {"idle", "compare", "halt", "start"} \subseteq Places \ Replacing
      BY DEF Places, Replacing
    <3>2. ~Begin => proc'["pass"].at \in {"idle", "compare", "halt", "start"}
      BY <1>1, <1>b, <3>1, Going, Ending DEF Verify, Configured, Compare, Finished, Write,
         Final, PassFails, GivesUp
    <3>3. Begin => proc'["pass"].at = "look"
      BY <1>b DEF Begin, TypeOK
    <3> QED BY <3>1, <3>2, <3>3 DEF Replacing
  <2> QED BY <1>a, <1>b, <2>1, <2>2, Unmoved
<1>2. CASE torn'
  BY <1>2 DEF ReplacedInv
<1>3. ASSUME ~torn', Off \/ Create \/ Recreate \/ Start \/ Halt \/ StartHalted
      PROVE  ReplacedInv'
  <2>1. ~torn /\ \A b \in Actors \ {"pass"} : proc[b].at \notin Replacing
    BY <1>3 DEF Off, Create, Recreate, Start, Halt, StartHalted, Meddles, Overlaps
  <2>2. NobodyReplaces
    BY <1>a, <1>b, <2>1 DEF NobodyReplaces
  <2>3. Quiet
    BY <2>1, <2>2, Free DEF Quiet, NobodyReplaces
  <2>4. Quiet'
    <3>1. CASE containers' = containers
      BY <2>3, <3>1 DEF Quiet, Running, Works, Exists
    <3>2. CASE Exists("main") /\ containers' \in {Started("main"), Stopped("main")}
      BY <2>3, <3>2, MainSwitched
    <3>3. CASE Create
      <4>1. New(target) \in Container
        BY ContainerTypes DEF TypeOK, target, Actors, Names
      <4>2. PICK c \in Container : containers' = With("main", c)
        BY <3>3, <4>1 DEF Create, Container
      <4>3. c # None /\ ~Works("main")
        BY <3>3, NoneAssumption DEF Create, Works
      <4> QED BY <2>3, <4>2, <4>3, MainChanges
    <3> QED BY <1>3, <3>1, <3>2, <3>3 DEF Off, Recreate, Start, Halt, StartHalted, Running,
            Command, CommandFails
  <2>5. CASE ~Recreate
    <3>1. NobodyReplaces'
      BY <1>a, <1>b, <2>2, <2>5 DEF NobodyReplaces
    <3> QED BY <2>4, <3>1, AtRest, PTL
  <2>6. CASE Recreate
    <3>1. proc'["pass"].at = "clear" /\ containers' = containers /\ Exists("main")
      BY <2>6, Going DEF Recreate, Actors, Places, Replacing
    <3>2. Orderly("pass")'
      BY <1>a, <1>b, <2>1, <2>4, <3>1 DEF Quiet, Orderly, Alone, BackedUp, Still, Safe,
         Holding, At, Exists
    <3> QED BY <1>b, <3>2 DEF ReplacedInv
  <2> QED BY <2>5, <2>6
<1> QED BY <1>1, <1>2, <1>3 DEF PassSteps

\* So do the others.
LEMMA ReplacedOthers ==
  ASSUME TypeOK, PlacesInv, ReplacedInv, OtherSteps
  PROVE  ReplacedInv'
<1>a. /\ {"look", "pull", "clear", "wipe", "erase", "idle"} \subseteq Places
      /\ {"look", "pull", "wipe", "erase", "idle"} \cap Replacing = {}
  BY DEF Places, Replacing
<1>b. Replacers \subseteq Actors /\ Replacers = {"pass", "update", "script"} /\ {"update", "script", "reset", "pass"} = Actors
  BY DEF Replacers, Agents, Actors
<1>1. ASSUME NEW a \in {"update", "script"}, Pull(a)
      PROVE  ReplacedInv'
  <2>1. containers' = containers /\ torn' = torn /\ At(a, "pull")
    BY <1>1 DEF Pull
  <2>2. proc'[a].at \in {"look", "idle"} /\ \A b \in Actors \ {a} : proc'[b] = proc[b]
    BY <1>1, <1>a, <1>b, Going, Ending DEF Pull, GivesUp
  <2> QED BY <1>a, <1>b, <2>1, <2>2, Unmoved DEF At
<1>2. ASSUME NEW a \in {"update", "script"}, LookForNew(a)
      PROVE  ReplacedInv'
  <2>1. containers' = containers /\ At(a, "look")
    BY <1>2 DEF LookForNew
  <2>2. CASE Ends(a) /\ torn' = torn
    <3>1. proc'[a].at = "idle" /\ \A b \in Actors \ {a} : proc'[b] = proc[b]
      BY <1>b, <2>2, Ending
    <3> QED BY <1>a, <1>b, <2>1, <2>2, <3>1, Unmoved DEF At
  <2>3. CASE ~Current(a) /\ Goes(a, "clear") /\ Meddles(a)
    <3>1. CASE torn'
      BY <3>1 DEF ReplacedInv
    <3>2. CASE ~torn'
      <4>1. ~torn /\ \A b \in Actors \ {a} : proc[b].at \notin Replacing
        BY <2>3, <3>2 DEF Meddles, Overlaps
      <4>2. NobodyReplaces
        BY <1>a, <1>b, <2>1, <4>1 DEF NobodyReplaces, At
      <4>3. Quiet
        BY <4>1, <4>2, Free DEF Quiet, NobodyReplaces
      <4>4. proc'[a].at = "clear" /\ \A b \in Actors \ {a} : proc'[b] = proc[b]
        BY <1>a, <1>b, <2>3, Going
      <4>5. a = "update" => Exists("main")
        BY <2>3 DEF Current
      <4>6. Orderly(a)'
        BY <1>b, <2>1, <4>1, <4>3, <4>4, <4>5 DEF Quiet, Orderly, Alone, BackedUp, Still,
           Safe, Holding, At, Exists, Agents, Running, Works
      <4> QED BY <1>b, <4>6 DEF ReplacedInv
    <3> QED BY <3>1, <3>2
  <2> QED BY <1>2, <2>2, <2>3 DEF LookForNew
<1>3. ASSUME Wipe PROVE ReplacedInv'
  <2>1. CASE torn'
    BY <2>1 DEF ReplacedInv
  <2>2. CASE ~torn'
    <3>1. ~torn /\ NobodyReplaces
      BY <1>3, <1>b, <2>2 DEF Wipe, Meddles, Overlaps, NobodyReplaces
    <3>2. Quiet
      BY <3>1, Free DEF Quiet, NobodyReplaces
    <3>3. NobodyReplaces'
      BY <1>3, <1>a, <1>b, <3>1, Going DEF Wipe, NobodyReplaces
    <3>4. Quiet'
      <4>1. CASE containers' = [With("main", None) EXCEPT !["prev"] = None]
        BY <3>2, <4>1 DEF TypeOK, Names, With, Quiet, Running, Works, Exists
      <4>2. CASE Exists("main") /\ containers' = Stopped("main")
        BY <3>2, <4>2, MainSwitched
      <4>3. CASE containers' = containers
        BY <3>2, <4>3 DEF Quiet, Running, Works, Exists
      <4> QED BY <1>3, <4>1, <4>2, <4>3 DEF Wipe
    <3> QED BY <3>3, <3>4, AtRest, PTL
  <2> QED BY <2>1, <2>2
<1>4. ASSUME Erase \/ ResetAsked PROVE ReplacedInv'
  <2>1. containers' = containers /\ (torn' \/ ~torn)
    BY <1>4 DEF Erase, ResetAsked, CommandFails, TypeOK
  <2>2. \A b \in Replacers : proc'[b] = proc[b]
    BY <1>4, <1>a, <1>b, Going, Ending DEF Erase, ResetAsked
  <2> QED BY <2>1, <2>2, Unmoved
<1>5. ASSUME NEW spec \in Specs, Put(spec) PROVE ReplacedInv'
  <2>1. containers' = containers /\ torn' = torn /\ proc' = proc
    BY <1>5 DEF Put
  <2> QED BY <2>1, Unmoved
<1>6. ASSUME UpdateAsked PROVE ReplacedInv'
  <2>1. CASE kind = "docker"
    <3>1. containers' = containers /\ torn' = torn /\ At("update", "idle")
      BY <1>6, <2>1 DEF UpdateAsked
    <3>2. proc'["update"].at = "pull" /\ \A b \in Actors \ {"update"} : proc'[b] = proc[b]
      BY <1>6, <1>b, <2>1 DEF UpdateAsked, TypeOK
    <3> QED BY <1>a, <1>b, <3>1, <3>2, Unmoved DEF At
  <2>2. CASE kind # "docker"
    <3>1. NobodyReplaces /\ ~Exists("prev") /\ ~Exists("preupdate")
      BY <1>a, <1>b, <2>2, KindsAssumption DEF PlacesInv, TypeOK, NobodyReplaces, At
    <3>2. proc' = proc /\ \E id \in Ids : containers' = [containers EXCEPT !["main"].id = id]
      BY <1>6, <2>2 DEF UpdateAsked
    <3>3. NobodyReplaces' /\ Quiet'
      BY <3>1, <3>2 DEF NobodyReplaces, Quiet, Running, Works, Exists, TypeOK, Names
    <3> QED BY <3>3, AtRest, PTL
  <2> QED BY <2>1, <2>2
<1>7. ASSUME ScriptRuns PROVE ReplacedInv'
  <2>1. containers' = containers /\ torn' = torn /\ At("script", "idle")
    BY <1>7 DEF ScriptRuns
  <2>2. proc'["script"].at = "pull" /\ \A b \in Actors \ {"script"} : proc'[b] = proc[b]
    BY <1>7, <1>b DEF ScriptRuns, TypeOK
  <2> QED BY <1>a, <1>b, <2>1, <2>2, Unmoved DEF At
<1>8. ASSUME StoppedByHand \/ Crash PROVE ReplacedInv'
  <2>1. CASE torn'
    BY <2>1 DEF ReplacedInv
  <2>2. CASE ~torn'
    <3>1. ~torn /\ NobodyReplaces
      BY <1>8, <1>b, <2>2 DEF StoppedByHand, Crash, NobodyReplaces
    <3>2. Quiet
      BY <3>1, Free DEF Quiet, NobodyReplaces
    <3>3. Quiet'
      <4>1. StoppedByHand => Quiet'
        BY <3>2, MainSwitched DEF StoppedByHand, Running
      <4>2. Crash => Quiet'
        BY <3>2 DEF Crash, Quiet, Running, Works, Exists
      <4> QED BY <1>8, <4>1, <4>2
    <3>4. NobodyReplaces'
      <4>1. StoppedByHand => NobodyReplaces'
        BY <3>1 DEF StoppedByHand, NobodyReplaces
      <4>2. Crash => NobodyReplaces'
        <5>1. \A dead : \A b \in Actors : (IF b \in dead THEN Resting ELSE proc[b]).at \in {proc[b].at, "idle"}
          BY DEF Resting
        <5> QED BY <1>a, <1>b, <3>1, <5>1 DEF Crash, NobodyReplaces
      <4> QED BY <1>8, <4>1, <4>2
    <3> QED BY <3>3, <3>4, AtRest, PTL
  <2> QED BY <2>1, <2>2
<1> QED BY <1>1, <1>2, <1>3, <1>4, <1>5, <1>6, <1>7, <1>8 DEF OtherSteps
-----------------------------------------------------------------------------
\* A replacement crosses no pass that was not crossed when it began.
LEMMA CrossReplace ==
  ASSUME TypeOK, CrossInv, NEW a \in Replacers, Replace(a)
  PROVE  CrossInv'
<1>a. a \in Actors /\ crossed' = crossed
  BY DEF Replacers, Agents, Actors, Replace, Clear, Rename, StopOld, RunNew, Answer, DropOld,
     Remove, Restore, StartAgain, Steady
<1>1. proc[a].at \in Replacing /\ \A b \in Actors \ {a} : proc'[b] = proc[b]
  BY <1>a, Going, Ending DEF Replacing, Places, AfterClear, AfterRename, AfterStop, At,
     Replace, Clear, Rename, StopOld, RunNew, Answer, DropOld, Remove, Restore, StartAgain,
     GivesUp
<1> QED BY <1>a, <1>1 DEF CrossInv, At, Actors, Replacers, Agents, Replacing

\* A pass that begins beside an update or the script is crossed from the start.
LEMMA CrossPass ==
  ASSUME TypeOK, CrossInv, PassSteps
  PROVE  CrossInv'
<1>1. \A b \in Actors \ {"pass"} : proc'[b] = proc[b]
  BY PassKeepsNames
<1>2. Begin => CrossInv'
  BY <1>1 DEF Begin, CrossInv, At, Actors
<1>3. ~Begin => crossed' = crossed /\ ~At("pass", "idle")
  BY DEF PassSteps, Off, Create, Recreate, Start, Verify, Compare, Halt, Write, StartHalted,
     Final, PassFails, Steady, At
<1> QED BY <1>1, <1>2, <1>3 DEF CrossInv, At, Actors

\* An update or a run of the script that begins beside a pass crosses it.
LEMMA CrossOthers ==
  ASSUME TypeOK, PlacesInv, CrossInv, OtherSteps
  PROVE  CrossInv'
<1>a. /\ {"look", "pull", "clear", "wipe", "erase", "idle"} \subseteq Places
      /\ {"update", "script", "reset", "pass"} = Actors
  BY DEF Places, Replacing, Actors
<1>1. ASSUME NEW a \in {"update", "script"}, Pull(a) \/ LookForNew(a)
      PROVE  CrossInv'
  <2>1. crossed' = crossed /\ ~At(a, "idle")
    BY <1>1 DEF Pull, LookForNew, At
  <2>2. proc'["pass"] = proc["pass"]
    BY <1>1, <1>a, Going, Ending DEF Pull, LookForNew, GivesUp
  <2> QED BY <2>1, <2>2 DEF CrossInv, At
<1>2. ASSUME Wipe \/ Erase \/ ResetAsked PROVE CrossInv'
  <2>1. crossed' = crossed /\ \A b \in Actors \ {"reset"} : proc'[b] = proc[b]
    BY <1>2, <1>a, Going, Ending DEF Wipe, Erase, ResetAsked
  <2> QED BY <1>a, <2>1 DEF CrossInv, At
<1>3. ASSUME StoppedByHand \/ \E spec \in Specs : Put(spec) PROVE CrossInv'
  BY <1>3 DEF StoppedByHand, Put, CrossInv, At
<1>4. ASSUME UpdateAsked \/ ScriptRuns PROVE CrossInv'
  <2>1. proc'["pass"] = proc["pass"]
    BY <1>a, <1>4 DEF UpdateAsked, ScriptRuns, TypeOK
  <2> QED BY <1>4, <2>1 DEF UpdateAsked, ScriptRuns, Crosses, CrossInv, At
<1>5. ASSUME Crash PROVE CrossInv'
  <2>1. proc'["pass"].at = "idle"
    BY <1>5, <1>a DEF Crash, Resting
  <2> QED BY <2>1 DEF CrossInv, At
<1> QED BY <1>1, <1>2, <1>3, <1>4, <1>5 DEF OtherSteps

-----------------------------------------------------------------------------
\* A pass's own replacement makes the container from its target.
LEMMA PassReplace ==
  ASSUME TypeOK, PlacesInv, ReplacedInv, CrossInv, PassInv, NEW a \in Replacers, Replace(a)
  PROVE  PassInv'
<1>a. /\ a \in Actors /\ crossed' = crossed /\ kind' = kind /\ (~torn' => ~torn)
      /\ Backup(a) \in Names \ {"main"} /\ "main" \in Names
  <2>1. a \in Actors /\ Backup(a) \in Names \ {"main"} /\ "main" \in Names
    BY DEF Replacers, Agents, Actors, Backup, Names
  <2>2. crossed' = crossed /\ kind' = kind
    BY DEF Replace, Clear, Rename, StopOld, RunNew, Answer, DropOld, Remove, Restore,
       StartAgain, Steady
  <2>3. ~torn' => ~torn
    BY DEF Replace, Clear, Rename, StopOld, RunNew, Answer, DropOld, Remove, Restore, StartAgain
  <2> QED BY <2>1, <2>2, <2>3
<1>b. Replacing \cup {"idle", "verify"} \subseteq Places
  BY DEF Places
<1>1. ASSUME a # "pass", ~torn', ~crossed', ~At("pass", "idle")'
      PROVE  FALSE
  <2>1. proc'["pass"] = proc["pass"] /\ ~At(a, "idle")
    BY <1>1, <1>a, <1>b, Going, Ending DEF Actors, Replacing, AfterClear, AfterRename,
       AfterStop, At, Replace, Clear, Rename, StopOld, RunNew, Answer, DropOld, Remove,
       Restore, StartAgain, GivesUp
  <2> QED BY <1>a, <1>1, <2>1 DEF CrossInv, At, Replacers, Agents
<1>2. CASE a = "pass" /\ ~torn' /\ ~crossed'
  <2>1. CASE RunNew(a)
    <3>1. New(target) \in Container /\ New(target).spec = target
      BY <1>a, ContainerTypes DEF TypeOK, target, New, Actors
    <3>2. \/ proc'["pass"].at = "remove"
          \/ proc'["pass"].at = "answer" /\ target' = target /\ containers' = With("main", New(target))
      BY <1>a, <1>b, <1>2, <2>1, Going DEF RunNew, Replacing, target, Command, CommandFails
    <3> QED BY <1>a, <3>1, <3>2, NoneAssumption DEF PassInv, Exists, With, TypeOK
  <2>2. CASE Answer(a)
    <3>1. \/ proc'["pass"].at = "remove"
          \/ proc'["pass"].at = "drop" /\ target' = target
      BY <1>a, <1>b, <1>2, <2>2, Going DEF Answer, Replacing, target
    <3>2. containers' = containers /\ At("pass", "answer")
      BY <1>2, <2>2 DEF Answer
    <3> QED BY <1>a, <1>2, <3>1, <3>2 DEF PassInv, Exists, At
  <2>3. CASE DropOld(a)
    <3>1. proc'["pass"].at = "verify" /\ target' = target /\ At("pass", "drop")
      BY <1>a, <1>b, <1>2, <2>3, Going DEF DropOld, target
    <3>2. containers'["main"] = containers["main"]
      BY <1>a, <2>3 DEF DropOld, Command, CommandFails, With, TypeOK
    <3> QED BY <1>a, <1>2, <3>1, <3>2 DEF PassInv, Exists, At
  <2>4. CASE ~RunNew(a) /\ ~Answer(a) /\ ~DropOld(a)
    <3>1. proc'["pass"].at \in {"idle", "rename", "stop", "run", "restore", "restart"}
      BY <1>a, <1>b, <1>2, <2>4, Going, Ending DEF Replacing, AfterClear, AfterRename,
         AfterStop, Replace, Clear, Rename, StopOld, Remove, Restore, StartAgain, GivesUp
    <3> QED BY <3>1 DEF PassInv
  <2> QED BY <2>1, <2>2, <2>3, <2>4
<1> QED BY <1>1, <1>2 DEF PassInv, At

\* A pass goes on with a container made from its target.
LEMMA PassPass ==
  ASSUME TypeOK, PlacesInv, CrossInv, PassInv, PassSteps
  PROVE  PassInv'
<1>a. /\ "pass" \in Actors /\ "main" \in Names
      /\ {"look", "verify", "clear", "compare", "halt", "write", "start", "final"} \subseteq Places
  BY DEF Actors, Names, Places, Replacing
<1>b. kind' = kind
  BY DEF PassSteps, Begin, Off, Create, Recreate, Start, Verify, Compare, Halt, Write,
     StartHalted, Final, PassFails, Steady
<1>c. Exists("main") => containers["main"] \in Container
  BY <1>a, ContainerTypes
<1> DEFINE Late == {"verify", "compare", "halt", "write", "start", "final"}
           Made == Exists("main") /\ (kind = "docker" => containers["main"].spec = target)
<1>1. CASE proc'["pass"].at \notin Late
  <2>1. proc'["pass"].at \notin {"answer", "drop"}
    <3>1. Recreate => proc'["pass"].at = "clear"
      BY <1>a, Going DEF Recreate
    <3> QED BY <3>1, PassKeepsNames DEF Replacing
  <2> QED BY <1>1, <2>1 DEF PassInv
<1>2. CASE proc'["pass"].at \in Late /\ (Create \/ Start)
  <2>1. target' = target
    BY <1>a, <1>2, Going DEF Create, Start, target
  <2>2. CASE Create
    <3>1. New(target) \in Container /\ New(target).spec = target
      BY <1>a, ContainerTypes DEF TypeOK, target, New
    <3>2. kind = "docker" => containers' = With("main", New(target))
      BY <2>2 DEF Create
    <3>3. kind = "docker"
      BY <1>2, <2>2 DEF Create, At
    <3> QED BY <1>a, <1>b, <2>1, <3>1, <3>2, <3>3, NoneAssumption DEF PassInv, Exists, With, TypeOK
  <2>3. CASE Start
    <3>1. Made
      BY <2>3 DEF Start, Fits
    <3>2. containers' = containers \/ containers' = Started("main")
      BY <2>3 DEF Start
    <3>3. containers'["main"] = containers["main"] \/ containers'["main"] = [containers["main"] EXCEPT !.up = TRUE]
      BY <1>a, <3>2 DEF TypeOK, Started
    <3>4. containers'["main"] # None /\ containers'["main"].spec = containers["main"].spec
      BY <1>c, <3>1, <3>3, NoneAssumption DEF Container, Exists
    <3> QED BY <1>b, <2>1, <3>1, <3>4 DEF PassInv, Exists
  <2> QED BY <1>2, <2>2, <2>3
<1>3. CASE proc'["pass"].at \in Late /\ ~Create /\ ~Start
  <2>1. /\ Verify \/ Compare \/ Halt \/ Write \/ StartHalted
        /\ target' = target
    <3>1. Begin => proc'["pass"].at = "look"
      BY <1>a DEF Begin, TypeOK
    <3>2. Off \/ Recreate \/ Final \/ PassFails => proc'["pass"].at \notin Late
      BY <1>a, Going, Ending DEF Off, Recreate, Final, Finished, PassFails, GivesUp
    <3>3. Verify \/ Compare \/ Halt \/ Write \/ StartHalted => target' = target
      BY <1>a, <1>3, Going, Ending DEF Verify, Configured, Compare, Finished, Halt, Write,
         StartHalted, GivesUp, target
    <3> QED BY <1>3, <3>1, <3>2, <3>3 DEF PassSteps
  <2>2. proc["pass"].at \in Late /\ crossed' = crossed /\ (~torn' => ~torn)
    <3>1. proc["pass"].at \in Late
      BY <2>1 DEF Verify, Compare, Halt, Write, StartHalted, At
    <3>2. crossed' = crossed
      BY <2>1 DEF Verify, Compare, Halt, Write, StartHalted, Steady
    <3>3. ~torn' => ~torn
      BY <2>1 DEF Verify, Compare, Halt, Write, StartHalted, Meddles
    <3> QED BY <3>1, <3>2, <3>3
  <2>3. containers' = containers \/ (Exists("main") /\ containers' \in {Started("main"), Stopped("main")})
    BY <2>1 DEF Verify, Compare, Halt, Write, StartHalted, Command, CommandFails
  <2>4. Exists("main") => containers'["main"] # None /\ containers'["main"].spec = containers["main"].spec
    <3>1. CASE Exists("main") /\ containers' \in {Started("main"), Stopped("main")}
      <4>1. PICK up \in BOOLEAN : containers'["main"] = [containers["main"] EXCEPT !.up = up]
        BY <1>a, <3>1 DEF TypeOK, Started, Stopped
      <4> QED BY <1>c, <3>1, <4>1, NoneAssumption DEF Container
    <3> QED BY <2>3, <3>1 DEF Exists
  <2> QED BY <1>b, <2>1, <2>2, <2>4 DEF PassInv, Exists
<1> QED BY <1>1, <1>2, <1>3

\* Nobody else changes it, unless they tear or cross the pass.
LEMMA PassOthers ==
  ASSUME TypeOK, PlacesInv, CrossInv, PassInv, OtherSteps
  PROVE  PassInv'
<1>a. /\ {"look", "pull", "clear", "wipe", "erase", "idle"} \subseteq Places
      /\ {"update", "script", "reset", "pass"} = Actors /\ "main" \in Names
  BY DEF Places, Replacing, Actors, Names
<1>b. kind' = kind
  BY DEF OtherSteps, Pull, LookForNew, Wipe, Erase, Put, UpdateAsked, ResetAsked, ScriptRuns,
     StoppedByHand, Crash
<1>1. CASE Crash
  <2>1. proc'["pass"].at = "idle"
    BY <1>1, <1>a DEF Crash, Resting
  <2> QED BY <2>1 DEF PassInv
<1>2. ASSUME ~Crash PROVE proc'["pass"] = proc["pass"]
  <2>1. UpdateAsked \/ ScriptRuns => proc'["pass"] = proc["pass"]
    BY <1>a DEF UpdateAsked, ScriptRuns, TypeOK
  <2> QED BY <1>2, <1>a, <2>1, Going, Ending DEF OtherSteps, Pull, GivesUp, LookForNew, Wipe,
          Erase, Put, ResetAsked, StoppedByHand
<1>3. CASE ~Crash /\ At("pass", "idle")
  BY <1>2, <1>3 DEF PassInv, At
<1>4. CASE ~Crash /\ ~At("pass", "idle")
  <2>1. ~crossed' => ~crossed
    BY <1>4 DEF OtherSteps, Pull, LookForNew, Wipe, Erase, Put, UpdateAsked, ResetAsked,
       ScriptRuns, StoppedByHand, Crosses
  <2>2. ~torn' => ~torn \/ crossed'
    BY <1>4 DEF TypeOK, OtherSteps, Pull, LookForNew, Wipe, Erase, Put, UpdateAsked,
       ResetAsked, ScriptRuns, StoppedByHand, Meddles
  <2>3. ~crossed' /\ Exists("main") =>
          containers'["main"] # None /\ containers'["main"].spec = containers["main"].spec
    <3>1. StoppedByHand /\ Exists("main") => containers'["main"] # None /\ containers'["main"].spec = containers["main"].spec
      <4>1. StoppedByHand => containers'["main"] = [containers["main"] EXCEPT !.up = FALSE]
        BY <1>a DEF StoppedByHand, Stopped, TypeOK
      <4>2. Exists("main") => containers["main"] \in Container
        BY <1>a, ContainerTypes
      <4> QED BY <4>1, <4>2, NoneAssumption DEF Container
    <3>2. UpdateAsked \/ ScriptRuns => crossed'
      BY <1>4 DEF UpdateAsked, ScriptRuns, Crosses
    <3>3. ~Wipe
      BY <1>4 DEF PlacesInv, Wipe, At
    <3> QED BY <1>4, <3>1, <3>2, <3>3 DEF OtherSteps, Pull, LookForNew, Erase, Put,
            ResetAsked, Exists, CommandFails
  <2>4. target' = target /\ proc'["pass"].at = proc["pass"].at
    BY <1>2, <1>4 DEF target
  <2> QED BY <1>b, <2>1, <2>2, <2>3, <2>4 DEF PassInv, Exists
<1> QED BY <1>1, <1>3, <1>4
-----------------------------------------------------------------------------
\* A replacement that is not torn, by an update or the script, keeps what is reported.
LEMMA KeptReplace ==
  ASSUME TypeOK, PlacesInv, ReplacedInv, KeptInv, NEW a \in Replacers, Replace(a)
  PROVE  KeptInv'
<1>a. /\ a \in Actors /\ a # "reset" /\ Backup(a) \in Names \ {"main"}
      /\ (a # "pass" => a \in {"update", "script"})
      /\ {"main", "prev", "preupdate"} = Names
  BY DEF Replacers, Agents, Actors, Backup, Names
<1>b. Replacing \cup {"idle", "verify"} \subseteq Places
  BY DEF Places
<1>c. crossed' = crossed /\ kind' = kind /\ conf' = conf
  BY DEF Replace, Clear, Rename, StopOld, RunNew, Answer, DropOld, Remove, Restore,
     StartAgain, Steady
<1>d. ~torn' => ~torn
  BY DEF Replace, Clear, Rename, StopOld, RunNew, Answer, DropOld, Remove, Restore, StartAgain
<1>e. /\ proc[a].at \in Replacing
      /\ proc'[a].at # "idle" => proc'[a].spec = proc[a].spec
      /\ \A b \in Actors \ {a} : proc'[b] = proc[b]
  BY <1>a, <1>b, Going, Ending DEF Replacing, AfterClear, AfterRename, AfterStop, At,
     Replace, Clear, Rename, StopOld, RunNew, Answer, DropOld, Remove, Restore, StartAgain,
     GivesUp
<1>1. CASE a = "pass"
  <2>1. proc'["pass"].at # "idle" \/ said' = None
    BY <1>a, <1>b, <1>1, Going DEF Replacing, AfterClear, AfterRename, AfterStop, Replace,
       Clear, Rename, StopOld, RunNew, Answer, DropOld, Remove, Restore, StartAgain, GivesUp
  <2> QED BY <2>1 DEF KeptInv, At
<1>2. CASE a # "pass"
  <2>1. said' = said
    BY <1>2 DEF Replace, Clear, Rename, StopOld, RunNew, Answer, DropOld, Remove, Restore,
       StartAgain, GivesUp
  <2>2. proc'["pass"] = proc["pass"] /\ proc'["reset"] = proc["reset"]
    BY <1>a, <1>e, <1>2 DEF Actors
  <2> SUFFICES ASSUME ~torn', ~crossed', At("pass", "idle"), ~At("reset", "erase"), said # None, said.on
               PROVE  Kept(said)'
    BY <2>1, <2>2 DEF KeptInv, At
  <2>3. Kept(said) /\ Orderly(a)
    BY <1>c, <1>d, <1>e, Mine DEF KeptInv
  <2>4. /\ Exists("main") => (kind = "docker" => containers["main"].spec = said)
        /\ Holding(a) => containers[Backup(a)].spec = said /\ Exists(Backup(a))
        /\ proc[a].spec = said
    BY <1>a, <1>2, <1>e, <2>3 DEF Kept, Orderly, BackedUp, At, Replacing
  <2>5. \A b \in Replacers \ {a} : ~Holding(b) /\ ~Holding(b)'
    BY <1>e, <2>3 DEF Orderly, Alone, Holding, Replacing, Replacers, Agents, Actors
  <2>6. ASSUME /\ Exists("main")' => (kind = "docker" => containers'["main"].spec = said)
               /\ ~Holding(a)' => Exists("main")'
               /\ Holding(a)' => containers'[Backup(a)].spec = said
        PROVE  Kept(said)'
    <3>1. \A b \in {"update", "script"} : ~At(b, "idle")' => proc'[b].spec = said
      BY <1>a, <1>2, <1>e, <2>3, <2>4 DEF Kept, At, Actors
    <3>2. \A b \in {"update", "script"} : Holding(b)' => containers'[Backup(b)].spec = said
      BY <2>5, <2>6 DEF Replacers, Agents
    <3> QED BY <1>c, <2>1, <2>3, <2>6, <3>1, <3>2 DEF Kept, Backup
  <2>7. ~Holding(a) => Exists("main")
    BY <2>3, <2>5 DEF Kept
  <2>8. containers \in [Names -> Container \cup {None}]
    BY DEF TypeOK
  <2>9. CASE Clear(a) \/ DropOld(a) \/ Answer(a)
    <3>1. containers' \in {containers, With(Backup(a), None)}
      BY <2>9 DEF Clear, DropOld, Answer, Command, CommandFails
    <3>2. containers'["main"] = containers["main"]
      BY <1>a, <2>8, <3>1 DEF With
    <3>3. Holding(a)' => Answer(a)
      BY <1>a, <1>2, <1>b, <2>9, Going, Ending DEF Clear, DropOld, Answer, AfterClear,
         Holding, Replacing
    <3>4. Answer(a) => containers' = containers /\ Holding(a)
      BY DEF Answer, Holding, At
    <3>5. DropOld(a) => Exists("main")
      BY <2>3 DEF DropOld, Orderly, BackedUp, At
    <3>6. Answer(a) => Exists("main")
      BY <2>3 DEF Answer, Orderly, BackedUp, At
    <3>7. Clear(a) => ~Holding(a)
      BY DEF Clear, Holding, At
    <3> QED BY <2>4, <2>6, <2>7, <2>9, <3>2, <3>3, <3>4, <3>5, <3>6, <3>7 DEF Exists
  <2>10. CASE Rename(a)
    <3>1. \/ containers' = containers /\ proc'[a].at = "idle"
          \/ Exists("main") /\ containers' = RenameEffect(a) /\ proc'[a].at \in {"run", "stop"}
      BY <1>a, <1>b, <2>10, Going, Ending DEF Rename, Command, CommandFails, GivesUp,
         AfterRename, Replacing
    <3>2. ~Holding(a)
      BY <2>10 DEF Rename, Holding, At
    <3>3. CASE containers' = containers /\ proc'[a].at = "idle"
      BY <2>4, <2>6, <2>7, <3>2, <3>3 DEF Exists, Holding
    <3>4. CASE Exists("main") /\ containers' = RenameEffect(a) /\ proc'[a].at \in {"run", "stop"}
      <4>1. containers'["main"] = None /\ containers'[Backup(a)] = containers["main"]
        BY <1>a, <2>8, <3>4 DEF RenameEffect
      <4>2. proc'[a].at = (IF a = "script" THEN "run" ELSE "stop")
        BY <1>a, <1>b, <2>10, <3>4, Going, Ending DEF Rename, GivesUp, AfterRename, Replacing
      <4>3. Holding(a)'
        BY <4>2 DEF Holding
      <4>4. kind = "docker"
        BY <1>2, <1>a, <1>e, KindsAssumption DEF PlacesInv, At, TypeOK, Replacing
      <4> QED BY <2>4, <2>6, <3>4, <4>1, <4>3, <4>4 DEF Exists
    <3> QED BY <3>1, <3>3, <3>4
  <2>11. CASE StopOld(a)
    <3>1. PICK name \in {"main", Backup(a)} :
            \/ containers' = containers
            \/ Exists(name) /\ containers' = Stopped(name)
      BY <2>11 DEF StopOld, Command, CommandFails
    <3>2. \A n \in Names : /\ Exists(n)' <=> Exists(n)
                           /\ Exists(n) => containers'[n].spec = containers[n].spec
      <4>1. \A n \in Names : containers[n] # None => containers[n] \in Container
        BY <2>8
      <4>2. \A n \in Names : \/ containers'[n] = containers[n]
                             \/ containers[n] # None /\ containers'[n] = [containers[n] EXCEPT !.up = FALSE]
        BY <1>a, <2>8, <3>1 DEF Stopped, Exists
      <4>3. ASSUME NEW n \in Names, NEW c \in Container, containers[n] = c,
                   containers'[n] = [c EXCEPT !.up = FALSE]
            PROVE  containers'[n] # None /\ containers'[n].spec = c.spec
        BY <4>3, NoneAssumption DEF Container
      <4> QED BY <4>1, <4>2, <4>3 DEF Exists
    <3>3. Holding(a) <=> a # "script"
      BY <1>a, <2>11 DEF StopOld, Holding, At
    <3>4. Holding(a)' <=> a # "script"
      BY <1>a, <1>b, <2>11, Going, Ending DEF StopOld, Holding, AfterStop, GivesUp, Replacing
    <3> QED BY <1>a, <2>4, <2>6, <2>7, <3>2, <3>3, <3>4
  <2>12. CASE RunNew(a)
    <3>1. Holding(a) /\ Holding(a)'
      BY <1>a, <1>b, <2>12, Going DEF RunNew, Holding, At, Replacing
    <3>2. containers' = containers \/ containers' = With("main", New(said))
      BY <2>4, <2>12 DEF RunNew, Command, CommandFails
    <3>3. New(said).spec = said
      BY DEF New
    <3> QED BY <1>a, <2>4, <2>6, <2>8, <3>1, <3>2, <3>3 DEF With, Exists
  <2>13. CASE Remove(a)
    <3>1. Holding(a) /\ Holding(a)'
      BY <1>a, <1>b, <2>13, Going DEF Remove, Holding, At, Replacing
    <3>2. containers' = containers \/ containers' = With("main", None)
      BY <2>13 DEF Remove, Command, CommandFails
    <3> QED BY <1>a, <2>4, <2>6, <2>8, <3>1, <3>2 DEF With, Exists
  <2>14. CASE Restore(a)
    <3>1. Holding(a) /\ ~Holding(a)'
      BY <1>a, <1>b, <2>14, Going, Ending DEF Restore, Holding, At, Replacing, GivesUp
    <3>2. containers' = [containers EXCEPT ![Backup(a)] = None, !["main"] = containers[Backup(a)]]
      BY <2>14 DEF Restore, Command
    <3>3. containers'["main"] = containers[Backup(a)]
      BY <1>a, <2>8, <3>2
    <3> QED BY <2>4, <2>6, <3>1, <3>3 DEF Exists
  <2>15. CASE StartAgain(a)
    <3>1. ~Holding(a) /\ ~Holding(a)'
      BY <1>a, <2>15, Ending DEF StartAgain, Holding, At, GivesUp
    <3>2. containers' = containers \/ (Exists("main") /\ containers' = Started("main"))
      BY <2>15 DEF StartAgain, CommandFails
    <3>3. Exists("main")' /\ containers'["main"].spec = containers["main"].spec
      <4>1. containers["main"] \in Container
        BY <1>a, <2>7, <2>8, <3>1 DEF Exists
      <4>2. containers'["main"] \in {containers["main"], [containers["main"] EXCEPT !.up = TRUE]}
        BY <1>a, <2>8, <3>2 DEF Started
      <4> QED BY <4>1, <4>2, NoneAssumption DEF Exists, Container
    <3> QED BY <2>4, <2>6, <2>7, <3>1, <3>3
  <2> QED BY <2>9, <2>10, <2>11, <2>12, <2>13, <2>14, <2>15 DEF Replace
<1> QED BY <1>1, <1>2

\* A pass reports what it has brought about.
LEMMA KeptPass ==
  ASSUME TypeOK, PlacesInv, ConfInv, CrossInv, PassInv, PassSteps
  PROVE  KeptInv'
<1>a. "pass" \in Actors /\ {"look", "verify", "clear", "compare", "halt", "write", "start", "final"} \subseteq Places
  BY DEF Actors, Places, Replacing
<1>1. ASSUME ~torn', ~crossed', proc'["pass"].at = "idle", said' # None, said'.on
      PROVE  (Compare \/ Final) /\ Finished
  <2>1. ~Begin
    BY <1>1, <1>a DEF Begin, TypeOK
  <2>2. target.on \/ At("pass", "look")
    BY <2>1 DEF PassSteps, PlacesInv, At, Off, Create, Recreate, Start, Verify, Compare,
       Halt, Write, StartHalted, Final, PassFails
  <2>3. ~Off
    BY <1>1 DEF Off, GivesUp
  <2>4. ~(Recreate \/ Start)
    BY <1>1, <1>a, Going DEF Recreate, Start, At
  <2>5. Create => FALSE
    BY <1>1 DEF Create
  <2>6. Verify \/ Halt \/ Write \/ StartHalted \/ PassFails => FALSE
    BY <1>1, <1>a, Going DEF Verify, Configured, Halt, Write, StartHalted, PassFails, GivesUp
  <2>7. Compare => Finished
    BY <1>1, <1>a, Going DEF Compare, GivesUp
  <2>8. Final => Finished
    BY <1>1 DEF Final, GivesUp
  <2> QED BY <2>1, <2>3, <2>4, <2>5, <2>6, <2>7, <2>8 DEF PassSteps
<1>2. ASSUME ~torn', ~crossed', said' # None, said'.on, Compare \/ Final, Finished
      PROVE  Kept(said)'
  <2>1. said' = target /\ proc'["pass"].at = "idle"
    BY <1>2, <1>a, Ending DEF Finished
  <2>2. ~torn /\ ~crossed /\ containers' = containers /\ kind' = kind /\ conf' = conf
    BY <1>2 DEF Compare, Final, Steady
  <2>3. Exists("main") /\ (kind = "docker" => containers["main"].spec = target)
    BY <1>2, <2>2 DEF Compare, Final, PassInv, At
  <2>4. proc'["update"].at = "idle" /\ proc'["script"].at = "idle"
    <3>1. At("update", "idle") /\ At("script", "idle")
      BY <1>2, <2>2 DEF CrossInv, Compare, Final, At
    <3> QED BY <3>1, <1>a, <1>2, Ending DEF Finished, Actors, At
  <2>5. conf # None /\ conf.ours /\ conf.binds = target.binds
    <3>1. CASE Compare
      <4>1. ~Goes("pass", "start") /\ ~Goes("pass", "halt")
        BY <1>a, <2>1, Going
      <4>2. ~GivesUp("pass")
        BY <1>2 DEF GivesUp
      <4>3. kind = "docker" /\ conf # None /\ SameBinds
        BY <3>1, <4>1, <4>2 DEF Compare
      <4> QED BY <3>1, <4>3 DEF Compare, ConfInv, SameBinds
    <3>2. CASE Final
      <4>1. ~GivesUp("pass")
        BY <1>2 DEF GivesUp
      <4> QED BY <3>2, <4>1 DEF Final, ConfInv, At, SameBinds
    <3> QED BY <1>2, <3>1, <3>2
  <2>6. conf = [binds |-> target.binds, ours |-> TRUE]
    BY <2>5 DEF TypeOK, Conf
  <2>7. \A b \in Replacers : ~Holding(b)'
    BY <2>1, <2>4 DEF Holding, Replacers, Agents
  <2> QED BY <2>1, <2>2, <2>3, <2>4, <2>6, <2>7 DEF Kept, Exists, At, Replacers, Agents
<1> QED BY <1>1, <1>2 DEF KeptInv, At

\* The others keep what is reported, or what they do is seen as torn or crossed.
LEMMA KeptOthers ==
  ASSUME TypeOK, PlacesInv, ReplacedInv, KeptInv, OtherSteps
  PROVE  KeptInv'
<1>a. /\ {"look", "pull", "clear", "wipe", "erase", "idle"} \subseteq Places
      /\ {"update", "script", "reset", "pass"} = Actors /\ "main" \in Names /\ Replacers \subseteq Actors
      /\ {"look", "pull", "idle", "clear"} \cap {"run", "answer", "drop", "remove", "restore", "stop"} = {}
  BY DEF Places, Replacing, Actors, Names, Replacers, Agents
<1>b. kind' = kind
  BY DEF OtherSteps, Pull, LookForNew, Wipe, Erase, Put, UpdateAsked, ResetAsked, ScriptRuns,
     StoppedByHand, Crash
<1>1. ASSUME NEW a \in {"update", "script"}, Pull(a) \/ LookForNew(a) PROVE KeptInv'
  <2>1. containers' = containers /\ conf' = conf /\ crossed' = crossed /\ (~torn' => ~torn)
    BY <1>1 DEF Pull, LookForNew, Meddles
  <2>2. said' = said /\ proc[a].at \in {"pull", "look"}
    BY <1>1 DEF Pull, LookForNew, GivesUp, At
  <2>3. /\ proc'[a].at \in {"idle", "look", "clear"}
        /\ proc'[a].at # "idle" => proc'[a].spec = proc[a].spec
        /\ \A b \in Actors \ {a} : proc'[b] = proc[b]
    BY <1>1, <1>a, Going, Ending DEF Pull, LookForNew, GivesUp
  <2>4. \A b \in Replacers : Holding(b)' <=> Holding(b)
    BY <1>a, <2>2, <2>3 DEF Holding
  <2>5. ASSUME NEW spec, Kept(spec) PROVE Kept(spec)'
    <3>1. \A b \in {"update", "script"} : ~At(b, "idle")' => proc'[b].spec = spec
      BY <1>a, <2>2, <2>3, <2>5 DEF Kept, At
    <3>2. \A b \in {"update", "script"} : Holding(b)' => containers'[Backup(b)].spec = spec
      BY <2>1, <2>4, <2>5 DEF Kept, Replacers, Agents
    <3> QED BY <1>b, <2>1, <2>4, <2>5, <3>1, <3>2 DEF Kept, Exists, Backup
  <2> QED BY <1>a, <1>1, <2>1, <2>2, <2>3, <2>5 DEF KeptInv, At
<1>2. CASE Wipe
  <2>1. proc'["reset"].at = "erase"
    BY <1>2, <1>a, Going DEF Wipe
  <2> QED BY <2>1 DEF KeptInv, At
<1>3. CASE Erase
  BY <1>3 DEF Erase, KeptInv
<1>4. ASSUME NEW spec \in Specs, Put(spec) PROVE KeptInv'
  BY <1>4 DEF Put, KeptInv, Kept, At, Exists, Holding, Backup
<1>5. CASE UpdateAsked
  <2>1. torn' = torn /\ said' = said /\ conf' = conf
    BY <1>5 DEF UpdateAsked
  <2> SUFFICES ASSUME ~torn', ~crossed', At("pass", "idle")', ~At("reset", "erase")', said # None, said.on
               PROVE  Kept(said)'
    BY <2>1 DEF KeptInv
  <2>2. desired = said /\ ~crossed
    BY <1>5 DEF UpdateAsked, Crosses
  <2>3. CASE kind = "docker"
    <3>1. /\ containers' = containers /\ At("update", "idle")
          /\ proc'["update"].at = "pull" /\ proc'["update"].spec = desired
          /\ \A b \in Actors \ {"update"} : proc'[b] = proc[b]
      BY <1>5, <1>a, <2>3 DEF UpdateAsked, TypeOK
    <3>2. Kept(said)
      BY <1>a, <2>1, <2>2, <3>1 DEF KeptInv, At
    <3>3. \A b \in Replacers : Holding(b)' <=> Holding(b)
      BY <1>a, <3>1 DEF Holding, At
    <3>4. \A b \in {"update", "script"} : ~At(b, "idle")' => proc'[b].spec = said
      BY <1>a, <2>2, <3>1, <3>2 DEF Kept, At
    <3>5. \A b \in {"update", "script"} : Holding(b)' => containers'[Backup(b)].spec = said
      BY <3>1, <3>2, <3>3 DEF Kept, Replacers, Agents
    <3> QED BY <1>b, <2>1, <3>1, <3>2, <3>3, <3>4, <3>5 DEF Kept, Exists, Backup
  <2>4. CASE kind # "docker"
    <3>1. proc' = proc /\ \E id \in Ids : containers' = [containers EXCEPT !["main"].id = id]
      BY <1>5, <2>4 DEF UpdateAsked
    <3>2. Kept(said)
      BY <2>1, <2>2, <3>1 DEF KeptInv, At
    <3>3. \A b \in {"update", "script"} : At(b, "idle")
      BY <2>4, KindsAssumption DEF PlacesInv, TypeOK
    <3>4. \A b \in Replacers : ~Holding(b)
      BY <2>4, <1>a, <3>3, KindsAssumption DEF PlacesInv, TypeOK, Replacing, Holding, At,
         Replacers, Agents
    <3>5. Exists("main")
      BY <3>2, <3>4 DEF Kept
    <3>6. containers["main"] \in Container
      BY <1>a, <3>5, ContainerTypes
    <3>7. PICK id \in Ids : containers' = [containers EXCEPT !["main"].id = id]
      BY <3>1
    <3>8. containers'["main"] = [containers["main"] EXCEPT !.id = id]
      BY <1>a, <3>7 DEF TypeOK
    <3>9. containers'["main"] \in Container
      BY <3>6, <3>8 DEF Container
    <3>10. Exists("main")'
      BY <3>9, NoneAssumption DEF Exists
    <3>11. \A b \in Replacers : ~Holding(b)'
      BY <3>1, <3>4 DEF Holding
    <3>12. \A b \in {"update", "script"} : At(b, "idle")' /\ ~Holding(b)'
      BY <3>1, <3>3, <3>11 DEF At, Replacers, Agents
    <3> QED BY <1>b, <2>1, <2>4, <3>2, <3>10, <3>12 DEF Kept
  <2> QED BY <2>3, <2>4
<1>6. CASE ResetAsked
  <2>1. /\ containers' = containers /\ conf' = conf /\ crossed' = crossed /\ torn' = torn /\ said' = said
        /\ At("reset", "idle") /\ \A b \in Actors \ {"reset"} : proc'[b] = proc[b]
    BY <1>6, <1>a, Going DEF ResetAsked
  <2>2. \A b \in Replacers : Holding(b)' <=> Holding(b)
    BY <1>a, <2>1 DEF Holding, Replacers, Agents
  <2>3. ASSUME NEW spec, Kept(spec) PROVE Kept(spec)'
    BY <1>a, <1>b, <2>1, <2>2, <2>3 DEF Kept, At, Exists, Backup, Replacers, Agents
  <2> QED BY <1>a, <2>1, <2>3 DEF KeptInv, At
<1>7. CASE ScriptRuns
  <2>1. /\ containers' = containers /\ conf' = conf /\ torn' = torn /\ said' = said /\ (~crossed' => ~crossed)
        /\ At("script", "idle") /\ Exists("main") /\ kind = "docker"
        /\ proc'["script"].at = "pull" /\ proc'["script"].spec = containers["main"].spec
        /\ \A b \in Actors \ {"script"} : proc'[b] = proc[b]
    BY <1>7, <1>a DEF ScriptRuns, Crosses, TypeOK
  <2>2. \A b \in Replacers : Holding(b)' <=> Holding(b)
    BY <1>a, <2>1 DEF Holding, At
  <2>3. ASSUME NEW spec, Kept(spec) PROVE Kept(spec)'
    <3>1. \A b \in {"update", "script"} : ~At(b, "idle")' => proc'[b].spec = spec
      BY <1>a, <2>1, <2>3 DEF Kept, At
    <3>2. \A b \in {"update", "script"} : Holding(b)' => containers'[Backup(b)].spec = spec
      BY <2>1, <2>2, <2>3 DEF Kept, Replacers, Agents
    <3> QED BY <1>b, <2>1, <2>2, <2>3, <3>1, <3>2 DEF Kept, Exists, Backup
  <2> QED BY <1>a, <2>1, <2>3 DEF KeptInv, At
<1>8. CASE StoppedByHand
  <2>1. /\ conf' = conf /\ crossed' = crossed /\ said' = said /\ proc' = proc /\ Exists("main")
        /\ containers' = Stopped("main")
    BY <1>8 DEF StoppedByHand, Running
  <2>2. ~torn' => ~torn /\ \A b \in Replacers : ~Holding(b)
    BY <1>8, <1>a DEF StoppedByHand, Holding, Replacing
  <2>3. Exists("main")' /\ containers'["main"].spec = containers["main"].spec
    <3>1. containers["main"] \in Container
      BY <1>a, <2>1, ContainerTypes
    <3>2. containers'["main"] = [containers["main"] EXCEPT !.up = FALSE]
      BY <1>a, <2>1 DEF TypeOK, Stopped
    <3> QED BY <3>1, <3>2, NoneAssumption DEF Exists, Container
  <2>4. ASSUME NEW spec, Kept(spec), ~torn' PROVE Kept(spec)'
    <3>1. \A b \in {"update", "script"} : ~Holding(b)'
      BY <2>1, <2>2, <2>4 DEF Holding, Replacers, Agents
    <3> QED BY <1>b, <2>1, <2>3, <2>4, <3>1 DEF Kept, At, Exists
  <2> QED BY <2>1, <2>2, <2>4 DEF KeptInv, At
<1>9. CASE Crash
  BY <1>9 DEF Crash, KeptInv
<1> QED BY <1>1, <1>2, <1>3, <1>4, <1>5, <1>6, <1>7, <1>8, <1>9 DEF OtherSteps

-----------------------------------------------------------------------------
\* The invariant holds initially.
LEMMA Initially == Init => IInv
<1> SUFFICES ASSUME Init PROVE IInv OBVIOUS
<1>1. \A a \in Actors : proc[a].at = "idle"
  BY DEF Init, Resting
<1>2. TypeOK
  <2>1. Resting \in Procs
    BY NoneAssumption DEF Resting, Procs, Places, MaybeSpec
  <2>2. [id |-> First, spec |-> None, up |-> TRUE] \in Container
    BY IdsAssumption DEF Container, MaybeSpec
  <2>3. containers \in [Names -> Container \cup {None}]
    BY <2>2 DEF Init
  <2>4. proc \in [Actors -> Procs]
    BY <2>1 DEF Init
  <2>5. events \in 0 .. MaxEvents
    BY BoundsAssumption DEF Init
  <2> QED BY <2>3, <2>4, <2>5, IdsAssumption DEF Init, TypeOK, Procs, MaybeSpec
<1>3. PlacesInv /\ ConfInv /\ CrossInv /\ PassInv /\ KeptInv
  BY <1>1 DEF Init, PlacesInv, ConfInv, CrossInv, PassInv, KeptInv, At, Actors, Replacing,
     Exists, Names
<1>4. NobodyReplaces /\ Quiet
  BY <1>1 DEF Init, NobodyReplaces, Quiet, Running, Works, Exists, Names, Replacers, Agents,
     Actors, Replacing
<1> QED BY <1>2, <1>3, <1>4, AtRest DEF IInv

\* A step that changes nothing keeps it.
LEMMA Stuttering == IInv /\ UNCHANGED vars => IInv'
<1> SUFFICES ASSUME IInv, UNCHANGED vars PROVE IInv' OBVIOUS
<1>1. TypeOK' /\ PlacesInv' /\ ConfInv' /\ CrossInv'
  BY DEF IInv, vars, TypeOK, PlacesInv, ConfInv, CrossInv, At, Exists, target, SameBinds
<1>2. PassInv' /\ KeptInv'
  BY DEF IInv, vars, PassInv, KeptInv, Kept, Holding, Backup, At, Exists, target
<1>3. ReplacedInv'
  BY DEF IInv, vars, ReplacedInv, Orderly, Alone, BackedUp, Still, Safe, Holding, Backup, At,
     Exists, Running, Works
<1> QED BY <1>1, <1>2, <1>3 DEF IInv

\* The steps, by kind.
LEMMA StepKinds == Next => (\E a \in Replacers : Replace(a)) \/ PassSteps \/ OtherSteps
BY DEF Next, Converge, Update, Script, Reset, Operator, Environment, PassSteps, OtherSteps,
   Replacers, Agents

\* Every step keeps it.
LEMMA Step == IInv /\ [Next]_vars => IInv'
<1> SUFFICES ASSUME IInv, [Next]_vars PROVE IInv' OBVIOUS
<1>a. TypeOK /\ PlacesInv /\ ConfInv /\ ReplacedInv /\ CrossInv /\ PassInv /\ KeptInv
  BY DEF IInv
<1>1. ASSUME NEW a \in Replacers, Replace(a) PROVE IInv'
  <2>1. TypeOK' /\ PlacesInv' /\ ConfInv' /\ CrossInv' /\ PassInv' /\ KeptInv'
    BY <1>a, <1>1, ReplaceType, PlacesReplace, ConfReplace, CrossReplace, PassReplace, KeptReplace
  <2>2. ReplacedInv'
    <3>1. CASE torn'
      BY <3>1 DEF ReplacedInv
    <3>2. CASE ~torn'
      <4>1. ~torn /\ proc[a].at \in Replacing
        <5>1. proc[a].at \in Replacing
          BY <1>1 DEF Replacing, At, Replace, Clear, Rename, StopOld, RunNew, Answer,
             DropOld, Remove, Restore, StartAgain
        <5>2. ~torn
          BY <1>1, <3>2 DEF Replace, Clear, Rename, StopOld, RunNew, Answer, DropOld, Remove,
             Restore, StartAgain
        <5> QED BY <5>1, <5>2
      <4>2. Orderly(a)
        BY <1>a, <4>1, Mine
      <4>3. Orderly(a)'
        BY <1>a, <1>1, <3>2, <4>2, OrderlyReplace
      <4> QED BY <4>3 DEF ReplacedInv
    <3> QED BY <3>1, <3>2
  <2> QED BY <2>1, <2>2 DEF IInv
<1>2. CASE PassSteps
  BY <1>a, <1>2, PassType, PlacesPass, ConfPass, ReplacedPass, CrossPass, PassPass,
     KeptPass DEF IInv, PassSteps
<1>3. CASE OtherSteps
  BY <1>a, <1>3, OthersType, PlacesOthers, ConfOthers, ReplacedOthers, CrossOthers,
     PassOthers, KeptOthers DEF IInv, OtherSteps
<1>4. CASE UNCHANGED vars
  BY <1>4, Stuttering
<1> QED BY <1>1, <1>2, <1>3, <1>4, StepKinds

\* The invariant holds in every state.
LEMMA Always == Spec => []IInv
BY Initially, Step, PTL DEF Spec

\* Every variable has its type.  (AdGuardContainer.tla TypeOK)
THEOREM TypeCorrect == Spec => []TypeOK
BY Always, PTL DEF IInv

\* When nobody is at work on the host, the AdGuard Home that the role reports was made
\* from the spec it reports, and listens where that says.  (adguard.go convergeDocker,
\* convergeBare)
THEOREM Reported == Spec => []ReportedIsSet
<1>1. IInv => ReportedIsSet
  <2> SUFFICES ASSUME IInv, ~torn, ~crossed, said # None, said.on, \A a \in Actors : At(a, "idle")
               PROVE  SetTo(said)
    BY DEF ReportedIsSet
  <2>1. Kept(said)
    BY DEF IInv, KeptInv, At, Actors
  <2>2. \A a \in Replacers : ~Holding(a)
    BY DEF Holding, At, Replacers, Agents, Actors
  <2> QED BY <2>1, <2>2 DEF Kept, SetTo
<1> QED BY <1>1, Always, PTL
-----------------------------------------------------------------------------
\* No command of the agent's replacement removes the only build that works.
LEMMA KeepsAWorkingOne ==
  ASSUME TypeOK, ReplacedInv, NEW a \in Agents, Replace(a), SomeWorks, ~torn'
  PROVE  SomeWorks'
<1>a. /\ a \in Actors /\ a \in Replacers /\ Backup(a) = "prev" /\ a # "script"
      /\ Names = {"main", "prev", "preupdate"}
  BY DEF Replacers, Agents, Actors, Backup, Names
<1>b. containers \in [Names -> Container \cup {None}]
  BY DEF TypeOK
<1>1. Orderly(a)
  <2>1. proc[a].at \in Replacing
    BY DEF Replacing, At, Replace, Clear, Rename, StopOld, RunNew, Answer, DropOld, Remove,
       Restore, StartAgain
  <2>2. ~torn
    BY DEF Replace, Clear, Rename, StopOld, RunNew, Answer, DropOld, Remove, Restore, StartAgain
  <2> QED BY <1>a, <2>1, <2>2, Mine
<1>2. ASSUME NEW n \in Names, NEW m \in Names, Works(n), containers'[m] # None, containers'[m].id = containers[n].id
      PROVE  SomeWorks'
  BY <1>2 DEF SomeWorks, Works, Exists
<1>3. \A n \in Names : Works(n) => containers[n] # None
  BY DEF Works, Exists
<1>4. CASE Clear(a) \/ DropOld(a)
  <2>1. Works("prev") => Works("main")
    BY <1>a, <1>1, <1>4 DEF Clear, DropOld, Orderly, Safe, Holding, At
  <2>2. containers' \in {containers, With("prev", None)}
    BY <1>a, <1>4 DEF Clear, DropOld, Command, CommandFails
  <2>3. PICK n \in {"main", "preupdate"} : Works(n)
    BY <1>a, <2>1 DEF SomeWorks
  <2> QED BY <1>a, <1>b, <1>2, <1>3, <2>2, <2>3 DEF With
<1>5. CASE Rename(a)
  <2>1. containers' = containers \/ (~Exists("prev") /\ containers' = RenameEffect(a))
    BY <1>a, <1>5 DEF Rename, Command, CommandFails
  <2>2. PICK n \in Names : Works(n)
    BY DEF SomeWorks
  <2>3. CASE containers' = containers
    BY <1>2, <1>3, <2>2, <2>3
  <2>4. CASE ~Exists("prev") /\ containers' = RenameEffect(a)
    <3>1. containers'["prev"] = containers["main"] /\ containers'["preupdate"] = containers["preupdate"]
      BY <1>a, <1>b, <2>4 DEF RenameEffect
    <3>2. n # "prev"
      BY <2>2, <2>4 DEF Works
    <3> QED BY <1>a, <1>2, <1>3, <2>2, <3>1, <3>2
  <2> QED BY <2>1, <2>3, <2>4
<1>6. CASE RunNew(a) \/ Remove(a)
  <2>1. ~Works("main")
    BY <1>1, <1>6 DEF RunNew, Remove, Orderly, BackedUp, Safe, Works, At
  <2>2. \E c : containers' \in {containers, With("main", c)}
    BY <1>6 DEF RunNew, Remove, Command, CommandFails
  <2>3. PICK n \in {"prev", "preupdate"} : Works(n)
    BY <1>a, <2>1 DEF SomeWorks
  <2> QED BY <1>a, <1>b, <1>2, <1>3, <2>2, <2>3 DEF With
<1>7. CASE Restore(a)
  <2>1. ~Exists("main") /\ containers' = [containers EXCEPT !["prev"] = None, !["main"] = containers["prev"]]
    BY <1>a, <1>7 DEF Restore, Command
  <2>2. PICK n \in {"prev", "preupdate"} : Works(n)
    BY <1>a, <2>1 DEF SomeWorks, Works
  <2>3. containers'["main"] = containers["prev"] /\ containers'["preupdate"] = containers["preupdate"]
    BY <1>a, <1>b, <2>1
  <2> QED BY <1>a, <1>2, <1>3, <2>2, <2>3
<1>8. CASE StopOld(a) \/ StartAgain(a) \/ Answer(a)
  <2>1. PICK n \in Names : Works(n)
    BY DEF SomeWorks
  <2>2. \/ containers' = containers
        \/ \E m \in Names, up \in BOOLEAN : Exists(m) /\ containers' = [containers EXCEPT ![m].up = up]
    BY <1>a, <1>8 DEF StopOld, StartAgain, Answer, Command, CommandFails, Started, Stopped
  <2>3. \/ containers'[n] = containers[n]
        \/ \E up \in BOOLEAN : containers'[n] = [containers[n] EXCEPT !.up = up]
    BY <1>b, <2>2
  <2>4. containers[n] \in Container
    BY <1>b, <1>3, <2>1
  <2>5. containers'[n] # None /\ containers'[n].id = containers[n].id
    BY <2>3, <2>4, NoneAssumption DEF Container
  <2> QED BY <1>2, <2>1, <2>5
<1> QED BY <1>4, <1>5, <1>6, <1>7, <1>8 DEF Replace

\* Nor does the rest of a pass.
LEMMA PassKeepsAWorkingOne ==
  ASSUME TypeOK, PassSteps, SomeWorks
  PROVE  SomeWorks'
<1>1. PICK n \in Names : Works(n)
  BY DEF SomeWorks
<1>2. containers[n] \in Container
  BY <1>1 DEF TypeOK, Works, Exists
<1>3. \/ containers' = containers
      \/ Exists("main") /\ containers' \in {Started("main"), Stopped("main")}
      \/ ~Exists("main") /\ \E c : containers' = With("main", c)
  BY DEF PassSteps, Begin, Off, Create, Recreate, Start, Verify, Compare, Halt, Write,
     StartHalted, Final, PassFails, Command, CommandFails, Running
<1>4. \/ containers'[n] = containers[n]
      \/ \E up \in BOOLEAN : containers'[n] = [containers[n] EXCEPT !.up = up]
  <2>1. CASE containers' \in {Started("main"), Stopped("main")}
    BY <2>1 DEF TypeOK, Started, Stopped
  <2>2. CASE ~Exists("main") /\ \E c : containers' = With("main", c)
    BY <1>1, <2>2 DEF TypeOK, With, Works
  <2> QED BY <1>3, <2>1, <2>2
<1>5. containers'[n] # None /\ containers'[n].id = containers[n].id
  BY <1>2, <1>4, NoneAssumption DEF Container
<1> QED BY <1>1, <1>5 DEF SomeWorks, Works, Exists

\* A pass or an update never leaves the host without a container that works, if it had
\* one, unless replacements were torn.  (adguard.go recreate)
THEOREM WorkingIsKept == Spec => WorkingKept
<1>1. IInv /\ [Next]_vars
      => [kind = "docker" /\ (Converge \/ Update) /\ SomeWorks /\ ~torn' => SomeWorks']_vars
  <2> SUFFICES ASSUME IInv, Converge \/ Update, SomeWorks, ~torn' PROVE SomeWorks'
    OBVIOUS
  <2>1. TypeOK /\ ReplacedInv
    BY DEF IInv
  <2>2. ASSUME NEW a \in Agents, Replace(a) PROVE SomeWorks'
    BY <2>1, <2>2, KeepsAWorkingOne
  <2>3. CASE PassSteps
    BY <2>1, <2>3, PassKeepsAWorkingOne
  <2>4. CASE Pull("update") \/ LookForNew("update")
    BY <2>4 DEF Pull, LookForNew, SomeWorks, Works, Exists
  <2> QED BY <2>2, <2>3, <2>4 DEF Converge, Update, PassSteps, Agents
<1> QED BY <1>1, Always, PTL DEF Spec, WorkingKept

\* A pass that finds AdGuard Home set to its spec does not make it stop answering.
\* (adguard.go convergeDocker, convergeBare)
THEOREM NotDisturbed == Spec => Undisturbed
<1>1. IInv /\ [Next]_vars
      => [Converge /\ proc["pass"].at \notin Replacing \cup {"idle"} /\ target.on /\ SetTo(target)
            /\ Answers => Answers']_vars
  <2> SUFFICES ASSUME IInv, Converge, proc["pass"].at \notin Replacing \cup {"idle"}, target.on,
                      SetTo(target), Answers
               PROVE  Answers'
    OBVIOUS
  <2>1. TypeOK /\ ConfInv
    BY DEF IInv
  <2>2. ~Replace("pass") /\ ~Begin
    BY DEF Begin, Replacing, At, Replace, Clear, Rename, StopOld, RunNew, Answer, DropOld,
       Remove, Restore, StartAgain
  <2>3. ~Off /\ ~Create
    BY DEF Off, Create, SetTo
  <2>4. ~Halt
    <3>1. target.binds \in Binds
      BY SpecsAssumption DEF IInv, PlacesInv, At
    <3>2. conf \in Conf /\ SameBinds
      BY <3>1 DEF SetTo, SameBinds, Conf
    <3> QED BY <2>1, <3>2, NoneAssumption DEF Halt, ConfInv, At
  <2>5. containers' = containers \/ (Exists("main") /\ containers' = Started("main"))
    BY <2>2, <2>3, <2>4 DEF Converge, Recreate, Start, Verify, Compare, Write, StartHalted,
       Final, PassFails, Command, CommandFails
  <2>6. CASE containers' = containers
    BY <2>6 DEF Answers, Running, Works, Exists
  <2>7. CASE Exists("main") /\ containers' = Started("main")
    <3>1. PICK n \in Names : Running(n) /\ Works(n)
      BY DEF Answers
    <3>2. containers'[n] = containers[n] \/ containers'[n] = [containers[n] EXCEPT !.up = TRUE]
      BY <2>1, <2>7 DEF TypeOK, Started
    <3>3. containers[n] \in Container /\ containers[n].up
      BY <2>1, <3>1 DEF TypeOK, Running, Exists
    <3>4. containers'[n] # None /\ containers'[n].up /\ containers'[n].id = containers[n].id
      BY <3>2, <3>3, NoneAssumption DEF Container
    <3> QED BY <3>1, <3>4 DEF Answers, Running, Works, Exists
  <2> QED BY <2>5, <2>6, <2>7
<1> QED BY <1>1, Always, PTL DEF Spec, Undisturbed

-----------------------------------------------------------------------------
(***************************************************************************)
(* The agent's own binary (SelfUpdate)                                     *)
(***************************************************************************)

\* A handler that has a file open, or is to put one in place.
HasFile(c) == handler[c].at \in {"write", "probe", "probing", "rename"}

\* An agent that is down has no handlers and is not about to leave.
RestInv == ~Agent!Up => ~leaving /\ \A c \in Callers : handler[c] = Agent!Idle

\* No handler is at work for the version that runs.
WantInv == \A c \in Callers : handler[c].at # "idle" => handler[c].want.version # runs

\* Unless handlers met, one at most has a file, and that is the one beside the binary,
AloneInv ==
  ~met => \A c \in Callers : HasFile(c) =>
    /\ handler[c].file = "new"
    /\ \A d \in Callers : HasFile(d) => d = c

\* what the handler has found in it is there still,
SaysInv ==
  ~met => \A c \in Callers :
    /\ handler[c].at = "probing" => new = handler[c].says
    /\ handler[c].at = "rename" => new = handler[c].want.version

\* and what it has put in place is not the build that runs.
LeavingInv == ~met /\ leaving => exe # runs

AgentInv == RestInv /\ WantInv /\ AloneInv /\ SaysInv /\ LeavingInv

-----------------------------------------------------------------------------

\* What a handler is at each stage.
LEMMA HandlerIs ==
  ASSUME NEW h \in Agent!HandlerStates
  PROVE  /\ h.at \in {"idle", "fetch", "open", "write", "probe", "probing", "rename"}
         /\ h.at = "idle" => h = Agent!Idle
         /\ h.at # "idle" => h.want \in Agent!Manifests
         /\ h.at \in {"fetch", "open"} => h \in [at : {"fetch", "open"}, want : Agent!Manifests]
         /\ h.at \in {"write", "probe"} =>
              h \in [at : {"write", "probe"}, want : Agent!Manifests, file : Agent!Names]
         /\ h.at \in {"probing", "rename"} =>
              h \in [at : {"probing", "rename"}, want : Agent!Manifests, file : Agent!Names,
                     says : Builds]
BY DEF Agent!HandlerStates, Agent!Idle

\* A stage further.
LEMMA HandlerGoes ==
  ASSUME NEW h \in Agent!HandlerStates
  PROVE  /\ h.at = "fetch" =>
              LET q == [h EXCEPT !.at = "open"]
              IN  q \in Agent!HandlerStates /\ q.at = "open" /\ q.want = h.want
         /\ h.at = "write" =>
              LET q == [h EXCEPT !.at = "probe"]
              IN  q \in Agent!HandlerStates /\ q.at = "probe" /\ q.want = h.want /\ q.file = h.file
         /\ h.at = "probing" =>
              LET q == [h EXCEPT !.at = "rename"]
              IN  /\ q \in Agent!HandlerStates /\ q.at = "rename" /\ q.want = h.want
                  /\ q.file = h.file /\ q.says = h.says
<1>1. ASSUME h.at = "fetch"
      PROVE  LET q == [h EXCEPT !.at = "open"]
             IN  q \in Agent!HandlerStates /\ q.at = "open" /\ q.want = h.want
  <2>1. h \in [at : {"fetch", "open"}, want : Agent!Manifests]
    BY <1>1, HandlerIs
  <2> QED BY <2>1 DEF Agent!HandlerStates
<1>2. ASSUME h.at = "write"
      PROVE  LET q == [h EXCEPT !.at = "probe"]
             IN  q \in Agent!HandlerStates /\ q.at = "probe" /\ q.want = h.want /\ q.file = h.file
  <2>1. h \in [at : {"write", "probe"}, want : Agent!Manifests, file : Agent!Names]
    BY <1>2, HandlerIs
  <2> QED BY <2>1 DEF Agent!HandlerStates
<1>3. ASSUME h.at = "probing"
      PROVE  LET q == [h EXCEPT !.at = "rename"]
             IN  /\ q \in Agent!HandlerStates /\ q.at = "rename" /\ q.want = h.want
                 /\ q.file = h.file /\ q.says = h.says
  <2>1. h \in [at : {"probing", "rename"}, want : Agent!Manifests, file : Agent!Names,
               says : Builds]
    BY <1>3, HandlerIs
  <2> QED BY <2>1 DEF Agent!HandlerStates
<1> QED BY <1>1, <1>2, <1>3

\* A handler whose file has come by another name.
LEMMA HandlerFile ==
  ASSUME NEW h \in Agent!HandlerStates, NEW name \in Agent!Names,
         h.at \in {"write", "probe", "probing", "rename"}
  PROVE  LET q == [h EXCEPT !.file = name]
         IN  q \in Agent!HandlerStates /\ q.at = h.at /\ q.want = h.want
<1>1. CASE h.at \in {"write", "probe"}
  <2>1. h \in [at : {"write", "probe"}, want : Agent!Manifests, file : Agent!Names]
    BY <1>1, HandlerIs
  <2> QED BY <2>1 DEF Agent!HandlerStates
<1>2. CASE h.at \in {"probing", "rename"}
  <2>1. h \in [at : {"probing", "rename"}, want : Agent!Manifests, file : Agent!Names,
               says : Builds]
    BY <1>2, HandlerIs
  <2> QED BY <2>1 DEF Agent!HandlerStates
<1> QED BY <1>1, <1>2

\* A call that is answered, or not.
LEMMA CallIs ==
  ASSUME call \in [Callers -> Agent!CallStates]
  PROVE  /\ {Agent!Idle, [at |-> "record"], [at |-> "wait"]} \subseteq Agent!CallStates
         /\ \A c \in Callers : Agent!Answered(c) \in [Callers -> Agent!CallStates]
         /\ \A c \in Callers : call[c].at = "post" => call[c].want \in Agent!Manifests
         /\ [c \in Callers |-> Agent!Answered(c)[c]] \in [Callers -> Agent!CallStates]
<1>1. {Agent!Idle, [at |-> "record"], [at |-> "wait"]} \subseteq Agent!CallStates
  BY DEF Agent!CallStates
<1>2. \A c \in Callers : Agent!Answered(c) \in [Callers -> Agent!CallStates]
  BY <1>1 DEF Agent!Answered
<1>3. \A c \in Callers : call[c].at = "post" => call[c].want \in Agent!Manifests
  BY DEF Agent!CallStates, Agent!Idle
<1> QED BY <1>1, <1>2, <1>3

\* What becomes of handlers: the one of c is at a stage with a want, the others are as
\* before, except for the names of their files.
Others(c) ==
  \A d \in Callers \ {c} :
    /\ handler'[d] \in Agent!HandlerStates
    /\ handler'[d].at = handler[d].at
    /\ handler[d].at # "idle" => handler'[d].want = handler[d].want

\* A handler that gives up and removes the file: whoever has it open keeps it.
LEMMA Removing ==
  ASSUME Agent!TypeOK, NEW c \in Callers, Agent!RefuseAndRemove(c)
  PROVE  /\ handler' \in [Callers -> Agent!HandlerStates] /\ handler'[c] = Agent!Idle /\ Others(c)
         /\ call' \in [Callers -> Agent!CallStates] /\ new' = None
<1> DEFINE moved == Agent!Moved(handler, "new", "gone")
<1>1. \A d \in Callers :
        /\ moved[d] \in Agent!HandlerStates
        /\ moved[d].at = handler[d].at
        /\ handler[d].at # "idle" => moved[d].want = handler[d].want
  BY HandlerFile DEF Agent!TypeOK, Agent!Moved, Agent!Has, Agent!Names
<1>2. Agent!Idle \in Agent!HandlerStates
  BY DEF Agent!HandlerStates
<1>3. moved = [d \in Callers |-> moved[d]]
  BY DEF Agent!Moved
<1>4. handler' = [moved EXCEPT ![c] = Agent!Idle]
  BY DEF Agent!RefuseAndRemove
<1>5. handler' \in [Callers -> Agent!HandlerStates] /\ handler'[c] = Agent!Idle /\ Others(c)
  <2> HIDE DEF moved
  <2> QED BY <1>1, <1>2, <1>3, <1>4 DEF Others
<1> QED BY <1>5, CallIs DEF Agent!RefuseAndRemove, Agent!TypeOK

\* A handler that gives up.
LEMMA Refusing ==
  ASSUME Agent!TypeOK, NEW c \in Callers, Agent!Refuse(c)
  PROVE  /\ handler' \in [Callers -> Agent!HandlerStates] /\ handler'[c] = Agent!Idle
         /\ \A d \in Callers \ {c} : handler'[d] = handler[d]
         /\ call' \in [Callers -> Agent!CallStates]
BY CallIs DEF Agent!TypeOK, Agent!Refuse, Agent!HandlerStates

\* A handler that puts the file in place, with whoever has it or the binary open.
LEMMA Renaming ==
  ASSUME Agent!TypeOK, NEW c \in Callers, Agent!Rename(c), new # None
  PROVE  /\ handler' \in [Callers -> Agent!HandlerStates] /\ handler'[c] = Agent!Idle /\ Others(c)
<1>1. \A d \in Callers \ {c} :
        /\ handler[d] \in Agent!HandlerStates
        /\ handler'[d] = IF Agent!Has(d, "new") THEN [handler[d] EXCEPT !.file = "exe"]
                         ELSE IF Agent!Has(d, "exe") THEN [handler[d] EXCEPT !.file = "gone"]
                         ELSE handler[d]
  <2> SUFFICES ASSUME NEW d \in Callers \ {c}
               PROVE  handler'[d] =
                        IF Agent!Has(d, "new") THEN [handler[d] EXCEPT !.file = "exe"]
                        ELSE IF Agent!Has(d, "exe") THEN [handler[d] EXCEPT !.file = "gone"]
                        ELSE handler[d]
    BY DEF Agent!TypeOK
  <2>1. CASE Agent!Has(d, "new")
    <3>1. d # c
      OBVIOUS
    <3>2. handler'[d] = CASE d = c -> Agent!Idle
                          [] d # c /\ Agent!Has(d, "new") -> [handler[d] EXCEPT !.file = "exe"]
                          [] d # c /\ Agent!Has(d, "exe") -> [handler[d] EXCEPT !.file = "gone"]
                          [] OTHER -> handler[d]
      BY DEF Agent!Rename
    <3>3. ~Agent!Has(d, "exe")
      BY <2>1 DEF Agent!Has
    <3> QED BY <2>1, <3>1, <3>2, <3>3
  <2>2. CASE ~Agent!Has(d, "new") /\ Agent!Has(d, "exe")
    BY <2>2 DEF Agent!Rename
  <2>3. CASE ~Agent!Has(d, "new") /\ ~Agent!Has(d, "exe")
    BY <2>3 DEF Agent!Rename
  <2> QED BY <2>1, <2>2, <2>3
<1>2. Others(c)
  <2> SUFFICES ASSUME NEW d \in Callers \ {c}
               PROVE  /\ handler'[d] \in Agent!HandlerStates
                      /\ handler'[d].at = handler[d].at
                      /\ handler[d].at # "idle" => handler'[d].want = handler[d].want
    BY DEF Others
  <2> QED BY <1>1, HandlerFile DEF Agent!Has, Agent!Names
<1>3. handler'[c] = Agent!Idle /\ Agent!Idle \in Agent!HandlerStates
  BY DEF Agent!Rename, Agent!HandlerStates
<1>4. handler' = [d \in Callers |-> handler'[d]]
  BY DEF Agent!Rename
<1> QED BY <1>2, <1>3, <1>4 DEF Others

\* Every step keeps the types.
LEMMA AgentTypesStep ==
  ASSUME Agent!TypeOK, [Agent!Next]_(Agent!vars)
  PROVE  Agent!TypeOK'
<1> USE DEF Agent!TypeOK
<1>a. MaxReleases \in Nat /\ MaxPushes \in Nat /\ MaxFaults \in Nat
  BY AgentAssumption DEF Agent!BoundsAssumption
<1>b. 1 \in Builds /\ None \notin Builds /\ Empty \notin Builds /\ Mixed \notin Builds
  BY AgentAssumption DEF Agent!BuildsAssumption
<1>c. /\ Agent!Idle \in Agent!HandlerStates
      /\ [c \in Callers |-> Agent!Idle] \in [Callers -> Agent!HandlerStates]
  BY DEF Agent!HandlerStates
<1>d. \A c \in Callers : /\ handler[c].at # "idle" => handler[c].want \in Agent!Manifests
                         /\ handler[c].at # "idle" => handler[c].want.build \in Builds
  BY HandlerIs DEF Agent!Manifests
<1>1. ASSUME NEW v \in Builds, NEW b \in Builds, Agent!Release(v, b) PROVE Agent!TypeOK'
  <2>1. shipped' \in Agent!Manifests
    BY <1>1 DEF Agent!Release, Agent!Manifests
  <2> QED BY <1>1, <1>a, <2>1 DEF Agent!Release, Agent!files
<1>2. CASE Agent!RetryDue
  BY <1>2 DEF Agent!RetryDue, Agent!bounds, Agent!files
<1>3. ASSUME NEW c \in Callers, Agent!Begin(c) PROVE Agent!TypeOK'
  <2>1. call' \in [Callers -> Agent!CallStates]
    <3>1. [at |-> "ask", held |-> recent /\ c \notin Pushers] \in Agent!CallStates
      BY DEF Agent!CallStates
    <3> QED BY <1>3, <3>1 DEF Agent!Begin
  <2> QED BY <1>3, <1>a, <2>1 DEF Agent!Begin, Agent!files
<1>4. ASSUME NEW c \in Callers, Agent!Ask(c) PROVE Agent!TypeOK'
  <2>1. [at |-> "post", want |-> shipped] \in Agent!CallStates
    BY DEF Agent!CallStates
  <2>2. \E q \in Agent!CallStates : call' = [call EXCEPT ![c] = q]
    BY <1>4, <2>1, CallIs DEF Agent!Ask
  <2> QED BY <1>4, <2>2 DEF Agent!Ask, Agent!bounds, Agent!files
<1>5. ASSUME NEW c \in Callers, Agent!Post(c) PROVE Agent!TypeOK'
  <2>1. [at |-> "fetch", want |-> call[c].want] \in Agent!HandlerStates
    BY <1>5, CallIs DEF Agent!Post, Agent!HandlerStates
  <2> QED BY <1>5, <2>1, CallIs DEF Agent!Post, Agent!bounds, Agent!files
<1>6. ASSUME NEW c \in Callers, Agent!GiveUp(c) PROVE Agent!TypeOK'
  BY <1>6, <1>a, CallIs DEF Agent!GiveUp, Agent!Fault, Agent!files
<1>7. ASSUME NEW c \in Callers, Agent!Record(c) PROVE Agent!TypeOK'
  BY <1>7, CallIs DEF Agent!Record, Agent!bounds, Agent!files
<1>8. CASE Agent!PlaneRestart
  BY <1>8, <1>a, CallIs DEF Agent!PlaneRestart, Agent!Fault, Agent!files
<1>9. ASSUME NEW c \in Callers, Agent!Fetch(c) PROVE Agent!TypeOK'
  <2>1. CASE Agent!Goes(c, "open") /\ UNCHANGED <<call, Agent!files, leaving, met>>
    BY <1>9, <2>1, HandlerGoes DEF Agent!Fetch, Agent!At, Agent!Goes, Agent!files,
                                   Agent!bounds
  <2>2. CASE Agent!Refuse(c)
    BY <1>9, <2>2, Refusing DEF Agent!Fetch, Agent!Refuse, Agent!files, Agent!bounds
  <2> QED BY <1>9, <2>1, <2>2 DEF Agent!Fetch
<1>10. ASSUME NEW c \in Callers, Agent!Open(c) PROVE Agent!TypeOK'
  <2>1. CASE Agent!Refuse(c) /\ UNCHANGED met
    BY <1>10, <2>1, Refusing DEF Agent!Open, Agent!Refuse, Agent!files, Agent!bounds
  <2>2. CASE handler' = [handler EXCEPT ![c] =
                           [at |-> "write", want |-> handler[c].want, file |-> "new"]]
             /\ new' = Empty /\ UNCHANGED <<call, exe, leaving>> /\ met' \in BOOLEAN
    <3>1. [at |-> "write", want |-> handler[c].want, file |-> "new"] \in Agent!HandlerStates
      BY <1>10, <1>d DEF Agent!Open, Agent!At, Agent!HandlerStates, Agent!Names
    <3> QED BY <1>10, <2>2, <3>1 DEF Agent!Open, Agent!bounds
  <2> QED BY <1>10, <2>1, <2>2 DEF Agent!Open, Agent!Refuse
<1>11. ASSUME NEW c \in Callers, Agent!Write(c) PROVE Agent!TypeOK'
  <2>1. handler' \in [Callers -> Agent!HandlerStates]
    BY <1>11, HandlerGoes DEF Agent!Write, Agent!At, Agent!Goes
  <2>2. exe' \in Builds \cup {Empty, Mixed} /\ new' \in Builds \cup {None, Empty, Mixed}
    BY <1>11, <1>d DEF Agent!Write, Agent!At, Agent!Over
  <2> QED BY <1>11, <2>1, <2>2 DEF Agent!Write, Agent!plane, Agent!bounds
<1>12. ASSUME NEW c \in Callers, Agent!Probe(c) PROVE Agent!TypeOK'
  <2>1. CASE Agent!RefuseAndRemove(c)
    BY <1>12, <2>1, Removing DEF Agent!Probe, Agent!RefuseAndRemove, Agent!bounds
  <2>2. CASE Agent!Runnable /\ handler' = [handler EXCEPT ![c] =
               [at |-> "probing", want |-> handler[c].want, file |-> "new", says |-> new]]
             /\ UNCHANGED <<call, Agent!files, leaving, met>>
    <3>1. [at |-> "probing", want |-> handler[c].want, file |-> "new", says |-> new]
            \in Agent!HandlerStates
      BY <1>12, <1>d, <2>2 DEF Agent!Probe, Agent!At, Agent!HandlerStates, Agent!Names,
                               Agent!Runnable
    <3> QED BY <1>12, <2>2, <3>1 DEF Agent!Probe, Agent!bounds, Agent!files
  <2> QED BY <1>12, <2>1, <2>2 DEF Agent!Probe
<1>13. ASSUME NEW c \in Callers, Agent!Probed(c) PROVE Agent!TypeOK'
  <2>1. CASE Agent!RefuseAndRemove(c)
    BY <1>13, <2>1, Removing DEF Agent!Probed, Agent!RefuseAndRemove, Agent!bounds
  <2>2. CASE Agent!Goes(c, "rename") /\ UNCHANGED <<call, Agent!files, leaving, met>>
    BY <1>13, <2>2, HandlerGoes DEF Agent!Probed, Agent!At, Agent!Goes, Agent!files,
                                    Agent!bounds
  <2> QED BY <1>13, <2>1, <2>2 DEF Agent!Probed
<1>14. ASSUME NEW c \in Callers, Agent!Rename(c) PROVE Agent!TypeOK'
  <2>1. CASE new = None
    <3>1. Agent!Refuse(c)
      BY <1>14, <2>1 DEF Agent!Rename
    <3> QED BY <1>14, <3>1, Refusing DEF Agent!Rename, Agent!Refuse, Agent!files,
                                         Agent!bounds
  <2>2. CASE new # None
    <3>1. handler' \in [Callers -> Agent!HandlerStates]
      BY <1>14, <2>2, Renaming
    <3>2. call' \in [Callers -> Agent!CallStates]
      BY <1>14, <2>2, CallIs DEF Agent!Rename
    <3> QED BY <1>14, <2>2, <3>1, <3>2 DEF Agent!Rename, Agent!bounds
  <2> QED BY <2>1, <2>2
<1>15. ASSUME NEW c \in Callers, Agent!Fails(c) PROVE Agent!TypeOK'
  <2>1. faults' \in 0 .. MaxFaults /\ UNCHANGED <<releases, pushes>>
    BY <1>15, <1>a DEF Agent!Fails, Agent!Fault
  <2>2. CASE Agent!Refuse(c)
    BY <1>15, <2>1, <2>2, Refusing DEF Agent!Fails, Agent!Refuse, Agent!files
  <2>3. CASE Agent!RefuseAndRemove(c)
    BY <1>15, <2>1, <2>3, Removing DEF Agent!Fails, Agent!RefuseAndRemove
  <2> QED BY <1>15, <2>2, <2>3 DEF Agent!Fails
<1>16. CASE Agent!Exit \/ Agent!Die
  <2>1. releases' \in 0 .. MaxReleases /\ pushes' \in 0 .. MaxPushes /\ faults' \in 0 .. MaxFaults
    BY <1>16, <1>a DEF Agent!Exit, Agent!Die, Agent!Fault, Agent!bounds
  <2> QED BY <1>16, <1>c, <2>1, CallIs DEF Agent!Exit, Agent!Die, Agent!Ended, Agent!files
<1>17. CASE Agent!Boot
  BY <1>17 DEF Agent!Boot, Agent!plane, Agent!files, Agent!bounds
<1>18. CASE UNCHANGED Agent!vars
  BY <1>18 DEF Agent!vars, Agent!plane, Agent!files, Agent!bounds
<1> QED BY <1>1, <1>2, <1>3, <1>4, <1>5, <1>6, <1>7, <1>8, <1>9, <1>10, <1>11, <1>12, <1>13,
           <1>14, <1>15, <1>16, <1>17, <1>18 DEF Agent!Next, Agent!Pass, Agent!Handle

\* An agent that is down has no handlers and is not about to leave; none is begun
\* for the version that runs.
LEMMA RestStep ==
  ASSUME Agent!TypeOK, RestInv, WantInv, [Agent!Next]_(Agent!vars)
  PROVE  RestInv' /\ WantInv'
<1> USE DEF RestInv, WantInv
<1>a. Agent!Idle.at = "idle"
  BY DEF Agent!Idle
<1>1. CASE UNCHANGED <<handler, runs, leaving>>
  BY <1>1 DEF Agent!Up
<1>2. ASSUME NEW c \in Callers, Agent!Post(c) PROVE RestInv' /\ WantInv'
  BY <1>2 DEF Agent!Post, Agent!Up, Agent!TypeOK
<1>3. CASE Agent!Exit \/ Agent!Die
  BY <1>3, <1>a DEF Agent!Exit, Agent!Die, Agent!Ended, Agent!Up, Agent!TypeOK
<1>4. CASE Agent!Boot
  BY <1>4, <1>a DEF Agent!Boot, Agent!Up
<1>5. ASSUME NEW c \in Callers, handler[c].at # "idle", UNCHANGED runs, Others(c),
             handler'[c].at # "idle" => handler'[c].want = handler[c].want
      PROVE  RestInv' /\ WantInv'
  <2>1. Agent!Up /\ Agent!Up'
    BY <1>5, <1>a DEF Agent!Up
  <2>2. \A d \in Callers : handler'[d].at # "idle" => handler'[d].want.version # runs
    BY <1>5 DEF Others
  <2> QED BY <1>5, <2>1, <2>2
<1>6. ASSUME NEW c \in Callers, Agent!Handle(c) \/ Agent!Fails(c)
      PROVE  RestInv' /\ WantInv'
  <2>1. handler[c].at # "idle" /\ UNCHANGED runs
    BY <1>6 DEF Agent!Handle, Agent!Fails, Agent!Fetch, Agent!Open, Agent!Write,
                Agent!Probe, Agent!Probed, Agent!Rename, Agent!At
  <2>2. CASE Agent!Refuse(c)
    BY <1>5, <1>a, <2>1, <2>2, Refusing DEF Others, Agent!TypeOK
  <2>3. CASE Agent!RefuseAndRemove(c)
    BY <1>5, <1>a, <2>1, <2>3, Removing
  <2>4. CASE Agent!Rename(c) /\ new # None
    BY <1>5, <1>a, <2>1, <2>4, Renaming
  <2>5. CASE \/ Agent!Fetch(c) /\ Agent!Goes(c, "open")
             \/ Agent!Write(c)
             \/ Agent!Probed(c) /\ Agent!Goes(c, "rename")
    <3>a. handler \in [Callers -> Agent!HandlerStates] /\ handler[c] \in Agent!HandlerStates
      BY DEF Agent!TypeOK
    <3>1. Agent!At(c, "fetch") /\ Agent!Goes(c, "open") => handler'[c].want = handler[c].want
      BY <3>a, HandlerGoes DEF Agent!At, Agent!Goes
    <3>2. Agent!At(c, "write") /\ Agent!Goes(c, "probe") => handler'[c].want = handler[c].want
      BY <3>a, HandlerGoes DEF Agent!At, Agent!Goes
    <3>3. Agent!At(c, "probing") /\ Agent!Goes(c, "rename") => handler'[c].want = handler[c].want
      BY <3>a, HandlerGoes DEF Agent!At, Agent!Goes
    <3>4. handler'[c].want = handler[c].want
      BY <2>5, <3>1, <3>2, <3>3 DEF Agent!Fetch, Agent!Write, Agent!Probed
    <3>5. Others(c)
      BY <2>5 DEF Others, Agent!Write, Agent!Goes, Agent!TypeOK
    <3> QED BY <1>5, <2>1, <3>4, <3>5
  <2>6. CASE \/ Agent!Open(c) /\ ~Agent!Refuse(c)
             \/ Agent!Probe(c) /\ ~Agent!RefuseAndRemove(c)
    <3>1. handler'[c].want = handler[c].want
      BY <2>6 DEF Agent!Open, Agent!Probe, Agent!TypeOK
    <3>2. Others(c)
      BY <2>6 DEF Others, Agent!Open, Agent!Probe, Agent!TypeOK
    <3> QED BY <1>5, <2>1, <3>1, <3>2
  <2>7. /\ Agent!Fetch(c) => Agent!Goes(c, "open") \/ Agent!Refuse(c)
        /\ Agent!Probed(c) => Agent!Goes(c, "rename") \/ Agent!RefuseAndRemove(c)
        /\ Agent!Rename(c) => new # None \/ Agent!Refuse(c)
        /\ Agent!Fails(c) => Agent!Refuse(c) \/ Agent!RefuseAndRemove(c)
    BY DEF Agent!Fetch, Agent!Probed, Agent!Rename, Agent!Fails
  <2> QED BY <1>6, <2>2, <2>3, <2>4, <2>5, <2>6, <2>7 DEF Agent!Handle
<1> QED BY <1>1, <1>2, <1>3, <1>4, <1>6
        DEF Agent!Next, Agent!vars, Agent!plane, Agent!Release, Agent!RetryDue,
            Agent!Begin, Agent!Pass, Agent!Ask, Agent!Record, Agent!GiveUp,
            Agent!PlaneRestart

\* At most one handler has a file, and it is the one beside the binary; what it
\* has found there it still finds; and what is put in place does not run.
LEMMA FileStep ==
  ASSUME Agent!TypeOK, AgentInv, [Agent!Next]_(Agent!vars)
  PROVE  AloneInv' /\ SaysInv' /\ LeavingInv'
<1> USE DEF AgentInv
<1>a. Agent!Idle.at = "idle"
  BY DEF Agent!Idle
<1>0. CASE met' /\ Agent!TypeOK'
  BY <1>0 DEF AloneInv, SaysInv, LeavingInv
<1>1. CASE UNCHANGED <<handler, Agent!files, runs, leaving, met>>
  BY <1>1 DEF Agent!files, AloneInv, SaysInv, LeavingInv, HasFile
<1>2. ASSUME NEW c \in Callers, Agent!Post(c) PROVE AloneInv' /\ SaysInv' /\ LeavingInv'
  BY <1>2 DEF Agent!Post, Agent!TypeOK, Agent!files, AloneInv, SaysInv, LeavingInv, HasFile
<1>3. CASE Agent!Exit \/ Agent!Die
  BY <1>3, <1>a DEF Agent!Exit, Agent!Die, Agent!Ended, Agent!files, AloneInv, SaysInv,
                    LeavingInv, HasFile
<1>4. CASE Agent!Boot
  BY <1>4, <1>a DEF Agent!Boot, Agent!files, RestInv, AloneInv, SaysInv, LeavingInv, HasFile
<1>5. ASSUME NEW c \in Callers, UNCHANGED <<Agent!files, runs, leaving, met>>,
             \A d \in Callers \ {c} : handler'[d] = handler[d],
             HasFile(c)' => HasFile(c) /\ handler'[c].file = handler[c].file,
             handler'[c].at # "probing",
             handler'[c].at = "rename" => new = handler'[c].want.version
      PROVE  AloneInv' /\ SaysInv' /\ LeavingInv'
  <2>1. \A d \in Callers : HasFile(d)' => HasFile(d) /\ handler'[d].file = handler[d].file
    BY <1>5 DEF HasFile
  <2>2. AloneInv'
    BY <1>5, <2>1 DEF AloneInv
  <2>3. SaysInv' /\ LeavingInv'
    BY <1>5 DEF Agent!files, SaysInv, LeavingInv
  <2> QED BY <2>2, <2>3
<1>6. ASSUME NEW c \in Callers, Agent!Refuse(c), UNCHANGED runs
      PROVE  AloneInv' /\ SaysInv' /\ LeavingInv'
  BY <1>5, <1>6, <1>a, Refusing DEF Agent!Refuse, HasFile
<1>7. ASSUME NEW c \in Callers, HasFile(c), ~met, HasFile(c)' => handler'[c].file = "new",
             Others(c), UNCHANGED <<runs, met>>,
             handler'[c].at = "probing" => new' = handler'[c].says,
             handler'[c].at = "rename" => new' = handler'[c].want.version,
             leaving' => exe' # runs
      PROVE  AloneInv' /\ SaysInv' /\ LeavingInv'
  <2>1. \A d \in Callers \ {c} : ~HasFile(d) /\ ~HasFile(d)'
    BY <1>7 DEF AloneInv, Others, HasFile
  <2>2. AloneInv'
    BY <1>7, <2>1 DEF AloneInv
  <2>3. SaysInv'
    BY <1>7, <2>1 DEF SaysInv, HasFile
  <2> QED BY <1>7, <2>2, <2>3 DEF LeavingInv
<1>8. ASSUME NEW c \in Callers, HasFile(c), Agent!RefuseAndRemove(c), UNCHANGED runs
      PROVE  AloneInv' /\ SaysInv' /\ LeavingInv'
  <2>1. CASE met
    BY <1>8, <2>1 DEF Agent!RefuseAndRemove, AloneInv, SaysInv, LeavingInv
  <2>2. CASE ~met
    BY <1>7, <1>8, <1>a, <2>2, Removing DEF Agent!RefuseAndRemove, HasFile, LeavingInv
  <2> QED BY <2>1, <2>2
<1>9. ASSUME NEW c \in Callers, Agent!Fetch(c) PROVE AloneInv' /\ SaysInv' /\ LeavingInv'
  <2>1. CASE Agent!Refuse(c)
    BY <1>6, <1>9, <2>1 DEF Agent!Fetch
  <2>2. CASE Agent!Goes(c, "open") /\ UNCHANGED <<Agent!files, leaving, met>>
    <3>1. handler'[c].at = "open" /\ \A d \in Callers \ {c} : handler'[d] = handler[d]
      BY <1>9, <2>2, HandlerGoes DEF Agent!Fetch, Agent!At, Agent!Goes, Agent!TypeOK
    <3> QED BY <1>5, <1>9, <2>2, <3>1 DEF Agent!Fetch, HasFile
  <2> QED BY <1>9, <2>1, <2>2 DEF Agent!Fetch
<1>10. ASSUME NEW c \in Callers, Agent!Open(c) PROVE AloneInv' /\ SaysInv' /\ LeavingInv'
  <2>1. CASE Agent!Refuse(c)
    BY <1>6, <1>10, <2>1 DEF Agent!Open
  <2>2. CASE ~Agent!Refuse(c)
    <3>1. /\ handler' = [handler EXCEPT ![c] =
                           [at |-> "write", want |-> handler[c].want, file |-> "new"]]
          /\ met' = (met \/ \E d \in Callers : Agent!Has(d, "new"))
          /\ UNCHANGED <<exe, leaving, runs>>
      BY <1>10, <2>2 DEF Agent!Open
    <3>2. CASE ~met'
      <4>1. \A d \in Callers : ~HasFile(d)
        BY <3>1, <3>2 DEF AloneInv, HasFile, Agent!Has
      <4>2. \A d \in Callers \ {c} : handler'[d] = handler[d]
        BY <3>1 DEF Agent!TypeOK
      <4>3. handler'[c].at = "write" /\ handler'[c].file = "new"
        BY <3>1 DEF Agent!TypeOK
      <4>4. \A d \in Callers \ {c} : ~HasFile(d)'
        BY <4>1, <4>2 DEF HasFile
      <4>5. AloneInv'
        BY <4>3, <4>4 DEF AloneInv
      <4>6. SaysInv'
        BY <4>3, <4>4 DEF SaysInv, HasFile
      <4> QED BY <3>1, <3>2, <4>5, <4>6 DEF LeavingInv
    <3>3. CASE met'
      BY <3>3 DEF AloneInv, SaysInv, LeavingInv
    <3> QED BY <3>2, <3>3
  <2> QED BY <2>1, <2>2
<1>11. ASSUME NEW c \in Callers, Agent!Write(c) PROVE AloneInv' /\ SaysInv' /\ LeavingInv'
  <2>1. CASE met
    BY <1>11, <2>1 DEF Agent!Write, AloneInv, SaysInv, LeavingInv
  <2>2. CASE ~met
    <3>1. /\ handler'[c].at = "probe" /\ handler'[c].file = handler[c].file
          /\ \A d \in Callers \ {c} : handler'[d] = handler[d]
      BY <1>11, HandlerGoes DEF Agent!Write, Agent!At, Agent!Goes, Agent!TypeOK
    <3>2. HasFile(c) /\ handler[c].file = "new" /\ UNCHANGED <<exe, leaving, runs, met>>
      BY <1>11, <2>2 DEF Agent!Write, Agent!At, HasFile, AloneInv, Agent!Has
    <3>3. Others(c)
      BY <3>1 DEF Others, Agent!TypeOK
    <3> QED BY <1>7, <2>2, <3>1, <3>2, <3>3 DEF LeavingInv
  <2> QED BY <2>1, <2>2
<1>12. ASSUME NEW c \in Callers, Agent!Probe(c) PROVE AloneInv' /\ SaysInv' /\ LeavingInv'
  <2>0. HasFile(c) /\ UNCHANGED runs
    BY <1>12 DEF Agent!Probe, Agent!At, HasFile
  <2>1. CASE Agent!RefuseAndRemove(c)
    BY <1>8, <2>0, <2>1
  <2>2. CASE ~Agent!RefuseAndRemove(c)
    <3>1. /\ handler' = [handler EXCEPT ![c] = [at |-> "probing", want |-> handler[c].want,
                                                file |-> "new", says |-> new]]
          /\ UNCHANGED <<Agent!files, leaving, met>>
      BY <1>12, <2>2 DEF Agent!Probe
    <3>2. handler'[c].at = "probing" /\ handler'[c].file = "new" /\ handler'[c].says = new
      BY <3>1 DEF Agent!TypeOK
    <3>3. Others(c)
      BY <3>1 DEF Others, Agent!TypeOK
    <3>4. CASE met
      BY <3>1, <3>4 DEF AloneInv, SaysInv, LeavingInv
    <3>5. CASE ~met
      BY <1>7, <2>0, <3>1, <3>2, <3>3, <3>5 DEF Agent!files, LeavingInv
    <3> QED BY <3>4, <3>5
  <2> QED BY <2>1, <2>2
<1>13. ASSUME NEW c \in Callers, Agent!Probed(c) PROVE AloneInv' /\ SaysInv' /\ LeavingInv'
  <2>0. HasFile(c) /\ UNCHANGED runs
    BY <1>13 DEF Agent!Probed, Agent!At, HasFile
  <2>1. CASE Agent!RefuseAndRemove(c)
    BY <1>8, <2>0, <2>1
  <2>2. CASE /\ handler[c].says = handler[c].want.version
             /\ Agent!Goes(c, "rename") /\ UNCHANGED <<Agent!files, leaving, met>>
    <3>1. /\ handler'[c].at = "rename" /\ handler'[c].want = handler[c].want
          /\ handler'[c].file = handler[c].file
          /\ \A d \in Callers \ {c} : handler'[d] = handler[d]
      BY <1>13, <2>2, HandlerGoes DEF Agent!Probed, Agent!At, Agent!Goes, Agent!TypeOK
    <3>2. CASE met
      BY <2>2, <3>2 DEF AloneInv, SaysInv, LeavingInv
    <3>3. CASE ~met
      <4>1. new = handler'[c].want.version
        BY <1>13, <2>2, <3>1, <3>3 DEF Agent!Probed, Agent!At, SaysInv
      <4> QED BY <1>5, <2>0, <2>2, <3>1, <4>1
    <3> QED BY <3>2, <3>3
  <2> QED BY <1>13, <2>1, <2>2 DEF Agent!Probed
<1>14. ASSUME NEW c \in Callers, Agent!Rename(c) PROVE AloneInv' /\ SaysInv' /\ LeavingInv'
  <2>0. HasFile(c) /\ UNCHANGED runs
    BY <1>14 DEF Agent!Rename, Agent!At, HasFile
  <2>1. CASE new = None
    BY <1>6, <1>14, <2>1 DEF Agent!Rename
  <2>2. CASE new # None /\ met
    BY <1>14, <2>2 DEF Agent!Rename, AloneInv, SaysInv, LeavingInv
  <2>3. CASE new # None /\ ~met
    <3>1. exe' = handler[c].want.version /\ exe' # runs
      BY <1>14, <2>3 DEF Agent!Rename, Agent!At, SaysInv, WantInv
    <3>2. UNCHANGED met
      BY <1>14, <2>3 DEF Agent!Rename
    <3>3. handler'[c] = Agent!Idle /\ Others(c)
      BY <1>14, <2>3, Renaming
    <3> QED BY <1>7, <1>a, <2>0, <2>3, <3>1, <3>2, <3>3 DEF HasFile
  <2> QED BY <2>1, <2>2, <2>3
<1>15. ASSUME NEW c \in Callers, Agent!Fails(c) PROVE AloneInv' /\ SaysInv' /\ LeavingInv'
  <2>1. CASE Agent!Refuse(c)
    BY <1>6, <1>15, <2>1 DEF Agent!Fails
  <2>2. CASE Agent!At(c, "write") /\ Agent!RefuseAndRemove(c)
    BY <1>8, <1>15, <2>2 DEF Agent!Fails, Agent!At, HasFile
  <2> QED BY <1>15, <2>1, <2>2 DEF Agent!Fails
<1> QED BY <1>1, <1>2, <1>3, <1>4, <1>9, <1>10, <1>11, <1>12, <1>13, <1>14, <1>15
        DEF Agent!Next, Agent!vars, Agent!plane, Agent!Release, Agent!RetryDue,
            Agent!Begin, Agent!Pass, Agent!Ask, Agent!Record, Agent!GiveUp,
            Agent!PlaneRestart, Agent!Handle

\* The binary, the calls and their handlers keep their types and the invariant.
LEMMA AgentInvariants == Agent!Spec => [](Agent!TypeOK /\ AgentInv)
<1>1. Agent!Init => Agent!TypeOK
  <2> SUFFICES ASSUME Agent!Init PROVE Agent!TypeOK
    OBVIOUS
  <2>1. 1 \in Builds /\ MaxReleases \in Nat /\ MaxPushes \in Nat /\ MaxFaults \in Nat
    BY AgentAssumption DEF Agent!BuildsAssumption, Agent!BoundsAssumption
  <2>2. shipped \in Agent!Manifests
    BY <2>1 DEF Agent!Init, Agent!Manifests
  <2>3. call \in [Callers -> Agent!CallStates] /\ handler \in [Callers -> Agent!HandlerStates]
    BY DEF Agent!Init, Agent!CallStates, Agent!HandlerStates
  <2>4. exe \in Builds /\ new = None /\ runs \in Builds
    BY <2>1 DEF Agent!Init
  <2>5. releases \in 0 .. MaxReleases /\ pushes \in 0 .. MaxPushes /\ faults \in 0 .. MaxFaults
    BY <2>1 DEF Agent!Init
  <2>6. recent \in BOOLEAN /\ leaving \in BOOLEAN /\ met \in BOOLEAN
    BY DEF Agent!Init
  <2> QED BY <2>2, <2>3, <2>4, <2>5, <2>6 DEF Agent!TypeOK
<1>2. Agent!Init => AgentInv
  BY DEF Agent!Init, AgentInv, RestInv, WantInv, AloneInv, SaysInv, LeavingInv, HasFile,
         Agent!Idle
<1>3. Agent!TypeOK /\ AgentInv /\ [Agent!Next]_(Agent!vars) => (Agent!TypeOK /\ AgentInv)'
  BY AgentTypesStep, RestStep, FileStep DEF AgentInv
<1> QED BY <1>1, <1>2, <1>3, PTL DEF Agent!Spec

\* The type of every variable of the agent's update, for any callers and builds.
THEOREM AgentTypes == Agent!Spec => []Agent!TypeOK
BY AgentInvariants, PTL

\* An agent never restarts for the build that runs, whatever the manifest calls its
\* binaries, however calls, answers and releases come about, unless two handlers had
\* the one file open.  (selfupdate.go Probe, Apply; hosts.py update_due)
THEOREM NotReinstalled == Agent!Spec => NoReinstall
<1>1. Agent!TypeOK /\ AgentInv /\ [Agent!Next]_(Agent!vars) =>
        [leaving /\ Agent!Up /\ ~Agent!Up' => exe # runs \/ met]_(Agent!vars)
  BY DEF AgentInv, LeavingInv
<1> QED BY <1>1, AgentInvariants, PTL DEF Agent!Spec, NoReinstall, Agent!NoReinstall
==============================================================================
