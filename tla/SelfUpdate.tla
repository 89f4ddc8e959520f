----------------------------- MODULE SelfUpdate -----------------------------
(***************************************************************************)
(* The agent replaces its own binary when the control plane ships another  *)
(* one (selfupdate.go, server.go selfUpdate; hosts.py _self_update_if_due, *)
(* update_agent_now; agent_bin.py).                                        *)
(*                                                                         *)
(* A pass of the cycle and a push of the operator go on at the same time;  *)
(* nothing in the agent keeps their handlers apart, and both write one     *)
(* file beside the binary.  A handler has that file open by its inode:     *)
(* what it writes lands wherever the file has been renamed to.  Linux does *)
(* not open a program that runs for writing, nor run one that is open for  *)
(* writing.                                                                *)
(*                                                                         *)
(* There is one host, of an architecture that is shipped, under systemd.   *)
(* A build is named by the version it prints.                              *)
(***************************************************************************)
EXTENDS Naturals

CONSTANTS
  Callers,      \* the cycle, and others that push
  Pushers,      \* callers that push regardless of earlier attempts
  Builds,       \* 1 to a bound
  None,         \* no file, no process
  Empty,        \* in a file: it has been truncated and not yet written
  Mixed,        \* in a file: two handlers have written it
  MaxReleases, MaxPushes, MaxFaults

BuildsAssumption == 1 \in Builds /\ {None, Empty, Mixed} \cap Builds = {}
BoundsAssumption == MaxReleases \in Nat /\ MaxPushes \in Nat /\ MaxFaults \in Nat

VARIABLES
  shipped,   \* the manifest: the version it says and the build it has
  recent,    \* an attempt is recorded and the retry minutes are not over
  call,      \* call[c]: what the control plane does for c
  handler,   \* handler[c]: the agent's handler of that call
  exe, new,  \* the binary, and the file beside it
  runs,      \* the build that runs
  leaving,   \* the process is about to exit for systemd to start it again
  met,       \* ghost: a handler has opened the file of another one
  releases, pushes, faults

bounds == <<releases, pushes, faults>>
plane == <<shipped, recent, call>>
files == <<exe, new>>
vars == <<plane, handler, files, runs, leaving, met, bounds>>
-----------------------------------------------------------------------------
Idle == [at |-> "idle"]

Manifests == [version : Builds, build : Builds]

CallStates ==
  {Idle} \cup [at : {"wait", "record"}] \cup [at : {"ask"}, held : BOOLEAN]
    \cup [at : {"post"}, want : Manifests]

Names == {"new", "exe", "gone"}

HandlerStates ==
  {Idle} \cup [at : {"fetch", "open"}, want : Manifests]
    \cup [at : {"write", "probe"}, want : Manifests, file : Names]
    \cup [at : {"probing", "rename"}, want : Manifests, file : Names, says : Builds]

TypeOK ==
  /\ shipped \in Manifests /\ recent \in BOOLEAN
  /\ call \in [Callers -> CallStates] /\ handler \in [Callers -> HandlerStates]
  /\ exe \in Builds \cup {Empty, Mixed} /\ new \in Builds \cup {None, Empty, Mixed}
  /\ runs \in Builds \cup {None} /\ leaving \in BOOLEAN /\ met \in BOOLEAN
  /\ releases \in 0 .. MaxReleases /\ pushes \in 0 .. MaxPushes /\ faults \in 0 .. MaxFaults

Up == runs # None

At(c, stage) == handler[c].at = stage
Goes(c, stage) == handler' = [handler EXCEPT ![c].at = stage]
Has(c, name) == handler[c].at \in {"write", "probing", "probe", "rename"} /\ handler[c].file = name

Fault == faults < MaxFaults /\ faults' = faults + 1 /\ UNCHANGED <<releases, pushes>>
-----------------------------------------------------------------------------
(***************************************************************************)
(* Control plane                                                           *)
(***************************************************************************)
\* The binaries are replaced; the version is a file of its own.
Release(v, b) ==
  /\ releases < MaxReleases /\ releases' = releases + 1
  /\ b # shipped.build
  /\ shipped' = [version |-> v, build |-> b]
  /\ UNCHANGED <<recent, call, handler, files, runs, leaving, met, pushes, faults>>

RetryDue ==
  /\ recent
  /\ recent' = FALSE
  /\ UNCHANGED <<shipped, call, handler, files, runs, leaving, met, bounds>>

\* The pass knows of earlier attempts as its plan has them.
Begin(c) ==
  /\ call[c] = Idle /\ handler[c] = Idle
  /\ IF c \in Pushers
       THEN pushes < MaxPushes /\ pushes' = pushes + 1
       ELSE UNCHANGED pushes
  /\ call' = [call EXCEPT ![c] = [at |-> "ask", held |-> recent /\ c \notin Pushers]]
  /\ UNCHANGED <<shipped, recent, handler, files, runs, leaving, met, releases, faults>>

\* A push of the operator is recorded though there was nothing to update.
Ask(c) ==
  /\ call[c].at = "ask"
  /\ call' = [call EXCEPT ![c] =
                CASE ~Up \/ @.held -> Idle
                  [] Up /\ ~@.held /\ runs # shipped.version -> [at |-> "post", want |-> shipped]
                  [] OTHER -> IF c \in Pushers THEN [at |-> "record"] ELSE Idle]
  /\ UNCHANGED <<shipped, recent, handler, files, runs, leaving, met, bounds>>

Post(c) ==
  /\ call[c].at = "post"
  /\ IF Up /\ runs # call[c].want.version
       THEN /\ handler' = [handler EXCEPT ![c] = [at |-> "fetch", want |-> call[c].want]]
            /\ call' = [call EXCEPT ![c] = [at |-> "wait"]]
       ELSE /\ call' = [call EXCEPT ![c] = [at |-> "record"]]
            /\ UNCHANGED handler
  /\ UNCHANGED <<shipped, recent, files, runs, leaving, met, bounds>>

GiveUp(c) ==
  /\ call[c].at = "wait"
  /\ Fault
  /\ call' = [call EXCEPT ![c] = [at |-> "record"]]
  /\ UNCHANGED <<shipped, recent, handler, files, runs, leaving, met>>

PlaneRestart ==
  /\ \E c \in Callers : call[c] # Idle
  /\ Fault
  /\ call' = [c \in Callers |-> Idle]
  /\ UNCHANGED <<shipped, recent, handler, files, runs, leaving, met>>

Record(c) ==
  /\ call[c].at = "record"
  /\ recent' = TRUE
  /\ call' = [call EXCEPT ![c] = Idle]
  /\ UNCHANGED <<shipped, handler, files, runs, leaving, met, bounds>>
-----------------------------------------------------------------------------
(***************************************************************************)
(* The agent's handler                                                     *)
(***************************************************************************)
Answered(c) == [call EXCEPT ![c] = IF @.at = "wait" THEN [at |-> "record"] ELSE @]

\* Whoever has a file open keeps it, by another name or by none.
Moved(h, from, to) ==
  [c \in Callers |-> IF Has(c, from) THEN [h[c] EXCEPT !.file = to] ELSE h[c]]

Refuse(c) ==
  /\ handler' = [handler EXCEPT ![c] = Idle]
  /\ call' = Answered(c)
  /\ UNCHANGED <<files, leaving, met>>

RefuseAndRemove(c) ==
  /\ handler' = [Moved(handler, "new", "gone") EXCEPT ![c] = Idle]
  /\ call' = Answered(c)
  /\ new' = None
  /\ UNCHANGED <<exe, leaving, met>>

\* The download and the probe may end when the caller has gone.
Heard(c) == call[c].at = "wait"

\* The hash that was sent is that of another build by now, or it is not.
Fetch(c) ==
  /\ At(c, "fetch")
  /\ \/ /\ shipped.build = handler[c].want.build
        /\ Goes(c, "open") /\ UNCHANGED <<call, files, leaving, met>>
     \/ /\ shipped.build # handler[c].want.build \/ ~Heard(c)
        /\ Refuse(c)
  /\ UNCHANGED <<shipped, recent, runs, bounds>>

\* Mutant: the file must not be there.
Open_Fresh(c) ==
  /\ At(c, "open")
  /\ IF new # None
       THEN Refuse(c)
       ELSE /\ new' = Empty
            /\ handler' = [handler EXCEPT ![c] = 
                             [at |-> "write", want |-> handler[c].want, file |-> "new"]]
            /\ UNCHANGED <<call, exe, leaving, met>>
  /\ UNCHANGED <<shipped, recent, runs, bounds>>

\* What is there is truncated, also when another handler has it.
Open(c) ==
  /\ At(c, "open")
  /\ IF \E d \in Callers : At(d, "probing") /\ Has(d, "new")
       THEN Refuse(c)
       ELSE /\ new' = Empty
            /\ handler' = [handler EXCEPT ![c] =
                             [at |-> "write", want |-> handler[c].want, file |-> "new"]]
            /\ met' = (met \/ \E d \in Callers : Has(d, "new"))
            /\ UNCHANGED <<call, exe, leaving>>
  /\ UNCHANGED <<shipped, recent, runs, bounds>>

Over(old, b) == IF old \in {Empty, b} THEN b ELSE Mixed

Write(c) ==
  /\ At(c, "write") /\ Goes(c, "probe")
  /\ new' = IF Has(c, "new") THEN Over(new, handler[c].want.build) ELSE new
  /\ exe' = IF Has(c, "exe") THEN Over(exe, handler[c].want.build) ELSE exe
  /\ UNCHANGED <<plane, runs, leaving, met, bounds>>

Runnable == new \in Builds /\ ~\E d \in Callers : At(d, "write") /\ Has(d, "new")

Probe(c) ==
  /\ At(c, "probe")
  /\ \/ /\ Runnable
        /\ handler' = [handler EXCEPT ![c] = [at |-> "probing", want |-> handler[c].want,
                                              file |-> "new", says |-> new]]
        /\ UNCHANGED <<call, files, leaving, met>>
     \/ (~Runnable \/ ~Heard(c)) /\ RefuseAndRemove(c)
  /\ UNCHANGED <<shipped, recent, runs, bounds>>

\* Mutant: a binary that runs will do.
Probed_Runs(c) ==
  /\ At(c, "probing")
  /\ Goes(c, "rename") /\ UNCHANGED <<call, files, leaving, met>>
  /\ UNCHANGED <<shipped, recent, runs, bounds>>

Probed(c) ==
  /\ At(c, "probing")
  /\ \/ /\ handler[c].says = handler[c].want.version
        /\ Goes(c, "rename") /\ UNCHANGED <<call, files, leaving, met>>
     \/ /\ handler[c].says # handler[c].want.version \/ ~Heard(c)
        /\ RefuseAndRemove(c)
  /\ UNCHANGED <<shipped, recent, runs, bounds>>

\* The file of that name is put in place, whosever it is by now.
Rename(c) ==
  /\ At(c, "rename")
  /\ IF new = None
       THEN Refuse(c)
       ELSE /\ exe' = new /\ new' = None
            /\ handler' = [d \in Callers |->
                             CASE d = c -> Idle
                               [] d # c /\ Has(d, "new") -> [handler[d] EXCEPT !.file = "exe"]
                               [] d # c /\ Has(d, "exe") -> [handler[d] EXCEPT !.file = "gone"]
                               [] OTHER -> handler[d]]
            /\ call' = Answered(c)
            /\ leaving' = TRUE
            /\ UNCHANGED met
  /\ UNCHANGED <<shipped, recent, runs, bounds>>

\* The download fails, or the disk is full.
Fails(c) ==
  /\ Fault
  /\ \/ At(c, "fetch") /\ Refuse(c)
     \/ At(c, "write") /\ RefuseAndRemove(c)
  /\ UNCHANGED <<shipped, recent, runs>>
-----------------------------------------------------------------------------
(***************************************************************************)
(* The agent's process                                                     *)
(***************************************************************************)
Ended ==
  /\ Up
  /\ runs' = None /\ leaving' = FALSE
  /\ handler' = [c \in Callers |-> Idle]
  /\ call' = [c \in Callers |-> Answered(c)[c]]
  /\ UNCHANGED <<shipped, recent, files, met>>

Exit == leaving /\ Ended /\ UNCHANGED bounds
Die == Fault /\ Ended

Boot ==
  /\ ~Up /\ exe \in Builds
  /\ runs' = exe
  /\ UNCHANGED <<plane, handler, files, leaving, met, bounds>>
-----------------------------------------------------------------------------
Init ==
  /\ shipped = [version |-> 1, build |-> 1]
  /\ recent = FALSE
  /\ call = [c \in Callers |-> Idle] /\ handler = [c \in Callers |-> Idle]
  /\ exe = 1 /\ new = None /\ runs = 1 /\ leaving = FALSE
  /\ met = FALSE
  /\ releases = 0 /\ pushes = 0 /\ faults = 0

Pass(c) == Ask(c) \/ Post(c) \/ Record(c)
Handle(c) ==
  Fetch(c) \/ Open(c) \/ Write(c) \/ Probe(c) \/ Probed(c) \/ Rename(c)

Next ==
  \/ \E v, b \in Builds : Release(v, b)
  \/ RetryDue
  \/ \E c \in Callers : Begin(c) \/ Pass(c) \/ GiveUp(c) \/ Handle(c) \/ Fails(c)
  \/ PlaneRestart \/ Exit \/ Die \/ Boot

Spec == Init /\ [][Next]_vars

Cycle == \E c \in Callers \ Pushers : Begin(c)

\* Calls and handlers go on, and systemd starts the agent.
Going ==
  /\ WF_vars(RetryDue) /\ WF_vars(Exit) /\ WF_vars(Boot)
  /\ \A c \in Callers : WF_vars(Pass(c)) /\ WF_vars(Handle(c))

Fairness == Going /\ WF_vars(Cycle)

FairSpec == Spec /\ Fairness
-----------------------------------------------------------------------------
(***************************************************************************)
(* Properties                                                              *)
(***************************************************************************)
\* An agent does not restart for the build it runs, though the manifest may
\* name a version that its binaries are not, unless handlers met.
\* (selfupdate.go Probe, Apply; hosts.py update_due)
NoReinstall == [][leaving /\ Up /\ ~Up' => exe # runs \/ met]_vars

\* The agent comes to run the build that is shipped, past lost answers, deaths
\* with a file half written and releases while it downloads; unless the manifest
\* is wrong or handlers met.  (hosts.py _self_update_if_due, selfupdate.go Apply)
Updated == <>[](runs = shipped.build \/ shipped.version # shipped.build \/ met)
=============================================================================
