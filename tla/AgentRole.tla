----------------------------- MODULE AgentRole -----------------------------
(***************************************************************************)
(* What one role of the host agent promises whoever talks to it: the       *)
(* abstract specification that RoleManager implements and HostsPass builds *)
(* on.  A role is a record:                                                *)
(*                                                                         *)
(*   stored     the spec a restart of the agent would load                 *)
(*   desired    the spec it converges to                                   *)
(*   applied    the spec it reports applied                                *)
(*   ok         it reports "ready" or "stopped"                            *)
(*   working    the spec a pass is at work on, or None                     *)
(*   wiping     a reset is wiping the host, or has not said so yet         *)
(*   host       what is on the host                                        *)
(*   disturbed  the host was changed behind the role's back                *)
(*                                                                         *)
(* Every step is an operator from records to records, so that a module     *)
(* that has many roles can use them on any of its own.                     *)
(***************************************************************************)
CONSTANTS Specs, None, Partial

VARIABLE role

MaybeSpec == Specs \cup {None}

Absent == [stored |-> None, desired |-> None, applied |-> None, ok |-> FALSE,
           working |-> None, wiping |-> FALSE, host |-> None, disturbed |-> FALSE]

\* A PUT is on disk first, then in memory.  The two halves of overlapping
\* PUTs may mix.  A role says it is not ready until the new spec is applied.
Store(r, s) == [r EXCEPT !.stored = s]
Accept(r, s) == [r EXCEPT !.desired = s, !.ok = @ /\ r.applied = s]

\* A pass over the desired spec, in parts: it may report on the way.
CanBegin(r) == r.working = None /\ r.desired # None
Begin(r) == [r EXCEPT !.working = r.desired]
Report(r, ok) == [r EXCEPT !.ok = ok]
Succeed(r) == [r EXCEPT !.applied = r.working, !.host = r.working, !.working = None,
                        !.ok = TRUE, !.disturbed = FALSE]
Fail(r, left) == [r EXCEPT !.host = left, !.working = None, !.ok = FALSE]

\* A reset: the wipe, done or failed, and what the role says after it.
StartWipe(r) == [r EXCEPT !.wiping = TRUE]
Wiped(r) == [r EXCEPT !.host = None]
WipeFailed(r, more) == [r EXCEPT !.host = Partial, !.disturbed = TRUE, !.wiping = more]
Forget(r, more) == [r EXCEPT !.applied = None, !.ok = FALSE, !.wiping = more]

\* The agent dies and is started again.  The applied spec it then reports
\* may be an old one, but it does not report success with it.
Crash(r, applied, left) ==
  [r EXCEPT !.desired = r.stored, !.applied = applied, !.ok = FALSE,
            !.working = None, !.wiping = FALSE, !.host = left]

Disturb(r) == [r EXCEPT !.host = Partial, !.disturbed = TRUE]

\* What may be left of the host when work on it is cut short.
Left(r) == IF r.working # None \/ r.wiping THEN {r.host, Partial} ELSE {r.host}

-----------------------------------------------------------------------------

Put == \E s \in Specs : role' = Store(role, s) \/ role' = Accept(role, s)

Pass ==
  \/ CanBegin(role) /\ role' = Begin(role)
  \/ /\ role.working # None
     /\ \/ \E ok \in BOOLEAN : role' = Report(role, ok)
        \/ role' = Succeed(role)
        \/ \E left \in Left(role) : role' = Fail(role, left)

Reset ==
  \/ role.working = None /\ role' = StartWipe(role)
  \/ /\ role.wiping /\ role.working = None
     /\ \/ role' = Wiped(role)
        \/ \E more \in BOOLEAN : role' = WipeFailed(role, more)
  \/ role.wiping /\ \E more \in BOOLEAN : role' = Forget(role, more)

Environment ==
  \/ \E applied \in MaybeSpec, left \in Left(role) : role' = Crash(role, applied, left)
  \/ role.working = None /\ role' = Disturb(role)

Init == role = Absent
Next == Put \/ Pass \/ Reset \/ Environment
Spec == Init /\ [][Next]_role

=============================================================================
