----------------------------- MODULE ServerSync -----------------------------
(***************************************************************************)
(* The control plane's reconcile passes over one AdGuard Home server, as   *)
(* backend/app/sync.py runs them: the periodic cycle and the "Sync now"    *)
(* requests choose the server if it is due, take its lock or skip it,      *)
(* snapshot what the database wants, then read and change the box one      *)
(* HTTP call at a time, and write one outcome back on the server's row. A  *)
(* server on a host with an agent is left alone while the agent, as the    *)
(* hosts passes (HostsPass) find it, is putting AdGuard Home up.           *)
(*                                                                         *)
(* Every await is a point where another task runs, so each HTTP call is a  *)
(* step; the code between two awaits is part of the step it follows.  A    *)
(* call may fail with no effect (Fail) or with its effect made and its     *)
(* answer lost (Answered).  AdGuard Home itself is external: it is what    *)
(* the calls read and change.                                              *)
(*                                                                         *)
(* A rewrite stands for its (domain, answer) key, an upstream list for a   *)
(* set of addresses, a filter for its url: AdGuard has it "on", "off" or   *)
(* not at all, and the database may want it in more than one way, a row    *)
(* each (a row with another name is one more way to have it).              *)
(***************************************************************************)
EXTENDS Naturals

CONSTANTS
  Rewrites, Lists, Addresses, Services,
  Filters, Blocklists,  \* filter lists, those of them that block
  FilterRows,           \* the ways the rows of one list may want it, a set of sets
  Flags,                \* of "prune", "upstreams", "filtering": those the operator sets
  Manual,               \* sync requests that may be in flight at once
  None,                 \* no pass
  Row,                  \* the server's row, as a holder of an opinion (see touched)
  MaxManual,            \* bound: manual passes
  MaxEdits,             \* bound: edits by the operator
  MaxFaults             \* bound: failed calls, restarts, outside changes

Passes == Manual \cup {"periodic"}

ASSUME PassesAssumption ==
  /\ "periodic" \notin Manual /\ None \notin Passes /\ Row \notin Passes
ASSUME FiltersAssumption ==
  Blocklists \subseteq Filters /\ FilterRows \subseteq SUBSET {"on", "off"} /\ {} \in FilterRows
ASSUME SyncBoundsAssumption == MaxManual \in Nat /\ MaxEdits \in Nat /\ MaxFaults \in Nat

VARIABLES
  wanted,   \* what the database wants of this server, and its policy flags
  box,      \* the configuration of the AdGuard Home instance
  row,      \* the outcome columns of the server's row
  lock,     \* who holds lock_for(server)
  pass,     \* the passes in flight
  touched,  \* ghost: whose view of wanted and box is out of date
  requests, edits, faults

bounds == <<requests, edits, faults>>
vars == <<wanted, box, row, lock, pass, touched, bounds>>

Presence == {"absent", "on", "off"}
Settings == [rewrites : SUBSET Rewrites, lists : [Lists -> SUBSET Addresses],
             filters : [Filters -> FilterRows], services : SUBSET Services,
             flags : SUBSET Flags]
\* What the last hosts pass heard of a server's AdGuard role: that it is ready, or
\* not yet; "none" if the server is on no host with an agent.
Roles == {"none", "installing", "ready"}

\* The filtering engine, which nothing looks at unless some list may block.
Engine == IF Blocklists = {} THEN {FALSE} ELSE BOOLEAN
Box == [rewrites : SUBSET Rewrites, lists : [Lists -> SUBSET Addresses],
        filters : [Filters -> Presence], services : SUBSET Services, engine : Engine]

Failures == {"offline", "error", "refused"}
\* The places of a pass that has the lock and has not reached an outcome.
Working == {"listing", "rewriting", "setting", "set", "filtering", "blocking"}
Places == Working \cup {"idle", "due", "saving"}

Nothing == [rewrites |-> {}, lists |-> [l \in Lists |-> {}],
            filters |-> [u \in Filters |-> {}], services |-> {}, flags |-> {}]
Unseen == [rewrites |-> {}, lists |-> [l \in Lists |-> {}],
           filters |-> [u \in Filters |-> "absent"], services |-> {}, engine |-> FALSE]

Idle == [at |-> "idle", dry |-> FALSE, plan |-> Nothing,
         seen |-> Unseen, todo |-> {}, changed |-> FALSE, result |-> "online"]

PassRecord == [at : Places, dry : BOOLEAN, plan : Settings,
               seen : Box,
               todo : SUBSET (Filters \X {"on", "off", "absent", "disable"}),
               changed : BOOLEAN, result : Failures \cup {"online"}]

RowRecord == [enabled : BOOLEAN, inSync : BOOLEAN, cooling : BOOLEAN, role : Roles,
              status : {"unknown", "provisioning", "online", "offline", "error"}]

TypeOK ==
  /\ wanted \in Settings
  /\ box \in Box
  /\ row \in RowRecord
  /\ lock \in Passes \cup {None}
  /\ pass \in [Passes -> PassRecord]
  /\ touched \subseteq Passes \cup {Row}
  /\ requests \in 0 .. MaxManual
  /\ edits \in 0 .. MaxEdits
  /\ faults \in 0 .. MaxFaults

Added(role, status) ==
  [enabled |-> TRUE, inSync |-> FALSE, cooling |-> FALSE, role |-> role, status |-> status]

\* A server just added, by hand or by enrolling its host: what the database wants
\* of any server (or of its zone) is wanted of it, and it runs whatever it ran
\* before.
Init ==
  /\ wanted \in Settings
  /\ box \in Box
  /\ row \in {Added("none", "unknown"), Added("installing", "provisioning")}
  /\ lock = None
  /\ pass = [p \in Passes |-> Idle]
  /\ touched = Passes \cup {Row}
  /\ requests = 0 /\ edits = 0 /\ faults = 0

Fault == faults < MaxFaults /\ faults' = faults + 1 /\ UNCHANGED <<requests, edits>>
Edits == edits < MaxEdits /\ edits' = edits + 1 /\ UNCHANGED <<requests, faults>>

At(p, place) == pass[p].at = place
Become(p, record) == pass' = [pass EXCEPT ![p] = record]

\* apply_plan returns its ServerUpdates: all that is left of the pass.
Updates(result, changed) ==
  [Idle EXCEPT !.at = "saving", !.result = result, !.changed = changed]
Failed(kind) == Updates(kind, TRUE)

\* A call that took effect: its answer arrives, or is lost.
Answered(p, record) ==
  \/ Become(p, record) /\ UNCHANGED bounds
  \/ Fault /\ \E k \in Failures : Become(p, Failed(k))

-----------------------------------------------------------------------------
\* Choosing the server, taking the lock

\* _due_servers
Due(forced) == row.enabled /\ row.role # "installing" /\ (forced \/ ~row.cooling)

Choose(p, forced, dry) ==
  /\ At(p, "idle")
  /\ Due(forced)
  /\ Become(p, [Idle EXCEPT !.at = "due", !.dry = dry])
  /\ UNCHANGED <<wanted, box, row, lock, touched>>

ChoosePeriodic == Choose("periodic", FALSE, FALSE) /\ UNCHANGED bounds

\* A cycle for which the server is not due.
NothingDue == At("periodic", "idle") /\ ~Due(FALSE) /\ UNCHANGED vars

ChooseManual(p, dry) ==
  /\ p \in Manual
  /\ requests < MaxManual /\ requests' = requests + 1
  /\ Choose(p, TRUE, dry)
  /\ UNCHANGED <<edits, faults>>

\* Between Choose and here the pass waits for its turn (semaphore) and, for a
\* periodic one, for the hosts pass before it.  A locked server is skipped.
Skip(p) ==
  /\ At(p, "due") /\ lock # None
  /\ Become(p, Idle)
  /\ UNCHANGED <<wanted, box, row, lock, touched, bounds>>

\* Mutant: the lock is not looked at.
Unlocked_Always == TRUE

Unlocked == lock = None

\* The lock is taken and the plan built with no await between.
Begin(p) ==
  /\ At(p, "due") /\ Unlocked
  /\ lock' = p
  /\ Become(p, [pass[p] EXCEPT !.at = "listing", !.plan = wanted])
  /\ touched' = touched \ {p}
  /\ UNCHANGED <<wanted, box, row, bounds>>

-----------------------------------------------------------------------------
\* Rewrites

MissingRewrites(p) == pass[p].plan.rewrites \ pass[p].seen.rewrites

ForeignRewrites(p) ==
  IF "prune" \in pass[p].plan.flags THEN pass[p].seen.rewrites \ pass[p].plan.rewrites ELSE {}

\* status, version_check and rewrite/list; the diff is made once, here.
ListRewrites(p) ==
  /\ At(p, "listing")
  /\ LET plan == pass[p].plan
         differs == \/ plan.rewrites \ box.rewrites # {}
                    \/ "prune" \in plan.flags /\ box.rewrites \ plan.rewrites # {}
     IN  Become(p, [pass[p] EXCEPT !.at = "rewriting", !.seen.rewrites = box.rewrites,
                                   !.changed = differs])
  /\ UNCHANGED <<wanted, box, row, lock, touched, bounds>>

AddRewrite(p, r) ==
  /\ At(p, "rewriting") /\ ~pass[p].dry
  /\ r \in MissingRewrites(p)
  /\ box' = [box EXCEPT !.rewrites = @ \cup {r}]
  /\ Answered(p, [pass[p] EXCEPT !.seen.rewrites = @ \cup {r}])
  /\ UNCHANGED <<wanted, row, lock, touched>>

DeleteRewrite(p, r) ==
  /\ At(p, "rewriting") /\ ~pass[p].dry
  /\ MissingRewrites(p) = {}
  /\ r \in ForeignRewrites(p)
  /\ box' = [box EXCEPT !.rewrites = @ \ {r}]
  /\ Answered(p, [pass[p] EXCEPT !.seen.rewrites = @ \ {r}])
  /\ UNCHANGED <<wanted, row, lock, touched>>

RewritesDone(p) ==
  /\ At(p, "rewriting")
  /\ pass[p].dry \/ (MissingRewrites(p) = {} /\ ForeignRewrites(p) = {})

-----------------------------------------------------------------------------
\* Upstreams, bootstrap, fallback and private resolvers

\* Mutant: a list nobody defined here is pushed too.
ListsToSet_Empty(plan, seen) == {l \in Lists : plan.lists[l] # seen.lists[l]}

\* A list is only ever pushed when there is something to push.
ListsToSet(plan, seen) ==
  {l \in Lists : plan.lists[l] # {} /\ plan.lists[l] # seen.lists[l]}

\* dns_info
ReadUpstreams(p) ==
  /\ RewritesDone(p)
  /\ IF "upstreams" \in pass[p].plan.flags
       THEN Become(p, [pass[p] EXCEPT !.at = "setting", !.seen.lists = box.lists,
                         !.changed = @ \/ ListsToSet(pass[p].plan, box) # {}])
       ELSE Become(p, [pass[p] EXCEPT !.at = "set"])
  /\ UNCHANGED <<wanted, box, row, lock, touched, bounds>>

\* One dns_config call for all the lists that differ, if any.
SetUpstreams(p) ==
  LET plan == pass[p].plan
      payload == IF pass[p].dry THEN {} ELSE ListsToSet(plan, pass[p].seen)
  IN  /\ At(p, "setting")
      /\ box' = [box EXCEPT !.lists =
                   [l \in Lists |-> IF l \in payload THEN plan.lists[l] ELSE @[l]]]
      /\ IF payload = {}
           THEN Become(p, [pass[p] EXCEPT !.at = "set"]) /\ UNCHANGED bounds
           ELSE Answered(p, [pass[p] EXCEPT !.at = "set"])
      /\ UNCHANGED <<wanted, row, lock, touched>>

-----------------------------------------------------------------------------
\* Filter lists, the filtering engine, blocked services

\* Mutant: a list that is there is not looked at again.
FilterCalls_Presence(plan, seen) ==
  {c \in Filters \X {"on", "off", "absent"} :
     IF c[2] = "absent"
       THEN /\ plan.filters[c[1]] = {} /\ "prune" \in plan.flags
            /\ seen.filters[c[1]] # "absent"
       ELSE c[2] \in plan.filters[c[1]] /\ seen.filters[c[1]] = "absent"}

\* What each row asks of the lists as they were read, and (only with prune)
\* the lists no row wants.
FilterCalls(plan, seen) ==
  {c \in Filters \X {"on", "off", "absent"} :
     /\ seen.filters[c[1]] # c[2]
     /\ IF c[2] = "absent" THEN plan.filters[c[1]] = {} /\ "prune" \in plan.flags
                           ELSE c[2] \in plan.filters[c[1]]}

EngineWanted(plan) == \E u \in Blocklists : "on" \in plan.filters[u]
EngineToFix(plan, seen) == EngineWanted(plan) /\ ~seen.engine

\* filtering/status: all the calls are decided from this one answer.
ReadFilters(p) ==
  /\ At(p, "set")
  /\ LET plan == pass[p].plan
         calls == FilterCalls(plan, box)
     IN  IF "filtering" \in plan.flags
           THEN Become(p, [pass[p] EXCEPT
                  !.at = "filtering", !.todo = IF pass[p].dry THEN {} ELSE calls,
                  !.changed = @ \/ calls # {} \/ EngineToFix(plan, box),
                  !.seen.filters = box.filters, !.seen.engine = box.engine])
           ELSE Become(p, Updates("online", pass[p].changed))
  /\ UNCHANGED <<wanted, box, row, lock, touched, bounds>>

Adds(p, u, to) == to \in {"on", "off"} /\ pass[p].seen.filters[u] = "absent"

\* AdGuard refuses to add a list it has, and to change one it has not.
FilterRefused(p, u, to) ==
  IF Adds(p, u, to) THEN box.filters[u] # "absent"
                    ELSE to # "absent" /\ box.filters[u] = "absent"

\* The next call: a row is done with before the next one.
FilterCall(p, u, to) ==
  /\ At(p, "filtering")
  /\ <<u, to>> \in pass[p].todo
  /\ to = "disable" \/ \A c \in pass[p].todo : c[2] # "disable"

\* add_url always adds enabled: a list wanted off takes a second call.
FixFilter(p, u, to) ==
  LET adds == Adds(p, u, to)
      next == IF adds THEN "on" ELSE IF to = "disable" THEN "off" ELSE to
      rest == IF adds /\ to = "off" THEN {<<u, "disable">>} ELSE {}
  IN  /\ FilterCall(p, u, to)
      /\ ~FilterRefused(p, u, to)
      /\ box' = [box EXCEPT !.filters[u] = next]
      /\ Answered(p, [pass[p] EXCEPT !.todo = (@ \ {<<u, to>>}) \cup rest])
      /\ UNCHANGED <<wanted, row, lock, touched>>

FixFilterRefused(p, u, to) ==
  /\ FilterCall(p, u, to)
  /\ FilterRefused(p, u, to)
  /\ Become(p, Failed("offline"))
  /\ UNCHANGED <<wanted, box, row, lock, touched, bounds>>

FixEngine(p) ==
  /\ At(p, "filtering") /\ ~pass[p].dry
  /\ pass[p].todo = {}
  /\ EngineToFix(pass[p].plan, pass[p].seen)
  /\ box' = [box EXCEPT !.engine = TRUE]
  /\ Answered(p, [pass[p] EXCEPT !.seen.engine = TRUE])
  /\ UNCHANGED <<wanted, row, lock, touched>>

FiltersDone(p) ==
  /\ At(p, "filtering") /\ pass[p].todo = {}
  /\ pass[p].dry \/ ~EngineToFix(pass[p].plan, pass[p].seen)

ServicesTarget(plan, have) == IF "prune" \in plan.flags THEN plan.services ELSE have \cup plan.services

\* blocked_services_get, unless no service is wanted
ReadServices(p) ==
  /\ FiltersDone(p)
  /\ LET plan == pass[p].plan IN
     IF plan.services # {} /\ ServicesTarget(plan, box.services) # box.services
       THEN IF pass[p].dry
              THEN Become(p, Updates("online", TRUE))
              ELSE Become(p, [pass[p] EXCEPT !.at = "blocking", !.changed = TRUE,
                                             !.seen.services = box.services])
       ELSE Become(p, Updates("online", pass[p].changed))
  /\ UNCHANGED <<wanted, box, row, lock, touched, bounds>>

SetServices(p) ==
  /\ At(p, "blocking")
  /\ box' = [box EXCEPT !.services = ServicesTarget(pass[p].plan, pass[p].seen.services)]
  /\ Become(p, Updates("online", pass[p].changed))
  /\ UNCHANGED <<wanted, row, lock, touched, bounds>>

\* An AdGuardError of either services call is swallowed: the pass goes on.
ServicesFail(p) ==
  /\ At(p, "blocking") \/ (FiltersDone(p) /\ pass[p].plan.services # {})
  /\ Fault
  /\ Become(p, Updates("online", pass[p].changed))
  /\ UNCHANGED <<wanted, box, row, lock, touched>>

-----------------------------------------------------------------------------
\* Failures and the outcome

\* A call fails with no effect, or the client cannot be built: "refused" is
\* an HTTP 401, 403 or 429, "offline" any other AdGuardError, "error" the
\* rest (all that is left for a services call, see ServicesFail).
Fail(p) ==
  /\ pass[p].at \in Working
  /\ Fault
  /\ \E k \in Failures :
       /\ At(p, "blocking") \/ FiltersDone(p) => k = "error"
       /\ Become(p, Failed(k))
  /\ UNCHANGED <<wanted, box, row, lock, touched>>

Status(result) == IF result = "refused" THEN "error" ELSE result

\* In sync is what the pass found, not what it left.
InSync(p) == pass[p].result = "online" /\ ~pass[p].changed

\* Mutant: an acquire without its release on the way out of an exception.
Released_OnSuccess(p) == IF pass[p].result = "online" THEN None ELSE p

Released(p) == None

\* apply_updates: one transaction, then the lock is released.
Record(p) ==
  LET result == pass[p].result IN
  /\ At(p, "saving")
  /\ row' = [row EXCEPT
       !.status = Status(result),
       !.inSync = InSync(p),
       !.cooling = result = "refused" \/ (result # "online" /\ @)]
  /\ touched' = IF p \in touched THEN touched \cup {Row} ELSE touched \ {Row}
  /\ lock' = Released(p)
  /\ Become(p, Idle)
  /\ UNCHANGED <<wanted, box, bounds>>

-----------------------------------------------------------------------------
\* The operator, time, and the rest of the world

\* One row, or one set of flags, is edited at a time.
Edit ==
  /\ Edits
  /\ touched' = Passes \cup {Row}
  /\ UNCHANGED <<box, row, lock, pass>>

EditRewrites == Edit /\ \E v \in SUBSET Rewrites : wanted' = [wanted EXCEPT !.rewrites = v]

EditLists ==
  Edit /\ \E l \in Lists, v \in SUBSET Addresses : wanted' = [wanted EXCEPT !.lists[l] = v]

EditFilters ==
  Edit /\ \E u \in Filters, v \in FilterRows : wanted' = [wanted EXCEPT !.filters[u] = v]

EditServices == Edit /\ \E v \in SUBSET Services : wanted' = [wanted EXCEPT !.services = v]

EditFlags == Edit /\ \E v \in SUBSET Flags : wanted' = [wanted EXCEPT !.flags = v]

\* update_server with a new password.
EditCredentials ==
  /\ Edits
  /\ row' = [row EXCEPT !.cooling = FALSE]
  /\ UNCHANGED <<wanted, box, lock, pass, touched>>

EditEnabled ==
  /\ Edits
  /\ row' = [row EXCEPT !.enabled = ~@]
  /\ UNCHANGED <<wanted, box, lock, pass, touched>>

CooldownExpires ==
  /\ row.cooling
  /\ row' = [row EXCEPT !.cooling = FALSE]
  /\ UNCHANGED <<wanted, box, lock, pass, touched, bounds>>

\* What a hosts pass writes on the row: that the role is ready,
RoleReady ==
  /\ row.role = "installing"
  /\ row' = [row EXCEPT !.role = "ready"]
  /\ UNCHANGED <<wanted, box, lock, pass, touched, bounds>>

NotReady == [row EXCEPT !.role = "installing", !.status = "provisioning", !.inSync = FALSE]

\* or is not (any more),
RoleNotReady ==
  /\ row.role # "none" /\ row' = NotReady
  /\ IF row.role = "ready" THEN Fault ELSE UNCHANGED bounds
  /\ UNCHANGED <<wanted, box, lock, pass, touched>>

\* or that the host did not answer: of the role nothing is known then.
HostUnreachable ==
  /\ row.role # "none"
  /\ Fault
  /\ \E status \in {"offline", "error"} :
       row' = [row EXCEPT !.status = status, !.inSync = FALSE]
  /\ UNCHANGED <<wanted, box, lock, pass, touched>>

\* reinstall; the agent's own part of it is in Drift.
Reinstall ==
  /\ row.role # "none"
  /\ Edits
  /\ row' = NotReady
  /\ UNCHANGED <<wanted, box, lock, pass, touched>>

\* Somebody uses AdGuard's own UI, or the agent puts up a new AdGuard Home.
Drift ==
  /\ Fault
  /\ \/ \E v \in SUBSET Rewrites : box' = [box EXCEPT !.rewrites = v]
     \/ \E l \in Lists, v \in SUBSET Addresses : box' = [box EXCEPT !.lists[l] = v]
     \/ \E u \in Filters, v \in Presence : box' = [box EXCEPT !.filters[u] = v]
     \/ \E v \in SUBSET Services : box' = [box EXCEPT !.services = v]
     \/ \E v \in Engine : box' = [box EXCEPT !.engine = v]
     \/ row.role # "none" /\ \E b \in Box : b.rewrites = {} /\ b.services = {} /\ box' = b
  /\ touched' = Passes \cup {Row}
  /\ UNCHANGED <<wanted, row, lock, pass>>

\* The control plane dies and is started again: locks and passes are memory.
Restart ==
  /\ Fault
  /\ lock' = None
  /\ pass' = [p \in Passes |-> Idle]
  /\ UNCHANGED <<wanted, box, row, touched>>

-----------------------------------------------------------------------------

Advance(p) ==
  \/ Skip(p) \/ Begin(p) \/ ListRewrites(p)
  \/ \E r \in Rewrites : AddRewrite(p, r) \/ DeleteRewrite(p, r)
  \/ ReadUpstreams(p) \/ SetUpstreams(p) \/ ReadFilters(p)
  \/ \E c \in pass[p].todo : FixFilter(p, c[1], c[2]) \/ FixFilterRefused(p, c[1], c[2])
  \/ FixEngine(p) \/ ReadServices(p) \/ SetServices(p) \/ Record(p)

Next ==
  \/ ChoosePeriodic \/ NothingDue
  \/ \E p \in Manual, dry \in BOOLEAN : ChooseManual(p, dry)
  \/ \E p \in Passes : Advance(p) \/ ServicesFail(p) \/ Fail(p)
  \/ EditRewrites \/ EditLists \/ EditFilters \/ EditServices \/ EditFlags
  \/ EditCredentials \/ EditEnabled
  \/ RoleReady \/ RoleNotReady \/ HostUnreachable \/ Reinstall
  \/ CooldownExpires \/ Drift \/ Restart

\* The periodic loop comes round, a call is answered or times out, a cooldown
\* has an end.  Manual passes, edits, faults and a role that gets ready are never
\* owed.
Fairness ==
  /\ WF_vars(ChoosePeriodic)
  /\ WF_vars(CooldownExpires)
  /\ \A p \in Passes : WF_vars(Advance(p))

Spec == Init /\ [][Next]_vars
FairSpec == Spec /\ Fairness

-----------------------------------------------------------------------------
(***************************************************************************)
(* Properties                                                              *)
(***************************************************************************)

\* What a box that matches its settings looks like, services apart.
RewritesMatch ==
  /\ wanted.rewrites \subseteq box.rewrites
  /\ "prune" \in wanted.flags => box.rewrites \subseteq wanted.rewrites

ListsMatch ==
  "upstreams" \in wanted.flags =>
    \A l \in Lists : wanted.lists[l] # {} => box.lists[l] = wanted.lists[l]

FiltersMatch ==
  "filtering" \in wanted.flags =>
    /\ \A u \in Filters : \A to \in wanted.filters[u] : box.filters[u] = to
    /\ "prune" \in wanted.flags =>
         \A u \in Filters : wanted.filters[u] = {} => box.filters[u] = "absent"
    /\ EngineWanted(wanted) => box.engine

Matches == RewritesMatch /\ ListsMatch /\ FiltersMatch

ServicesMatch ==
  "filtering" \in wanted.flags /\ wanted.services # {} =>
    /\ wanted.services \subseteq box.services
    /\ "prune" \in wanted.flags => box.services \subseteq wanted.services

\* A row that says "in sync" is right, until an edit or an outside change later
\* than the snapshot it was decided from: no failed call, lost answer, dry
\* run, overlapping pass or restart can leave it wrong.  Blocked services are
\* not covered: a pass that could not set them says "in sync" all the same.
\* (apply_plan's updates.in_sync, apply_updates, _reconcile_filtering)
InSyncTruthful == row.inSync /\ Row \notin touched => Matches

\* Two passes never talk to the server at once.  (sync.py lock_for: "two
\* concurrent passes over the same server would compute the same diff and
\* both apply it")
OnePassPerServer == \A p \in Passes : pass[p].at \notin {"idle", "due"} => lock = p

\* Only the pass that has the lock changes the box, never on a dry run; if it
\* knows the current settings it removes nothing of an unpruned server, empties
\* no upstream list, and leaves alone what the app does not manage.
\* (concepts.md on prune; apply_plan, _reconcile_filtering)
OnlyWhatWasAsked ==
  [][box' # box /\ pass' # pass =>
       /\ lock \in Passes
       /\ ~pass[lock].dry
       /\ lock \notin touched =>
            /\ "prune" \notin wanted.flags =>
                 /\ box.rewrites \subseteq box'.rewrites
                 /\ box.services \subseteq box'.services
                 /\ \A u \in Filters : box'.filters[u] = "absent" => box.filters[u] = "absent"
            /\ \A l \in Lists : box'.lists[l] = {} => box.lists[l] = {}
            /\ "upstreams" \notin wanted.flags => box'.lists = box.lists
            /\ "filtering" \notin wanted.flags => /\ box'.filters = box.filters
                                    /\ box'.services = box.services
                                    /\ box'.engine = box.engine]_vars

\* Once edits, faults and manual passes stop, an enabled server whose host, if it
\* is on one, does not keep it installing comes to match its settings and its row
\* says so.  (sync.py _loop, _due_servers; concepts.md: offline servers are
\* "retried on the next cycle until they converge")
Converges ==
  <>[](row.enabled /\ row.role # "installing" => Matches /\ ServicesMatch /\ row.inSync)

=============================================================================
