# adguard-admin: a verification development

adguard-admin manages a fleet of AdGuard Home servers. A control plane
(`backend/app`, FastAPI and asyncio, one process, SQLite or PostgreSQL) keeps
what the operator wants in a database and brings every server to it over the
AdGuard Home HTTP API. A host agent (`agent/`, Go, one process per managed
machine) installs and runs AdGuard Home, keepalived, dnsdist or an IPVS backend
on that machine as the control plane tells it. A web frontend talks to the
control plane only.

This directory holds TLA+ modules of the parts whose correctness lies in the
order of events, the TLC configurations that check them on small instances, and
TLAPS proofs for every value of the constants. `PROJECT.json` maps each
definition to the source lines it stands for. Paths below are relative to the
repository.

    tlc -config MCRoleManager_role.cfg MCRoleManager.tla
    tlapm RoleManagerProofs.tla

## 1. Inventory

### Host agent

| Part | State | Operations | What is hard | What makes it correct |
|---|---|---|---|---|
| Role manager (`agent/internal/roles/manager.go`, `config/config.go`) | per role: desired spec, applied hash, state; `desired/*.json`, `status/*.json`; wake channel; `m.mu`, `convergeMu` | `Put`, `Wake`, `Load`, `Start`, `loop`, `converge`, `ResetApplied` | handlers and the loop interleave outside `m.mu`; a crash between any two writes; wake-ups; failed passes | what is reported applied is what runs; no lost wake-up; mutual exclusion on the host; convergence |
| HTTP server (`server/server.go`) | pending renewal key, open TLS holder | PUT role, reset, update, drain and undrain, renew and install certificate, self-update | some handlers take the converge lock, some do not; certificate and key are two files | handlers and passes do not undo each other |
| AdGuard role (`roles/adguard/adguard.go`) | the container, its previous generation, the seeded YAML, resolv.conf | `Converge`, `Update`, `Reset` | recreate in several commands, rollback of a container that does not come up | a host with a working container keeps one |
| keepalived and IPVS (`roles/keepalived`, `roles/ipvsbackend`) | configuration file, service, kernel tables, drained backends | `Converge`, drain, undrain | compare-write-restart with failures between; drains re-applied after a restart | running configuration is the desired one; drained stays drained |
| dnsdist (`roles/dnsdist`) | configuration file, service, `drained.json`, console state | `Converge`, drain, undrain | drains race with restarts of the daemon | as above |
| Self-update (`selfupdate`) | the binary and the file beside it that becomes it | download, verify, probe, rename, restart | two requests share the file; a crash at every step | a host keeps an agent that starts, runs what is shipped, and restarts for nothing else |
| Enrolment and PKI (`enroll`, `pki`) | key, certificate, CA and configuration files; the pending key and the certificate in memory | enrol, ask for a renewal, install a certificate, start | two-file replacement; renewals of the cycle and of the operator overlap | key and certificate match at the next start; a certificate that is due is renewed |

### Control plane

| Part | State | Operations | What is hard | What makes it correct |
|---|---|---|---|---|
| Reconciliation (`sync.py`, `adguard_client.py`) | `Server` outcome columns; `lock_for` locks; the periodic loop | choose, lock or skip, snapshot, list, diff, change, record | every `await` admits other tasks; lost answers; snapshots that grow stale; swallowed errors | `in_sync` is true when said; one pass per server; nothing removed that was not to be; convergence |
| Updates (`updater.py`, `routers/updates.py`, `update_agent.py`) | `Server` update columns; run and pass locks; the box itself | start a run, take servers, ask, upgrade, wait, record; check now; the on-box script | long waits over restarting boxes; runs, passes and checks overlap; stale release numbers | a box is upgraded under its lock, only to something newer; runs end |
| Hosts pass (`hosts.py`, `agent_client.py`) | `Host` and `LoadBalancer` outcome columns | push specs and hashes to agents, read states back, renew certificates, update agents | specs computed from rows that change meanwhile; agents that converge later | a balancer is in sync only if its agent applied the hash last computed |
| Fleet rows (`routers/servers.py`, `zones.py`, `loadbalancers.py`) | servers, zones, balancers | create, update, move, delete | a check and its transaction are apart, in threads; deletes that leave references; ids used again | a server stays in its zone until it is moved; nobody comes by another one's rows |
| Provisioning (`routers/provision.py`, `agents.py`) | enrolment tokens, hosts, the rows they made | issue, revoke, enrol, forget a host, renew | several commits per request | a token makes one host |
| Desired state (`routers/records.py`, `upstreams.py`, `filters.py`, `blocked_services.py`) | the rows passes read, and their scopes | create, update, delete, import | imports wait for a box before they look; edits during a pass | as for reconciliation; an import makes no row twice |
| Authentication, users, rate limiter | users, sessions, counters | log in, change roles | the last administrator; windows at their limit | an administrator remains |
| Telemetry (`telemetry.py`) | 1m and 1h rows, the time of the last roll-up | collect, rate, roll up, prune | counters that start again, lose a part or are another box's; collections that overlap; hours that wait while their rows age | no hour is lost, a rate is over by no more than what a jump left |
| Home Assistant (`routers/ha_compat.py`, `fleet.py`) | the read cache and its locks | read with fan-out, toggle | requests that wait for one load; writes that clear the cache under it | one load at a time, every request answered, what is told comes true |
| Proxy, query log | none | read, forward | fan-out of reads | no state that another part relies on |
| Frontend | none that outlives a page | | | |

### Interactions

* The periodic sync cycle runs the hosts pass, then fans out over the servers
  that were due when it began. "Sync now" runs the same passes at once.
* Sync passes and upgrades exclude each other per server with `lock_for`; a
  pass or an upgrade that finds the lock taken leaves the server alone.
* Requests of the operator write the rows that passes read as snapshots and the
  outcome columns that passes write (new credentials clear a cooldown).
* The hosts pass sends specs with `PUT /v1/roles/*`; the agent answers at once
  and converges in its own goroutine; the next pass reads what came of it.
* Upgrades of a container go through `POST /v1/adguard/update` of its agent, or
  are left to the on-box updater script, which the control plane does not see.
* A box enrols with a token and is told its identity once; from then on the
  hosts pass renews its certificate and updates its agent, and so does the
  operator, by the same calls and at the same time.
* The cycle ends with a collection of metrics; the read cache and the routers
  are other tasks and threads over the same rows.

## 2. Modules

| Module | Models | Checked by | Proved in |
|---|---|---|---|
| `RoleManager` | one role of the agent: PUT and reset handlers, converge loop, files, crashes | `MCRoleManager` | `RoleManagerProofs` |
| `AgentRole` | what one role promises whoever talks to it | refined by `RoleManager` | `RoleManagerProofs!RoleImplements` |
| `BalancerRole` | the converge pass of dnsdist or keepalived command by command, drains, the daemon | `MCRoleManager`, `MCBalancerRole` | `RoleManagerProofs` |
| `HostsPass` | host and balancer passes over one host, on roles of `AgentRole` | `MCHostsPass` | `HostsPassProofs` |
| `ServerSync` | reconcile passes over one server, its row and its box | `MCServerSync` | `ServerSyncProofs` |
| `FleetUpdater` | upgrade runs over the fleet, version checks, the boxes | `MCFleetUpdater` | `FleetUpdaterProofs` |
| `AdGuardContainer` | AdGuard Home on one host, replaced command by command by the agent's passes, updates and resets and the on-box script | `MCAdGuardContainer` | `AdGuardContainerProofs` |
| `SelfUpdate` | the agent's own binary, replaced by the cycle and the operator at once | `MCAdGuardContainer` | `AdGuardContainerProofs` |
| `HomeAssistant` | the `/control` API: reads that fan out, their cache and its locks, toggles | `MCRequests` | `HomeAssistantProofs` |
| `Enrolment` | tokens, hosts and the rows they make; key and certificate of one box, renewals | `MCRequests` | `EnrolmentProofs` |
| `Telemetry` | collections, rates, roll-up and pruning of the metric store | `MCStore` | `StoreProofs` |
| `Inventory` | zones, servers and the scoped rows under concurrent requests and imports | `MCStore` | `StoreProofs` |

`MCRoleManager`, `MCAdGuardContainer`, `MCRequests` and `MCStore` check two
modules each: a variable (`part`, `kind`) says which is at work, and the other
rests, so that the state space is the sum of the two and not their product. Of
the type invariants, `RoleManager`'s is checked and proved, those of `BalancerRole`,
`ServerSync`, `FleetUpdater`, `HomeAssistant`, `AdGuardContainer`, `SelfUpdate`,
`HostsPass` and `Enrolment` are proved; the other modules' `TypeOK` say what the variables are and
are not checked by a run.

### RoleManager

A handler or the loop is a process with a place (`req[h].at`, `loop.at`). A
critical section under `m.mu` is one step; each file write, the send on the wake
channel and the role's own work are steps of their own, so two handlers, the
loop and a crash interleave as goroutines do. `desired`, `applied` and `state`
are the fields of `entry` and its `Common`; `stored` and `statusFile` are the
two JSON files. A spec stands for its bytes and its hash. `host` is what is
installed: a spec, nothing, or `Partial` after a failed or interrupted change.
`Restart` is the death of the agent at any point followed by `Load` and `Start`.
`ConvergeError` covers every error path of a role; what the roles do inside is
left to modules of their own (see the plan).

### AgentRole and HostsPass

`AgentRole` is the role seen from outside: a record of what is stored, desired,
reported applied, being worked on and on the host, with an operator per step.
`RoleManager` implements it under the mapping `view`, in which `ok` is "the
state says ready or stopped", a pass is at work between `ConvergeBegin` and its
end, and a reset is wiping between the lock and the last word of `ResetApplied`;
the status file, the wake channel and the places of the handlers disappear. It
promises little on purpose: the halves of two PUTs may mix, and a restarted
agent may report an old applied spec, though never success with it.

`HostsPass` puts a record of that kind per role on one host and adds the control
plane: `conf` is the balancer's row and its zone's VIP, `row` the outcome columns
`in_sync` and `desired_hash`, `ready` the state in `Server.agent_state`. A pass
reads the rows (`Plan`: `_agent_plan`, `_lb_plan`), asks for the hashes the agent
desires (`Info`), makes the calls those hashes ask for one by one (`PutSpec`),
reads the main role (`Read`) and records (`Save`); edits, other passes, the
agent's own work and faults come between any two of these. The three tasks are
the sync cycle (agents first, balancers last, for ever), a pass the operator
starts, and the call that follows a deletion. A spec is reduced to whether it is
on and to what the modes tell apart: AdGuard on every address or on loopback,
keepalived with or without virtual servers. `Fits` is the one fact of the host
that couples the roles: AdGuard on :53 and dnsdist cannot both come up. A PUT is
one step here, since `RoleManager` has shown what overlapping ones do. Left out:
certificate renewal (in `Enrolment`), backends and their weights, the
self-update beyond the restart it causes (in `SelfUpdate`).

### ServerSync

A pass goes through `Places`: chosen (`Choose`), waiting for its turn (`due`),
locked and planned with no await between (`Begin`), then one step per HTTP call.
`plan` is the snapshot (`ServerPlan`), `seen` what the calls answered, `todo`
the filter calls decided from one answer, `changed` the accumulated difference
that decides `in_sync`, `Record` the one transaction of `apply_updates` and the
release of the lock. A call can fail before it takes effect (`Fail`), or take
effect and lose its answer (`Answered`); `ServicesFail` is the error that
`_reconcile_filtering` swallows. `wanted` is what the database wants of this
server, one component per kind of row; `EditX` are the routers. `Drift` is
somebody using AdGuard's own UI. A server on a host with an agent has `row.role`,
what the last hosts pass heard of its AdGuard role (`agent_state`): `Due` leaves a
server out, asked for or not, until that is ready (`sync.py:560`). `RoleReady`,
`RoleNotReady` and `HostUnreachable` are what `_record_agent` writes, which
happens in a task of the hosts pass and so between any two calls of a pass that
is under way; `Reinstall` is the operator's request, and what the agent then does
to the box is a part of `Drift`. `touched` is a ghost: it names the passes (and
the row) whose view is older than the last edit or outside change, and is only
read by properties. Left out: the validation of requests, timestamps and error
texts, the hostname record of the server itself, DNS rewrites' enabled flag, and
the detachment of a server from a host that is deleted.

### FleetUpdater

`run` has the servers a run has still to take, `job[r][s]` what it does to one
server. `Take` and `Busy` are the two branches at the lock, `AskRelease`,
`AskVersion`, `UpdateNow`, `AgentUpdate`, `CameBack`, `GaveUp` and `Save` the
awaits of `update_server`. A release is a number. `BoxBack` is AdGuard Home
coming back after an upgrade, on the new release or not. `SyncBegin` and
`SyncEnd` are all this module needs of a reconcile pass; `CheckAsk` and
`CheckSave` are the two halves of `check_now`. The maintenance window is time:
a periodic run may start whenever the master switch is on.

### BalancerRole

One host that keeps dnsdist in a container, dnsdist as a package, or keepalived
with virtual servers (`kind`; one host has one of them here, since they share no
file). The converge loop is a process again, but now every command of a pass is
a step: render and write the file (`Render`, which also decides `changed`), make
or restart the daemon (`ApplyContainer`, `KeepContainer`, `ApplyUnit`,
`RestartUnit`), wait for its API and leave the mark (`Answers`), drain again
(`DrainAgain`), report (`Done`). `daemon.loaded` is the file as it was when the
daemon last started, `daemon.down` the backends it holds out of rotation, and a
daemon that starts holds none. A drain or undrain is three steps: the console,
the set in memory, the file. `DaemonDies`, `RestartService`, `WeightRestored`
and `AgentRestart` come between any two of these. A spec is whether it is on, its
image and its backends. `said` is the applied hash as long as the state says
ready or stopped. `torn` is a ghost: a pass has changed the file and ended before
it was through, and no pass that restarts has been through since. Left out: the
check of the configuration beyond its failing, interfaces, sysctls, packages,
keepalived without virtual servers, live statistics.

### AdGuardContainer

Four actors share the names `adguardhome` ("main"), its twin of the agent
("prev") and that of the script ("preupdate"): the converge loop ("pass"), the
update handler, the reset handler and the on-box script, of which only a pass
and a reset exclude each other. `proc[a]` is the place of an actor, what it was
asked and, for the script, the image it saw. The replacement (`recreate`, and
the end of the script) is written once for all, from `Clear` to `StartAgain`,
with the order and the error paths of each; the rest of a pass runs from `Begin`
through `Off`, `Create`, `Recreate` or `Start`, `Verify`, `Compare`, `Halt`,
`Write`, `StartHalted` and `Final`. A container has a build (`id`: an image, or
the version of the native install), the spec its label names and whether it is
up; `conf` is AdGuardHome.yaml, reduced to the addresses DNS listens on and to
whether it accepts the agent's credentials. A `Broken` build runs and never
answers. `torn` and `crossed` are ghosts: a replacement was meddled with or cut
short; an update or the script was under way beside the last pass, or an update
has been given a spec since that no pass had reached. Left out:
bridge networking, the web port (the control plane never changes it), Compose
projects, the arguments the script copies.

### SelfUpdate

`call[c]` is what the control plane does for a caller (the cycle, or an operator
who pushes regardless of earlier attempts), `handler[c]` the agent's
`selfUpdate` for it, statement by statement: `Fetch` (download and checksum),
`Open` (which truncates), `Write`, `Probe` and `Probed` (the new binary says its
version), `Rename`; `Exit` is the end of the process one second after the answer
and `Boot` systemd's restart. A build is named by the version it prints; the
manifest (`shipped`) names a version and has a build, which need not agree:
`VERSION` and the binaries are separate files. Two handlers have the same file,
by its inode: `Moved` and `Rename` follow a descriptor to the name its file now
has, and `Over` says what a file holds that two have written. `met` is a ghost:
a handler has opened the file of another one. Left out: agents that systemd does
not run, architectures that are not shipped, the manifest without binaries.

### HomeAssistant

A request is a coroutine: `Ask` is a read up to its first await (a hit, a free
lock, or a place in the queue of `asyncio.Lock`), `Enter` a waiter that has got
the lock and looks again, `Answer` one box of the fan-out, `Loaded` the end of
the load with the release of the lock; `Toggle`, `Take` and `Applied` are a
write and its fan-out, which ends by clearing the cache. A scope is the fleet, a
zone or a server, and is the cache's key; one on/off setting stands for the six
of AdGuard Home, whose reads and writes do not meet. `shown[k]` is what was last
told of a scope. The age of an entry counts ticks. Boxes go down, settings
change behind the API's back, rows move between zones while requests are in
flight. Left out: accounts, the statistics, and the lists that are kept in the
database, whose writes are `ListsWritten` here and whole in `Inventory`.

### Enrolment

One box and the control plane. `Enrol`, `AddHost`, `AddRoles` and `Complete` are
`enroll` commit by commit; `SaveKey`, `SaveCert` and `SaveConfig` the files that
`enroll.go` then writes. The handler is a coroutine that does not await, so no
other coroutine comes between its commits; handlers in threads do (`Revoke`,
`DeleteToken`, and a forced deletion of a host in its four transactions `Detach`,
`Release`, `Drop` and `Forget`), and the program may end there (`Interrupt`).
A renewal is `Plan` (the date in the row; the operator does not look), `Csr`,
`Put` and `Record`; the box's side of `Put` is `Load`, `WriteKey`, `WriteCert`
and `Clear`, which interleave for two callers since the mutex covers the pending
key only. `Unwritten` is a file that cannot be written, `GiveUp` a lost answer,
`Die` and `Boot` the agent's process, `Wipe` an operator who enrols again.
A certificate is named by its key and is fresh or due; `Age` is months passing.
Ids are SQLite's, which gives a deleted one again. `torn` and `mixed` are ghosts:
enrolments that ended between commits; installs that overlapped or ended between
two files. Left out: zones, names, addresses, the CA files.

### Telemetry

`Collect` takes the time stamp, `Answer` is one server, `Store` the transaction
of the rows and, when an hour has gone by, `Housekeep`: the roll-up and the
pruning (`samples`, `hours` and `last` are the 1m rows, the 1h rows and
`_last_rollup`). Either both happen or neither: a failure leaves them to the next
collection. `Rate` is `rate()` over the newest row of the thing. Collections of
the periodic cycle and of an operator overlap; `Restart` loses `_last_rollup`.
What the code reads as a counter is the bucket of the hour, or the total of a
sliding window when there is none (`telemetry.py:121-124`), a daemon's count, or a
sum over backends (`:203-204`). `Drop` is one that starts again at 0 or loses a
part; `Replace` is a row that comes to stand for another box, because its url is
edited or its id is used again while the 1m rows stay (`latest` goes by
`entity_id`). `count` is what the counter says, `jumps` how often it did not go on
from where it was, `left` where the last jump left it. `taken` and `late` are
ghosts, and a row carries what was really answered (`real`) and what a jump since
the row before left (`left`). Left out: the averages of other values, agents, and
the queries of the charts.

### Inventory

A handler in a thread is two steps: what it reads and checks (`AskX`, which
leaves an operation in `op[c]`) and its transaction (`X`), which fails as a whole
when it breaks a foreign key or names a row that is gone; `Merged` writes only the
columns a request changed, as the mapper does. `Import` waits for the box before
it looks at the rows. A kind of row stands for tables that are handled alike, and
a value for what a row says. `gen[s]` counts the servers that have had an id. A
request fixes, when it is checked, the server its row is for (`for`), and the row
keeps that; `crossed` says that the id had changed hands when it was stored.

`RemoveZone` deletes as the mapper does: `Zone.servers` (`models.py:143`) has no
`passive_deletes`, so the flush loads the servers that are in the zone by then
(`LoadMembers`), writes them without a zone and deletes the zone, all at commit
and after the check of `delete_zone`. Another transaction can commit between the
load and the first write of the flush, so they are two steps. A
server that has come in after the loading makes the deletion fail on the key.
`newcomers` is a ghost: the servers put into a zone whose deletion was under way.
Left out: names and slugs, the records the servers list maintains, and what has
only a key to a zone (balancers, hosts, tokens).

## 3. Runs

| Run | Question | Instance |
|---|---|---|
| `role` | does a role report the truth, lose no wake-up, keep one actor on the host and converge? does a balancer's daemon run what is reported, undisturbed, with its drains? | two PUT handlers, one reset handler, a spec that runs and one that stops, 3 requests, 2 faults; or any of the three daemons, two backends, two images, two handlers, 3 requests, 2 faults |
| `hosts` | does the host come to run what its rows ask for, do the rows come to say so, and is "in sync" true of what the agent converges to? | AdGuard, dnsdist and keepalived in both modes, 1 edit, 1 fault; or AdGuard and dnsdist, 1 edit, 1 pass of the operator |
| `sync` | is "in sync" true, is nothing touched that was not to be, does the box come to match? | either one rewrite and one list of at most one address, with the periodic and one manual pass and 2 faults, or, on a host with an agent, the manual pass or 1 fault; or one blocking list and two services, with the periodic pass and 1 fault; 1 edit |
| `update` | locks, rows and needless restarts over a fleet; do runs end? | two servers, native and agent installs, the periodic run and a manual one; or one server of any install method with 2 faults; 2 requests, 2 releases |
| `container` | does AdGuard Home come to run as reported, with a container that works at all times? does the agent come to run what is shipped, and restart for nothing else? | container and native install, two addresses, a build that works and one that does not, 3 requests and faults together; or the cycle and an operator, two builds, 2 releases, 1 push, 2 faults |
| `requests` | are reads of the `/control` API shared, answered and true in the end? does a token make one host, can an agent always be started again, are certificates renewed? | two servers, one zone, two scopes, two clients over rows that rest or one over rows that change, 1 toggle, 1 change of a setting, 1 edit or outage; or one box, two tokens, two ids, 2 requests, 1 fault, 2 times that months pass |
| `store` | is an hour of metrics ever lost, and by how much can a rate be over? do imports make a row twice, does a server come by another one's rows or lose its zone? | 4 hours of 2 ticks with two collectors and a restart; or 2 ticks in which a server or a balancer answers 2 queries, with a counter that jumps and 1 edit; or two zones, two ids of servers, two rows, two requests in flight, 4 requests, from one zone with one server in it |
| `hosts_deleted` | does the host of a deleted balancer stop? No: see section 6 | AdGuard and dnsdist, 1 edit, 1 fault |
| `balancer_torn` | does the daemon restart on a change after a pass that was cut short? No: see section 6 | keepalived, 2 requests, 1 fault |
| `balancer_undrain` | is an undrained backend served again? No: see section 6 | one handler, 4 requests, no faults |
| `container_kept` | is a container that works kept even when replacements overlap or are cut short? No: see section 6 | as `container` |
| `enrol_once` | does a token make one host whatever happens? No: see section 6 | as the enrolling instance of `requests` |

Every bound is a named constant that guards actions of the environment only
(requests, edits, faults, releases): no step of the program itself is ever cut
off. Initial states are all states the program can start from: a server that is
added with any settings over a box that holds anything; a fleet of any methods.

Why these are enough. A property of `RoleManager` is broken by at most two
handlers and the loop, and by a crash between two writes: three requests and two
faults let a PUT, an overlapping PUT and a reset each be interrupted twice. The
diff of `ServerSync` treats each rewrite, list, filter and service alike, and
one of a kind can be missing, foreign, right or wrong; two services are there
because they are set as one list, where one can push out the other. A lost
answer followed by a restart takes two faults, a stale snapshot one edit. A host
that stops being ready or does not answer is one fault, a reinstall one edit, and
either can come at any point of a pass. Two
servers and a limit of one let runs meet at a lock and at the semaphore; two
releases let the row's release be behind the world's.

In `HostsPass` one edit is enough to make a plan stale, and one pass of the
operator to send a stale plan after a newer one; a change of mode needs all
three roles and the deletion needs a fault to be lost. Operator passes with three
roles are beyond five minutes of model checking, so the instance with all modes
has none.

`MCServerSync` runs two kinds of instance side by side, fixed by the variable
`manages`: what they would add together, a pass that makes the calls of both,
is the one after the other. In `AdGuardContainer` three events are a PUT with an
update and a failure, two PUTs and a crash, or a PUT, an update and the script
at once; `MCSpec` begins with data that listens on one address, if any.

In `BalancerRole` three requests are a PUT, another PUT and a drain, or a PUT, a
drain and a restart; two faults cut two passes short, or one and kill the daemon.
The two backends and images let a spec lose a backend and change the image.

In `SelfUpdate` two callers are what shares the file; two releases let one come
while the other downloads and let the manifest be wrong and be put right, two
faults let an attempt die half written and the next answer be lost. `container`
checks it beside AdGuard Home, which rests meanwhile.

In `requests`, two clients are one that loads and one that waits, and a scope
within another is asked at the same time. The rows change in an instance of one
client, since a load that meets an edit needs no second reader. Enrolment needs a
second token for a host that is forgotten and enrolled again over the same ids,
and a second row for the box (`sharing`) is what a torn enrolment leaves. Eight
keys are more than can be held at once, so a key is never taken for another.

In `store`, four hours are one that is rolled up twice, one that is missed and
two for the retentions to pass; a rate needs two rows only. `kept` counts from
the last housekeeping and 1h rows are kept one tick longer than 1m rows, so that
every edge between the two retentions is met. One jump and one edit let a counter
lose a part and then be another box's. Two requests in flight and four in all let
a server be deleted under an addition for it, another one take its id, and the
addition be stored for that one; or a server come into a zone while that is being
deleted, before or after the flush has looked.

Symmetry is used in `store` only, over collectors, requests in flight and values
of rows, with no liveness property in the run.

### Fairness

Weak fairness of single steps, on what the schedulers of the two programs
guarantee and on nothing else.

* `RoleManager`: goroutines run; the 30 second ticker fires; a role's commands
  have timeouts, so a pass ends, well or badly. A pass that ends badly costs a
  fault, so that in the long run passes succeed: convergence is claimed for a
  host that works from some time on.
* `HostsPass`: the cycle comes round and its calls end; every role's goroutine
  gets its turn and its passes end, by failing as long as port 53 is taken.
* `BalancerRole`: the loop and the handlers run, the ticker fires, commands end;
  a pass that fails, other than for a dnsdist that is down, costs a fault.
* `AdGuardContainer`: the loop and the handlers run and the script goes on; waits
  and commands end. A command that fails is an event, and events are bounded.
  `Settles` is claimed for builds that work and data whose credentials are the
  agent's; a broken image pulled by somebody is retried for ever.
* `ServerSync`: the periodic loop comes round (`SyncManager._loop` catches what
  a cycle raises), a call is answered or times out, a cooldown ends. Manual
  passes, edits and faults are never owed, nor is it that a host gets its AdGuard
  role ready: that is for the agent and the hosts pass (`RowsFollow` of `HostsPass`;
  `reconcile_all` runs the hosts pass before it looks which servers are due), and
  `Converges` speaks of servers that are not kept installing.
* `FleetUpdater`: tasks run, a box that went down comes back, a pass that took a
  lock ends. No run, release or check is owed, so `RunsEnd` says that a run that
  began ends, not that servers are upgraded: a run that finds a server busy
  leaves it to the next one, and nothing forbids that this happens every time.
* `SelfUpdate`: calls are answered or time out, handlers and the exit go on,
  systemd starts the agent (`Restart=always`), the retry minutes pass and the
  cycle comes round. Releases, pushes, deaths and failed writes are not owed, and
  they are bounded: `Updated` is claimed for a manifest that tells the truth in
  the end, and once no two handlers have met.
* `HomeAssistant`: time passes and calls to boxes have time-outs, so a request
  that is served goes on. Home Assistant polls every scope it has been given;
  that is strong fairness of `Poll`, since a poll finds the cache, the lock or its
  own client busy again and again.
* `Enrolment`: handlers go on, the cycle comes round to every host, systemd starts
  the agent. Months pass only while nothing is in flight: what takes seconds is
  not overtaken by what takes months.
* `Telemetry` and `Inventory` are about safety only.

### Mutants

Each property has a mutant in `PROJECT.json`: a definition of the model replaced
by the way a plausible mistake in the code would change it (a lock released only
on success, a ticker that trusts the applied hash, an empty list that is
pushed), for which the property fails in its own run.

## 4. Proofs

`TLAPS` proves the following for every value of the constants, from the named
assumptions of the modules (the distinguished values are distinct, the bounds are
natural numbers, blocking lists are filter lists, the servers are finitely
many, there are keys enough that a new one can be made, an hour has a tick).
`Balancer` is the instance of `BalancerRole` in `MCRoleManager`, `Agent` that of
`SelfUpdate` in `MCAdGuardContainer`, `Metrics` that of `Telemetry` in `MCStore` and
`Cached` that of `HomeAssistant` in `MCRequests`; they assume `DaemonAssumption`,
`AgentAssumption`, `TelemetryAssumption` and `HomeAssistantAssumption` of the
constants. TLC evaluates every assumption. No theorem assumes fairness.

| Theorem | Statement |
|---|---|
| `RoleManagerProofs!TypeCorrect` | `Spec => []TypeOK` |
| `RoleManagerProofs!MutualExclusion` | `Spec => []OneActorOnHost` |
| `RoleManagerProofs!ReportedSpecRuns` | `Spec => []AppliedIsHost` |
| `RoleManagerProofs!WakeNeverLost` | `Spec => []NoLostWake` |
| `RoleManagerProofs!RoleImplements` | `Spec => ImplementsAgentRole` |
| `RoleManagerProofs!DaemonTypes` | `Balancer!Spec => []Balancer!TypeOK` |
| `RoleManagerProofs!RunsAsReported` | `Balancer!Spec => []ReportedRuns` |
| `RoleManagerProofs!NotDisturbed` | `Balancer!Spec => Undisturbed` |
| `ServerSyncProofs!TypeCorrect` | `Spec => []TypeOK` |
| `ServerSyncProofs!OnePass` | `Spec => []OnePassPerServer` |
| `ServerSyncProofs!LockReleased` | `Spec => []LockUsed` |
| `ServerSyncProofs!InSyncIsTrue` | `Spec => []InSyncTruthful` |
| `ServerSyncProofs!AskedOnly` | `Spec => OnlyWhatWasAsked` |
| `FleetUpdaterProofs!TypeCorrect` | `Spec => []TypeOK` |
| `FleetUpdaterProofs!LockHeld` | `Spec => []JobHasLock` |
| `FleetUpdaterProofs!RestartNeeded` | `Spec => NoNeedlessRestart` |
| `FleetUpdaterProofs!LocksReleased` | `Spec => []NothingLeft` |
| `FleetUpdaterProofs!ViewBehind` | `Spec => []RowsBehind` |
| `HomeAssistantProofs!TypeCorrect` | `Cached!Spec => []Cached!TypeOK` |
| `HomeAssistantProofs!LoadsOnce` | `Cached!Spec => LoadsShared` |
| `HomeAssistantProofs!LocksAreServed` | `Cached!Spec => []LocksServed` |
| `StoreProofs!RowsOwned` | `Spec => []OwnRows` |
| `StoreProofs!Placement` | `Spec => []ServersPlaced` |
| `StoreProofs!ZonesKept` | `Spec => ZoneKept` |
| `StoreProofs!ImportedOnce` | `Spec => []ImportOnce` |
| `StoreProofs!HoursKept` | `Metrics!Spec => []NoHourLost` |
| `StoreProofs!RatesTrue` | `Metrics!Spec => []RateWithin` |
| `AdGuardContainerProofs!TypeCorrect` | `Spec => []TypeOK` |
| `AdGuardContainerProofs!Reported` | `Spec => []ReportedIsSet` |
| `AdGuardContainerProofs!WorkingIsKept` | `Spec => WorkingKept` |
| `AdGuardContainerProofs!NotDisturbed` | `Spec => Undisturbed` |
| `AdGuardContainerProofs!AgentTypes` | `Agent!Spec => []Agent!TypeOK` |
| `AdGuardContainerProofs!NotReinstalled` | `Agent!Spec => NoReinstall` |
| `HostsPassProofs!TypeCorrect` | `Spec => []TypeOK` |
| `HostsPassProofs!InSync` | `Spec => []BalancerInSync` |
| `HostsPassProofs!RolesKept` | `Spec => RolesPromise` |
| `HostsPassProofs!SyncedRuns` | `Spec => FoundRunning` |
| `HostsPassProofs!RowsAreTrue` | `Spec => []InSyncServes` |
| `EnrolmentProofs!TypeCorrect` | `Spec => []TypeOK` |
| `EnrolmentProofs!Once` | `Spec => []UsedOnce` |
| `EnrolmentProofs!StartsAgain` | `Spec => []BootsAgain` |
| `EnrolmentProofs!RowBehind` | `Spec => []RowNotAhead` |

*RoleManager.* `AppliedIsHost` and `OneActorOnHost` are inductive once types are
known. `NoLostWake` speaks of a loop that sleeps, and what makes it true is
decided while the loop works: `WakeInv` adds that a spec set under a working
loop has its wake token already, and `Known` that a role with no desired spec
has applied none, which is why a pass that finds no spec may go back to sleep.

`RoleImplements` maps each step of `RoleManager` to a step of `AgentRole` or to
none: a lemma per action says what becomes of `view`, and the invariants above
say why (a wipe excludes a pass, so a pass and a reset never move it together;
a reported spec runs, so a restart that keeps it promises nothing new).

*BalancerRole.* `ReportedRuns` looks at the daemon between passes and `Undisturbed`
at a pass, and each rests on the other: a pass reports what it has not disturbed,
and disturbs nothing because what was reported runs. `RunsInv` says that what runs
has loaded the file, unless a pass that changed the file has yet to restart it or
never came to it (`torn`); a later pass with a change makes good for that too, once
it is past its restart. `MarkInv` says the same of the mark of dnsdist, which is
left a step later. `SaidInv` and `SameInv` say that what is reported is what the
file, the mark and the container's image say, so a pass over it finds no change.
A drain or a restart by hand, at any point of a pass, touches none of these. `torn`
cannot be dropped: `MCBalancerRole_torn` is the counterexample.

*ServerSync.* `InSyncTruthful` is about a row that is written long after the box
was read, and that still stands while a later pass changes the box. `SyncInv`
follows a pass from its snapshot on. A pass none of whose views is out of date
plans what is wanted (`Planned`); one that has found no difference has nothing
left to do (`Quiet`), so it changes nothing, and each part it has read is as it
is wanted (`Found`); its outcome is then true (`Outcome`). A pass over a server
whose row truly says "in sync" finds no difference (`Still`), so it cannot make
the row wrong; `Fresh` says that such a pass knows what is wanted. `PassStep` is
what one step of the pass at work has to show, and the lemmas after it show it
for each call. `OnlyWhatWasAsked` is about a call that was decided several calls
before: `AllowedInv` says that what a pass has left to do was decided under flags
that allow it, and that the services it has read are those the box still has;
with `Planned` that is what is wanted at the moment of the call. `LockUsed` is the
converse of `OnePassPerServer`: the lock has a pass at work, whatever call of it
fails (`Onward`: each step of a pass that is not its last leaves it at work).

*FleetUpdater.* `TypeOK` is inductive only with `JobRecord`: an upgrade that
succeeded names a version, so that what `Save` writes to the row is one.
`JobHasLock` is inductive given the types. `NoNeedlessRestart`
is about the step that starts an upgrade, several awaits after the box was
asked; `AskedInv` says what is known in between. A native install whose lock a
run has is taken down by that run only (`JobHasLock`), comes back only if it was
down, and has no on-box updater: so it still runs the version it ran when it
named a newer release, and that release is still out. `NothingLeft` is what is safe
about `RunsEnd`: a job has its lock until its outcome is saved, also when a call
fails (`StillThere`), and a run that is over has no job and no server to begin.
`RowsBehind` is about what is written awaits after it was read: `ViewInv` says that
a version on its way to a row, in a job or in a check, has been reached by the box
or is out. It rests on what the model leaves out: nobody installs an older release
by hand.

*HomeAssistant.* `LoadsShared` is about the step in which a request begins to load
a key. It either found the lock free or stood at the head of its queue. `LockInv`
says that whoever loads a key stands at the head of its queue and whoever waits
stands in it; the two are inductive with the types, and rule out a second load.
That the entry is not fresh is what the second look under the lock is for.
`LocksServed` is what is safe about `Answered`: whoever has a lock loads its key or is
next to look at the entry. `QueueInv` makes it inductive: who stands in a queue
asks for its key, stands there once, and waits unless it is at the head, so that a
request that gives up its place stands nowhere else.

*Inventory.* `OwnRows` is inductive with the types and `RowsInv` (the ids of rows
have a bound, every scope has its columns). A new server's id is above all there
are, so by `OwnRows` itself no row is tied to it; a server that a row is tied to is
not deleted; and a row that is stored for another server than it was checked for
has `crossed`, which is the exception. `ZoneKept` is about the step that deletes a
zone, two steps after its members were looked at. `EmptiedInv` says that all
servers in a zone whose deletion has been checked are newcomers, and that what the
flush has loaded are newcomers too; so the deletion takes no other server along,
and every other step that leaves a server without a zone is a move that was asked
for. `ServersPlaced` needs the types only. `ImportOnce` is inductive beside them:
an import looks for a row in the transaction that adds it, and under the scope it
adds it with. `IdsAssumption` says that ids count from 1 and that servers and
values are finitely many.

*Telemetry.* `NoHourLost` is about rows that grow old between two runs of the
housekeeping. `RolledInv` says that what had been stored when it last ran has its
hour recorded, if that hour was complete then. A row that is too old for the next
run was stored before the last one, and its hour was complete, unless the gap was
larger than the retention allows (`late`) or the collection that stored it was
older than its calls may last, which `TimeInv` excludes. `RateWithin` compares
a new reading with the newest row, whichever of the overlapping collections wrote
that. `ReadInv` is about every two readings that are about, in a collection under
way, in a balancer's row or stored: if the one was read no later than the other
(`Before`), the other counts what was answered in between, or, when the counter
jumped since, no more than that and what the last jump left (`Follows`).

*AdGuardContainer.* Three properties, none of them inductive, over four actors
who replace one container step by step. As long as nothing was torn, somebody is
`Orderly` (`ReplacedInv`): he alone replaces, what stands under each name is what
his steps so far have left there, no backup runs, and a backup he is about to
remove is not the only build that works. That is `WorkingKept`: between the
renaming and the answer of the new container the old one has the backup's name,
and the step that removes it is taken only when the other works. `ReportedIsSet`
is about a state that may come long after the pass that reported: `PassInv` says
that what an undisturbed pass looks at was made from its target, `ConfInv` that
what it has found of AdGuardHome.yaml still holds, and `KeptInv` that an update or
the script, however far it has come, puts back what the pass has reported.
`PlacesInv` and `CrossInv` say where actors can be beside each other.

*SelfUpdate.* `NoReinstall` is about the step in which an agent leaves; that the binary
in place is another one was decided at the call. `WantInv` says that the version
asked for is not the one that runs, which no step between can change, as a process
that ends takes its handlers along (`RestInv`). `AloneInv` says that unless handlers
met, one at most has a file, by the name beside the binary; so what it has found in it
(`SaysInv`) is what it puts in place (`LeavingInv`). That a build is named by the
version it prints, and is probed for it, is what makes a wrong manifest harmless here.

*HostsPass.* `BalancerInSync` is about one row and one role, but what makes it so
is every pass under way. A pass that was planned before an edit can send its PUT
after a newer one; such passes are `touched`, and a row that is fresh excludes
them (`RowInv`, `TouchedInv`). Every other balancer pass is `Sound`
(`CurrentInv`): it plans what the rows ask for, each PUT it has left asks the main
role for just that, and when none is left the agent desires it; so it may record
"in sync". A host pass has no PUT for the roles of a balancer (`HostInv`), and an
agent that starts again desires what it desired (`StoredInv`).

These are about what the agent desires; the rest is about the host. `RolesPromise`
says that no step of `HostsPass` does to a role what `AgentRole` does not let be
done, a PUT being its two halves in one: with `RoleImplements`, what is shown of the
passes rests on what `RoleManager` does, and on nothing more. A role that says it
is ready then runs the spec it reports (`RunsInv`), which makes what a pass calls
"synced" true when it looks (`FoundRunning`), and a fresh row true of the host once
the role has settled (`InSyncServes`).

*Enrolment.* `UsedInv` follows a token from commit to commit: one that may still be
used, or is about to make its host, has no rows in any table. `FilesInv` says
that an enrolment has the box for itself, `MatchInv` that there is one install
unless they were mixed, and that it alone, between its two writes, has a pair that
does not match; from both follows `BootsAgain`. `FreshInv` says that whoever is
about to record a fresh certificate has put one in place, on disk and in memory.
The types need that a new id and a new key can be found: `IdInv`, and `KeyInv` with
a count of the keys the box, the plans and the installs can hold.

The strengthened invariants (`WakeInv`, `SyncInv`, `AllowedInv`, `TypeInv`,
`AskedInv`, `HourInv`, `RateInv`, `EmptiedInv`, `QueueInv`, `RunsInv`, `ViewInv`, the `Inv` of
`BalancerRole`, `AgentInv` and the `IInv` of `AdGuardContainer`, `HostsPass` and
`Enrolment`) were checked by TLC on the instances of the runs before they were proved,
and so were the properties that only a theorem states (`LockUsed`, `NothingLeft`,
`ServersPlaced`, `LocksServed`, `RolesPromise`, `FoundRunning`, `InSyncServes`).

What the attempts at proofs showed. `ReportedIsSet` was not true of two builds
that both work: spec A is put and a pass is at work on it, B is put, the pass
ends and reports A, and an update, which is given B, replaces the container. The
run has one build that works and does not meet this; the model was right, the
ghost `crossed` too narrow, and it now counts an update that is given a spec no
pass has reached. And `StartHalted`, which starts a container that an update may have
put there, meddles with that update as the other steps of a pass do. Both theorems
hold for any number of builds.

What stays with the model checker: every liveness property, since TLAPS 1.4.5 has no
rules for `ENABLED`, which weak fairness needs. Of three of them (`RunsEnd`,
`Answered`, `Converges` of `ServerSync`) the part about locks is proved: none is held
by an actor who is gone. Every invariant and every action
property of the passing runs is proved. Of the types of `Telemetry` and `Inventory` the
proofs establish what they need (`MetricsTypes`, `TypeInv`, `RowsInv`).

## 5. Plan

1. `RoleManager`, `ServerSync`, `FleetUpdater` and their proofs; `AgentRole` with
   its refinement; `HostsPass`, `BalancerRole`, `AdGuardContainer`: done.
2. `Enrolment`, `SelfUpdate`, `HomeAssistant`, `Telemetry`, `Inventory`: done.
3. `HomeAssistantProofs`, `StoreProofs`, `AdGuardContainerProofs`,
   `HostsPassProofs`, `EnrolmentProofs`, and the proofs about `BalancerRole` and
   `SelfUpdate`: done.
4. Pure operators: the maintenance window against a clock with midnight inside
   the window, the rate limiter's window.

## 6. Where code and documents differ

Five are runs, with a counterexample each.

* **Previous container removed** (`container_kept`, `PreviousKept`). `recreate`
  begins with `docker rm -f adguardhome-prev` (`adguard.go:359`). An update, which
  takes no converge lock (`server.go:204`), can look at the container before a
  pass renames it and then remove the very container the pass has set aside;
  both then fail with nothing to put back. An agent that dies while it waits for
  a new container that never answers ends alike: the next replacement removes the
  old one, which worked. `docs/design/agent-api.md:119` says the previous
  container is kept until the new one answers. The next pass makes a container
  from the image there is, so a host whose image is broken is left without DNS.
* **Torn pass** (`balancer_torn`, `RestartedOnChange`). keepalived's pass writes
  the file (`keepalived.go:484`) before it restarts the daemon (`:493`) and takes
  an unchanged file for a daemon that has it. If the agent dies or a `systemctl`
  fails in between, no later pass restarts, and the role reports the new spec
  while the old one runs; `docs/design/agent-api.md:257` says "`systemctl restart
  keepalived` on change". dnsdist goes by a mark that it writes last, which is
  torn in the other direction only: A applied, B restarted and cut short before
  the mark, A again: the mark still says A, and B goes on running.
* **Undrain overwritten** (`balancer_undrain`, `UndrainedServes`). `reapplyDrains`
  works through a copy of the drained set (`dnsdist.go:724`) and an undrain does
  not exclude it: an undrain that is done after the copy was made is followed by
  `setDown`, and no later pass undoes that. `docs/load-balancing.md:119` says
  undrain returns the backend to its health-checked state.
* **Deleted balancer** (`hosts_deleted`, `DeletedBalancerStops`). The host is told
  once to stop (`routers/loadbalancers.py:165-173`). If that call is lost, or a
  balancer pass planned before the deletion sends its PUT after it, nothing ever
  tells the host again: passes go through the rows there are. The comment above
  the call says the host serves its last config "until it next reconciles".

* **Token used twice** (`enrol_once`, `SingleUse`). `enroll` commits the host
  (`provision.py:231`), then its server and balancer (`:264`), then the token
  (`:272`). When the program ends after one of the first two, the token is still
  pending and the same URL enrols again: two hosts, and two certificates, for one
  token. `docs/provisioning.md:53-55` says the token is consumed "in the same
  transaction that issues the certificate". `UsedOnce` is what does hold.

The others were seen while the models were made and are not runs.

* *overlapping PUTs*: `Manager.Put` writes `desired/<role>.json` (`manager.go:142`)
  before it takes `m.mu` to set the spec in memory (`manager.go:145`). Of two
  overlapping PUTs one can be last on disk and the other in memory, both answered
  200; `docs/design/agent-api.md:38` calls the file the last accepted spec. In
  `RoleManager` that is a reachable state with `stored # desired` at rest.
* *update beside a pass*: a pass that ends while an update or the script replaces
  the container reports a spec whose container may then be rolled back;
  `ReportedIsSet` holds for passes that were alone.
* *script's check*: the script keeps a new container that runs (`update_agent.py:214`),
  whether it answers or not, and one in a restart loop counts as running.
* *inspect*: a `docker inspect` that fails reads as "no container"
  (`services.go:108`), so a disabled role can report "stopped" while AdGuard runs.
* *half a reset*: if a volume cannot be removed (a container of the script's still
  has it), the containers are gone, the reset answers 500 and the status says
  "ready" until the next pass.

* *doubled filter list*: rows of filter lists are not deduplicated by url; two
  that disagree (one on, one off) make every pass find a difference
  (`sync.py:273`), or end offline at a refused second add. The runs have at most
  one row for a url; with two, `Converges` fails.
* *drains on disk*: two drains save their lists outside the lock
  (`dnsdist.go:718-720`) and the older can be last; a name that `reapplyDrains`
  forgets stays in the file. After a restart of the agent the file counts.
* *rejected configuration*: dnsdist's file is written before it is checked
  (`dnsdist.go:465`, `:523`); a daemon that restarts for another reason loads it.
* *unknown backend*: a drain is checked against the spec last PUT, not the one the
  daemon runs (`server.go:312`); dnsdist ignores a name it does not have and the
  drain is answered 200.
* *stop*: `systemctl stop` that fails is ignored (`keepalived.go:442`,
  `dnsdist.go:439`) and the role says "stopped"; the next pass stops again.
* *second converge*: an agent that is given a spec, another one and the first
  again can report the first as applied and ready while it is at work on the
  second; a balancer pass that reads at that moment records `in_sync`. The
  next pass corrects it. `BalancerInSync` therefore speaks of what the agent
  converges to.
* *keepalived after a deletion*: a deletion stops the main role only; keepalived
  beside dnsdist keeps its VIP (`routers/loadbalancers.py:168-171`).
* *VIP taken away*: `PATCH /zones` accepts the removal of the VIP of a zone in
  ipvs mode (`routers/zones.py:70`), which `docs/load-balancing.md:19` calls
  required; its balancers then report an error.
* *cooldown*: `_due_servers` looks at `cooldown_until` when a cycle is planned;
  a pass that waited behind another one (`sync.py:611`) talks to a server that
  has just refused it. `models.py:213` says the loop skips it.
* *old credentials*: a pass in flight when new credentials are saved is refused
  for the old ones and sets the cooldown that `update_server` had just cleared.
  `routers/servers.py:130` says "let it retry next cycle".
* *services*: an error of the blocked services calls is swallowed
  (`sync.py:313`) and `in_sync` can be true without them; `models.py:216` says
  "True once the desired state matches what's on the server".
* *dead box*: only HTTP 401, 403 and 429 start a cooldown (`sync.py:435`);
  `docs/concepts.md:65` says repeated failures do.
* *manual sync*: a busy server is skipped (`sync.py:602`); `routers/sync.py:22`
  says a manual sync "queues behind any in-flight cycle".
* *rolling*: the semaphore of `run_updates` is made per run (`updater.py:467`),
  so two runs restart two servers at once with a limit of one;
  `docs/updates.md:44` says "so the fleet never restarts at once". Of one run the
  limit holds by the semaphore alone, and no property states it.
* *window*: the maintenance window is looked at when a run starts
  (`updater.py:134`), and the last servers of a run restart after it closed.
* *retry*: an attempt that fails before the box named a release records none
  (`updater.py:400`), and `skip_reason` does not hold it back at the next tick.
* *opt-in*: "Update all eligible" looks at neither `auto_update` nor `enabled`
  (`updater.py:142`); `updater.py:20` says nothing happens without opting in.
* *master switch*: a forced run ignores it (`updater.py:454`), as
  `docs/updates.md:41` says; the docstring at `updater.py:129` says otherwise.
* *badge*: `check_now` writes answers that can be older than the upgrade that
  `_record` wrote down, and the update shows as available again.
* *torn binary*: two self-updates of one agent, the cycle's and one that is
  pushed, share the file `<exe>.new` (`selfupdate.go:146-147`, `O_TRUNC`); nothing
  in `selfUpdate` keeps them apart. One can truncate the file that the other has
  probed and then renames into place (`:174`): the binary of the agent is then
  being written by a handler whose process exits within a second. If it ends
  before the write does, systemd starts a binary that is cut short, and no call
  reaches the host any more. In `SelfUpdate`: `~Up /\ exe \notin Builds` can be
  reached, only with `met`.
* *stale manifest*: `build_manifest` is keyed by the binaries alone
  (`agent_bin.py:40`): a `VERSION` that is changed after them is not read until
  the control plane restarts. The agent's probe refuses what does not say the
  version it was told (`selfupdate.go:170`), so nothing is reinstalled, and hosts
  stay where they are.
* *mixed pair*: `certPut` writes key and certificate one after the other
  (`server.go:428-432`). An agent that dies in between, or whose second write
  fails, or two installs that overlap (the mutex covers the pending key only),
  leave a key and a certificate that do not match; the agent serves on from
  memory and `serve` fails at its next start (`main.go:124`). `docs/hosts.md:50-53`
  promises renewals without a restart. In `Enrolment` these are the states that
  `mixed` excepts.
* *half enrolled*: `enroll` writes the certificate before the CA and the
  configuration. If one of those is not written, `serve` says the host is not
  enrolled and `enroll` refuses because there is a certificate (`enroll.go:121`);
  the directory has to be removed by hand, and the token is used up.
* *a second row*: after a torn enrolment (`enrol_once`) the box has two rows, each
  with a date of its own, so that the box is renewed once for each, in two passes
  of one cycle side by side: the overlap that `mixed` is about.
* *revoked after use*: `revoke_token` looks at a status that an enrolment may
  overwrite before it commits, and overwrites `completed` with `revoked`
  (`provision.py:148`); the host stays.
* *host deleted by halves*: `delete_agent` detaches servers, releases references
  and deletes in several transactions; when a token comes to name the balancer in
  between, the deletion fails on the key and the servers stay detached from a host
  that is still there.
* *server deleted*: `delete_server` (`routers/servers.py:147`) clears tokens and
  backend overrides only (`hosts.py:78-105`); rows scoped to the server keep their
  key, the deletion is answered 500 and the server stays until they are gone.
  That is also why `OwnRows` holds of rows that are there.
* *row for the next server*: a request that was checked for a server
  (`routers/upstreams.py:49-60`), or an import that fixed its `target_server_id`
  before it asked the box (`routers/servers.py:233`, `:268-291`), finds another
  server under that id when the first is deleted meanwhile and a second added, and
  stores its row for that one. The key holds, and nobody is told. In `Inventory`
  these are the rows with `crossed`, which `OwnRows` excepts.
* *zone silently lost*: a server that is put into a zone between the check of
  `delete_zone` and its flush (`routers/zones.py:87-97`) is taken out of it again by
  the mapper (`models.py:143`), though its own request was answered with success
  and the deletion is meant to refuse a zone with servers. In `Inventory` these are
  the `newcomers` that `ZoneKept` excepts.
* *zone deleted*: `delete_zone` looks at records and DNS settings, not at filter
  lists and blocked services (`routers/zones.py:91-94`): those go on naming the
  zone in `zone_ids`, and a zone that is given the same id comes by them. A zone
  that only tokens or hosts name passes the checks and fails on the key.
* *hour rolled up twice*: `done` goes by 1h rows whose start is not before the
  floor, rows by their own time (`telemetry.py:292-302`). The hour that straddles
  the floor has a 1h row before it and 1m rows after it, and gets a second 1h row
  of those. `NoHourLost` asks for one at least.
* *overlapping collections*: a collection takes its time stamp before its fan-out.
  When two overlap, the row before can have been read later than the one that is
  rated against it: the counter seems to have gone down, and all of it counts
  (`telemetry.py:84`). `RateWithin` is about rows read in the order of their
  stamps.
* *counters that are none*: the comment at `telemetry.py:117` says that AdGuard's
  totals "cannot be differenced", and `:122-124` differences them when there are no
  hour buckets: when an hour leaves the window, what is left of the total counts
  once more. The same goes for the sum over IPVS backends (`:203-204`) when one of
  them starts again or leaves the table, and for a row that comes to stand for
  another box. `rate()` calls every decrease a reset (`:71`), and of these it is
  wrong: a rate can be over by all that is left. In `Telemetry` rows with
  `rate > real` are reached so; `RateWithin` says that this is the most, and that a
  counter that does start again at 0 is never over.
* *stale read*: a load in flight when a write clears the cache is stored after it
  (`ha_compat.py:124`) and is told for as long as an entry lasts, though
  `tests/test_ha_compat.py:315` is named for the opposite. `ScopesSettle` says that
  it is outlived.
* *id used again*: `apply_updates` finds the row by id after the network I/O
  (`sync.py:231`); when a server is deleted meanwhile and another added, SQLite
  gives that one the id, and it gets the outcome of a pass over the first until
  its own.

## 7. Not modelled

* *Authentication, users, rate limiter*: each request is a transaction of its own
  over one row; the rate limiter is a window of counters in memory.
* *IPVS backend role*: the sysctls and rules of a backend are set command by
  command, each of which can be repeated; `RoleManager` has the passes around it.
* *Proxy and query log*: reads that are passed on.
* *The maintenance window* and other arithmetic on the clock.
* *The fan-out over many hosts and servers* of one pass: servers are independent
  in `ServerSync` and in the hosts pass; where they are not, in upgrades, in
  reads and in collections, the modules have several.
* Wrappers over commands and sockets (`execx`, `services`, `sysinfo`, `dnsprobe`),
  hashing (`canon`: a spec stands for its hash), request validation, log messages,
  configuration, the install script, static data and the frontend.

`PROJECT.json` lists every component with its state.
