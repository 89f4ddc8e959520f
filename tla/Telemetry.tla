----------------------------- MODULE Telemetry -----------------------------
(***************************************************************************)
(* The metric store (telemetry.py): a collection asks every enabled server *)
(* for its statistics, stores one 1m row per thing with the rate since the *)
(* row before, and once an hour rolls the complete hours up into 1h rows   *)
(* and prunes what is too old.                                             *)
(*                                                                         *)
(* A collection rides on a cycle over the whole fleet.  The periodic cycle *)
(* and the ones an operator starts are not kept apart, so two collections  *)
(* can overlap: each takes its time stamp before its fan-out and stores    *)
(* after it.  The averages of other values are left out, and so are agents,*)
(* which have no counter.  A host pass writes a balancer's counter to its  *)
(* row, where a collection finds it.  Time is counted in ticks, several to *)
(* an hour.                                                                *)
(*                                                                         *)
(* A counter is what the code reads as one: the bucket of the hour or, when*)
(* there is none, the total of a window; a daemon's count; the sum over the*)
(* backends of a table.  So it jumps: to 0, or down by a part of it, and to*)
(* anything when the row comes to stand for another box.                   *)
(***************************************************************************)
EXTENDS Integers, FiniteSets

CONSTANTS
  Servers, Balancers,
  Collectors,    \* the cycles that can be under way
  Hour,          \* ticks to an hour
  Retain,        \* metrics_retention_days, in ticks
  RetainHours,   \* metrics_rollup_retention_days, in ticks
  Window,        \* how old the row before may be
  Lag,           \* the longest a collection takes: its calls have time-outs
  Gap,           \* the longest time a rate is taken over
  None,
  MaxTime, MaxQueries, MaxDrops, MaxEdits, MaxRestarts

Things == Servers \cup Balancers

\* Times are whole numbers of ticks; a reading is told from the lack of one.
TelemetryAssumption ==
  /\ Hour \in Nat \ {0} /\ Retain \in Nat /\ RetainHours \in Nat
  /\ Window \in Nat /\ Gap \in Nat /\ Lag \in Nat
  /\ Servers \cap Balancers = {} /\ None \notin Int /\ MaxQueries \in Nat

VARIABLES
  now,      \* the clock
  served,   \* served[e]: the queries e has answered, ever
  count,    \* count[e]: what its counter says
  jumps,    \* jumps[e]: how often its counter has jumped
  left,     \* left[e]: what the last jump left it at
  status,   \* status[e]: its row: "enabled", "disabled" or "gone"
  state,    \* state[b]: what the last host pass read of a balancer
  col,      \* col[c]: a collection under way
  samples,  \* the 1m rows
  hours,    \* the 1h rows, each with the time of the roll-up that made it
  last,     \* _last_rollup, which is lost when the program ends
  taken,    \* every (thing, time) a 1m row was ever stored for
  kept,     \* when housekeeping last succeeded
  late,     \* it was once so late that samples aged out before their roll-up
  edits, restarts

counters == <<count, jumps, left>>
vars == <<now, served, counters, status, state, col, samples, hours, last, taken,
          kept, late, edits, restarts>>
world == <<served, counters, status, state, edits, restarts>>
store == <<samples, hours, last, taken, kept, late>>
-----------------------------------------------------------------------------
(***************************************************************************)
(* Rows and rates                                                          *)
(***************************************************************************)
HourOf(t) == t - (t % Hour)

\* A reading: the counter, and what the thing had answered and gone through.
Reading(e) ==
  [counter |-> count[e], served |-> served[e], jumps |-> jumps[e], left |-> left[e]]
Nothing == [counter |-> None, served |-> 0, jumps |-> 0, left |-> 0]

\* latest(): the newest row of a thing, unless it is older than the window.
RowsOf(e) == {x \in samples : x.id = e /\ x.ts >= now - Window}
Newest(rows) == CHOOSE x \in rows : \A y \in rows : y.ts <= x.ts

\* Mutant: a counter that went down is taken to have wrapped around.
Gained_Wrapped(before, counter) == (counter - before) % 2^16

\* rate(): what the counter gained, all of it when it went down, None when
\* there is nothing to compare it with.
Gained(before, counter) == IF counter >= before THEN counter - before ELSE counter

Comparable(e, at, counter) ==
  /\ counter # None
  /\ RowsOf(e) # {}
  /\ LET prev == Newest(RowsOf(e))
     IN  /\ prev.read.counter # None
         /\ at - prev.ts > 0 /\ at - prev.ts <= Gap

Rate(e, at, counter) ==
  IF Comparable(e, at, counter)
    THEN Gained(Newest(RowsOf(e)).read.counter, counter) ELSE None

\* A 1m row. real is what the thing answered between the reading of the row
\* before and this one, left what its last jump in between left it at, and
\* ordered whether they were read in that order.
Sample(e, at, reading) ==
  LET prev == Newest(RowsOf(e))
      compared == Comparable(e, at, reading.counter)
  IN  [id |-> e, ts |-> at, read |-> reading,
       rate |-> Rate(e, at, reading.counter),
       real |-> IF compared THEN reading.served - prev.read.served ELSE 0,
       left |-> IF compared /\ prev.read.jumps # reading.jumps THEN reading.left ELSE 0,
       ordered |-> compared => /\ prev.read.served <= reading.served
                               /\ prev.read.jumps <= reading.jumps]

-----------------------------------------------------------------------------
(***************************************************************************)
(* A collection                                                            *)
(***************************************************************************)
Resting == [pc |-> "idle"]
Asking(at, got, todo) == [pc |-> "ask", at |-> at, got |-> got, todo |-> todo]

Enabled == {s \in Servers : status[s] = "enabled"}

Collect(c) ==
  /\ col[c].pc = "idle"
  /\ \A x \in taken : x[2] < now
  /\ \A d \in Collectors : col[d].pc # "idle" => col[d].at < now
  /\ col' = [col EXCEPT ![c] = Asking(now, [s \in Enabled |-> Nothing], Enabled)]
  /\ UNCHANGED <<now, world, store>>

\* A server answers, or fails. One that reconciliation found in error counts as
\* offline whatever it answers.
Answer(c, s) ==
  /\ col[c].pc = "ask" /\ s \in col[c].todo
  /\ \E reading \in {Reading(s), Nothing} :
       col' = [col EXCEPT ![c].got[s] = reading, ![c].todo = @ \ {s}]
  /\ UNCHANGED <<now, world, store>>

\* The rows of one collection: of the servers asked that still have a row, and
\* of the enabled balancers.
Stored(c) == {s \in DOMAIN col[c].got : status[s] # "gone"}
Found == {b \in Balancers : status[b] = "enabled"}

Collected(c) ==
  {Sample(s, col[c].at, col[c].got[s]) : s \in Stored(c)}
  \cup {Sample(b, col[c].at, state[b]) : b \in Found}

\* rollup(): every complete hour of 1m rows that has no 1h row yet, within the
\* retention of the 1m rows.
Done(at) == {<<h.id, h.start>> : h \in {h \in hours : h.start >= at - Retain}}

\* Mutant: only the hour that has just ended is rolled up.
RolledUp_Last(rows, at) ==
  LET complete == {x \in rows : HourOf(x.ts) = HourOf(at) - Hour}
      groups == {<<x.id, HourOf(x.ts)>> : x \in complete} \ Done(at)
  IN  {[id |-> g[1], start |-> g[2], made |-> at,
        samples |-> Cardinality({x \in complete : <<x.id, HourOf(x.ts)>> = g})]
         : g \in groups}

RolledUp(rows, at) ==
  LET complete == {x \in rows : x.ts >= at - Retain /\ x.ts < HourOf(at)}
      groups == {<<x.id, HourOf(x.ts)>> : x \in complete} \ Done(at)
  IN  {[id |-> g[1], start |-> g[2], made |-> at,
        samples |-> Cardinality({x \in complete : <<x.id, HourOf(x.ts)>> = g})]
         : g \in groups}

\* The 1h rows, then prune(), in a transaction of its own. A failure leaves both
\* to the next collection.
Housekeep(rows, at) ==
  /\ hours' = {h \in hours \cup RolledUp(rows, at) : h.start >= at - RetainHours}
  /\ samples' = {x \in rows : x.ts >= at - Retain}
  /\ last' = at
  /\ kept' = at
  /\ late' = (late \/ at - kept > Retain - Hour - Lag)

Due(at) == last # None => at - last >= Hour

Store(c) ==
  /\ col[c].pc = "ask" /\ col[c].todo = {}
  /\ LET at == col[c].at
         rows == samples \cup Collected(c)
     IN  /\ taken' = taken \cup ((Stored(c) \cup Found) \X {at})
         /\ \/ Due(at) /\ Housekeep(rows, at)
            \/ samples' = rows /\ UNCHANGED <<hours, last, kept, late>>
  /\ col' = [col EXCEPT ![c] = Resting]
  /\ UNCHANGED <<now, world>>
-----------------------------------------------------------------------------
(***************************************************************************)
(* The rest of the system                                                  *)
(***************************************************************************)
Tick ==
  /\ now < MaxTime /\ now' = now + 1
  /\ \A c \in Collectors : col[c].pc = "ask" => now - col[c].at < Lag
  /\ UNCHANGED <<world, col, store>>

Serve(e) ==
  /\ served[e] < MaxQueries
  /\ served' = [served EXCEPT ![e] = @ + 1]
  /\ count' = [count EXCEPT ![e] = @ + 1]
  /\ UNCHANGED <<now, jumps, left, status, state, edits, restarts, col, store>>

Jump(e, n) ==
  /\ count' = [count EXCEPT ![e] = n]
  /\ jumps' = [jumps EXCEPT ![e] = @ + 1]
  /\ left' = [left EXCEPT ![e] = n]

\* A new hour, a daemon that restarts, an hour that leaves the window of a
\* total, a backend that restarts or leaves the sum.
Drop(e) ==
  /\ jumps[e] < MaxDrops
  /\ \E n \in {0} \cup 0 .. count[e] - 1 : Jump(e, n)
  /\ UNCHANGED <<now, served, status, state, edits, restarts, col, store>>

\* A host pass: what the balancer reports, or nothing.
HostPass(b) ==
  /\ \E reading \in {Reading(b), Nothing} : state' = [state EXCEPT ![b] = reading]
  /\ UNCHANGED <<now, served, counters, status, edits, restarts, col, store>>

Edit == edits < MaxEdits /\ edits' = edits + 1

EditRow(e) ==
  /\ Edit
  /\ status[e] # "gone"
  /\ \E r \in {"enabled", "disabled", "gone"} : status' = [status EXCEPT ![e] = r]
  /\ UNCHANGED <<now, served, counters, state, restarts, col, store>>

\* The row comes to stand for another box: its url is edited, or it is deleted
\* and the next one gets its id, with the 1m rows that are there. What a
\* collection under way hears of the old box it has heard by now.
Replace(e) ==
  /\ Edit
  /\ \A c \in Collectors : col[c].pc = "ask" => e \notin col[c].todo
  /\ \E r \in {"enabled", "disabled"} : status' = [status EXCEPT ![e] = r]
  /\ \E n \in 0 .. MaxQueries : Jump(e, n)
  /\ state' \in {state, [b \in Balancers |-> IF b = e THEN Nothing ELSE state[b]]}
  /\ UNCHANGED <<now, served, restarts, col, store>>

Restart ==
  /\ restarts < MaxRestarts /\ restarts' = restarts + 1
  /\ col' = [c \in Collectors |-> Resting]
  /\ last' = None
  /\ UNCHANGED <<now, served, counters, status, state, edits,
                 samples, hours, taken, kept, late>>
-----------------------------------------------------------------------------
Init ==
  /\ now = 0
  /\ served = [e \in Things |-> 0] /\ count = [e \in Things |-> 0]
  /\ jumps = [e \in Things |-> 0] /\ left = [e \in Things |-> 0]
  /\ status \in [Things -> {"enabled", "disabled"}]
  /\ state = [b \in Balancers |-> Nothing]
  /\ col = [c \in Collectors |-> Resting]
  /\ samples = {} /\ hours = {} /\ taken = {}
  /\ last = None /\ kept = 0 /\ late = FALSE
  /\ edits = 0 /\ restarts = 0

Collecting ==
  \/ \E c \in Collectors : \/ Collect(c) \/ Store(c)
                           \/ \E s \in Servers : Answer(c, s)
  \/ Tick \/ Restart

\* What goes on around the collections.
Around ==
  \/ \E e \in Things : Serve(e) \/ Drop(e) \/ EditRow(e) \/ Replace(e)
  \/ \E b \in Balancers : HostPass(b)

Next == Collecting \/ Around

Spec == Init /\ [][Next]_vars
-----------------------------------------------------------------------------
(***************************************************************************)
(* Properties                                                              *)
(***************************************************************************)
\* No hour of a thing goes unrecorded: as long as housekeeping has never been
\* later than the retention allows, an hour that was ever sampled has a 1m row
\* or a 1h row until the 1h rows themselves grow too old, over failed roll-ups,
\* restarts and collections that store late.
NoHourLost ==
  late \/ \A x \in taken :
    \/ \E y \in samples : y.id = x[1] /\ HourOf(y.ts) = HourOf(x[2])
    \/ \E h \in hours : h.id = x[1] /\ h.start = HourOf(x[2])
    \/ HourOf(x[2]) < kept - RetainHours

\* A rate is over by no more than what the counter was left at when it last
\* jumped between the two rows: a counter that starts again at 0 is never counted
\* twice, and one that loses a part of it, or is another box's, is counted again
\* for the rest only. Of rows that were read in the order of their time stamps.
RateWithin == \A x \in samples : x.rate # None /\ x.ordered => x.rate <= x.real + x.left
=============================================================================
