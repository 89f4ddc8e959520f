------------------------------ MODULE MCStore ------------------------------
(***************************************************************************)
(* Small instances of the two modules about what requests and cycles leave *)
(* in the database, of three kinds: four hours of collections of a server  *)
(* that answers no queries; a few ticks in which a server or a balancer    *)
(* answers some; and requests of the editors, from an installation with one*)
(* zone and one server in it.  What a kind is not about rests.             *)
(***************************************************************************)
EXTENDS Inventory, TLC

CONSTANTS
  Sampled,    \* the servers that a collection asks
  Balancers, Collectors, Hour, Retain, RetainHours, Window, Lag, Gap,
  MaxTime, MaxQueries, MaxDrops, MaxEdits, MaxRestarts,
  RateTime    \* the ticks of the second kind

VARIABLES
  kind,       \* the kind of the instance, "hours", "rates" or "rows"
  now, served, count, jumps, left, status, state, col, samples, hours, last, taken,
  kept, late, edits, restarts

Metrics == INSTANCE Telemetry WITH Servers <- Sampled
metricVars ==
  <<now, served, count, jumps, left, status, state, col, samples, hours, last,
    taken, kept, late, edits, restarts>>

ASSUME MetricsAssumption == Metrics!TelemetryAssumption

Kind ==
  CASE kind = "hours" ->
         /\ \A c \in Collectors : col[c].pc = "ask" =>
              \A e \in DOMAIN col[c].got \ col[c].todo : col[c].got[e] # Metrics!Nothing
         /\ \A b \in Balancers : status[b] # "enabled"
    [] kind = "rates" ->
         /\ now <= RateTime /\ restarts = 0
         /\ \E e \in Metrics!Things :
              served[e] = 0 /\ jumps[e] = 0 /\ status[e] # "enabled"
    [] kind = "rows" -> \A e \in Metrics!Things : status[e] = "disabled"

Symmetry == Permutations(Collectors) \cup Permutations(Values) \cup Permutations(Callers)

RowsInit ==
  /\ zones = {1} /\ referred = {}
  /\ server = [s \in Servers |-> IF s = 1 THEN Placed(1) ELSE None]
  /\ gen = [s \in Servers |-> IF s = 1 THEN 1 ELSE 0]
  /\ row = <<>>
  /\ op = [c \in Callers |-> Idle]
  /\ newcomers = {} /\ requests = 0

MCInit == Metrics!Init /\ RowsInit /\ kind \in {"hours", "rates", "rows"} /\ Kind

MCNext ==
  /\ \/ kind # "rows" /\ Metrics!Collecting /\ UNCHANGED vars
     \/ kind = "rates" /\ Metrics!Around /\ UNCHANGED vars
     \/ kind = "rows" /\ Next /\ UNCHANGED metricVars
  /\ UNCHANGED kind
  /\ Kind'

MCSpec == MCInit /\ [][MCNext]_<<vars, metricVars, kind>>
-----------------------------------------------------------------------------
\* No hour of a thing goes unrecorded.  (telemetry.py store, roll-up and prune)
NoHourLost == Metrics!NoHourLost

\* A rate is over by no more than what a jump left of the counter.
\* (telemetry.py rate)
RateWithin == Metrics!RateWithin
=============================================================================
