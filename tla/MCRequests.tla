----------------------------- MODULE MCRequests -----------------------------
(***************************************************************************)
(* Small instances of two modules about calls that the control plane makes *)
(* to boxes while other requests do the same.  One module is at work, the  *)
(* other rests.                                                            *)
(*   HomeAssistant: requests of two clients over rows that rest, or of one *)
(* client while rows, boxes and settings change.                           *)
(*   Enrolment: a box enrols and is wiped, with two tokens; or it has been *)
(* enrolled, once or by a second attempt that made a second row, and its   *)
(* certificate grows old.                                                  *)
(***************************************************************************)
EXTENDS Enrolment, TLC

CONSTANTS
  Servers, Zones, Fleet, Scopes, Clients, Ttl, MaxWrites, MaxOwn, MaxEdits,
  Second,      \* one of the clients
  Zoned,       \* one of the servers
  t1, t2,      \* tokens: for a server, and for a server with a balancer
  Parts        \* what may be at work: some of the five parts below

VARIABLES
  part,   \* what is at work, and how
  row, on, up, entry, queue, req, shown, writes, own, edits

MCTokens == {t1, t2}
MCRoles == (t1 :> {"server"}) @@ (t2 :> {"server", "balancer"})

Cached == INSTANCE HomeAssistant

ASSUME CachedAssumption == Cached!HomeAssistantAssumption

cachedVars == <<row, on, up, entry, queue, req, shown, writes, own, edits>>

Reading == {"shared", "edited"}
Hosting == {"enrolling", "renewing", "sharing"}

Part ==
  CASE part = "shared"    -> edits = 0 /\ own = 0
    [] part = "edited"    -> req[Second].pc = "idle"
    [] part = "enrolling" -> ages = 0 /\ \A r \in Renewals : renewal[r] = Idle
    [] part = "renewing"  -> token[t1] = "completed" /\ token[t2] = "none"
    [] part = "sharing"   -> requests = 0 /\ token[t2] = "none"

\* One server starts in a zone, the others in none.
Placed == \A s \in Servers : row[s].zone # None <=> s = Zoned

\* The box has been enrolled with the first token, and has n rows.
Enrolled(n) ==
  /\ token = [t \in Tokens |-> IF t = t1 THEN "completed" ELSE "none"]
  /\ refs = [t \in Tokens |->
               [tab \in Tables |-> IF t = t1 /\ tab = "host" THEN n ELSE None]]
  /\ rows = [tab \in Tables |->
               IF tab = "host" THEN [i \in 1 .. n |-> Row(t1, None)] ELSE <<>>]
  /\ enrol = Idle /\ op = Idle
  /\ renewal = [r \in Renewals |-> Idle]
  /\ put = [r \in Renewals |-> Idle]
  /\ box = [Blank EXCEPT !.key = 1, !.cert = Cert(1), !.ready = TRUE]
  /\ torn = (IF n = 1 THEN {} ELSE {t1}) /\ mixed = FALSE
  /\ requests = 0 /\ faults = 0 /\ ages = 0

MCInit ==
  /\ Cached!Init /\ Placed /\ part \in Parts
  /\ \/ part \in Reading /\ Init
     \/ /\ \A s \in Servers : on[s] = "on"
        /\ \/ part = "enrolling" /\ Init
           \/ part = "renewing" /\ Enrolled(1)
           \/ part = "sharing" /\ Enrolled(2)

MCNext ==
  /\ \/ part \in Reading /\ Cached!Next /\ UNCHANGED vars
     \/ part \in Hosting /\ Next /\ UNCHANGED cachedVars
  /\ UNCHANGED part
  /\ Part'

\* Nobody polls while the other module is at work.
MCFairness ==
  /\ WF_cachedVars(Cached!Tick)
  /\ \A c \in Clients : WF_cachedVars(Cached!Serve(c))
  /\ \A k \in Scopes : SF_cachedVars(part \in Reading /\ Cached!Poll(k))
  /\ Fairness

MCSpec == MCInit /\ [][MCNext]_<<vars, cachedVars, part>> /\ MCFairness
-----------------------------------------------------------------------------
\* Concurrent reads of a key share one load.  (ha_compat.py ReadCache)
LoadsShared == Cached!LoadsShared

\* Every request is answered.  (ha_compat.py ReadCache)
Answered == Cached!Answered

\* When boxes and rows rest, every scope comes to be told what its boxes say.
\* (ha_compat.py ReadCache)
ScopesSettle == \A k \in Scopes : <>[](part \in Reading => shown[k] = Cached!Status(k))
=============================================================================
