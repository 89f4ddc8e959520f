--------------------------- MODULE HomeAssistant ---------------------------
(***************************************************************************)
(* The /control API that Home Assistant uses (routers/ha_compat.py): reads *)
(* that fan out over the servers of a scope and are kept in a read cache,  *)
(* and toggles that fan out and are not part of the desired state.         *)
(*                                                                         *)
(* One on/off setting of a server stands for the six of AdGuard Home       *)
(* (protection, filtering, query log, safebrowsing, parental, safesearch): *)
(* each has a read and a write of its own, which do not meet.  A scope is  *)
(* the fleet, a zone or a server; it is the key of the cache.  The handlers*)
(* are coroutines of one event loop: they interleave where they await, and *)
(* a box answers, or fails, at an instant of its own.  The accounts are    *)
(* not modelled here, and the rows of servers change without disappearing. *)
(***************************************************************************)
EXTENDS Naturals, Sequences, Functions

CONSTANTS
  Servers,    \* the rows of servers
  Zones,      \* the zones a server may be in
  Fleet,      \* the scope of the bare prefix
  Scopes,     \* the scopes that are asked for
  Clients,    \* the requests that can be in flight
  Ttl,        \* settings.ha_compat_cache_seconds, in ticks of the clock
  None,       \* no entry, no request
  MaxWrites,  \* toggles asked for
  MaxOwn,     \* changes of a setting behind the API's back
  MaxEdits    \* edits of rows, and outages of boxes

HomeAssistantAssumption ==
  /\ Ttl \in Nat
  /\ Scopes \subseteq {Fleet} \cup Zones \cup Servers
  /\ None \notin Servers \cup Scopes

VARIABLES
  row,      \* row[s]: whether s is enabled, and its zone
  on,       \* on[s]: the setting on the box
  up,       \* up[s]: the box answers
  entry,    \* ReadCache._entries: what the boxes answered, and its age
  queue,    \* ReadCache._locks: the holder of the lock, then who waits for it
  req,      \* req[c]: the request of client c
  shown,    \* shown[k]: what the clients of scope k were last told
  writes, own, edits

vars == <<row, on, up, entry, queue, req, shown, writes, own, edits>>
env == <<row, on, up, writes, own, edits>>
-----------------------------------------------------------------------------
(***************************************************************************)
(* What the servers of a scope say                                         *)
(***************************************************************************)
Setting == {"on", "off"}
Writes == Setting \cup {"refresh"}
Answers == Setting \cup {"failed"}

Rows == [enabled: BOOLEAN, zone: Zones \cup {None}]

\* load_targets: the enabled servers, narrowed to the scope.
Targets(k) ==
  {s \in Servers : /\ row[s].enabled
                   /\ k \in {Fleet, row[s].zone, s}}

\* The outcomes of a fan-out so far: none yet for the servers in todo.
Partly == UNION {[S -> Answers] : S \in SUBSET Servers}

\* AND over those that answered, and off when none did.
AllOn(got) ==
  LET voting == {s \in DOMAIN got : got[s] # "failed"}
  IN  [on        |-> voting # {} /\ \A s \in voting : got[s] = "on",
       total     |-> DOMAIN got,
       reporting |-> voting]

\* What a box says when it is asked now.
Says(s) == IF up[s] THEN on[s] ELSE "failed"

\* What the API would say of a scope if it saw every box at once.
Status(k) == AllOn([s \in Targets(k) |-> Says(s)])
-----------------------------------------------------------------------------
(***************************************************************************)
(* Requests and the cache                                                  *)
(***************************************************************************)
Entries == [got: Partly, age: 0..Ttl]

Young(e) == e # None /\ e.age < Ttl

\* Mutant: an entry is never too old.
Fresh_Ever(k) == Ttl > 0 /\ entry[k] # None

Fresh(k) == Ttl > 0 /\ Young(entry[k])

Idle == [pc |-> "idle"]
Waiting(k) == [pc |-> "wait", scope |-> k]
Loading(k, got, todo) == [pc |-> "load", scope |-> k, got |-> got, todo |-> todo]
Writing(v, todo) == [pc |-> "write", want |-> v, todo |-> todo]

Put(f, s, v) == [x \in DOMAIN f \cup {s} |-> IF x = s THEN v ELSE f[x]]
NoAnswer == [s \in {} |-> "failed"]

Tell(k, got) == shown' = [shown EXCEPT ![k] = AllOn(got)]

\* A client's next request is another coroutine: it holds no lock.
New(c) == req[c].pc = "idle" /\ \A k \in Scopes : c \notin Range(queue[k])

Hit(k) ==
  /\ Fresh(k)
  /\ Tell(k, entry[k].got)

Load(c, k) ==
  /\ ~Fresh(k)
  /\ req' = [req EXCEPT ![c] = Loading(k, NoAnswer, Targets(k))]
  /\ UNCHANGED <<entry, shown, env>>

\* A cached read. The entry is looked up twice: before the lock is asked for,
\* and again when it is held. Taking a free lock does not give way.
Ask(c, k) ==
  /\ New(c)
  /\ \/ Hit(k) /\ UNCHANGED <<entry, queue, req, env>>
     \/ queue[k] = <<>> /\ queue' = [queue EXCEPT ![k] = <<c>>] /\ Load(c, k)
     \/ /\ ~Fresh(k) /\ queue[k] # <<>>
        /\ queue' = [queue EXCEPT ![k] = Append(@, c)]
        /\ req' = [req EXCEPT ![c] = Waiting(k)]
        /\ UNCHANGED <<entry, shown, env>>

\* The lock is given to who has waited longest.
Release(k) == queue' = [queue EXCEPT ![k] = Tail(@)]

\* Mutant: the entry is not looked up again under the lock.
Enter_Blind(c) ==
  /\ req[c].pc = "wait"
  /\ LET k == req[c].scope
     IN  /\ Head(queue[k]) = c
         /\ req' = [req EXCEPT ![c] = Loading(k, NoAnswer, Targets(k))]
  /\ UNCHANGED <<entry, queue, shown, env>>

\* Mutant: a request that finds the entry under the lock keeps the lock.
Enter_Held(c) ==
  /\ req[c].pc = "wait"
  /\ LET k == req[c].scope
     IN  /\ Head(queue[k]) = c
         /\ \/ /\ Hit(k)
               /\ req' = [req EXCEPT ![c] = Idle]
               /\ UNCHANGED <<entry, queue, env>>
            \/ Load(c, k) /\ UNCHANGED queue

Enter(c) ==
  /\ req[c].pc = "wait"
  /\ LET k == req[c].scope
     IN  /\ Head(queue[k]) = c
         /\ \/ /\ Hit(k)
               /\ Release(k)
               /\ req' = [req EXCEPT ![c] = Idle]
               /\ UNCHANGED <<entry, env>>
            \/ Load(c, k) /\ UNCHANGED queue

\* One server answers a read; no failure of one is a failure of the request.
Answer(c, s) ==
  /\ req[c].pc = "load" /\ s \in req[c].todo
  /\ req' = [req EXCEPT ![c].got = Put(@, s, Says(s)), ![c].todo = @ \ {s}]
  /\ UNCHANGED <<entry, queue, shown, env>>

Loaded(c) ==
  /\ req[c].pc = "load" /\ req[c].todo = {}
  /\ LET k == req[c].scope
     IN  /\ entry' = [entry EXCEPT ![k] = [got |-> req[c].got, age |-> 0]]
         /\ Tell(k, req[c].got)
         /\ Release(k)
  /\ req' = [req EXCEPT ![c] = Idle]
  /\ UNCHANGED env

-----------------------------------------------------------------------------
(***************************************************************************)
(* Toggles                                                                 *)
(***************************************************************************)
\* _apply: refused when the scope has no enabled server.
\* Re-downloading the filter lists fans out the same way.
Toggle(c, k, v) ==
  /\ New(c)
  /\ writes < MaxWrites /\ writes' = writes + 1
  /\ Targets(k) # {}
  /\ req' = [req EXCEPT ![c] = Writing(v, Targets(k))]
  /\ UNCHANGED <<row, on, up, entry, queue, shown, own, edits>>

Taken(s, v) == IF v = "refresh" THEN on ELSE [on EXCEPT ![s] = v]

\* A box takes the setting, or the call fails. The answer to the request is a
\* failure when every call failed; it changes nothing.
Take(c, s) ==
  /\ req[c].pc = "write" /\ s \in req[c].todo
  /\ \/ up[s] /\ on' = Taken(s, req[c].want)
     \/ UNCHANGED on
  /\ req' = [req EXCEPT ![c].todo = @ \ {s}]
  /\ UNCHANGED <<row, up, entry, queue, shown, writes, own, edits>>

Cleared == [k \in Scopes |-> None]

\* Subscriptions are rows of the database: a write of one takes no time here.
ListsWritten ==
  /\ writes < MaxWrites /\ writes' = writes + 1
  /\ entry' = Cleared
  /\ UNCHANGED <<row, on, up, queue, req, shown, own, edits>>

Applied(c) ==
  /\ req[c].pc = "write" /\ req[c].todo = {}
  /\ entry' = Cleared
  /\ req' = [req EXCEPT ![c] = Idle]
  /\ UNCHANGED <<queue, shown, env>>
-----------------------------------------------------------------------------
(***************************************************************************)
(* Time, the boxes and the rows                                            *)
(***************************************************************************)

Tick ==
  /\ \E k \in Scopes : Young(entry[k])
  /\ entry' = [k \in Scopes |->
                 IF Young(entry[k]) THEN [entry[k] EXCEPT !.age = @ + 1] ELSE entry[k]]
  /\ UNCHANGED <<queue, req, shown, env>>

\* The box's own interface, or the end of a timed disable.
OwnChange(s) ==
  /\ own < MaxOwn /\ own' = own + 1
  /\ on' = [on EXCEPT ![s] = IF @ = "on" THEN "off" ELSE "on"]
  /\ UNCHANGED <<row, up, entry, queue, req, shown, writes, edits>>

Outage(s) ==
  /\ edits < MaxEdits /\ edits' = edits + 1
  /\ up' = [up EXCEPT ![s] = ~@]
  /\ UNCHANGED <<row, on, entry, queue, req, shown, writes, own>>

EditRow(s) ==
  /\ edits < MaxEdits /\ edits' = edits + 1
  /\ \E r \in Rows : r # row[s] /\ row' = [row EXCEPT ![s] = r]
  /\ UNCHANGED <<on, up, entry, queue, req, shown, writes, own>>
-----------------------------------------------------------------------------
Init ==
  /\ row \in [Servers -> {r \in Rows : r.enabled}]
  /\ on \in [Servers -> Setting]
  /\ up = [s \in Servers |-> TRUE]
  /\ entry = Cleared
  /\ queue = [k \in Scopes |-> <<>>]
  /\ req = [c \in Clients |-> Idle]
  /\ shown = [k \in Scopes |-> None]
  /\ writes = 0 /\ own = 0 /\ edits = 0

Serve(c) ==
  \/ Enter(c)
  \/ \E s \in Servers : Answer(c, s) \/ Take(c, s)
  \/ Loaded(c)
  \/ Applied(c)

Next ==
  \/ \E c \in Clients : \/ Serve(c)
                        \/ \E k \in Scopes : Ask(c, k)
                        \/ \E k \in Scopes, v \in Writes : Toggle(c, k, v)
  \/ ListsWritten
  \/ Tick
  \/ \E s \in Servers : OwnChange(s) \/ Outage(s) \/ EditRow(s)

Spec == Init /\ [][Next]_vars

(***************************************************************************)
(* Time passes, a request that is being served goes on (every call to a    *)
(* box has a time-out), and Home Assistant polls every scope it knows.     *)
(***************************************************************************)
Poll(k) == \E c \in Clients : Ask(c, k)

Fairness ==
  /\ WF_vars(Tick)
  /\ \A c \in Clients : WF_vars(Serve(c))
  /\ \A k \in Scopes : SF_vars(Poll(k))

FairSpec == Spec /\ Fairness
-----------------------------------------------------------------------------
(***************************************************************************)
(* Properties                                                              *)
(***************************************************************************)
Requests ==
  {Idle}
  \cup {Waiting(k) : k \in Scopes}
  \cup {Loading(k, got, todo) : k \in Scopes, got \in Partly, todo \in SUBSET Servers}
  \cup {Writing(v, todo) : v \in Writes, todo \in SUBSET Servers}

Replies == [on: BOOLEAN, total: SUBSET Servers, reporting: SUBSET Servers]

\* The type of every variable.
TypeOK ==
  /\ row \in [Servers -> Rows]
  /\ on \in [Servers -> Setting]
  /\ up \in [Servers -> BOOLEAN]
  /\ entry \in [Scopes -> Entries \cup {None}]
  /\ queue \in [Scopes -> Seq(Clients)]
  /\ req \in [Clients -> Requests]
  /\ shown \in [Scopes -> Replies \cup {None}]
  /\ writes \in Nat /\ own \in Nat /\ edits \in Nat

Loads(c, k) == req[c].pc = "load" /\ req[c].scope = k

\* The cache "collapses concurrent loads into one": two requests never fan out
\* for one key at once, and none does while a fresh entry answers it, however
\* long it has waited and whatever was stored meanwhile.
LoadsShared ==
  [][\A c \in Clients, k \in Scopes :
       (~Loads(c, k) /\ Loads(c, k)') =>
          ~Fresh(k) /\ \A d \in Clients : ~Loads(d, k)]_vars

\* Every request is answered: no box that fails, no load that fails everywhere
\* and no write that clears the cache leaves a request waiting for a lock.
Answered == \A c \in Clients : req[c].pc # "idle" ~> req[c].pc = "idle"

\* When boxes and rows rest, every scope comes to be told what its boxes say:
\* what a load stored after a write had cleared the cache is outlived.
Settles == \A k \in Scopes : <>[](shown[k] = Status(k))
=============================================================================
