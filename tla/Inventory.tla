------------------------------ MODULE Inventory ------------------------------
(***************************************************************************)
(* The desired state as its editors see it: the zones, the servers, and the*)
(* rows that are scoped to all servers, to some zones or to one server     *)
(* (routers/zones.py, servers.py, records.py, upstreams.py, filters.py and *)
(* the writes of ha_compat.py that land in the database).                  *)
(*                                                                         *)
(* A handler of FastAPI that is a plain function runs in a thread of its   *)
(* own and commits once: what it reads and checks is one step, its         *)
(* transaction another, and other requests come in between.  An import is  *)
(* a coroutine that waits for the box before it looks at the rows.  SQLite *)
(* checks foreign keys when a transaction writes and gives the id of a     *)
(* deleted row to the next one; zone_ids is JSON, which no key covers. When*)
(* a zone is deleted the mapper loads the servers in it and takes them out.*)
(*                                                                         *)
(* A kind of row stands for the tables that are handled alike: "record"    *)
(* (DNSRecord), "setting" (Upstream, ForwardZone) and "list" (FilterList,  *)
(* BlockedService).  What a row says is one value.  Names, slugs and the   *)
(* records that the servers list maintains are left out, and so is what has*)
(* no more to do with a zone than a key to it (balancers, hosts, tokens).  *)
(***************************************************************************)
EXTENDS Naturals, SequencesExt

CONSTANTS
  Zones, Servers,  \* the ids of zones and of servers, 1 to a bound
  Values,          \* what a row can say
  Callers,         \* requests in flight
  None,
  MaxRequests,     \* requests made
  MaxRows          \* rows at once

\* Ids are counted from 1, and there are finitely many servers and values.
ASSUME IdsAssumption ==
  /\ IsFiniteSet(Servers) /\ Servers = 1 .. Cardinality(Servers)
  /\ IsFiniteSet(Values)
ASSUME NoneAssumption == None \notin {[zone |-> z] : z \in Zones \cup {None}}

VARIABLES
  zones,      \* the zones there are
  server,     \* server[s]: None, or the zone of the server with that id
  gen,        \* gen[s]: how many servers have had that id
  referred,   \* the servers that tokens and backend overrides refer to
  row,        \* the scoped rows, by id
  op,         \* op[c]: a request between its check and its transaction
  newcomers,  \* ghost: the servers put into a zone while it was being deleted
  requests

vars == <<zones, server, gen, referred, row, op, newcomers, requests>>
-----------------------------------------------------------------------------
(***************************************************************************)
(* Scopes                                                                  *)
(***************************************************************************)
Kinds == {"record", "setting", "list"}

Global == [scope |-> "global", zones |-> {}, server |-> None]
OfZones(zs) == [scope |-> "zone", zones |-> zs, server |-> None]
OfServer(s) == [scope |-> "server", zones |-> {}, server |-> s]

Live == {s \in Servers : server[s] # None}
ZoneOf(s) == IF server[s] = None THEN None ELSE server[s].zone
Placed(z) == [zone |-> z]

\* _validate_scope, for a row: every zone exists, or the server does. A record
\* is never scoped to a server.
ScopesFor(kind) ==
  {Global} \cup {OfZones(zs) : zs \in (SUBSET zones) \ {{}}}
  \cup (IF kind = "record" THEN {} ELSE {OfServer(s) : s \in Live})

\* The trees of the /control API, as the scopes of the rows they make.
Trees == {Global} \cup {OfZones({z}) : z \in zones} \cup {OfServer(s) : s \in Live}

\* _row_in_scope.
InTree(r, tree) ==
  CASE tree.server # None -> r.at.server = tree.server
    [] tree.zones # {}    -> tree.zones \subseteq r.at.zones
    [] OTHER              -> r.at.scope = "global"

\* A record added in the tree of a server goes to its zone, or to all servers.
RecordScope(tree) ==
  CASE tree.server = None         -> tree
    [] ZoneOf(tree.server) # None -> OfZones({ZoneOf(tree.server)})
    [] OTHER                      -> Global

\* Which of the servers that have had an id there is now.
GenOf(s) == IF s = None THEN 0 ELSE gen[s]

\* A row, and what is known of where it comes from: whether an import made it and
\* nobody touched it since, which server of its id it was meant for when it was
\* asked for, and whether another one had the id by the time it was stored.
Row(kind, v, at, by, for) ==
  [kind |-> kind, value |-> v, at |-> at, by |-> by,
   gen |-> for, crossed |-> for # GenOf(at.server)]

Matching(kind, v) == {i \in DOMAIN row : row[i].kind = kind /\ row[i].value = v}
-----------------------------------------------------------------------------
(***************************************************************************)
(* Transactions: one that breaks a key, or changes a row that is gone, is  *)
(* undone.                                                                 *)
(***************************************************************************)
\* The foreign key of a row.
Tied(r) == r.at.server # None => r.at.server \in Live

NextId(ids) == 1 + Max(ids \cup {0})

Insert(seq) ==
  LET first == NextId(DOMAIN row)
  IN  row' = [i \in DOMAIN row \cup first .. first + Len(seq) - 1 |->
                IF i \in DOMAIN row THEN row[i] ELSE seq[1 + i - first]]

Room(n) == Cardinality(DOMAIN row) + n <= MaxRows

\* Only the columns that the request changed are written.
Merged(r, old, new) ==
  LET col(was, is, now) == IF is # was THEN is ELSE now
      at == [f \in DOMAIN r.at |-> col(old.at[f], new.at[f], r.at[f])]
      made == Row(r.kind, col(old.value, new.value, r.value), at, "hand", new.gen)
  IN  IF old.at.server = new.at.server
        THEN [made EXCEPT !.gen = r.gen, !.crossed = r.crossed]
        ELSE made

Idle == [do |-> "nothing"]
Adding(kind, v, at) ==
  [do |-> "add", kind |-> kind, value |-> v, at |-> at, for |-> GenOf(at.server)]
Changing(old, new) == [do |-> "change", old |-> old, new |-> new]
Dropping(ids) == [do |-> "drop", ids |-> ids]
Creating(z) == [do |-> "create", zone |-> z]
Moving(s, z) == [do |-> "move", server |-> s, zone |-> z]
Deleting(s) == [do |-> "delete", server |-> s]
Removing(z) == [do |-> "remove", zone |-> z]
Unlinking(z, members) == [do |-> "unlink", zone |-> z, members |-> members]
Importing(s, kind, at) ==
  [do |-> "import", server |-> s, kind |-> kind, at |-> at, for |-> GenOf(at.server)]

Request(c, o) ==
  /\ op[c] = Idle
  /\ requests < MaxRequests /\ requests' = requests + 1
  /\ op' = [op EXCEPT ![c] = o]

Ask(c, o) == Request(c, o) /\ UNCHANGED <<zones, server, gen, referred, row, newcomers>>

Doing(c, what) ==
  /\ op[c].do = what
  /\ op' = [op EXCEPT ![c] = Idle]
  /\ UNCHANGED requests

-----------------------------------------------------------------------------
(***************************************************************************)
(* Scoped rows: the UI                                                     *)
(***************************************************************************)
AskAdd(c) ==
  \E kind \in Kinds, v \in Values : \E at \in ScopesFor(kind) :
    Ask(c, Adding(kind, v, at))

Add(c) ==
  /\ Doing(c, "add")
  /\ LET r == Row(op[c].kind, op[c].value, op[c].at, "hand", op[c].for)
     IN  /\ Tied(r) => Room(1)
         /\ IF Tied(r) THEN Insert(<<r>>) ELSE UNCHANGED row
  /\ UNCHANGED <<zones, server, gen, referred, newcomers>>

AskChange(c) ==
  \E i \in DOMAIN row : \E v \in Values, at \in ScopesFor(row[i].kind) :
    Ask(c, Changing(i :> row[i],
                    i :> [row[i] EXCEPT !.value = v, !.at = at, !.gen = GenOf(at.server)]))

Change(c) ==
  /\ Doing(c, "change")
  /\ LET ids == DOMAIN op[c].old
         new == [i \in DOMAIN row |->
                   IF i \in ids THEN Merged(row[i], op[c].old[i], op[c].new[i]) ELSE row[i]]
     IN  IF ids \subseteq DOMAIN row /\ \A i \in ids : Tied(new[i])
           THEN row' = new
           ELSE UNCHANGED row
  /\ UNCHANGED <<zones, server, gen, referred, newcomers>>

AskDrop(c) == \E i \in DOMAIN row : Ask(c, Dropping({i}))

Drop(c) ==
  /\ Doing(c, "drop")
  /\ row' = [i \in DOMAIN row \ op[c].ids |-> row[i]]
  /\ UNCHANGED <<zones, server, gen, referred, newcomers>>
-----------------------------------------------------------------------------
(***************************************************************************)
(* Scoped rows: the /control API                                           *)
(***************************************************************************)
\* filtering/add_url, unless the list is already subscribed in that tree.
AskAddList(c) ==
  \E tree \in Trees, v \in Values :
    /\ \A i \in Matching("list", v) : ~InTree(row[i], tree)
    /\ Ask(c, Adding("list", v, tree))

Subscribed(tree, v) == {i \in Matching("list", v) : InTree(row[i], tree)}

\* filtering/remove_url: every row of that URL that reaches the tree.
AskRemoveList(c) ==
  \E tree \in Trees, v \in Values : Ask(c, Dropping(Subscribed(tree, v)))

\* filtering/set_url.
AskSetList(c) ==
  \E tree \in Trees, v, url \in Values :
    LET ids == Subscribed(tree, v)
    IN  /\ ids # {}
        /\ Ask(c, Changing([i \in ids |-> row[i]],
                           [i \in ids |-> [row[i] EXCEPT !.value = url]]))

\* rewrite/add, unless the rewrite exists in whatever scope.
AskAddRewrite(c) ==
  \E tree \in Trees, v \in Values :
    /\ Matching("record", v) = {}
    /\ Ask(c, Adding("record", v, RecordScope(tree)))

\* rewrite/delete: in whatever scope.
AskRemoveRewrite(c) == \E v \in Values : Ask(c, Dropping(Matching("record", v)))
-----------------------------------------------------------------------------
(***************************************************************************)
(* Imports                                                                 *)
(***************************************************************************)
AskImport(c) ==
  \E s \in Live, kind \in Kinds :
    \/ Ask(c, Importing(s, kind, Global))
    \/ ZoneOf(s) # None /\ Ask(c, Importing(s, kind, OfZones({ZoneOf(s)})))
    \/ kind # "record" /\ Ask(c, Importing(s, kind, OfServer(s)))

\* Mutant: of rows in zones, those are known that reach where the server is now.
Known_Moved(o, v) ==
  \E i \in Matching(o.kind, v) :
    /\ row[i].at.scope = o.at.scope /\ row[i].at.server = o.at.server
    /\ o.at.scope = "zone" => ZoneOf(o.server) \in row[i].at.zones

\* An equivalent row is already there.
Known(o, v) ==
  \E i \in Matching(o.kind, v) :
    /\ row[i].at.scope = o.at.scope /\ row[i].at.server = o.at.server
    /\ o.at.zones \subseteq row[i].at.zones

\* The box fails, or says what it has.
Import(c) ==
  /\ Doing(c, "import")
  /\ \E says \in SUBSET Values :
       LET o == op[c]
           new == {Row(o.kind, v, o.at, "import", o.for) : v \in {v \in says : ~Known(o, v)}}
       IN  /\ Room(Cardinality(new))
           /\ IF \A r \in new : Tied(r) THEN Insert(SetToSeq(new)) ELSE UNCHANGED row
  /\ UNCHANGED <<zones, server, gen, referred, newcomers>>
-----------------------------------------------------------------------------
(***************************************************************************)
(* Servers                                                                 *)
(***************************************************************************)
Entered(s, z) ==
  newcomers' = IF \E c \in Callers : op[c].do \in {"remove", "unlink"} /\ op[c].zone = z
                 THEN newcomers \cup {s} ELSE newcomers

AskCreate(c) == \E z \in zones \cup {None} : Ask(c, Creating(z))

Create(c) ==
  /\ Doing(c, "create")
  /\ LET s == NextId(Live)
         z == op[c].zone
     IN  /\ s \in Servers
         /\ IF z \in zones \cup {None}
              THEN /\ server' = [server EXCEPT ![s] = Placed(z)]
                   /\ gen' = [gen EXCEPT ![s] = @ + 1]
                   /\ Entered(s, z)
              ELSE UNCHANGED <<server, gen, newcomers>>
  /\ UNCHANGED <<zones, referred, row>>

AskMove(c) ==
  \E s \in Live, z \in zones \cup {None} : z # ZoneOf(s) /\ Ask(c, Moving(s, z))

Move(c) ==
  /\ Doing(c, "move")
  /\ LET o == op[c]
     IN  IF o.server \in Live /\ o.zone \in zones \cup {None}
           THEN /\ server' = [server EXCEPT ![o.server] = Placed(o.zone)]
                /\ Entered(o.server, o.zone)
           ELSE UNCHANGED <<server, newcomers>>
  /\ UNCHANGED <<zones, gen, referred, row>>

\* A token or an override names the server; its key is checked too.
Refer(s) ==
  /\ s \in Live /\ s \notin referred
  /\ requests < MaxRequests /\ requests' = requests + 1
  /\ referred' = referred \cup {s}
  /\ UNCHANGED <<zones, server, gen, row, op, newcomers>>

\* release_references commits before the server is deleted.
AskDelete(c) ==
  \E s \in Live :
    /\ Request(c, Deleting(s))
    /\ referred' = referred \ {s}
    /\ UNCHANGED <<zones, server, gen, row, newcomers>>

\* Mutant: the key of a scoped row is not enforced.
Delete_Unkeyed(c) ==
  /\ Doing(c, "delete")
  /\ LET s == op[c].server
     IN  IF s \notin referred
           THEN server' = [server EXCEPT ![s] = None]
           ELSE UNCHANGED server
  /\ UNCHANGED <<zones, gen, referred, row, newcomers>>

Delete(c) ==
  /\ Doing(c, "delete")
  /\ LET s == op[c].server
     IN  IF s \notin referred /\ \A i \in DOMAIN row : row[i].at.server # s
           THEN server' = [server EXCEPT ![s] = None]
           ELSE UNCHANGED server
  /\ UNCHANGED <<zones, gen, referred, row, newcomers>>

-----------------------------------------------------------------------------
(***************************************************************************)
(* Zones                                                                   *)
(***************************************************************************)
\* The name is free: nothing that another request does makes the zone illegal.
CreateZone ==
  /\ requests < MaxRequests /\ requests' = requests + 1
  /\ NextId(zones) \in Zones
  /\ zones' = zones \cup {NextId(zones)}
  /\ UNCHANGED <<server, gen, referred, row, op, newcomers>>

\* Mutant: the servers of the zone are not looked at.
AskRemoveZone_Unchecked(c) ==
  \E z \in zones :
    /\ \A i \in DOMAIN row : row[i].kind # "list" => z \notin row[i].at.zones
    /\ Ask(c, Removing(z))

\* delete_zone looks at the servers, at records and at settings.
AskRemoveZone(c) ==
  \E z \in zones :
    /\ \A s \in Servers : ZoneOf(s) # z
    /\ \A i \in DOMAIN row : row[i].kind # "list" => z \notin row[i].at.zones
    /\ Ask(c, Removing(z))

\* The flush loads the servers that are in the zone by now (Zone.servers),
LoadMembers(c) ==
  /\ op[c].do = "remove"
  /\ LET z == op[c].zone
     IN  op' = [op EXCEPT ![c] = Unlinking(z, {s \in Live : ZoneOf(s) = z})]
  /\ UNCHANGED <<zones, server, gen, referred, row, newcomers, requests>>

\* takes them out of their zone, whatever it is now, and deletes the zone. It
\* fails if one of them is gone, or another server has come in.
RemoveZone(c) ==
  /\ Doing(c, "unlink")
  /\ LET z == op[c].zone
         members == op[c].members
     IN  IF members \subseteq Live /\ \A s \in Live \ members : ZoneOf(s) # z
           THEN /\ zones' = zones \ {z}
                /\ server' = [s \in Servers |-> IF s \in members THEN Placed(None) ELSE server[s]]
           ELSE UNCHANGED <<zones, server>>
  /\ UNCHANGED <<gen, referred, row, newcomers>>

-----------------------------------------------------------------------------
Init ==
  /\ zones = {} /\ referred = {}
  /\ server = [s \in Servers |-> None] /\ gen = [s \in Servers |-> 0]
  /\ row = <<>>
  /\ op = [c \in Callers |-> Idle]
  /\ newcomers = {} /\ requests = 0

Next ==
  \/ \E c \in Callers :
       \/ AskAdd(c) \/ AskChange(c) \/ AskDrop(c)
       \/ AskAddList(c) \/ AskRemoveList(c) \/ AskSetList(c)
       \/ AskAddRewrite(c) \/ AskRemoveRewrite(c)
       \/ AskImport(c)
       \/ AskCreate(c) \/ AskMove(c) \/ AskDelete(c) \/ AskRemoveZone(c)
       \/ Add(c) \/ Change(c) \/ Drop(c) \/ Import(c)
       \/ Create(c) \/ Move(c) \/ Delete(c) \/ LoadMembers(c) \/ RemoveZone(c)
  \/ \E s \in Servers : Refer(s)
  \/ CreateZone

Spec == Init /\ [][Next]_vars
-----------------------------------------------------------------------------
(***************************************************************************)
(* Properties                                                              *)
(***************************************************************************)
\* "Existing equivalents are skipped, so it's safe to re-run": imports never
\* make a row twice, though they overlap, their server moves and rows change
\* while a box is asked.
ImportOnce ==
  \A i, j \in DOMAIN row :
    i # j /\ row[i].by = "import" /\ row[j].by = "import" =>
      <<row[i].kind, row[i].value, row[i].at>> # <<row[j].kind, row[j].value, row[j].at>>

\* No server comes by the settings of another one that had its id: whatever is
\* tied to a server is gone before the server is. What is excepted is a row that
\* was on its way when the id changed hands: the request was checked for the one
\* server and is stored for the next.
OwnRows ==
  \A i \in DOMAIN row :
    row[i].at.server # None =>
      /\ row[i].at.server \in Live
      /\ row[i].gen = gen[row[i].at.server] \/ row[i].crossed

\* A server leaves its zone only when it is moved out of it: no deletion of a zone
\* takes it along, unless it was put into that zone after the deletion had been
\* checked.
ZoneKept ==
  [][\A s \in Live :
       server'[s] = Placed(None) /\ ZoneOf(s) # None =>
         \/ s \in newcomers
         \/ \E c \in Callers : op[c] = Moving(s, None) /\ op'[c] = Idle]_vars

\* No server is in a zone that is gone, though the zone is looked up, and its
\* members are, before the transactions that move and delete.
ServersPlaced == \A s \in Live : server[s].zone \in zones \cup {None}
=============================================================================
