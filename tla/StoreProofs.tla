----------------------------- MODULE StoreProofs -----------------------------
(***************************************************************************)
(* Proofs about what is kept in the database: Inventory, for every set of  *)
(* zones, values and callers and every number of servers and of rows, and  *)
(* Telemetry, for every set of servers, balancers and collectors and all   *)
(* periods, as long as an hour has a tick.                                 *)
(*                                                                         *)
(* Inventory.  OwnRows is about ids that are used again.  A new server     *)
(* gets one above all there are, so no row is tied to it yet (OwnRows      *)
(* itself says that rows are tied to servers there are); a server that a   *)
(* row is tied to is not deleted.  A request that was checked for a server *)
(* that went is stored for whoever has its id by then, or undone if nobody *)
(* has: such a row says that it crossed.  What the proof needs besides is  *)
(* that ids are numbers with a bound and that the scope of a row is one.   *)
(* ImportOnce is inductive beside those: what an import adds it looked for *)
(* in the same transaction, under the scope it adds it with, and whatever  *)
(* is changed since is an import's no more.  ZoneKept needs EmptiedInv: a  *)
(* zone whose deletion has been checked has no servers but newcomers, and  *)
(* what the flush has loaded are newcomers.                                *)
(*                                                                         *)
(* Telemetry.  TimeInv bounds how far the time stamp of a collection can   *)
(* lie behind the clock and the last housekeeping.  NoHourLost needs       *)
(* RolledInv: a row that had been stored when housekeeping was last done   *)
(* has its hour recorded, if that was complete; so what is too old to be   *)
(* seen by a housekeeping was seen by the one before.  RateWithin needs    *)
(* ReadInv: of two readings of a thing that are about, on their way, in a  *)
(* balancer's row or stored, the later counts what was answered since the  *)
(* earlier, or no more than that beside what the last jump left.           *)
(***************************************************************************)
EXTENDS MCStore, FiniteSetTheorems, SequenceTheorems, WellFoundedInduction, TLAPS

\* The columns of a scope.
Columns == {"scope", "zones", "server"}

MaybePlaced == {None} \cup {Placed(z) : z \in Zones \cup {None}}

TypeInv ==
  /\ zones \subseteq Zones
  /\ server \in [Servers -> MaybePlaced]
  /\ gen \in [Servers -> Nat]
  /\ op = [c \in Callers |-> op[c]]

\* A row that is tied to a server is the one's it was meant for, unless the id
\* changed hands on its way.
Own(r) == r.at.server # None => r.gen = gen[r.at.server] \/ r.crossed

\* Every row, and every row that is asked for, has a scope; ids have a bound.
RowsInv ==
  /\ \E n \in Nat : DOMAIN row \subseteq 0 .. n
  /\ \A i \in DOMAIN row : DOMAIN row[i].at = Columns
  /\ \A c \in Callers : op[c].do \in {"add", "import"} => DOMAIN op[c].at = Columns

-----------------------------------------------------------------------------
\* A bounded set of numbers has a greatest one, below which all others are.
LEMMA MaxOfBounded ==
  ASSUME NEW n \in Nat, NEW S \in SUBSET (0 .. n), S # {}
  PROVE  Max(S) \in S /\ \A x \in S : x <= Max(S)
<1> DEFINE T == {u \in Nat : \A x \in S : x <= u}
<1>1. n \in T
  OBVIOUS
<1>2. T \subseteq Nat
  OBVIOUS
<1>3. PICK u \in T : \A y \in T : ~(<<y, u>> \in OpToRel(<, Nat))
  <2> HIDE DEF T
  <2> QED BY <1>1, <1>2, NatLessThanWellFounded, WFMin, Zenon
<1>4. \A y \in T : ~(y < u)
  <2> HIDE DEF T
  <2> QED BY <1>2, <1>3 DEF OpToRel
<1>5. u \in Nat /\ \A x \in S : x \in Nat /\ x <= u
  <2>1. u \in Nat /\ \A x \in S : x <= u
    BY Zenon
  <2>2. \A x \in S : x \in Nat
    OBVIOUS
  <2> QED BY <2>1, <2>2
<1>6. u \in S
  <2> SUFFICES ASSUME u \notin S PROVE FALSE
    OBVIOUS
  <2>1. \A x \in S : x <= u - 1
    BY <1>5
  <2>2. u - 1 \in Nat
    <3>1. PICK x : x \in S
      OBVIOUS
    <3>2. x \in Nat /\ x <= u - 1
      BY <1>5, <2>1, <3>1
    <3> HIDE DEF T
    <3> QED BY <1>5, <3>2
  <2>3. u - 1 \in T
    BY <2>1, <2>2
  <2> HIDE DEF T
  <2>4. ~(u - 1 < u)
    BY <1>4, <2>3
  <2> QED BY <1>5, <2>4
<1> QED BY <1>5, <1>6 DEF Max

\* The next id is above every one there is.
LEMMA NextIdAbove ==
  ASSUME NEW n \in Nat, NEW S \in SUBSET (0 .. n)
  PROVE  /\ NextId(S) \in Nat
         /\ \A x \in S : x < NextId(S)
<1> DEFINE U == S \cup {0}
<1>1. U \in SUBSET (0 .. n) /\ U # {}
  OBVIOUS
<1>2. Max(U) \in U /\ \A x \in U : x <= Max(U)
  <2> HIDE DEF U
  <2> QED BY <1>1, MaxOfBounded
<1>3. (\A x \in U : x \in Nat) /\ \A x \in S : x \in U
  OBVIOUS
<1>4. NextId(S) = 1 + Max(U)
  BY DEF NextId
<1> HIDE DEF U
<1> QED BY <1>2, <1>3, <1>4

\* The members of a finite set, each once, in some order.
LEMMA SetToSeqOf ==
  ASSUME NEW S, IsFiniteSet(S)
  PROVE  /\ SetToSeq(S) \in [1 .. Cardinality(S) -> S] /\ Cardinality(S) \in Nat
         /\ \A i, j \in 1 .. Cardinality(S) : i # j => SetToSeq(S)[i] # SetToSeq(S)[j]
<1>1. Cardinality(S) \in Nat /\ \E f \in [1 .. Cardinality(S) -> S] : IsInjective(f)
  BY FS_CardinalityType DEF ExistsBijection, Bijection, Injection, IsInjective
<1> QED BY <1>1 DEF SetToSeq, IsInjective

\* Rows that are inserted leave the others as they were, and have an id each.
LEMMA Inserting ==
  ASSUME RowsInv, NEW n \in Nat, NEW seq, DOMAIN seq = 1 .. n, Len(seq) = n, Insert(seq)
  PROVE  /\ \E m \in Nat : DOMAIN row' \subseteq 0 .. m
         /\ \A i \in DOMAIN row' : \/ i \in DOMAIN row /\ row'[i] = row[i]
                                   \/ \E j \in 1 .. n : row'[i] = seq[j]
         /\ \A i, k \in DOMAIN row' \ DOMAIN row : i # k =>
              \E j, l \in 1 .. n : j # l /\ row'[i] = seq[j] /\ row'[k] = seq[l]
<1>1. PICK b \in Nat : DOMAIN row \subseteq 0 .. b
  BY DEF RowsInv
<1> DEFINE first == NextId(DOMAIN row)
           new == first .. first + n - 1
<1>2. first \in Nat /\ \A i \in DOMAIN row : i < first
  BY <1>1, NextIdAbove
<1>3. row' = [i \in DOMAIN row \cup new |->
                IF i \in DOMAIN row THEN row[i] ELSE seq[1 + i - first]]
  BY DEF Insert
<1> HIDE DEF first
<1>4. first + n + b \in Nat /\ DOMAIN row' \subseteq 0 .. first + n + b
  BY <1>1, <1>2, <1>3
<1>5. \A i \in new : 1 + i - first \in 1 .. n
  BY <1>2
<1>6. \A i, k \in new : i # k => 1 + i - first # 1 + k - first
  BY <1>2
<1>7. \A i \in DOMAIN row' \ DOMAIN row : i \in new /\ row'[i] = seq[1 + i - first]
  BY <1>3
<1>8. \A i, k \in DOMAIN row' \ DOMAIN row : i # k =>
        \E j, l \in 1 .. n : j # l /\ row'[i] = seq[j] /\ row'[k] = seq[l]
  <2> HIDE DEF new
  <2> QED BY <1>5, <1>6, <1>7
<1> QED BY <1>3, <1>4, <1>5, <1>8

\* One row that is inserted leaves the others as they were.
LEMMA InsertingOne ==
  ASSUME RowsInv, NEW r, Insert(<<r>>)
  PROVE  \A i \in DOMAIN row' : (i \in DOMAIN row /\ row'[i] = row[i]) \/ row'[i] = r
<1> DEFINE first == NextId(DOMAIN row)
<1>1. first \in Nat
  BY NextIdAbove DEF RowsInv
<1>2. row' = [i \in DOMAIN row \cup first .. first + Len(<<r>>) - 1 |->
                IF i \in DOMAIN row THEN row[i] ELSE <<r>>[1 + i - first]]
  BY DEF Insert
<1> HIDE DEF first
<1>3. \A i \in first .. first + Len(<<r>>) - 1 : 1 + i - first = 1
  BY <1>1
<1>4. <<r>>[1] = r
  OBVIOUS
<1> QED BY <1>2, <1>3, <1>4

\* A row that is made is tied, if it is, to the server it was meant for, or is
\* known to be another's.
LEMMA RowMade ==
  ASSUME NEW table, NEW v, NEW at, NEW by, NEW for
  PROVE  LET r == Row(table, v, at, by, for) IN r.at = at /\ Own(r)
BY DEF Row, GenOf, Own

\* A row that is changed keeps its server, or gets one as a row that is made.
LEMMA RowMerged ==
  ASSUME NEW r, NEW old, NEW new, DOMAIN r.at = Columns, Own(r)
  PROVE  LET m == Merged(r, old, new) IN DOMAIN m.at = Columns /\ Own(m)
<1> DEFINE merged(was, is, there) == IF is # was THEN is ELSE there
           at == [f \in DOMAIN r.at |-> merged(old.at[f], new.at[f], r.at[f])]
           v == merged(old.value, new.value, r.value)
           made == Row(r.kind, v, at, "hand", new.gen)
           same == [made EXCEPT !.gen = r.gen, !.crossed = r.crossed]
<1>1. Merged(r, old, new) = IF old.at.server = new.at.server THEN same ELSE made
  BY DEF Merged
<1>2. DOMAIN at = Columns /\ (old.at.server = new.at.server => at.server = r.at.server)
  BY DEF Columns
<1> HIDE DEF at, v, merged
<1>3. same.at = at /\ same.gen = r.gen /\ same.crossed = r.crossed
  BY DEF Row
<1>4. made.at = at /\ Own(made)
  BY RowMade
<1>5. old.at.server = new.at.server => Own(same)
  BY <1>2, <1>3 DEF Own
<1> HIDE DEF made, same
<1> QED BY <1>1, <1>2, <1>3, <1>4, <1>5

-----------------------------------------------------------------------------
\* Every scope that is asked for is one.
LEMMA ScopeColumns ==
  /\ \A table : \A at \in ScopesFor(table) : DOMAIN at = Columns
  /\ \A tree \in Trees : DOMAIN tree = Columns /\ DOMAIN RecordScope(tree) = Columns
BY DEF ScopesFor, Trees, RecordScope, Columns, Global, OfZones, OfServer

\* A request that is put changes no row; what it asks for is a row with a scope,
\* or no row.
LEMMA Asked ==
  ASSUME TypeInv, RowsInv, OwnRows, NEW c \in Callers, NEW o,
         o.do \in {"add", "import"} => DOMAIN o.at = Columns,
         op' = [op EXCEPT ![c] = o], UNCHANGED <<zones, server, gen, row>>
  PROVE  TypeInv' /\ RowsInv' /\ OwnRows'
<1>1. TypeInv' /\ \A d \in Callers : op'[d] = IF d = c THEN o ELSE op[d]
  BY DEF TypeInv
<1>2. RowsInv'
  BY <1>1 DEF RowsInv
<1>3. OwnRows'
  BY DEF OwnRows, Live
<1> QED BY <1>1, <1>2, <1>3

\* Whose transaction is over asks for nothing.
LEMMA Done ==
  ASSUME TypeInv, RowsInv, NEW c \in Callers, op' = [op EXCEPT ![c] = Idle]
  PROVE  /\ op' = [d \in Callers |-> op'[d]]
         /\ \A d \in Callers : op'[d].do \in {"add", "import"} => DOMAIN op'[d].at = Columns
BY DEF TypeInv, RowsInv, Idle

\* New rows that are tied to servers there are, and were made under them.
LEMMA Inserted ==
  ASSUME TypeInv, RowsInv, OwnRows, NEW c \in Callers, Doing(c, op[c].do),
         NEW n \in Nat, NEW seq, DOMAIN seq = 1 .. n, Len(seq) = n, Insert(seq),
         \A j \in 1 .. n :
           /\ DOMAIN seq[j].at = Columns /\ Tied(seq[j])
           /\ Own(seq[j]),
         UNCHANGED <<zones, server, gen>>
  PROVE  TypeInv' /\ RowsInv' /\ OwnRows'
<1>1. \A i \in DOMAIN row' : \/ i \in DOMAIN row /\ row'[i] = row[i]
                             \/ \E j \in 1 .. n : row'[i] = seq[j]
  BY Inserting
<1>2. \E m \in Nat : DOMAIN row' \subseteq 0 .. m
  BY Inserting
<1>3. op' = [op EXCEPT ![c] = Idle]
  BY DEF Doing
<1>4. TypeInv'
  BY <1>3, Done DEF TypeInv
<1>5. RowsInv'
  <2>1. \A i \in DOMAIN row' : DOMAIN row'[i].at = Columns
    BY <1>1 DEF RowsInv
  <2>2. \A d \in Callers : op'[d].do \in {"add", "import"} => DOMAIN op'[d].at = Columns
    BY <1>3, Done
  <2> QED BY <1>2, <2>1, <2>2 DEF RowsInv
<1>6. OwnRows'
  BY <1>1 DEF OwnRows, Live, Tied, Own
<1> QED BY <1>4, <1>5, <1>6

\* Rows that are changed where they are, or go.
LEMMA Rewritten ==
  ASSUME TypeInv, RowsInv, OwnRows, NEW c \in Callers, Doing(c, op[c].do),
         DOMAIN row' \subseteq DOMAIN row,
         \A i \in DOMAIN row' :
           \/ row'[i] = row[i]
           \/ DOMAIN row'[i].at = Columns /\ Tied(row'[i]) /\ Own(row'[i]),
         UNCHANGED <<zones, server, gen>>
  PROVE  TypeInv' /\ RowsInv' /\ OwnRows'
<1>1. op' = [op EXCEPT ![c] = Idle]
  BY DEF Doing
<1>2. TypeInv'
  BY <1>1, Done DEF TypeInv
<1>3. RowsInv'
  BY <1>1, Done DEF RowsInv
<1>4. OwnRows'
  BY DEF OwnRows, Live, Tied, Own
<1> QED BY <1>2, <1>3, <1>4

-----------------------------------------------------------------------------
\* The transaction that adds a row, or is undone.
LEMMA AddStep ==
  ASSUME TypeInv, RowsInv, OwnRows, NEW c \in Callers, Add(c)
  PROVE  TypeInv' /\ RowsInv' /\ OwnRows'
<1> DEFINE r == Row(op[c].kind, op[c].value, op[c].at, "hand", op[c].for)
<1>1. op[c].do = "add" /\ Doing(c, op[c].do) /\ UNCHANGED <<zones, server, gen>>
  BY DEF Add, Doing
<1>2. CASE Tied(r) /\ Insert(<<r>>)
  <2>1. DOMAIN r.at = Columns /\ Own(r)
    BY <1>1, RowMade DEF RowsInv
  <2> DEFINE seq == <<r>>
  <2> HIDE DEF r
  <2>2. DOMAIN seq = 1 .. 1 /\ Len(seq) = 1 /\ seq[1] = r
    OBVIOUS
  <2>3. Insert(seq)
    BY <1>2
  <2> HIDE DEF seq
  <2>4. \A j \in 1 .. 1 : seq[j] = r
    BY <2>2
  <2> QED BY <1>1, <1>2, <2>1, <2>2, <2>3, <2>4, Inserted
<1>3. CASE UNCHANGED row
  BY <1>1, <1>3, Rewritten
<1> QED BY <1>2, <1>3 DEF Add

\* Rows that change together, or none does.
LEMMA ChangeStep ==
  ASSUME TypeInv, RowsInv, OwnRows, NEW c \in Callers, Change(c)
  PROVE  TypeInv' /\ RowsInv' /\ OwnRows'
<1> DEFINE ids == DOMAIN op[c].old
           merged(i) == Merged(row[i], op[c].old[i], op[c].new[i])
           new == [i \in DOMAIN row |-> IF i \in ids THEN merged(i) ELSE row[i]]
<1>1. Doing(c, op[c].do) /\ UNCHANGED <<zones, server, gen>>
  BY DEF Change, Doing
<1>2. CASE ids \subseteq DOMAIN row /\ (\A i \in ids : Tied(new[i])) /\ row' = new
  <2>1. \A i \in DOMAIN row :
          DOMAIN merged(i).at = Columns /\ Own(merged(i))
    <3> SUFFICES ASSUME NEW i \in DOMAIN row
                 PROVE  DOMAIN merged(i).at = Columns /\ Own(merged(i))
      OBVIOUS
    <3>1. DOMAIN row[i].at = Columns
      BY DEF RowsInv
    <3>2. Own(row[i])
      BY DEF OwnRows, Own
    <3> QED BY <3>1, <3>2, RowMerged
  <2> HIDE DEF ids, merged
  <2>2. \A i \in DOMAIN row' :
          \/ row'[i] = row[i]
          \/ i \in ids /\ row'[i] = merged(i) /\ Tied(row'[i])
    BY <1>2
  <2>3. DOMAIN row' \subseteq DOMAIN row
    BY <1>2
  <2> QED BY <1>1, <2>1, <2>2, <2>3, Rewritten
<1>3. CASE UNCHANGED row
  BY <1>1, <1>3, Rewritten
<1> QED BY <1>2, <1>3 DEF Change

\* Rows go.
LEMMA DropStep ==
  ASSUME TypeInv, RowsInv, OwnRows, NEW c \in Callers, Drop(c)
  PROVE  TypeInv' /\ RowsInv' /\ OwnRows'
<1>1. Doing(c, op[c].do) /\ UNCHANGED <<zones, server, gen>>
  BY DEF Drop, Doing
<1>2. DOMAIN row' \subseteq DOMAIN row /\ \A i \in DOMAIN row' : row'[i] = row[i]
  BY DEF Drop
<1> QED BY <1>1, <1>2, Rewritten

\* The rows that a box has and the database has not.
LEMMA ImportStep ==
  ASSUME TypeInv, RowsInv, OwnRows, NEW c \in Callers, Import(c)
  PROVE  TypeInv' /\ RowsInv' /\ OwnRows'
<1>1. op[c].do = "import" /\ Doing(c, op[c].do) /\ UNCHANGED <<zones, server, gen>>
  BY DEF Import, Doing
<1> DEFINE o == op[c]
           made(v) == Row(o.kind, v, o.at, "import", o.for)
<1>2. PICK says \in SUBSET Values :
        LET new == {made(v) : v \in {v \in says : ~Known(o, v)}}
        IN  IF \A r \in new : Tied(r) THEN Insert(SetToSeq(new)) ELSE UNCHANGED row
  BY DEF Import
<1> DEFINE unknown == {v \in says : ~Known(o, v)}
           new == {made(v) : v \in unknown}
           seq == SetToSeq(new)
<1>3. IsFiniteSet(new)
  <2> DEFINE f == [v \in unknown |-> made(v)]
  <2>1. IsFiniteSet(unknown)
    BY FS_Subset, IdsAssumption
  <2>2. f \in Surjection(unknown, new)
    <3> HIDE DEF unknown, made
    <3> QED BY DEF Surjection
  <2> HIDE DEF f, new, unknown
  <2> QED BY <2>1, <2>2, FS_Surjection
<1>4. \A r \in new : DOMAIN r.at = Columns /\ Own(r)
  <2>1. \A v : DOMAIN made(v).at = Columns /\ Own(made(v))
    BY <1>1, RowMade DEF RowsInv
  <2> HIDE DEF made
  <2> QED BY <2>1
<1>5. CASE (\A r \in new : Tied(r)) /\ Insert(seq)
  <2> HIDE DEF new
  <2>1. Cardinality(new) \in Nat /\ seq \in [1 .. Cardinality(new) -> new]
    BY <1>3, SetToSeqOf
  <2> HIDE DEF seq
  <2>2. seq \in Seq(new) /\ DOMAIN seq = 1 .. Cardinality(new)
    BY <2>1, SeqDef
  <2>3. Len(seq) = Cardinality(new)
    BY <2>1, <2>2, LenProperties
  <2>4. \A j \in 1 .. Cardinality(new) : seq[j] \in new
    BY <2>1
  <2> QED BY <1>1, <1>4, <1>5, <2>1, <2>2, <2>3, <2>4, Inserted
<1>6. CASE UNCHANGED row
  BY <1>1, <1>6, Rewritten
<1> QED
  <2> HIDE DEF made
  <2> QED BY <1>2, <1>5, <1>6

-----------------------------------------------------------------------------
\* A server is made under an id no row is tied to, moves where it is, or goes
\* when no row is tied to it.
LEMMA ServerStep ==
  ASSUME TypeInv, RowsInv, OwnRows, NEW c \in Callers,
         Create(c) \/ Move(c) \/ Delete(c)
  PROVE  TypeInv' /\ RowsInv' /\ OwnRows'
<1>1. op' = [op EXCEPT ![c] = Idle] /\ UNCHANGED <<zones, row>>
  BY DEF Create, Move, Delete, Doing
<1>2. RowsInv'
  BY <1>1, Done DEF RowsInv
<1>3. CASE UNCHANGED <<server, gen>>
  BY <1>1, <1>2, <1>3, Done DEF TypeInv, OwnRows, Live
<1>4. ASSUME NEW s \in Servers, NEW z \in zones \cup {None},
             server' = [server EXCEPT ![s] = Placed(z)],
             \/ s \notin Live /\ gen' = [gen EXCEPT ![s] = @ + 1]
             \/ s \in Live /\ gen' = gen
      PROVE  TypeInv' /\ OwnRows'
  <2>1. Placed(z) \in MaybePlaced /\ Placed(z) # None
    BY NoneAssumption DEF MaybePlaced, Placed, TypeInv
  <2>2. server' \in [Servers -> MaybePlaced] /\ gen' \in [Servers -> Nat]
    BY <1>4, <2>1 DEF TypeInv
  <2>3. TypeInv'
    BY <1>1, <2>2, Done DEF TypeInv
  <2>4. \A t \in Live : t \in Live' /\ gen'[t] = gen[t]
    BY <1>4, <2>1 DEF Live, TypeInv
  <2> QED BY <1>1, <2>3, <2>4 DEF OwnRows
<1>5. CASE Create(c)
  <2> DEFINE s == NextId(Live)
  <2>1. Live \in SUBSET (0 .. Cardinality(Servers)) /\ Cardinality(Servers) \in Nat
    BY FS_CardinalityType, IdsAssumption DEF Live
  <2>2. s \in Nat /\ \A t \in Live : t < s
    BY <2>1, NextIdAbove
  <2> HIDE DEF s
  <2>3. s \notin Live
    BY <2>2
  <2>4. \/ UNCHANGED <<server, gen>>
        \/ /\ s \in Servers /\ op[c].zone \in zones \cup {None}
           /\ server' = [server EXCEPT ![s] = Placed(op[c].zone)]
           /\ gen' = [gen EXCEPT ![s] = @ + 1]
    BY <1>5 DEF Create, s
  <2> QED BY <1>2, <1>3, <1>4, <2>3, <2>4
<1>6. CASE Move(c)
  <2> DEFINE s == op[c].server
  <2>1. \/ UNCHANGED <<server, gen>>
        \/ /\ s \in Live /\ op[c].zone \in zones \cup {None}
           /\ server' = [server EXCEPT ![s] = Placed(op[c].zone)]
           /\ gen' = gen
    BY <1>6 DEF Move
  <2>2. s \in Live => s \in Servers
    BY DEF Live
  <2> QED BY <1>2, <1>3, <1>4, <2>1, <2>2
<1>7. CASE Delete(c)
  <2> DEFINE s == op[c].server
  <2>1. CASE /\ \A i \in DOMAIN row : row[i].at.server # s
             /\ server' = [server EXCEPT ![s] = None]
             /\ gen' = gen
    <3>1. server' \in [Servers -> MaybePlaced]
      BY <2>1 DEF TypeInv, MaybePlaced
    <3>2. TypeInv'
      BY <1>1, <2>1, <3>1, Done DEF TypeInv
    <3>3. \A t \in Live : t # s => t \in Live'
      BY <2>1 DEF Live, TypeInv
    <3> QED BY <1>1, <1>2, <2>1, <3>2, <3>3 DEF OwnRows
  <2> QED BY <1>2, <1>3, <1>7, <2>1 DEF Delete
<1> QED BY <1>5, <1>6, <1>7

\* Zones come and go, and take servers out of them: no row is tied to a zone by a
\* key, and the servers stay.
LEMMA ZoneStep ==
  ASSUME TypeInv, RowsInv, OwnRows,
         CreateZone \/ \E c \in Callers : LoadMembers(c) \/ RemoveZone(c)
  PROVE  TypeInv' /\ RowsInv' /\ OwnRows'
<1>1. CASE CreateZone
  BY <1>1 DEF CreateZone, TypeInv, RowsInv, OwnRows, Live
<1>2. ASSUME NEW c \in Callers, LoadMembers(c)
      PROVE  TypeInv' /\ RowsInv' /\ OwnRows'
  <2> DEFINE o == Unlinking(op[c].zone, {s \in Live : ZoneOf(s) = op[c].zone})
  <2>1. o.do = "unlink"
    BY DEF Unlinking
  <2>2. op' = [op EXCEPT ![c] = o] /\ UNCHANGED <<zones, server, gen, row>>
    BY <1>2 DEF LoadMembers
  <2> HIDE DEF o
  <2> QED BY <2>1, <2>2, Asked
<1>3. ASSUME NEW c \in Callers, RemoveZone(c)
      PROVE  TypeInv' /\ RowsInv' /\ OwnRows'
  <2> DEFINE members == op[c].members
  <2>1. op' = [op EXCEPT ![c] = Idle] /\ UNCHANGED <<gen, row>> /\ zones' \subseteq zones
    BY <1>3 DEF RemoveZone, Doing
  <2>2. \/ UNCHANGED server
        \/ /\ members \subseteq Live
           /\ server' = [s \in Servers |-> IF s \in members THEN Placed(None) ELSE server[s]]
    BY <1>3 DEF RemoveZone
  <2>3. Placed(None) \in MaybePlaced /\ Placed(None) # None
    BY NoneAssumption DEF MaybePlaced, Placed
  <2>4. server' \in [Servers -> MaybePlaced] /\ Live' = Live
    BY <2>2, <2>3 DEF TypeInv, Live
  <2>5. TypeInv'
    BY <2>1, <2>4, Done DEF TypeInv
  <2>6. RowsInv'
    BY <2>1, Done DEF RowsInv
  <2> QED BY <2>1, <2>4, <2>5, <2>6 DEF OwnRows
<1> QED BY <1>1, <1>2, <1>3

\* The requests that read and check before their transaction.
Asks(c) ==
  \/ AskAdd(c) \/ AskChange(c) \/ AskDrop(c)
  \/ AskAddList(c) \/ AskRemoveList(c) \/ AskSetList(c)
  \/ AskAddRewrite(c) \/ AskRemoveRewrite(c)
  \/ AskImport(c)
  \/ AskCreate(c) \/ AskMove(c) \/ AskDelete(c) \/ AskRemoveZone(c)

\* What is asked for while its rows are there is a row with a scope, or no row.
LEMMA AskStep ==
  ASSUME TypeInv, RowsInv, OwnRows, NEW c \in Callers, Asks(c)
  PROVE  TypeInv' /\ RowsInv' /\ OwnRows'
<1>1. SUFFICES \E o : /\ o.do \in {"add", "import"} => DOMAIN o.at = Columns
                      /\ op' = [op EXCEPT ![c] = o]
                      /\ UNCHANGED <<zones, server, gen, row>>
  BY Asked
<1>2. ASSUME NEW o, Ask(c, o), o.do \in {"add", "import"} => DOMAIN o.at = Columns
      PROVE  \E r : /\ r.do \in {"add", "import"} => DOMAIN r.at = Columns
                    /\ op' = [op EXCEPT ![c] = r]
                    /\ UNCHANGED <<zones, server, gen, row>>
  BY <1>2 DEF Ask, Request
<1>3. ASSUME NEW o, Request(c, o), UNCHANGED <<zones, server, gen, row>>,
             o.do \notin {"add", "import"}
      PROVE  \E r : /\ r.do \in {"add", "import"} => DOMAIN r.at = Columns
                    /\ op' = [op EXCEPT ![c] = r]
                    /\ UNCHANGED <<zones, server, gen, row>>
  BY <1>3 DEF Request
<1>4. CASE AskAdd(c)
  BY <1>2, <1>4, ScopeColumns DEF AskAdd, Adding
<1>5. CASE AskChange(c) \/ AskDrop(c) \/ AskRemoveList(c) \/ AskSetList(c) \/ AskRemoveRewrite(c)
  <2>1. \A old, new, ids : Changing(old, new).do = "change" /\ Dropping(ids).do = "drop"
    BY DEF Changing, Dropping
  <2>2. CASE AskChange(c) \/ AskSetList(c)
    <3>1. \E old, new : Ask(c, Changing(old, new))
      BY <2>2, Zenon DEF AskChange, AskSetList
    <3> QED BY <1>2, <2>1, <3>1
  <2>3. CASE AskDrop(c) \/ AskRemoveList(c) \/ AskRemoveRewrite(c)
    <3>1. \E ids : Ask(c, Dropping(ids))
      BY <2>3, Zenon DEF AskDrop, AskRemoveList, AskRemoveRewrite
    <3> QED BY <1>2, <2>1, <3>1
  <2> QED BY <1>5, <2>2, <2>3
<1>6. CASE AskAddList(c) \/ AskAddRewrite(c)
  BY <1>2, <1>6, ScopeColumns DEF AskAddList, AskAddRewrite, Adding
<1>7. CASE AskImport(c)
  <2>1. \A s, table, at : at \in {Global, OfZones({ZoneOf(s)}), OfServer(s)} =>
          DOMAIN Importing(s, table, at).at = Columns
    BY DEF Importing, Global, OfZones, OfServer, Columns
  <2> QED BY <1>2, <1>7, <2>1 DEF AskImport
<1>8. CASE AskCreate(c) \/ AskMove(c) \/ AskRemoveZone(c)
  BY <1>2, <1>8 DEF AskCreate, AskMove, AskRemoveZone, Creating, Moving, Removing
<1>9. CASE AskDelete(c)
  BY <1>3, <1>9 DEF AskDelete, Deleting
<1> QED BY <1>4, <1>5, <1>6, <1>7, <1>8, <1>9 DEF Asks

\* What is asked for changes neither zones, nor servers, nor rows. A move is kept
\* as it was asked for, and no server is in a zone that is to be removed.
LEMMA AskLeaves ==
  ASSUME NEW c \in Callers, Asks(c)
  PROVE  /\ UNCHANGED <<zones, server, row, newcomers>>
         /\ \E o : /\ op' = [op EXCEPT ![c] = o] /\ o.do # "unlink"
                   /\ o.do = "move" => o = Moving(o.server, o.zone)
                   /\ o.do = "remove" => \A s \in Live : ZoneOf(s) # o.zone
<1> DEFINE Kept(o) == /\ o.do # "unlink"
                      /\ o.do = "move" => o = Moving(o.server, o.zone)
                      /\ o.do = "remove" => \A s \in Live : ZoneOf(s) # o.zone
           Left == /\ UNCHANGED <<zones, server, row, newcomers>>
                   /\ \E o : op' = [op EXCEPT ![c] = o] /\ Kept(o)
<1> SUFFICES Left
  OBVIOUS
<1>1. ASSUME NEW o, Ask(c, o), Kept(o) PROVE Left
  BY <1>1, Zenon DEF Ask, Request
<1>2. /\ \A table, v, at : Kept(Adding(table, v, at)) /\ Kept(Importing(v, table, at))
      /\ \A old, new : Kept(Changing(old, new))
      /\ \A ids : Kept(Dropping(ids))
      /\ \A z, s : Kept(Creating(z)) /\ Kept(Moving(s, z)) /\ Kept(Deleting(s))
  BY DEF Adding, Importing, Changing, Dropping, Creating, Moving, Deleting
<1>3. CASE AskRemoveZone(c)
  <2>1. PICK z \in zones : (\A s \in Servers : ZoneOf(s) # z) /\ Ask(c, Removing(z))
    BY <1>3 DEF AskRemoveZone
  <2>2. Kept(Removing(z))
    BY <2>1 DEF Removing, Live
  <2> HIDE DEF Kept, Left
  <2> QED BY <1>1, <2>1, <2>2
<1>4. CASE AskDelete(c)
  <2>1. PICK s \in Live : Request(c, Deleting(s)) /\ UNCHANGED <<zones, server, row, newcomers>>
    BY <1>4 DEF AskDelete
  <2>2. Kept(Deleting(s)) /\ op' = [op EXCEPT ![c] = Deleting(s)]
    BY <1>2, <2>1 DEF Request
  <2> HIDE DEF Kept
  <2> QED BY <2>1, <2>2
<1> HIDE DEF Kept, Left
<1>5. CASE AskAdd(c) \/ AskAddList(c) \/ AskAddRewrite(c)
  <2>1. \E table, v, at : Ask(c, Adding(table, v, at))
    BY <1>5, Zenon DEF AskAdd, AskAddList, AskAddRewrite
  <2> QED BY <1>1, <1>2, <2>1
<1>6. CASE AskChange(c) \/ AskSetList(c)
  <2>1. \E old, new : Ask(c, Changing(old, new))
    BY <1>6, Zenon DEF AskChange, AskSetList
  <2> QED BY <1>1, <1>2, <2>1
<1>7. CASE AskDrop(c) \/ AskRemoveList(c) \/ AskRemoveRewrite(c)
  <2>1. \E ids : Ask(c, Dropping(ids))
    BY <1>7, Zenon DEF AskDrop, AskRemoveList, AskRemoveRewrite
  <2> QED BY <1>1, <1>2, <2>1
<1>8. CASE AskImport(c)
  <2>1. \E table, s, at : Ask(c, Importing(s, table, at))
    BY <1>8, Zenon DEF AskImport
  <2> QED BY <1>1, <1>2, <2>1
<1>9. CASE AskCreate(c)
  BY <1>1, <1>2, <1>9 DEF AskCreate
<1>10. CASE AskMove(c)
  BY <1>1, <1>2, <1>10 DEF AskMove
<1> QED BY <1>3, <1>4, <1>5, <1>6, <1>7, <1>8, <1>9, <1>10 DEF Asks

\* Every step keeps the rows to their servers.
LEMMA OwnStep ==
  ASSUME TypeInv, RowsInv, OwnRows, [Next]_vars
  PROVE  TypeInv' /\ RowsInv' /\ OwnRows'
<1>1. CASE \E s \in Servers : Refer(s)
  BY <1>1 DEF Refer, TypeInv, RowsInv, OwnRows, Live
<1>2. CASE UNCHANGED vars
  BY <1>2 DEF vars, TypeInv, RowsInv, OwnRows, Live
<1> QED
  BY <1>1, <1>2, AddStep, ChangeStep, DropStep, ImportStep, ServerStep, ZoneStep, AskStep
  DEF Next, Asks

\* There are no rows and no servers yet.
LEMMA InitInv == Init => TypeInv /\ RowsInv /\ OwnRows /\ ServersPlaced
<1> SUFFICES ASSUME Init PROVE TypeInv /\ RowsInv /\ OwnRows /\ ServersPlaced
  OBVIOUS
<1>1. DOMAIN row = {} /\ Live = {}
  BY DEF Init, Live
<1>2. TypeInv
  BY DEF Init, TypeInv, MaybePlaced
<1>3. RowsInv
  BY <1>1 DEF Init, RowsInv, Idle
<1> QED BY <1>1, <1>2, <1>3 DEF OwnRows, ServersPlaced

-----------------------------------------------------------------------------
\* No server comes by the settings of another one that had its id, but for rows
\* that were on their way when it changed hands, however the checks of requests
\* and their transactions interleave.
THEOREM RowsOwned == Spec => []OwnRows
<1>1. TypeInv /\ RowsInv /\ OwnRows /\ [Next]_vars => TypeInv' /\ RowsInv' /\ OwnRows'
  BY OwnStep
<1> QED BY <1>1, InitInv, PTL DEF Spec

\* What a step does to zones and to servers keeps every server in a zone.
LEMMA PlacedStep ==
  ASSUME TypeInv, ServersPlaced, [Next]_vars
  PROVE  ServersPlaced'
<1>1. CASE UNCHANGED <<zones, server>>
  BY <1>1 DEF ServersPlaced, Live
<1>2. ASSUME NEW s, NEW z \in zones \cup {None}, UNCHANGED zones,
             server' = [server EXCEPT ![s] = Placed(z)]
      PROVE  ServersPlaced'
  BY <1>2 DEF ServersPlaced, Live, TypeInv, Placed
<1>3. ASSUME NEW c \in Callers, Create(c) \/ Move(c) PROVE ServersPlaced'
  BY <1>1, <1>2, <1>3 DEF Create, Move
<1>4. ASSUME NEW c \in Callers, Delete(c) PROVE ServersPlaced'
  BY <1>4 DEF Delete, ServersPlaced, Live, TypeInv
<1>5. ASSUME NEW c \in Callers, RemoveZone(c) PROVE ServersPlaced'
  BY <1>5 DEF RemoveZone, ServersPlaced, Live, ZoneOf, Placed
<1>6. CASE CreateZone
  BY <1>6 DEF CreateZone, ServersPlaced, Live
<1>7. ASSUME NEW c \in Callers,
             Asks(c) \/ Add(c) \/ Change(c) \/ Drop(c) \/ Import(c) \/ LoadMembers(c)
      PROVE  UNCHANGED <<zones, server>>
  <2>1. CASE Asks(c)
    BY <2>1, AskLeaves
  <2>2. CASE Add(c) \/ Change(c) \/ Drop(c) \/ Import(c) \/ LoadMembers(c)
    BY <2>2 DEF Add, Change, Drop, Import, LoadMembers
  <2> QED BY <1>7, <2>1, <2>2
<1> QED BY <1>1, <1>3, <1>4, <1>5, <1>6, <1>7 DEF Next, Asks, Refer, vars

\* No server is in a zone that is gone, though zones are removed while servers
\* are made and moved.
THEOREM Placement == Spec => []ServersPlaced
<1>1. TypeInv /\ RowsInv /\ OwnRows /\ [Next]_vars => TypeInv' /\ RowsInv' /\ OwnRows'
  BY OwnStep
<1>2. TypeInv /\ ServersPlaced /\ [Next]_vars => ServersPlaced'
  BY PlacedStep
<1> QED BY <1>1, <1>2, InitInv, PTL DEF Spec

\* A zone that is being deleted has no servers but those that came in since it was
\* looked at, and takes no others along. A move is kept as it was asked for.
EmptiedInv ==
  \A c \in Callers :
    /\ op[c].do = "move" => op[c] = Moving(op[c].server, op[c].zone)
    /\ op[c].do = "remove" => \A s \in Live : ZoneOf(s) = op[c].zone => s \in newcomers
    /\ op[c].do = "unlink" => op[c].members \subseteq newcomers

\* Servers that come into a zone are noted, those that leave one, or come into one
\* that is not being deleted, need not be.
LEMMA EmptiedStep ==
  ASSUME TypeInv, EmptiedInv, [Next]_vars
  PROVE  EmptiedInv'
<1>1. ASSUME NEW c \in Callers, Asks(c) PROVE EmptiedInv'
  <2>1. UNCHANGED <<server, newcomers>>
    BY <1>1, AskLeaves
  <2>2. PICK o : /\ op' = [op EXCEPT ![c] = o] /\ o.do # "unlink"
                 /\ o.do = "move" => o = Moving(o.server, o.zone)
                 /\ o.do = "remove" => \A s \in Live : ZoneOf(s) # o.zone
    BY <1>1, AskLeaves
  <2>3. \A d \in Callers : op'[d] = IF d = c THEN o ELSE op[d]
    BY <2>2 DEF TypeInv
  <2> QED BY <2>1, <2>2, <2>3 DEF EmptiedInv, Live, ZoneOf
<1>2. ASSUME NEW c \in Callers, op' = [op EXCEPT ![c] = Idle],
             newcomers \subseteq newcomers',
             \A s \in Live' : \A z : ZoneOf(s)' = z =>
               \/ s \in Live /\ ZoneOf(s) = z
               \/ s \in newcomers'
               \/ \A d \in Callers : ~(op[d].do = "remove" /\ op[d].zone = z)
      PROVE  EmptiedInv'
  <2>1. \A d \in Callers : op'[d] = IF d = c THEN Idle ELSE op[d]
    BY <1>2 DEF TypeInv
  <2>2. Idle.do \notin {"move", "remove", "unlink"}
    BY DEF Idle
  <2> SUFFICES ASSUME NEW d \in Callers, d # c
               PROVE  /\ op[d].do = "move" => op[d] = Moving(op[d].server, op[d].zone)
                      /\ op[d].do = "remove" =>
                           \A s \in Live' : ZoneOf(s)' = op[d].zone => s \in newcomers'
                      /\ op[d].do = "unlink" => op[d].members \subseteq newcomers'
    BY <2>1, <2>2 DEF EmptiedInv
  <2> QED BY <1>2 DEF EmptiedInv
<1>3. ASSUME NEW c \in Callers, Add(c) \/ Change(c) \/ Drop(c) \/ Import(c) PROVE EmptiedInv'
  <2>1. op' = [op EXCEPT ![c] = Idle] /\ UNCHANGED <<server, newcomers>>
    BY <1>3 DEF Add, Change, Drop, Import, Doing
  <2> QED BY <1>2, <2>1 DEF Live, ZoneOf
<1>4. ASSUME NEW c \in Callers, Create(c) \/ Move(c) PROVE EmptiedInv'
  <2>1. op' = [op EXCEPT ![c] = Idle]
    BY <1>4 DEF Create, Move, Doing
  <2>2. CASE UNCHANGED <<server, newcomers>>
    BY <1>2, <2>1, <2>2 DEF Live, ZoneOf
  <2> DEFINE z == op[c].zone
  <2>3. CASE \E s \in Servers : server' = [server EXCEPT ![s] = Placed(z)] /\ Entered(s, z)
    <3>1. PICK s \in Servers : server' = [server EXCEPT ![s] = Placed(z)] /\ Entered(s, z)
      BY <2>3
    <3>2. /\ newcomers \subseteq newcomers'
          /\ (\E d \in Callers : op[d].do = "remove" /\ op[d].zone = z) => s \in newcomers'
      BY <3>1 DEF Entered
    <3>3. \A t \in Servers : server'[t] = IF t = s THEN Placed(z) ELSE server[t]
      BY <3>1 DEF TypeInv
    <3>4. ASSUME NEW t \in Live', t # s PROVE t \in Live /\ ZoneOf(t)' = ZoneOf(t)
      BY <3>3, <3>4 DEF Live, ZoneOf
    <3>5. s \in Live' => ZoneOf(s)' = z
      BY <3>3 DEF Live, ZoneOf, Placed
    <3> QED BY <1>2, <2>1, <3>2, <3>4, <3>5
  <2> QED BY <1>4, <2>2, <2>3 DEF Create, Move, Live
<1>5. ASSUME NEW c \in Callers, Delete(c) PROVE EmptiedInv'
  <2>1. op' = [op EXCEPT ![c] = Idle] /\ UNCHANGED newcomers
    BY <1>5 DEF Delete, Doing
  <2>2. \A s \in Live' : s \in Live /\ server'[s] = server[s]
    BY <1>5 DEF Delete, Live, TypeInv
  <2> QED BY <1>2, <2>1, <2>2 DEF ZoneOf, Live
<1>6. ASSUME NEW c \in Callers, LoadMembers(c) PROVE EmptiedInv'
  <2> DEFINE z == op[c].zone
             o == Unlinking(z, {s \in Live : ZoneOf(s) = z})
  <2>1. op[c].do = "remove" /\ op' = [op EXCEPT ![c] = o] /\ UNCHANGED <<server, newcomers>>
    BY <1>6 DEF LoadMembers
  <2>2. o.do = "unlink" /\ o.members \subseteq newcomers
    BY <2>1 DEF Unlinking, EmptiedInv
  <2> HIDE DEF o
  <2>3. \A d \in Callers : op'[d] = IF d = c THEN o ELSE op[d]
    BY <2>1 DEF TypeInv
  <2> QED BY <2>1, <2>2, <2>3 DEF EmptiedInv, Live, ZoneOf
<1>7. ASSUME NEW c \in Callers, RemoveZone(c) PROVE EmptiedInv'
  <2> DEFINE members == op[c].members
  <2>1. op' = [op EXCEPT ![c] = Idle] /\ UNCHANGED newcomers /\ op[c].do = "unlink"
    BY <1>7 DEF RemoveZone, Doing
  <2>2. members \subseteq newcomers
    BY <2>1 DEF EmptiedInv
  <2>3. \A s \in Live' : s \in members \/ (s \in Live /\ server'[s] = server[s])
    BY <1>7 DEF RemoveZone, Live, TypeInv
  <2> QED BY <1>2, <2>1, <2>2, <2>3 DEF ZoneOf, Live
<1>8. ASSUME CreateZone \/ (\E s \in Servers : Refer(s)) \/ UNCHANGED vars
      PROVE  EmptiedInv'
  BY <1>8 DEF CreateZone, Refer, vars, EmptiedInv, Live, ZoneOf
<1> QED BY <1>1, <1>3, <1>4, <1>5, <1>6, <1>7, <1>8 DEF Next, Asks

\* A server is taken out of its zone by its own move, or by a deletion that found
\* it a member.
LEMMA ZoneLeft ==
  ASSUME TypeInv, EmptiedInv, Next, NEW s \in Live, server'[s] = Placed(None), ZoneOf(s) # None
  PROVE  \/ s \in newcomers
         \/ \E c \in Callers : op[c] = Moving(s, None) /\ op'[c] = Idle
<1>1. s \in Servers /\ server[s] # Placed(None)
  BY DEF Live, ZoneOf, Placed
<1>2. CASE UNCHANGED server
  BY <1>1, <1>2
<1>3. ASSUME NEW c \in Callers,
             Asks(c) \/ Add(c) \/ Change(c) \/ Drop(c) \/ Import(c) \/ LoadMembers(c)
      PROVE  UNCHANGED server
  <2>1. CASE Asks(c)
    BY <2>1, AskLeaves
  <2>2. CASE Add(c) \/ Change(c) \/ Drop(c) \/ Import(c) \/ LoadMembers(c)
    BY <2>2 DEF Add, Change, Drop, Import, LoadMembers
  <2> QED BY <1>3, <2>1, <2>2
<1>4. ASSUME NEW c \in Callers, Create(c) PROVE UNCHANGED server
  <2>1. Live \in SUBSET (0 .. Cardinality(Servers)) /\ Cardinality(Servers) \in Nat
    BY FS_CardinalityType, IdsAssumption DEF Live
  <2> DEFINE new == NextId(Live)
  <2>2. new \in Nat /\ \A t \in Live : t < new
    BY <2>1, NextIdAbove
  <2>3. UNCHANGED server \/ \E z : server' = [server EXCEPT ![new] = Placed(z)]
    BY <1>4 DEF Create
  <2> HIDE DEF new
  <2>4. s # new
    BY <2>2
  <2> QED BY <1>1, <2>3, <2>4 DEF TypeInv
<1>5. ASSUME NEW c \in Callers, Move(c)
      PROVE  UNCHANGED server \/ (op[c] = Moving(s, None) /\ op'[c] = Idle)
  <2>1. op[c].do = "move" /\ op[c] = Moving(op[c].server, op[c].zone) /\ op'[c] = Idle
    BY <1>5 DEF Move, Doing, EmptiedInv, TypeInv
  <2>2. UNCHANGED server \/ server' = [server EXCEPT ![op[c].server] = Placed(op[c].zone)]
    BY <1>5 DEF Move
  <2>3. CASE server' = [server EXCEPT ![op[c].server] = Placed(op[c].zone)]
    <3>1. op[c].server = s /\ Placed(op[c].zone) = Placed(None)
      BY <1>1, <2>3 DEF TypeInv
    <3>2. op[c].zone = None
      BY <3>1 DEF Placed
    <3> QED BY <2>1, <3>1, <3>2
  <2> QED BY <2>2, <2>3
<1>6. ASSUME NEW c \in Callers, Delete(c) PROVE FALSE
  BY <1>1, <1>6, NoneAssumption DEF Delete, TypeInv, Placed
<1>7. ASSUME NEW c \in Callers, RemoveZone(c) PROVE UNCHANGED server \/ s \in newcomers
  <2>1. op[c].members \subseteq newcomers
    BY <1>7 DEF RemoveZone, Doing, EmptiedInv
  <2> QED BY <1>1, <1>7, <2>1 DEF RemoveZone
<1>8. ASSUME CreateZone \/ (\E t \in Servers : Refer(t)) PROVE UNCHANGED server
  BY <1>8 DEF CreateZone, Refer
<1> QED BY <1>2, <1>3, <1>4, <1>5, <1>6, <1>7, <1>8 DEF Next, Asks

\* A server leaves its zone only when it is moved out of it, unless it came into a
\* zone while that was being deleted.
THEOREM ZonesKept == Spec => ZoneKept
<1>1. TypeInv /\ RowsInv /\ OwnRows /\ [Next]_vars => TypeInv' /\ RowsInv' /\ OwnRows'
  BY OwnStep
<1>2. TypeInv /\ EmptiedInv /\ [Next]_vars => EmptiedInv'
  BY EmptiedStep
<1>3. Init => EmptiedInv
  BY DEF Init, EmptiedInv, Idle
<1>4. ASSUME TypeInv, EmptiedInv, [Next]_vars
      PROVE  [\A s \in Live :
                server'[s] = Placed(None) /\ ZoneOf(s) # None =>
                  \/ s \in newcomers
                  \/ \E c \in Callers : op[c] = Moving(s, None) /\ op'[c] = Idle]_vars
  BY <1>4, ZoneLeft
<1> QED BY <1>1, <1>2, <1>3, <1>4, InitInv, PTL DEF Spec, ZoneKept

-----------------------------------------------------------------------------
\* Rows that stay, or are changed by hand, are no import's twice.
LEMMA OnceKept ==
  ASSUME ImportOnce, DOMAIN row' \subseteq DOMAIN row,
         \A i \in DOMAIN row' : row'[i] = row[i] \/ row'[i].by = "hand"
  PROVE  ImportOnce'
BY DEF ImportOnce

\* What an import adds differs from row to row in its value, and is not known yet.
LEMMA OnceImport ==
  ASSUME RowsInv, ImportOnce, NEW c \in Callers, Import(c)
  PROVE  ImportOnce'
<1> DEFINE o == op[c]
           made(v) == Row(o.kind, v, o.at, "import", o.for)
<1>1. PICK says \in SUBSET Values :
        LET new == {made(v) : v \in {v \in says : ~Known(o, v)}}
        IN  IF \A r \in new : Tied(r) THEN Insert(SetToSeq(new)) ELSE UNCHANGED row
  BY DEF Import
<1> DEFINE unknown == {v \in says : ~Known(o, v)}
           new == {made(v) : v \in unknown}
           seq == SetToSeq(new)
<1>2. IsFiniteSet(new)
  <2> DEFINE f == [v \in unknown |-> made(v)]
  <2>1. IsFiniteSet(unknown)
    BY FS_Subset, IdsAssumption
  <2>2. f \in Surjection(unknown, new)
    <3> HIDE DEF unknown, made
    <3> QED BY DEF Surjection
  <2> HIDE DEF f, new, unknown
  <2> QED BY <2>1, <2>2, FS_Surjection
<1>3. \A r, q \in new : /\ r.kind = o.kind /\ r.at = o.at /\ ~Known(o, r.value)
                        /\ r.value = q.value => r = q
  <2>1. \A v : made(v).kind = o.kind /\ made(v).at = o.at /\ made(v).value = v
    BY DEF Row
  <2> HIDE DEF made
  <2> QED BY <2>1
<1>4. CASE Insert(seq)
  <2> HIDE DEF new
  <2>1. /\ Cardinality(new) \in Nat /\ seq \in [1 .. Cardinality(new) -> new]
        /\ \A j, l \in 1 .. Cardinality(new) : j # l => seq[j] # seq[l]
    BY <1>2, SetToSeqOf
  <2> HIDE DEF seq
  <2>2. seq \in Seq(new) /\ DOMAIN seq = 1 .. Cardinality(new)
    BY <2>1, SeqDef
  <2>3. Len(seq) = Cardinality(new)
    BY <2>1, <2>2, LenProperties
  <2>4. /\ \A i \in DOMAIN row' : \/ i \in DOMAIN row /\ row'[i] = row[i]
                                  \/ \E j \in 1 .. Cardinality(new) : row'[i] = seq[j]
        /\ \A i, k \in DOMAIN row' \ DOMAIN row : i # k =>
             \E j, l \in 1 .. Cardinality(new) : j # l /\ row'[i] = seq[j] /\ row'[k] = seq[l]
    <3> DEFINE n == Cardinality(new)
    <3>1. n \in Nat /\ DOMAIN seq = 1 .. n /\ Len(seq) = n
      BY <2>1, <2>2, <2>3
    <3> HIDE DEF n
    <3>2. /\ \A i \in DOMAIN row' : \/ i \in DOMAIN row /\ row'[i] = row[i]
                                    \/ \E j \in 1 .. n : row'[i] = seq[j]
          /\ \A i, k \in DOMAIN row' \ DOMAIN row : i # k =>
               \E j, l \in 1 .. n : j # l /\ row'[i] = seq[j] /\ row'[k] = seq[l]
      BY <1>4, <3>1, Inserting
    <3> QED BY <3>2 DEF n
  <2>5. \A i \in DOMAIN row : i \in DOMAIN row' => row'[i] = row[i]
    BY <1>4 DEF Insert
  <2>6. \A i \in DOMAIN row' \ DOMAIN row : row'[i] \in new
    BY <2>1, <2>4
  <2>7. ASSUME NEW i \in DOMAIN row' \ DOMAIN row, NEW k \in DOMAIN row
        PROVE  <<row'[i].kind, row'[i].value, row'[i].at>> # <<row[k].kind, row[k].value, row[k].at>>
    <3>1. row'[i].kind = o.kind /\ row'[i].at = o.at /\ ~Known(o, row'[i].value)
      BY <1>3, <2>6
    <3> HIDE DEF o
    <3>2. ASSUME row[k].kind = o.kind, row[k].value = row'[i].value, row[k].at = o.at
          PROVE  Known(o, row'[i].value)
      BY <3>2 DEF Known, Matching
    <3> QED BY <3>1, <3>2
  <2>8. ASSUME NEW i \in DOMAIN row' \ DOMAIN row, NEW k \in DOMAIN row' \ DOMAIN row, i # k
        PROVE  row'[i].value # row'[k].value
    <3>1. row'[i] # row'[k]
      BY <2>1, <2>4, <2>8
    <3> QED BY <1>3, <2>6, <3>1
  <2> HIDE DEF o
  <2> QED BY <2>5, <2>7, <2>8 DEF ImportOnce
<1>5. CASE UNCHANGED row
  BY <1>5 DEF ImportOnce
<1> QED
  <2> HIDE DEF made
  <2> QED BY <1>1, <1>4, <1>5

\* Only an import makes rows that are an import's.
LEMMA OnceStep ==
  ASSUME TypeInv, RowsInv, ImportOnce, [Next]_vars
  PROVE  ImportOnce'
<1>1. CASE UNCHANGED row
  BY <1>1, OnceKept
<1>2. ASSUME NEW c \in Callers, Add(c) PROVE ImportOnce'
  <2> DEFINE r == Row(op[c].kind, op[c].value, op[c].at, "hand", op[c].for)
  <2>1. r.by = "hand"
    BY DEF Row
  <2>2. UNCHANGED row \/ Insert(<<r>>)
    BY <1>2 DEF Add
  <2>3. CASE Insert(<<r>>)
    <3> HIDE DEF r
    <3>1. \A i \in DOMAIN row' : (i \in DOMAIN row /\ row'[i] = row[i]) \/ row'[i].by = "hand"
      BY <2>1, <2>3, InsertingOne
    <3> QED BY <3>1 DEF ImportOnce
  <2> QED BY <1>1, <2>2, <2>3
<1>3. ASSUME NEW c \in Callers, Change(c) PROVE ImportOnce'
  <2>1. CASE row' = [i \in DOMAIN row |->
               IF i \in DOMAIN op[c].old THEN Merged(row[i], op[c].old[i], op[c].new[i])
                                         ELSE row[i]]
    <3>1. \A r, old, new : Merged(r, old, new).by = "hand"
      BY DEF Merged, Row
    <3>2. DOMAIN row' \subseteq DOMAIN row
          /\ \A i \in DOMAIN row' : row'[i] = row[i] \/ row'[i].by = "hand"
      BY <2>1, <3>1
    <3> QED BY <3>2, OnceKept
  <2> QED BY <1>1, <1>3, <2>1 DEF Change
<1>4. ASSUME NEW c \in Callers, Drop(c) PROVE ImportOnce'
  <2>1. DOMAIN row' \subseteq DOMAIN row /\ \A i \in DOMAIN row' : row'[i] = row[i]
    BY <1>4 DEF Drop
  <2> QED BY <2>1, OnceKept
<1>5. ASSUME NEW c \in Callers, Import(c) PROVE ImportOnce'
  BY <1>5, OnceImport
<1>6. ASSUME NEW c \in Callers, Asks(c) PROVE UNCHANGED row
  BY <1>6, AskLeaves
<1>7. ASSUME NEW c \in Callers, Create(c) \/ Move(c) \/ Delete(c) \/ LoadMembers(c) \/ RemoveZone(c)
      PROVE  UNCHANGED row
  BY <1>7 DEF Create, Move, Delete, LoadMembers, RemoveZone
<1>8. ASSUME CreateZone \/ (\E s \in Servers : Refer(s)) \/ UNCHANGED vars
      PROVE  UNCHANGED row
  BY <1>8 DEF CreateZone, Refer, vars
<1> QED BY <1>1, <1>2, <1>3, <1>4, <1>5, <1>6, <1>7, <1>8 DEF Next, Asks

\* Imports never make a row twice, though they overlap, their server moves and
\* rows change while a box is asked.
THEOREM ImportedOnce == Spec => []ImportOnce
<1>1. TypeInv /\ RowsInv /\ OwnRows /\ [Next]_vars => TypeInv' /\ RowsInv' /\ OwnRows'
  BY OwnStep
<1>2. TypeInv /\ RowsInv /\ ImportOnce /\ [Next]_vars => ImportOnce'
  BY OnceStep
<1>3. Init => ImportOnce
  BY DEF Init, ImportOnce
<1> QED BY <1>1, <1>2, <1>3, InitInv, PTL DEF Spec
-----------------------------------------------------------------------------
(***************************************************************************)
(* Telemetry                                                               *)
(***************************************************************************)
\* A reading, if there is one, is of numbers.
Readings == [counter : Nat, served : Nat, jumps : Nat, left : Nat] \cup {Metrics!Nothing}

\* What may happen to a thing and its row.
Serving(e) ==
  Metrics!Serve(e) \/ Metrics!Drop(e) \/ Metrics!EditRow(e) \/ Metrics!Replace(e)

\* A collection under way has asked servers, and has a reading or nothing of each.
Underway(coll) ==
  /\ coll = Metrics!Asking(coll.at, coll.got, coll.todo) /\ coll.at \in Nat
  /\ coll.got = [s \in DOMAIN coll.got |-> coll.got[s]]
  /\ DOMAIN coll.got \subseteq Sampled /\ coll.todo \subseteq DOMAIN coll.got
  /\ \A s \in DOMAIN coll.got : coll.got[s] \in Readings

MetricsTypes ==
  /\ now \in Nat
  /\ served \in [Metrics!Things -> Nat] /\ count \in [Metrics!Things -> Nat]
  /\ jumps \in [Metrics!Things -> Nat] /\ left \in [Metrics!Things -> Nat]
  /\ state \in [Balancers -> Readings]
  /\ col = [c \in Collectors |-> col[c]]
  /\ \A c \in Collectors : col[c] = Metrics!Resting \/ Underway(col[c])
  /\ \A x \in samples : x.id \in Metrics!Things /\ x.ts \in Nat /\ x.read \in Readings
  /\ taken \subseteq Metrics!Things \X Nat
  /\ \A h \in hours : h.start \in Int
  /\ last \in Nat \cup {None} /\ kept \in Nat /\ late \in BOOLEAN

\* No collection is from a time to come, nor older than its calls may last, nor than
\* the housekeeping before it, unless that is what it will find.
TimeInv ==
  /\ kept <= now /\ last \in {None, kept}
  /\ \A x \in samples : x.ts <= now
  /\ \A c \in Collectors : col[c].pc = "ask" =>
       /\ col[c].at <= now /\ now - col[c].at <= Lag
       /\ last = None => kept <= col[c].at

\* What had been stored of a complete hour when the store was last kept is rolled up.
Recorded(hs, id, hour, since) ==
  \/ \E h \in hs : h.id = id /\ h.start = hour
  \/ hour < since - RetainHours

RolledInv ==
  late \/ \A y \in samples :
    y.ts < kept - Lag /\ y.ts < Metrics!HourOf(kept) =>
      Recorded(hours, y.id, Metrics!HourOf(y.ts), kept)

\* What a thing can have counted after reading a when it is read as b: what it has
\* answered, on top of what it had or of what the last jump left.
Follows(a, b) ==
  \/ a.jumps = b.jumps /\ b.counter = a.counter + (b.served - a.served)
  \/ a.jumps # b.jumps /\ b.counter <= b.left + (b.served - a.served)

Before(a, b) == a.served <= b.served /\ a.jumps <= b.jumps

\* Readings that are about.
Reads(e) ==
  {x.read : x \in {y \in samples : y.id = e}}
  \cup {col[c].got[e] : c \in {d \in Collectors : col[d].pc = "ask" /\ e \in DOMAIN col[d].got}}
  \cup (IF e \in Balancers THEN {state[e]} ELSE {})
KnownOf(e) == Reads(e) \ {Metrics!Nothing}

PastRead(e, a) ==
  /\ Before(a, Metrics!Reading(e)) /\ Follows(a, Metrics!Reading(e))
  /\ a.jumps = jumps[e] => a.left = left[e]

ReadInv ==
  \A e \in Metrics!Things : \A a \in KnownOf(e) :
    /\ PastRead(e, a)
    /\ \A b \in KnownOf(e) : Before(a, b) => Follows(a, b)

RateInv == MetricsTypes /\ TimeInv /\ ReadInv /\ Metrics!RateWithin
HourInv == MetricsTypes /\ TimeInv /\ RolledInv /\ Metrics!NoHourLost
-----------------------------------------------------------------------------
\* A bounded set of numbers has a greatest one.
LEMMA Greatest ==
  ASSUME NEW n \in Nat, NEW S \in SUBSET (0 .. n), S # {}
  PROVE  \E m \in S : \A x \in S : x <= m
BY MaxOfBounded

\* An hour begins before what is in it and ends after.
LEMMA HourBounds ==
  ASSUME Metrics!TelemetryAssumption, NEW t \in Nat
  PROVE  Metrics!HourOf(t) \in Int /\ Metrics!HourOf(t) <= t /\ t < Metrics!HourOf(t) + Hour
<1>1. t % Hour \in 0 .. Hour - 1
  BY DEF Metrics!TelemetryAssumption
<1>2. Hour \in Nat
  BY DEF Metrics!TelemetryAssumption
<1> QED BY <1>1, <1>2 DEF Metrics!HourOf

\* There is a newest row.
LEMMA NewestIn ==
  ASSUME Metrics!TelemetryAssumption, MetricsTypes, TimeInv, NEW e, Metrics!RowsOf(e) # {}
  PROVE  Metrics!Newest(Metrics!RowsOf(e)) \in Metrics!RowsOf(e)
<1> DEFINE S == {x.ts : x \in Metrics!RowsOf(e)}
<1>1. S \in SUBSET (0 .. now) /\ S # {} /\ now \in Nat
  BY DEF Metrics!RowsOf, MetricsTypes, TimeInv
<1>2. PICK m \in S : \A t \in S : t <= m
  <2> HIDE DEF S
  <2> QED BY <1>1, Greatest
<1>3. PICK x \in Metrics!RowsOf(e) : m = x.ts
  OBVIOUS
<1>4. \A y \in Metrics!RowsOf(e) : y.ts <= x.ts
  BY <1>2, <1>3
<1> QED BY <1>3, <1>4 DEF Metrics!Newest

\* What a collection stores, and what is kept of the rows.
LEMMA Storing ==
  ASSUME NEW c \in Collectors, Metrics!Store(c)
  PROVE  \A x \in samples' :
           \/ x \in samples
           \/ \E e \in Metrics!Stored(c) : x = Metrics!Sample(e, col[c].at, col[c].got[e])
           \/ \E e \in Metrics!Found : x = Metrics!Sample(e, col[c].at, state[e])
BY DEF Metrics!Store, Metrics!Housekeep, Metrics!Collected

\* A roll-up makes a row of each hour of each thing that has one and is not done.
LEMMA RollUps ==
  ASSUME NEW rows, NEW at
  PROVE  /\ \A h \in Metrics!RolledUp(rows, at) :
              \E x \in rows : h.id = x.id /\ h.start = Metrics!HourOf(x.ts)
         /\ \A x \in rows :
              /\ x.ts >= at - Retain /\ x.ts < Metrics!HourOf(at)
              /\ <<x.id, Metrics!HourOf(x.ts)>> \notin Metrics!Done(at)
              =>
                \E h \in Metrics!RolledUp(rows, at) : h.id = x.id /\ h.start = Metrics!HourOf(x.ts)
<1> DEFINE complete == {x \in rows : x.ts >= at - Retain /\ x.ts < Metrics!HourOf(at)}
           groups == {<<x.id, Metrics!HourOf(x.ts)>> : x \in complete} \ Metrics!Done(at)
           size(g) == Metrics!Cardinality({x \in complete : <<x.id, Metrics!HourOf(x.ts)>> = g})
           hour(g) == [id |-> g[1], start |-> g[2], made |-> at, samples |-> size(g)]
<1>0. Metrics!RolledUp(rows, at) = {hour(g) : g \in groups}
  BY Zenon DEF Metrics!RolledUp
<1>a. \A g : hour(g).id = g[1] /\ hour(g).start = g[2]
  <2> HIDE DEF size
  <2> QED OBVIOUS
<1> HIDE DEF hour, groups
<1>1. \A h \in Metrics!RolledUp(rows, at) : \E g \in groups : h.id = g[1] /\ h.start = g[2]
  BY <1>0, <1>a
<1>2. \A g \in groups : \E h \in Metrics!RolledUp(rows, at) : h.id = g[1] /\ h.start = g[2]
  BY <1>0, <1>a
<1> USE DEF groups
<1>3. \A g \in groups : \E x \in rows : g = <<x.id, Metrics!HourOf(x.ts)>>
  OBVIOUS
<1>4. \A x \in rows :
        /\ x.ts >= at - Retain /\ x.ts < Metrics!HourOf(at)
        /\ <<x.id, Metrics!HourOf(x.ts)>> \notin Metrics!Done(at)
        =>
          <<x.id, Metrics!HourOf(x.ts)>> \in groups
  OBVIOUS
<1> HIDE DEF groups
<1> QED BY <1>1, <1>2, <1>3, <1>4

\* What a collection under way looks like.
LEMMA UnderwayIs ==
  ASSUME MetricsTypes, NEW c \in Collectors, col[c].pc = "ask"
  PROVE  Underway(col[c]) /\ col[c].at \in Nat
<1>1. Underway(col[c])
  BY DEF MetricsTypes, Metrics!Resting
<1> QED BY <1>1 DEF Underway

\* A collection that goes on.
LEMMA AskingOn ==
  ASSUME NEW coll, coll = Metrics!Asking(coll.at, coll.got, coll.todo), NEW got, NEW todo
  PROVE  [coll EXCEPT !.got = got, !.todo = todo] = Metrics!Asking(coll.at, got, todo)
<1> DEFINE r == [coll EXCEPT !.got = got, !.todo = todo]
<1>1. r \in [pc : {"ask"}, at : {coll.at}, got : {got}, todo : {todo}]
  <2>1. coll \in [pc : {"ask"}, at : {coll.at}, got : {coll.got}, todo : {coll.todo}]
    BY DEF Metrics!Asking
  <2> QED BY <2>1
<1> HIDE DEF r
<1>2. r = [pc |-> r.pc, at |-> r.at, got |-> r.got, todo |-> r.todo]
      /\ r.pc = "ask" /\ r.at = coll.at /\ r.got = got /\ r.todo = todo
  BY <1>1
<1> QED BY <1>2 DEF Metrics!Asking, r

\* The types are kept: a reading is of numbers, and of a server that was asked.
LEMMA MetricsTyped ==
  ASSUME Metrics!TelemetryAssumption, MetricsTypes, [Metrics!Next]_(Metrics!vars)
  PROVE  MetricsTypes'
<1>1. CASE UNCHANGED Metrics!vars
  BY <1>1 DEF Metrics!vars, Metrics!counters, MetricsTypes, Underway
<1>2. ASSUME NEW c \in Collectors, Metrics!Collect(c)
      PROVE  MetricsTypes'
  <2>1. Underway(Metrics!Asking(now, [s \in Metrics!Enabled |-> Metrics!Nothing], Metrics!Enabled))
    BY DEF Underway, Metrics!Asking, Metrics!Enabled, Readings, MetricsTypes
  <2> QED BY <1>2, <2>1 DEF Metrics!Collect, MetricsTypes, Metrics!world, Metrics!counters, Metrics!store
<1>3. ASSUME NEW c \in Collectors, NEW s \in Sampled, Metrics!Answer(c, s)
      PROVE  MetricsTypes'
  <2>1. PICK reading \in {Metrics!Reading(s), Metrics!Nothing} :
          col' = [col EXCEPT ![c].got[s] = reading, ![c].todo = @ \ {s}]
    BY <1>3 DEF Metrics!Answer
  <2>2. reading \in Readings
    BY DEF Metrics!Reading, Readings, MetricsTypes, Metrics!Things
  <2>3. Underway(col[c]) /\ s \in DOMAIN col[c].got
    BY <1>3 DEF MetricsTypes, Metrics!Answer, Metrics!Resting, Underway
  <2>4. Underway(col'[c])
    <3> DEFINE coll == col[c]
               got == [coll.got EXCEPT ![s] = reading]
               todo == coll.todo \ {s}
    <3>1. col'[c] = [coll EXCEPT !.got = got, !.todo = todo]
      BY <2>1 DEF MetricsTypes
    <3>2. coll = Metrics!Asking(coll.at, coll.got, coll.todo)
      BY <2>3 DEF Underway
    <3>3. [coll EXCEPT !.got = got, !.todo = todo] = Metrics!Asking(coll.at, got, todo)
      <4> HIDE DEF coll, got, todo
      <4> QED BY <3>2, AskingOn, Zenon
    <3> QED BY <2>2, <2>3, <3>1, <3>3 DEF Underway, Metrics!Asking
  <2> QED BY <1>3, <2>1, <2>4 DEF Metrics!Answer, MetricsTypes, Metrics!world, Metrics!counters, Metrics!store
<1>4. ASSUME NEW c \in Collectors, Metrics!Store(c)
      PROVE  MetricsTypes'
  <2>1. Underway(col[c])
    BY <1>4 DEF MetricsTypes, Metrics!Store, Metrics!Resting
  <2>2. \A x \in samples' : x.id \in Metrics!Things /\ x.ts \in Nat /\ x.read \in Readings
    BY <2>1, <1>4, Storing DEF MetricsTypes, Metrics!Stored, Metrics!Found, Metrics!Sample,
       Metrics!Things, Underway
  <2>3. taken' \subseteq Metrics!Things \X Nat
    BY <2>1, <1>4 DEF MetricsTypes, Metrics!Store, Metrics!Stored, Metrics!Found,
       Metrics!Things, Underway
  <2>4. /\ \A h \in hours' : h.start \in Int
        /\ last' \in Nat \cup {None} /\ kept' \in Nat /\ late' \in BOOLEAN
    <3> DEFINE rows == samples \cup Metrics!Collected(c)
    <3>1. \A x \in rows : x.ts \in Nat
      BY <2>1 DEF MetricsTypes, Metrics!Collected, Metrics!Sample, Underway
    <3>2. \A h \in Metrics!RolledUp(rows, col[c].at) : \E x \in rows : h.start = Metrics!HourOf(x.ts)
      BY RollUps
    <3>3. \A h \in Metrics!RolledUp(rows, col[c].at) : h.start \in Int
      <4> HIDE DEF rows
      <4> QED BY <3>1, <3>2, HourBounds
    <3> HIDE DEF rows
    <3> QED BY <1>4, <2>1, <3>3 DEF Metrics!Store, Metrics!Housekeep, MetricsTypes,
               Underway, rows
  <2> QED BY <1>4, <2>2, <2>3, <2>4 DEF Metrics!Store, MetricsTypes, Metrics!world, Metrics!counters
<1>5. CASE Metrics!Tick
  BY <1>5 DEF Metrics!Tick, MetricsTypes, Metrics!world, Metrics!counters, Metrics!store
<1>6. ASSUME NEW e \in Metrics!Things, Serving(e)
      PROVE  MetricsTypes'
  <2>1. state' \in [Balancers -> Readings]
    <3>1. Metrics!Nothing \in Readings
      BY DEF Readings
    <3> QED BY <1>6, <3>1 DEF Serving, Metrics!Serve, Metrics!Drop, Metrics!EditRow,
               Metrics!Replace, Metrics!counters, MetricsTypes
  <2>2. /\ served' \in [Metrics!Things -> Nat] /\ count' \in [Metrics!Things -> Nat]
        /\ jumps' \in [Metrics!Things -> Nat] /\ left' \in [Metrics!Things -> Nat]
    <3>1. ASSUME NEW n \in Nat, Metrics!Jump(e, n)
          PROVE  /\ count' \in [Metrics!Things -> Nat] /\ jumps' \in [Metrics!Things -> Nat]
                 /\ left' \in [Metrics!Things -> Nat]
      BY <3>1 DEF Metrics!Jump, MetricsTypes
    <3>2. {0} \cup 0 .. count[e] - 1 \subseteq Nat /\ 0 .. MaxQueries \subseteq Nat
      BY DEF MetricsTypes, Metrics!TelemetryAssumption
    <3> QED BY <1>6, <3>1, <3>2 DEF Serving, Metrics!Serve, Metrics!Drop, Metrics!EditRow,
               Metrics!Replace, Metrics!counters, MetricsTypes
  <2>3. /\ now' = now /\ UNCHANGED <<col, samples, hours, last, taken, kept, late>>
    BY <1>6 DEF Serving, Metrics!Serve, Metrics!Drop, Metrics!EditRow, Metrics!Replace, Metrics!store
  <2> QED BY <2>1, <2>2, <2>3 DEF MetricsTypes, Underway
<1>7. ASSUME NEW b \in Balancers, Metrics!HostPass(b)
      PROVE  MetricsTypes'
  <2>1. Metrics!Reading(b) \in Readings /\ Metrics!Nothing \in Readings
    BY DEF Metrics!Reading, Readings, MetricsTypes, Metrics!Things
  <2> QED BY <1>7, <2>1 DEF Metrics!HostPass, MetricsTypes, Metrics!store, Metrics!counters
<1>8. CASE Metrics!Restart
  BY <1>8 DEF Metrics!Restart, MetricsTypes, Metrics!counters
<1> QED BY <1>1, <1>2, <1>3, <1>4, <1>5, <1>6, <1>7, <1>8 DEF Metrics!Next, Metrics!Collecting, Metrics!Around, Serving

\* The clock only goes on, and no collection takes longer than its calls may.
LEMMA TimesKept ==
  ASSUME Metrics!TelemetryAssumption, MetricsTypes, TimeInv, [Metrics!Next]_(Metrics!vars)
  PROVE  TimeInv'
<1>a. Lag \in Nat /\ Hour \in Nat \ {0} /\ None \notin Int /\ now \in Nat /\ kept \in Nat
  BY DEF Metrics!TelemetryAssumption, MetricsTypes
<1>1. CASE UNCHANGED Metrics!vars
  BY <1>1 DEF Metrics!vars, Metrics!counters, TimeInv
<1>2. ASSUME NEW c \in Collectors, Metrics!Collect(c)
      PROVE  TimeInv'
  BY <1>a, <1>2 DEF Metrics!Collect, TimeInv, MetricsTypes, Metrics!Asking, Metrics!world, Metrics!counters,
     Metrics!store
<1>3. ASSUME NEW c \in Collectors, NEW s \in Sampled, Metrics!Answer(c, s)
      PROVE  TimeInv'
  <2>1. \A d \in Collectors : col'[d].pc = col[d].pc /\ col'[d].at = col[d].at
    <3>1. Underway(col[c])
      BY <1>3 DEF Metrics!Answer, MetricsTypes, Metrics!Resting
    <3> QED BY <1>3, <3>1 DEF Metrics!Answer, MetricsTypes, Underway, Metrics!Asking
  <2> QED BY <1>3, <2>1 DEF Metrics!Answer, TimeInv, Metrics!world, Metrics!counters, Metrics!store
<1>4. ASSUME NEW c \in Collectors, Metrics!Store(c)
      PROVE  TimeInv'
  <2>1. Underway(col[c]) /\ col[c].pc = "ask" /\ now' = now
    BY <1>4 DEF MetricsTypes, Metrics!Store, Metrics!Resting
  <2>2. \A d \in Collectors : col'[d].pc = "ask" => d # c /\ col'[d] = col[d]
    BY <1>4 DEF Metrics!Store, MetricsTypes, Metrics!Resting
  <2>3. \A x \in samples' : x.ts <= now
    BY <1>4, <2>1, Storing DEF TimeInv, Metrics!Sample
  <2>4. CASE UNCHANGED <<last, kept>>
    BY <2>1, <2>2, <2>3, <2>4 DEF TimeInv
  <2>5. CASE last' = col[c].at /\ kept' = col[c].at
    BY <1>a, <2>1, <2>2, <2>3, <2>5 DEF TimeInv, Underway
  <2> QED BY <1>4, <2>4, <2>5 DEF Metrics!Store, Metrics!Housekeep
<1>5. CASE Metrics!Tick
  <2> QED BY <1>a, <1>5, UnderwayIs DEF Metrics!Tick, TimeInv, MetricsTypes, Metrics!world, Metrics!counters,
             Metrics!store
<1>6. CASE \/ \E e \in Metrics!Things : Serving(e)
           \/ \E b \in Balancers : Metrics!HostPass(b)
  BY <1>6 DEF Serving, Metrics!Serve, Metrics!Drop, Metrics!EditRow, Metrics!Replace,
     Metrics!Edit, Metrics!Jump, Metrics!counters, Metrics!HostPass, TimeInv,
     Metrics!store
<1>7. CASE Metrics!Restart
  BY <1>7 DEF Metrics!Restart, TimeInv, Metrics!Resting
<1> QED BY <1>1, <1>2, <1>3, <1>4, <1>5, <1>6, <1>7 DEF Metrics!Next, Metrics!Collecting, Metrics!Around, Serving
-----------------------------------------------------------------------------
\* A collection stores a row of each thing, as of its own time.
LEMMA StoredRows ==
  ASSUME NEW c \in Collectors, Metrics!Store(c)
  PROVE  /\ \A y \in Metrics!Collected(c) : y.ts = col[c].at
         /\ \A x \in taken' : x \in taken \/ \E y \in Metrics!Collected(c) : y.id = x[1] /\ y.ts = x[2]
<1>1. \A e, at, reading : Metrics!Sample(e, at, reading).id = e /\ Metrics!Sample(e, at, reading).ts = at
  BY DEF Metrics!Sample
<1>2. \A e \in Metrics!Stored(c) \cup Metrics!Found :
        \E y \in Metrics!Collected(c) : y.id = e /\ y.ts = col[c].at
  BY <1>1 DEF Metrics!Collected
<1>3. taken' = taken \cup ((Metrics!Stored(c) \cup Metrics!Found) \X {col[c].at})
  BY DEF Metrics!Store
<1>4. \A x \in taken' :
        x \in taken \/ \E e \in Metrics!Stored(c) \cup Metrics!Found : x[1] = e /\ x[2] = col[c].at
  BY <1>3
<1> QED BY <1>1, <1>2, <1>4 DEF Metrics!Collected

\* What is stored without housekeeping is younger than the housekeeping before.
LEMMA HourStored ==
  ASSUME Metrics!TelemetryAssumption, MetricsTypes, TimeInv, RolledInv, Metrics!NoHourLost,
         NEW c \in Collectors, Metrics!Store(c),
         samples' = samples \cup Metrics!Collected(c), UNCHANGED <<hours, last, kept, late>>
  PROVE  RolledInv' /\ Metrics!NoHourLost'
<1>a. /\ col[c].at \in Nat /\ now - col[c].at <= Lag /\ kept <= now
      /\ {now, kept, Lag} \subseteq Nat
  BY UnderwayIs DEF Metrics!Store, TimeInv, MetricsTypes, Metrics!TelemetryAssumption
<1>3. RolledInv'
  <2>1. \A y \in samples' : y.ts < kept - Lag => y \in samples
    BY <1>a, StoredRows
  <2> QED BY <2>1 DEF RolledInv, Recorded, Metrics!HourOf
<1>4. Metrics!NoHourLost'
  <2> SUFFICES ASSUME ~late, NEW x \in taken'
               PROVE  \/ \E y \in samples' : y.id = x[1] /\ Metrics!HourOf(y.ts) = Metrics!HourOf(x[2])
                      \/ \E h \in hours : h.id = x[1] /\ h.start = Metrics!HourOf(x[2])
                      \/ Metrics!HourOf(x[2]) < kept - RetainHours
    BY DEF Metrics!NoHourLost, Metrics!HourOf
  <2> QED BY StoredRows DEF Metrics!NoHourLost
<1> QED BY <1>3, <1>4

\* Housekeeping in time finds every row that is to go recorded, and records the hours
\* that are complete.
LEMMA HourKept ==
  ASSUME Metrics!TelemetryAssumption, MetricsTypes, TimeInv, RolledInv, Metrics!NoHourLost,
         NEW c \in Collectors, Metrics!Store(c), Metrics!Due(col[c].at),
         Metrics!Housekeep(samples \cup Metrics!Collected(c), col[c].at)
  PROVE  RolledInv' /\ Metrics!NoHourLost'
<1> DEFINE at == col[c].at
           rows == samples \cup Metrics!Collected(c)
           Filed(id, hour) == Recorded(hours', id, hour, at)
<1>a. /\ at \in Nat /\ kept \in Nat /\ kept <= at /\ {Lag, RetainHours, Retain} \subseteq Nat
      /\ Hour \in Nat \ {0} /\ Metrics!HourOf(kept) \in Int /\ kept < Metrics!HourOf(kept) + Hour
  <2>1. at \in Nat /\ Hour \in Nat \ {0} /\ kept \in Nat /\ {Lag, RetainHours, Retain} \subseteq Nat
    BY UnderwayIs DEF Metrics!Store, MetricsTypes, Metrics!TelemetryAssumption
  <2>2. kept <= at
    BY <2>1 DEF Metrics!Store, TimeInv, Metrics!Due
  <2> QED BY <2>1, <2>2, HourBounds
<1>b. kept' = at
  BY DEF Metrics!Housekeep
<1>k. ~late' => ~late /\ at - kept <= Retain - Hour - Lag
  <2>1. late' = (late \/ at - kept > Retain - Hour - Lag)
    BY DEF Metrics!Housekeep
  <2>2. at - kept \in Int /\ Retain - Hour - Lag \in Int
    BY <1>a
  <2>3. ~(at - kept > Retain - Hour - Lag) => at - kept <= Retain - Hour - Lag
    BY <2>2
  <2> QED BY <2>1, <2>3, Zenon
<1>s. samples' = {x \in rows : x.ts >= at - Retain}
  BY DEF Metrics!Housekeep
<1>h. hours' = {h \in hours \cup Metrics!RolledUp(rows, at) : h.start >= at - RetainHours}
  BY DEF Metrics!Housekeep
<1>c. \A y \in rows : y.ts \in Nat /\ (y \in samples \/ y.ts = at)
  <2>1. \A e, reading : Metrics!Sample(e, at, reading).ts = at
    BY DEF Metrics!Sample
  <2>2. \A y \in Metrics!Collected(c) : y.ts = at
    BY <2>1 DEF Metrics!Collected
  <2>3. \A y \in samples : y.ts \in Nat
    BY DEF MetricsTypes
  <2> HIDE DEF at
  <2> QED BY <1>a, <2>2, <2>3
<1>d. \A x \in taken' : x \in taken \/ \E y \in rows : y.id = x[1] /\ y.ts = x[2]
  BY StoredRows
<1>e. \A x \in taken' : Metrics!HourOf(x[2]) \in Int
  <2>1. \A x \in taken : x[2] \in Nat
    BY DEF MetricsTypes
  <2> HIDE DEF rows
  <2> QED BY <1>c, <1>d, <2>1, HourBounds
<1> HIDE DEF at, rows
<1>1. ASSUME NEW id, NEW hour \in Int,
             \E h \in hours \cup Metrics!RolledUp(rows, at) : h.id = id /\ h.start = hour
      PROVE  Filed(id, hour)
  BY <1>1, <1>a, <1>h DEF Recorded
<1>2. ASSUME NEW id, NEW hour \in Int, Recorded(hours, id, hour, kept) PROVE Filed(id, hour)
  <2>1. CASE hour < kept - RetainHours
    BY <1>a, <2>1 DEF Recorded
  <2> QED BY <1>1, <1>2, <2>1 DEF Recorded
<1>3. ASSUME NEW y \in rows, y.ts >= at - Retain, y.ts < Metrics!HourOf(at)
      PROVE  Filed(y.id, Metrics!HourOf(y.ts))
  <2>1. Metrics!HourOf(y.ts) \in Int
    BY <1>c, HourBounds
  <2>2. \E h \in hours \cup Metrics!RolledUp(rows, at) : h.id = y.id /\ h.start = Metrics!HourOf(y.ts)
    BY <1>3, RollUps DEF Metrics!Done
  <2> QED BY <1>1, <2>1, <2>2
<1>4. ASSUME ~late', NEW y \in rows
      PROVE  y \in samples' \/ Filed(y.id, Metrics!HourOf(y.ts))
  <2> SUFFICES ASSUME y.ts < at - Retain PROVE Filed(y.id, Metrics!HourOf(y.ts))
    BY <1>a, <1>c, <1>s
  <2>1. ~late /\ at - kept <= Retain - Hour - Lag
    BY <1>4, <1>k
  <2>2. y \in samples /\ y.ts < kept - Lag /\ y.ts < Metrics!HourOf(kept)
    BY <2>1, <1>a, <1>c
  <2>3. Recorded(hours, y.id, Metrics!HourOf(y.ts), kept)
    BY <2>1, <2>2 DEF RolledInv
  <2> QED BY <1>2, <1>c, <2>3, HourBounds
<1>5. RolledInv'
  <2> SUFFICES ASSUME ~late', NEW y \in samples', y.ts < Metrics!HourOf(at)
               PROVE  Recorded(hours', y.id, Metrics!HourOf(y.ts), at)
    BY <1>b DEF RolledInv, Recorded, Metrics!HourOf
  <2> QED BY <1>3, <1>s
<1>6. Metrics!NoHourLost'
  <2> SUFFICES ASSUME ~late', NEW x \in taken'
               PROVE  \/ \E y \in samples' : y.id = x[1] /\ Metrics!HourOf(y.ts) = Metrics!HourOf(x[2])
                      \/ Filed(x[1], Metrics!HourOf(x[2]))
    BY <1>b DEF Metrics!NoHourLost, Recorded, Metrics!HourOf
  <2>1. CASE \E y \in rows : y.id = x[1] /\ Metrics!HourOf(y.ts) = Metrics!HourOf(x[2])
    BY <1>4, <2>1
  <2>2. CASE x \in taken /\ Recorded(hours, x[1], Metrics!HourOf(x[2]), kept)
    BY <1>2, <1>e, <2>2
  <2>3. x \in taken => \/ \E y \in samples : y.id = x[1] /\ Metrics!HourOf(y.ts) = Metrics!HourOf(x[2])
                       \/ Recorded(hours, x[1], Metrics!HourOf(x[2]), kept)
    BY <1>k DEF Metrics!NoHourLost, Recorded
  <2> QED BY <1>d, <2>1, <2>2, <2>3 DEF rows
<1> QED BY <1>5, <1>6

\* Only what a collection stores, rolls up and prunes bears on the hours recorded.
LEMMA HourStep ==
  ASSUME Metrics!TelemetryAssumption, MetricsTypes, TimeInv, RolledInv, Metrics!NoHourLost,
         [Metrics!Next]_(Metrics!vars)
  PROVE  RolledInv' /\ Metrics!NoHourLost'
<1>1. ASSUME NEW c \in Collectors, Metrics!Store(c) PROVE RolledInv' /\ Metrics!NoHourLost'
  BY <1>1, HourStored, HourKept DEF Metrics!Store
<1>2. ASSUME UNCHANGED <<samples, hours, taken, kept, late>>
      PROVE  RolledInv' /\ Metrics!NoHourLost'
  BY <1>2 DEF RolledInv, Metrics!NoHourLost, Recorded, Metrics!HourOf
<1> QED BY <1>1, <1>2 DEF Metrics!Next, Metrics!Collecting, Metrics!Around, Serving, Metrics!vars, Metrics!store, Metrics!Collect,
           Metrics!Answer, Metrics!Tick, Serving, Metrics!Serve, Metrics!Drop, Metrics!EditRow, Metrics!Replace,
     Metrics!Edit, Metrics!Jump, Metrics!counters,
        Metrics!HostPass, Metrics!Restart

\* Every hour in which a row of a thing was stored has a 1h row, or 1m rows still to
\* be rolled up, or is past the retention, as long as housekeeping was not kept from
\* running: roll-up sees each row before prune() takes it, however long the calls of a
\* collection took, and restarts or not.  (telemetry.py store, rollup, prune)
THEOREM HoursKept ==
  Metrics!Spec => []NoHourLost
<1>1. Metrics!Init => HourInv
  <2> SUFFICES ASSUME Metrics!Init PROVE HourInv
    OBVIOUS
  <2>1. MetricsTypes
    BY DEF Metrics!Init, MetricsTypes, Readings
  <2>2. TimeInv
    BY DEF Metrics!Init, TimeInv, Metrics!Resting
  <2> QED BY <2>1, <2>2 DEF Metrics!Init, HourInv, RolledInv, Metrics!NoHourLost
<1>2. HourInv /\ [Metrics!Next]_(Metrics!vars) => HourInv'
  BY MetricsAssumption, MetricsTyped, TimesKept, HourStep DEF HourInv
<1>3. HourInv => NoHourLost
  BY DEF NoHourLost, HourInv
<1> QED BY <1>1, <1>2, <1>3, PTL DEF Metrics!Spec
-----------------------------------------------------------------------------
Counted == [counter : Nat, served : Nat, jumps : Nat, left : Nat]

\* What is known of a thing are readings.
LEMMA KnownType ==
  ASSUME Metrics!TelemetryAssumption, MetricsTypes, NEW e \in Metrics!Things
  PROVE  /\ KnownOf(e) \subseteq Counted /\ Metrics!Reading(e) \in Counted
         /\ Metrics!Nothing \notin Counted
<1>1. Metrics!Nothing \notin Counted
  BY DEF Metrics!Nothing, Counted, Metrics!TelemetryAssumption
<1>2. Metrics!Reading(e) \in Counted
  BY DEF Metrics!Reading, Counted, MetricsTypes
<1>3. Reads(e) \subseteq Readings
  <2>1. \A x \in samples : x.read \in Readings
    BY DEF MetricsTypes
  <2>2. \A c \in Collectors : col[c].pc = "ask" /\ e \in DOMAIN col[c].got =>
          col[c].got[e] \in Readings
    BY UnderwayIs DEF Underway
  <2>3. e \in Balancers => state[e] \in Readings
    BY DEF MetricsTypes
  <2> QED BY <2>1, <2>2, <2>3 DEF Reads
<1> QED BY <1>1, <1>2, <1>3 DEF KnownOf, Readings, Counted

\* A thing that was read before has counted what it answered since, or less, on top
\* of what a jump in between left.
LEMMA Counting ==
  ASSUME NEW a \in Counted, NEW b \in Counted, Before(a, b), Follows(a, b)
  PROVE  Metrics!Gained(a.counter, b.counter)
           <= (b.served - a.served) + (IF a.jumps # b.jumps THEN b.left ELSE 0)
<1>1. /\ a.counter \in Nat /\ b.counter \in Nat /\ a.served \in Nat /\ b.served \in Nat
      /\ b.left \in Nat /\ a.served <= b.served
  BY DEF Counted, Before
<1>2. CASE a.jumps = b.jumps
  BY <1>1, <1>2 DEF Follows, Metrics!Gained
<1>3. CASE a.jumps # b.jumps
  BY <1>1, <1>3 DEF Follows, Metrics!Gained
<1> QED BY <1>2, <1>3

\* What is read now follows what is known, and all else is known before.
LEMMA ReadNow ==
  ASSUME Metrics!TelemetryAssumption, MetricsTypes, ReadInv,
         UNCHANGED <<served, Metrics!counters>>,
         \A e \in Metrics!Things : KnownOf(e)' \subseteq KnownOf(e) \cup {Metrics!Reading(e)}
  PROVE  ReadInv'
<1> USE DEF Metrics!counters
<1> SUFFICES ASSUME NEW e \in Metrics!Things, NEW a \in KnownOf(e)', NEW b \in KnownOf(e)'
             PROVE  PastRead(e, a)' /\ (Before(a, b) => Follows(a, b))
  BY DEF ReadInv, Before, Follows
<1> DEFINE r == Metrics!Reading(e)
<1>1. /\ r \in Counted /\ r.counter = count[e] /\ r.served = served[e]
      /\ r.jumps = jumps[e] /\ r.left = left[e]
      /\ a \in Counted /\ b \in Counted
  BY KnownType DEF Metrics!Reading
<1>2. Before(r, r) /\ Follows(r, r)
  BY <1>1 DEF Before, Follows, Counted
<1>3. \A k \in KnownOf(e) : PastRead(e, k) /\ (Before(r, k) => Follows(r, k))
  <2> SUFFICES ASSUME NEW k \in KnownOf(e) PROVE PastRead(e, k) /\ (Before(r, k) => Follows(r, k))
    OBVIOUS
  <2>1. PastRead(e, k) /\ k \in Counted
    BY KnownType DEF ReadInv
  <2>2. Before(r, k) => k.served = r.served /\ k.jumps = r.jumps
    BY <1>1, <2>1 DEF PastRead, Before, Counted
  <2>3. Follows(k, r)
    BY <2>1 DEF PastRead
  <2> HIDE DEF r
  <2>4. /\ k.counter \in Nat /\ k.served \in Nat /\ r.counter \in Nat /\ r.served \in Nat
    BY <1>1, <2>1 DEF Counted
  <2>5. Before(r, k) => Follows(r, k)
    BY <2>2, <2>3, <2>4 DEF Follows
  <2> QED BY <2>1, <2>5
<1>4. PastRead(e, r)
  BY <1>1, <1>2 DEF PastRead
<1>5. PastRead(e, a)
  BY <1>3, <1>4
<1>6. Before(a, b) => Follows(a, b)
  <2>1. CASE a \in KnownOf(e) /\ b \in KnownOf(e)
    BY <2>1 DEF ReadInv
  <2>2. CASE a = r
    BY <1>2, <1>3, <2>2
  <2>3. CASE b = r
    BY <1>5, <2>3 DEF PastRead
  <2> QED BY <2>1, <2>2, <2>3
<1> QED BY <1>5, <1>6 DEF PastRead, Before, Follows, Metrics!Reading

\* What is known follows on a query, on a jump and on another box.
LEMMA ReadOn ==
  ASSUME Metrics!TelemetryAssumption, MetricsTypes, ReadInv, NEW f \in Metrics!Things,
         Metrics!Serve(f) \/ Metrics!Drop(f) \/ Metrics!Replace(f)
  PROVE  ReadInv'
<1>1. \A e \in Metrics!Things : KnownOf(e)' \subseteq KnownOf(e)
  <2>1. UNCHANGED <<col, samples>>
    BY DEF Metrics!Serve, Metrics!Drop, Metrics!Replace, Metrics!store
  <2>2. \A e \in Balancers : state'[e] = state[e] \/ state'[e] = Metrics!Nothing
    BY DEF Metrics!Serve, Metrics!Drop, Metrics!Replace
  <2> QED BY <2>1, <2>2 DEF KnownOf, Reads
<1>2. ASSUME NEW e \in Metrics!Things, NEW a \in KnownOf(e) PROVE PastRead(e, a)'
  <2>1. /\ a \in Counted /\ PastRead(e, a)
        /\ count[e] \in Nat /\ served[e] \in Nat /\ jumps[e] \in Nat /\ left[e] \in Nat
    BY KnownType DEF ReadInv, MetricsTypes
  <2>2. \/ /\ count'[e] = count[e] /\ served'[e] = served[e]
           /\ jumps'[e] = jumps[e] /\ left'[e] = left[e]
        \/ /\ count'[e] = count[e] + 1 /\ served'[e] = served[e] + 1
           /\ jumps'[e] = jumps[e] /\ left'[e] = left[e]
        \/ /\ served'[e] = served[e] /\ jumps'[e] = jumps[e] + 1
           /\ \E n \in Nat : count'[e] = n /\ left'[e] = n
    <3>1. CASE Metrics!Serve(f)
      BY <3>1 DEF Metrics!Serve, MetricsTypes
    <3>2. ASSUME NEW n \in Nat, Metrics!Jump(f, n), served' = served
          PROVE  \/ /\ count'[e] = count[e] /\ served'[e] = served[e]
                    /\ jumps'[e] = jumps[e] /\ left'[e] = left[e]
                 \/ /\ served'[e] = served[e] /\ jumps'[e] = jumps[e] + 1
                    /\ \E m \in Nat : count'[e] = m /\ left'[e] = m
      BY <3>2 DEF Metrics!Jump, MetricsTypes
    <3>3. {0} \cup 0 .. count[f] - 1 \subseteq Nat /\ 0 .. MaxQueries \subseteq Nat
      BY DEF MetricsTypes, Metrics!TelemetryAssumption
    <3>4. CASE Metrics!Drop(f) \/ Metrics!Replace(f)
      BY <3>2, <3>3, <3>4 DEF Metrics!Drop, Metrics!Replace
    <3> QED BY <3>1, <3>4
  <2>3. /\ a.counter \in Nat /\ a.served \in Nat /\ a.jumps \in Nat /\ a.left \in Nat
        /\ a.served <= served[e] /\ a.jumps <= jumps[e]
        /\ \/ a.jumps = jumps[e] /\ count[e] = a.counter + (served[e] - a.served)
           \/ a.jumps # jumps[e] /\ count[e] <= left[e] + (served[e] - a.served)
        /\ a.jumps = jumps[e] => a.left = left[e]
    BY <2>1 DEF PastRead, Before, Follows, Metrics!Reading, Counted
  <2>4. /\ a.served <= served'[e] /\ a.jumps <= jumps'[e]
        /\ \/ a.jumps = jumps'[e] /\ count'[e] = a.counter + (served'[e] - a.served)
           \/ a.jumps # jumps'[e] /\ count'[e] <= left'[e] + (served'[e] - a.served)
        /\ a.jumps = jumps'[e] => a.left = left'[e]
    BY <2>1, <2>2, <2>3
  <2> QED BY <2>4 DEF PastRead, Before, Follows, Metrics!Reading
<1>3. \A e \in Metrics!Things : \A a \in KnownOf(e)' : PastRead(e, a)'
  BY <1>1, <1>2
<1>4. \A e \in Metrics!Things : \A a, b \in KnownOf(e)' : Before(a, b) => Follows(a, b)
  BY <1>1 DEF ReadInv
<1> QED BY <1>3, <1>4 DEF ReadInv, Before, Follows

\* A row that is stored is over by what a jump left, at most.
LEMMA RateStored ==
  ASSUME Metrics!TelemetryAssumption, MetricsTypes, TimeInv, ReadInv, NEW e \in Metrics!Things, NEW at \in Nat,
         NEW reading \in KnownOf(e) \cup {Metrics!Nothing},
         LET x == Metrics!Sample(e, at, reading) IN x.rate # None /\ x.ordered
  PROVE  LET x == Metrics!Sample(e, at, reading) IN x.rate <= x.real + x.left
<1> DEFINE prev == Metrics!Newest(Metrics!RowsOf(e))
<1>1. Metrics!Comparable(e, at, reading.counter)
  BY DEF Metrics!Sample, Metrics!Rate
<1>2. prev \in samples /\ prev.id = e
  BY <1>1, NewestIn DEF Metrics!Comparable, Metrics!RowsOf
<1>3. prev.read \in KnownOf(e) /\ reading \in KnownOf(e)
  BY <1>1, <1>2 DEF Metrics!Comparable, KnownOf, Reads, Metrics!Nothing
<1> HIDE DEF prev
<1>4. Before(prev.read, reading)
  BY <1>1 DEF Metrics!Sample, Before, prev
<1>5. Follows(prev.read, reading)
  BY <1>3, <1>4 DEF ReadInv
<1>6. Metrics!Gained(prev.read.counter, reading.counter)
        <= (reading.served - prev.read.served)
           + (IF prev.read.jumps # reading.jumps THEN reading.left ELSE 0)
  BY <1>3, <1>4, <1>5, Counting, KnownType
<1> QED BY <1>1, <1>6 DEF Metrics!Sample, Metrics!Rate, prev

\* Whatever is answered, read, stored or replaced, later readings follow earlier ones.
LEMMA RateStep ==
  ASSUME Metrics!TelemetryAssumption, MetricsTypes, TimeInv, ReadInv, Metrics!RateWithin,
         [Metrics!Next]_(Metrics!vars)
  PROVE  ReadInv' /\ Metrics!RateWithin'
<1>1. CASE UNCHANGED Metrics!vars
  <2>1. \A e \in Metrics!Things : KnownOf(e)' = KnownOf(e)
    BY <1>1 DEF Metrics!vars, Metrics!counters, KnownOf, Reads
  <2> QED BY <1>1, <2>1, ReadNow DEF Metrics!vars, Metrics!RateWithin
<1>2. ASSUME NEW c \in Collectors, Metrics!Collect(c) PROVE ReadInv' /\ Metrics!RateWithin'
  <2>1. \A e \in Metrics!Things : KnownOf(e)' \subseteq KnownOf(e)
    <3>1. \A d \in Collectors : d # c => col'[d] = col[d]
      BY <1>2 DEF Metrics!Collect, MetricsTypes
    <3>2. \A e \in DOMAIN col'[c].got : col'[c].got[e] = Metrics!Nothing
      BY <1>2 DEF Metrics!Collect, MetricsTypes, Metrics!Asking
    <3> QED BY <1>2, <3>1, <3>2 DEF Metrics!Collect, KnownOf, Reads, Metrics!world, Metrics!counters,
               Metrics!store
  <2> QED BY <1>2, <2>1, ReadNow DEF Metrics!Collect, Metrics!world, Metrics!counters, Metrics!store,
             Metrics!RateWithin
<1>3. ASSUME NEW c \in Collectors, NEW s \in Sampled, Metrics!Answer(c, s)
      PROVE  ReadInv' /\ Metrics!RateWithin'
  <2>1. \A e \in Metrics!Things : KnownOf(e)' \subseteq KnownOf(e) \cup {Metrics!Reading(e)}
    <3>1. \A d \in Collectors : d # c => col'[d] = col[d]
      BY <1>3 DEF Metrics!Answer, MetricsTypes
    <3>2. Underway(col[c])
      BY <1>3, UnderwayIs DEF Metrics!Answer
    <3>3. /\ DOMAIN col'[c].got = DOMAIN col[c].got /\ col'[c].pc = col[c].pc
          /\ \A e \in DOMAIN col[c].got :
               col'[c].got[e] = col[c].got[e] \/ col'[c].got[e] \in {Metrics!Reading(e), Metrics!Nothing}
      BY <1>3, <3>2 DEF Metrics!Answer, MetricsTypes, Underway, Metrics!Asking
    <3>4. samples' = samples /\ state' = state
      BY <1>3 DEF Metrics!Answer, Metrics!world, Metrics!counters, Metrics!store
    <3> SUFFICES ASSUME NEW e \in Metrics!Things, NEW a \in KnownOf(e)'
                 PROVE  a \in KnownOf(e) \cup {Metrics!Reading(e)}
      OBVIOUS
    <3>5. CASE \E d \in Collectors \ {c} :
                 col'[d].pc = "ask" /\ e \in DOMAIN col'[d].got /\ a = col'[d].got[e]
      BY <3>1, <3>5 DEF KnownOf, Reads
    <3>6. CASE col'[c].pc = "ask" /\ e \in DOMAIN col'[c].got /\ a = col'[c].got[e]
      BY <3>3, <3>6 DEF KnownOf, Reads
    <3>7. CASE (\E x \in samples : x.id = e /\ a = x.read) \/ (e \in Balancers /\ a = state[e])
      BY <3>7 DEF KnownOf, Reads
    <3> QED BY <3>4, <3>5, <3>6, <3>7 DEF KnownOf, Reads
  <2> QED BY <1>3, <2>1, ReadNow DEF Metrics!Answer, Metrics!world, Metrics!counters, Metrics!store,
             Metrics!RateWithin
<1>4. ASSUME NEW c \in Collectors, Metrics!Store(c) PROVE ReadInv' /\ Metrics!RateWithin'
  <2>1. Underway(col[c]) /\ col[c].at \in Nat /\ col[c].pc = "ask"
    BY <1>4, UnderwayIs DEF Metrics!Store
  <2>2. \A e \in Metrics!Stored(c) :
          e \in Metrics!Things /\ col[c].got[e] \in KnownOf(e) \cup {Metrics!Nothing}
    BY <2>1 DEF Metrics!Stored, KnownOf, Reads, Underway, Metrics!Things
  <2>3. \A e \in Metrics!Found : e \in Metrics!Things /\ state[e] \in KnownOf(e) \cup {Metrics!Nothing}
    BY DEF Metrics!Found, KnownOf, Reads, Metrics!Things
  <2>4. \A x \in samples' : x \in samples \/ \E e \in Metrics!Things : \E r \in KnownOf(e) \cup {Metrics!Nothing} :
                                                x = Metrics!Sample(e, col[c].at, r)
    BY <1>4, <2>2, <2>3, Storing
  <2>5. Metrics!RateWithin'
    BY <2>1, <2>4, RateStored DEF Metrics!RateWithin
  <2>6. \A e \in Metrics!Things : KnownOf(e)' \subseteq KnownOf(e)
    <3>1. \A e, r : Metrics!Sample(e, col[c].at, r).id = e /\ Metrics!Sample(e, col[c].at, r).read = r
      BY DEF Metrics!Sample
    <3>2. \A d \in Collectors : col'[d].pc = "ask" => col'[d] = col[d]
      BY <1>4 DEF Metrics!Store, MetricsTypes, Metrics!Resting
    <3>3. state' = state
      BY <1>4 DEF Metrics!Store, Metrics!world, Metrics!counters
    <3>4. \A x \in samples' : x.read # Metrics!Nothing => x.read \in KnownOf(x.id)
      BY <2>4, <3>1 DEF KnownOf, Reads
    <3> QED BY <3>2, <3>3, <3>4 DEF KnownOf, Reads
  <2> QED BY <1>4, <2>5, <2>6, ReadNow DEF Metrics!Store, Metrics!world, Metrics!counters
<1>5. CASE Metrics!Tick
  <2>1. \A e \in Metrics!Things : KnownOf(e)' = KnownOf(e)
    BY <1>5 DEF Metrics!Tick, Metrics!store, Metrics!world, Metrics!counters, KnownOf, Reads
  <2> QED BY <1>5, <2>1, ReadNow DEF Metrics!Tick, Metrics!store, Metrics!world, Metrics!counters,
             Metrics!RateWithin
<1>6. ASSUME NEW e \in Metrics!Things,
             Metrics!Serve(e) \/ Metrics!Drop(e) \/ Metrics!Replace(e)
      PROVE  ReadInv' /\ Metrics!RateWithin'
  <2>1. samples' = samples
    BY <1>6 DEF Metrics!Serve, Metrics!Drop, Metrics!Replace, Metrics!store
  <2> QED BY <1>6, <2>1, ReadOn DEF Metrics!RateWithin
<1>7. ASSUME NEW e \in Metrics!Things, Metrics!EditRow(e)
      PROVE  ReadInv' /\ Metrics!RateWithin'
  <2>1. \A f \in Metrics!Things : KnownOf(f)' = KnownOf(f)
    BY <1>7 DEF Metrics!EditRow, Metrics!store, KnownOf, Reads
  <2> QED BY <1>7, <2>1, ReadNow DEF Metrics!EditRow, Metrics!store, Metrics!RateWithin
<1>8. ASSUME NEW b \in Balancers, Metrics!HostPass(b) PROVE ReadInv' /\ Metrics!RateWithin'
  <2>1. \A e \in Metrics!Things : KnownOf(e)' \subseteq KnownOf(e) \cup {Metrics!Reading(e)}
    <3>1. \A e \in Balancers : state'[e] = state[e] \/ state'[e] \in {Metrics!Reading(e), Metrics!Nothing}
      BY <1>8 DEF Metrics!HostPass, MetricsTypes
    <3> QED BY <1>8, <3>1 DEF Metrics!HostPass, Metrics!store, KnownOf, Reads
  <2> QED BY <1>8, <2>1, ReadNow DEF Metrics!HostPass, Metrics!store, Metrics!RateWithin
<1>9. CASE Metrics!Restart
  <2>1. \A e \in Metrics!Things : KnownOf(e)' \subseteq KnownOf(e)
    BY <1>9 DEF Metrics!Restart, Metrics!Resting, KnownOf, Reads
  <2> QED BY <1>9, <2>1, ReadNow DEF Metrics!Restart, Metrics!RateWithin
<1> QED BY <1>1, <1>2, <1>3, <1>4, <1>5, <1>6, <1>7, <1>8, <1>9 DEF Metrics!Next, Metrics!Collecting, Metrics!Around, Serving

\* No rate between two rows that were read in the order of their time stamps counts
\* more than what was answered in between and what the last jump in between left of the
\* counter, though counters start again or lose a part, rows come to stand for other
\* boxes, servers do not answer, and collections overlap: of a counter that only ever
\* starts again at 0, no query is counted twice.  (telemetry.py rate over the rows of
\* a thing)
THEOREM RatesTrue ==
  Metrics!Spec => []RateWithin
<1>1. Metrics!Init => RateInv
  <2> SUFFICES ASSUME Metrics!Init PROVE RateInv
    OBVIOUS
  <2>1. MetricsTypes
    BY DEF Metrics!Init, MetricsTypes, Readings
  <2>2. TimeInv
    BY DEF Metrics!Init, TimeInv, Metrics!Resting
  <2>3. ReadInv
    BY DEF Metrics!Init, ReadInv, KnownOf, Reads, Metrics!Resting
  <2> QED BY <2>1, <2>2, <2>3 DEF Metrics!Init, RateInv, Metrics!RateWithin
<1>2. RateInv /\ [Metrics!Next]_(Metrics!vars) => RateInv'
  BY MetricsAssumption, MetricsTyped, TimesKept, RateStep DEF RateInv
<1>3. RateInv => RateWithin
  BY DEF RateWithin, RateInv
<1> QED BY <1>1, <1>2, <1>3, PTL DEF Metrics!Spec
=============================================================================
