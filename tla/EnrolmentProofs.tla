--------------------------- MODULE EnrolmentProofs ---------------------------
(***************************************************************************)
(* Proofs about Enrolment, for every set of tokens, ids and keys, and any  *)
(* bound on requests, faults and months.  EnrolmentAssumption says what    *)
(* those sets are.                                                         *)
(*                                                                         *)
(* The three properties rest on different parts of one invariant.  UsedInv *)
(* follows a token through the commits of its enrolment: what has not been *)
(* committed yet has no rows, and what has no longer looks pending.        *)
(* FilesInv says that an enrolment has the box for itself, MatchInv that   *)
(* a single install leaves a pair that matches but between its two writes, *)
(* and FreshInv that whoever is about to record a fresh certificate has put *)
(* one in place, on disk and in memory.  KeyInv and IdInv are there for the *)
(* types: a new key and a new id can always be found.                      *)
(***************************************************************************)
EXTENDS Enrolment, FiniteSetTheorems, WellFoundedInduction, TLAPS

\* No row of a table is of token t; more than one is.
Unused(t, tab) == \A i \in Rows(tab) : rows[tab][i].by # t
Doubled(t, tab) == \E i, j \in Rows(tab) : i # j /\ rows[tab][i].by = t /\ rows[tab][j].by = t

\* A token that can be used, or that is about to be, has no rows yet.
UsedInv ==
  \A t \in Tokens \ torn :
    /\ ~Twice(t)
    /\ enrol # Idle /\ enrol.token = t =>
         /\ At("host") => \A tab \in Tables : Unused(t, tab)
         /\ At("roles") => Unused(t, "server") /\ Unused(t, "balancer")
    /\ token[t] \in {"none", "pending"} =>
         \/ enrol # Idle /\ enrol.token = t /\ enrol.at \in {"roles", "token"}
         \/ \A tab \in Tables : Unused(t, tab)

\* One enrolment at a time, so that there is an id for the host it is about to make.
IdInv == At("host") => Free("host") # {}

\* An agent that is ready has its files; one that enrols is not.
FilesInv ==
  /\ Up => box.ready
  /\ box.ready => box.key # None /\ box.cert # None
  /\ ~Up => \A r \in Renewals : put[r] = Idle
  /\ enrol # Idle =>
       /\ ~box.ready
       /\ ~At("config") => box.cert = None
       /\ enrol.at \in {"cert", "config"} => box.key = enrol.key
       /\ At("config") => box.cert = Cert(enrol.key)

\* An install is answered to who asked for it, unless he has given up.
KeyInv ==
  \A r \in Renewals :
    put[r] # Idle => \/ renewal[r] = Idle
                     \/ renewal[r].at = "wait" /\ renewal[r].key = put[r].key

\* Unless installs were mixed there is one, and key and certificate match but
\* between its two writes.
MatchInv ==
  ~mixed =>
    /\ \A r, q \in Renewals : put[r] # Idle /\ put[q] # Idle => r = q
    /\ \A r \in Renewals : Installing(r, "cert") => box.key = put[r].key
    /\ box.ready /\ (\A r \in Renewals : ~Installing(r, "cert")) => Boots(box)

IsDue(c) == c # None /\ c.due

\* A row looks fresh only to who has put a fresh certificate in place.
FreshInv ==
  /\ (\E h \in Rows("host") : ~rows["host"][h].due) => ~IsDue(box.cert) /\ ~IsDue(box.holder)
  /\ enrol # Idle => ~IsDue(box.cert)
  /\ \A r \in Renewals :
       /\ put[r].at \in {"key", "cert", "clear"} => ~IsDue(box.holder)
       /\ Installing(r, "clear") \/ Renewing(r, "record") =>
            ~IsDue(box.cert) /\ ~IsDue(box.holder)

IInv == TypeOK /\ UsedInv /\ IdInv /\ FilesInv /\ KeyInv /\ MatchInv /\ FreshInv
-----------------------------------------------------------------------------
\* The rows of a table.
LEMMA RowsFact ==
  ASSUME TypeOK, NEW tab \in Tables
  PROVE  Rows(tab) \subseteq Ids /\ rows[tab] \in [Rows(tab) -> RowType]
BY DEF TypeOK, TableType, Rows

\* A table that is changed.
LEMMA Changing ==
  ASSUME TypeOK, NEW tab \in Tables, NEW I \in SUBSET Ids, NEW f \in [I -> RowType],
         rows' = [rows EXCEPT ![tab] = f]
  PROVE  /\ rows' \in [Tables -> TableType] /\ DOMAIN rows'[tab] = I /\ rows'[tab] = f
         /\ \A u \in Tables \ {tab} : rows'[u] = rows[u]
<1>1. f \in TableType
  BY DEF TableType
<1> QED BY <1>1 DEF TypeOK

\* The least number of a set.
LEMMA Least ==
  ASSUME NEW S \in SUBSET Nat, S # {}
  PROVE  \E i \in S : \A j \in S : i <= j
<1>1. PICK i \in S : \A j \in S : ~(<<j, i>> \in OpToRel(<, Nat))
  BY NatLessThanWellFounded, WFMin
<1>2. \A j \in S : ~(j < i)
  BY <1>1 DEF OpToRel
<1> QED BY <1>2

\* An id that is free can be found.
LEMMA NextIdIn ==
  ASSUME EnrolmentAssumption, TypeOK, NEW tab \in Tables, Free(tab) # {}
  PROVE  NextId(tab) \in Ids
<1>1. Free(tab) \in SUBSET Nat /\ Free(tab) \subseteq Ids
  BY DEF Free, EnrolmentAssumption
<1> QED BY <1>1, Least DEF NextId

\* A row is added.
LEMMA Adding ==
  ASSUME EnrolmentAssumption, TypeOK, NEW tab \in Tables, NEW r \in RowType, NextId(tab) \in Ids
  PROVE  LET I == Rows(tab) \cup {NextId(tab)}
         IN  I \in SUBSET Ids /\ Add(tab, r) \in [I -> RowType]
BY RowsFact DEF Add

\* A new key can be found: the box holds four, and each renewal another one.
LEMMA NewKeyIn ==
  ASSUME EnrolmentAssumption, TypeOK, KeyInv
  PROVE  NewKey \in Keys
<1> DEFINE four == {box.key, box.pending, KeyOf(box.cert), KeyOf(box.holder)}
           k(r) == IF put[r] # Idle THEN put[r].key ELSE renewal[r].key
           rest == {k(r) : r \in Renewals}
<1>1. IsFiniteSet(Renewals) /\ Cardinality(Renewals) <= Cardinality(Ids) + 1
  <2>1. IsFiniteSet(Ids)
    BY DEF EnrolmentAssumption
  <2>2. /\ IsFiniteSet(Ids \cup {Route})
        /\ Cardinality(Ids \cup {Route}) =
             IF Route \in Ids THEN Cardinality(Ids) ELSE Cardinality(Ids) + 1
    BY <2>1, FS_AddElement
  <2>3. Cardinality(Ids) \in Nat
    BY <2>1, FS_CardinalityType
  <2> QED BY <2>2, <2>3 DEF Renewals
<1>2. IsFiniteSet(rest) /\ Cardinality(rest) <= Cardinality(Renewals)
  <2> DEFINE f == [r \in Renewals |-> k(r)]
  <2>1. f \in Surjection(Renewals, rest)
    BY DEF Surjection
  <2> HIDE DEF f, rest, k
  <2> QED BY <1>1, <2>1, FS_Surjection
<1>3. IsFiniteSet(four) /\ Cardinality(four) <= 4
  <2>1. \A a, S : IsFiniteSet(S) =>
                    IsFiniteSet(S \cup {a}) /\ Cardinality(S \cup {a}) <= Cardinality(S) + 1
    <3> TAKE a, S
    <3> HAVE IsFiniteSet(S)
    <3>1. Cardinality(S) \in Nat
      BY FS_CardinalityType
    <3> QED BY <3>1, FS_AddElement
  <2>2. IsFiniteSet({}) /\ Cardinality({}) = 0
    BY FS_EmptySet
  <2> DEFINE A == {} \cup {box.key}
             B == A \cup {box.pending}
             C == B \cup {KeyOf(box.cert)}
             D == C \cup {KeyOf(box.holder)}
  <2>3. /\ IsFiniteSet(A) /\ IsFiniteSet(B) /\ IsFiniteSet(C) /\ IsFiniteSet(D)
        /\ Cardinality(A) <= Cardinality({}) + 1 /\ Cardinality(B) <= Cardinality(A) + 1
        /\ Cardinality(C) <= Cardinality(B) + 1 /\ Cardinality(D) <= Cardinality(C) + 1
    <3>1. IsFiniteSet(A) /\ Cardinality(A) <= Cardinality({}) + 1
      BY <2>1, <2>2
    <3>2. IsFiniteSet(B) /\ Cardinality(B) <= Cardinality(A) + 1
      <4> HIDE DEF A
      <4> QED BY <2>1, <3>1
    <3>3. IsFiniteSet(C) /\ Cardinality(C) <= Cardinality(B) + 1
      <4> HIDE DEF B
      <4> QED BY <2>1, <3>2
    <3>4. IsFiniteSet(D) /\ Cardinality(D) <= Cardinality(C) + 1
      <4> HIDE DEF C
      <4> QED BY <2>1, <3>3
    <3> QED BY <3>1, <3>2, <3>3, <3>4
  <2>4. D = four
    OBVIOUS
  <2> HIDE DEF A, B, C, D
  <2>5. /\ Cardinality(A) \in Nat /\ Cardinality(B) \in Nat
        /\ Cardinality(C) \in Nat /\ Cardinality(D) \in Nat
    BY <2>3, FS_CardinalityType
  <2>6. IsFiniteSet(D) /\ Cardinality(D) <= 4
    BY <2>2, <2>3, <2>5
  <2> QED BY <2>4, <2>6
<1>4. InUse \subseteq four \cup rest
  <2>1. ASSUME NEW r \in Renewals, renewal[r].at \in {"put", "wait", "record"}
        PROVE  renewal[r].key = k(r)
    BY <2>1 DEF KeyInv, Idle
  <2>2. ASSUME NEW r \in Renewals, put[r] # Idle
        PROVE  put[r].key = k(r)
    BY <2>2
  <2> HIDE DEF k, four
  <2>3. {renewal[r].key : r \in {r \in Renewals : renewal[r].at \in {"put", "wait", "record"}}}
          \subseteq rest
    BY <2>1
  <2>4. {put[r].key : r \in {r \in Renewals : put[r] # Idle}} \subseteq rest
    BY <2>2
  <2>5. InUse =
          four
          \cup {renewal[r].key : r \in {r \in Renewals : renewal[r].at \in {"put", "wait", "record"}}}
          \cup {put[r].key : r \in {r \in Renewals : put[r] # Idle}}
    BY DEF InUse, four
  <2> HIDE DEF rest
  <2> QED BY <2>3, <2>4, <2>5
<1> HIDE DEF four, rest
<1>5. /\ IsFiniteSet(four \cup rest)
      /\ Cardinality(four \cup rest) <= Cardinality(four) + Cardinality(rest)
  <2>1. /\ IsFiniteSet(four \cup rest)
        /\ Cardinality(four \cup rest) =
             Cardinality(four) + Cardinality(rest) - Cardinality(four \cap rest)
    BY <1>2, <1>3, FS_Union
  <2>2. IsFiniteSet(four \cap rest)
    BY <1>3, FS_Subset
  <2>3. /\ Cardinality(four) \in Nat /\ Cardinality(rest) \in Nat
        /\ Cardinality(four \cap rest) \in Nat
    BY <1>2, <1>3, <2>2, FS_CardinalityType
  <2> QED BY <2>1, <2>3
<1>6. IsFiniteSet(InUse) /\ Cardinality(InUse) <= Cardinality(Ids) + 5
  <2>1. IsFiniteSet(InUse) /\ Cardinality(InUse) <= Cardinality(four \cup rest)
    BY <1>4, <1>5, FS_Subset
  <2>2. /\ Cardinality(InUse) \in Nat /\ Cardinality(four) \in Nat /\ Cardinality(rest) \in Nat
        /\ Cardinality(Renewals) \in Nat /\ Cardinality(four \cup rest) \in Nat
        /\ Cardinality(Ids) \in Nat
    BY <2>1, <1>1, <1>2, <1>3, <1>5, FS_CardinalityType DEF EnrolmentAssumption
  <2> QED BY <2>1, <2>2, <1>1, <1>2, <1>3, <1>5
<1>7. Keys \ InUse # {}
  <2> SUFFICES ASSUME Keys \subseteq InUse PROVE FALSE
    OBVIOUS
  <2>1. IsFiniteSet(Keys) /\ Cardinality(Keys) <= Cardinality(InUse)
    BY <1>6, FS_Subset
  <2>2. Cardinality(Keys) \in Nat /\ Cardinality(InUse) \in Nat /\ Cardinality(Ids) \in Nat
    BY <2>1, <1>6, FS_CardinalityType DEF EnrolmentAssumption
  <2> QED BY <1>6, <2>1, <2>2 DEF EnrolmentAssumption
<1>8. Keys \ InUse \in SUBSET Nat
  BY DEF EnrolmentAssumption
<1> QED BY <1>7, <1>8, Least DEF NewKey
-----------------------------------------------------------------------------
\* Rows go, or change in part, but none is added and none comes by another token.
Thinned ==
  /\ rows' \in [Tables -> TableType]
  /\ \A tab \in Tables : \A i \in DOMAIN rows'[tab] :
       i \in Rows(tab) /\ rows'[tab][i].by = rows[tab][i].by

\* Nor does one that looks due come to look fresh.
Undated ==
  \A i \in DOMAIN rows'["host"] :
    i \in Rows("host") /\ rows'["host"][i].due = rows["host"][i].due

\* Rows that rest are thinned.
LEMMA Resting == TypeOK /\ UNCHANGED rows => Thinned /\ Undated
BY RowsFact DEF TypeOK, Thinned, Undated, Rows, Tables

\* A table with fewer rows, or with rows changed in part, is thinned.
LEMMA Thinning ==
  ASSUME TypeOK, NEW tab \in Tables, NEW f, f \in [DOMAIN f -> RowType],
         \A i \in DOMAIN f : i \in Rows(tab) /\ f[i].by = rows[tab][i].by,
         rows' = [rows EXCEPT ![tab] = f]
  PROVE  Thinned /\ (tab # "host" \/ (\A i \in DOMAIN f : f[i].due = rows[tab][i].due) => Undated)
<1>1. DOMAIN f \in SUBSET Ids
  BY RowsFact
<1>2. /\ rows' \in [Tables -> TableType] /\ rows'[tab] = f
      /\ \A u \in Tables \ {tab} : rows'[u] = rows[u]
  BY <1>1, Changing
<1> QED BY <1>2 DEF Thinned, Undated, Rows, Tables

\* What deletions, renewals and months do to the rows.
LEMMA ThinningSteps ==
  ASSUME TypeOK
  PROVE  /\ Detach \/ Drop \/ Forget => Thinned /\ Undated
         /\ (\E r \in Renewals : Record(r)) \/ Age => Thinned
<1>0. \A tab \in Tables : \A i \in Rows(tab) : rows[tab][i] \in RowType
  BY RowsFact
<1>t. {"host", "server", "balancer"} \subseteq Tables
  BY DEF Tables
<1>1. CASE Detach
  <2> DEFINE old == rows["server"]
             f == [i \in DOMAIN old |->
                     IF i \in op.servers THEN [old[i] EXCEPT !.host = None] ELSE old[i]]
  <2>1. \A i \in Rows("server") : /\ [old[i] EXCEPT !.host = None] \in RowType
                                  /\ [old[i] EXCEPT !.host = None].by = old[i].by
    BY <1>0, <1>t DEF RowType
  <2>2. /\ f \in [DOMAIN f -> RowType]
        /\ \A i \in DOMAIN f : i \in Rows("server") /\ f[i].by = rows["server"][i].by
    BY <1>0, <1>t, <2>1 DEF Rows
  <2>3. rows' = [rows EXCEPT !["server"] = f]
    BY <1>1, <1>t DEF Detach, TypeOK
  <2> HIDE DEF f
  <2>4. "server" \in Tables /\ "server" # "host"
    BY <1>t
  <2> QED BY <2>2, <2>3, <2>4, Thinning
<1>2. ASSUME NEW tab \in Tables, NEW ids, rows' = [rows EXCEPT ![tab] = Without(tab, ids)]
      PROVE  Thinned /\ Undated
  <2> DEFINE f == Without(tab, ids)
  <2>1. /\ f \in [DOMAIN f -> RowType]
        /\ \A i \in DOMAIN f : i \in Rows(tab) /\ f[i].by = rows[tab][i].by
    BY <1>0 DEF Without
  <2>2. \A i \in DOMAIN f : f[i].due = rows[tab][i].due
    BY <1>0 DEF Without
  <2>3. rows' = [rows EXCEPT ![tab] = f]
    BY <1>2
  <2> HIDE DEF f
  <2> QED BY <2>1, <2>2, <2>3, Thinning
<1>3. CASE Drop
  BY <1>2, <1>3, <1>t, Resting DEF Drop
<1>4. CASE Forget
  BY <1>2, <1>4, <1>t, Resting DEF Forget
<1>5. ASSUME NEW r \in Renewals, Record(r) PROVE Thinned
  <2> DEFINE h == renewal[r].host
             old == rows["host"]
             f == [old EXCEPT ![h] = [old[h] EXCEPT !.due = FALSE]]
  <2>1. CASE h \in Rows("host")
    <3>1. [old[h] EXCEPT !.due = FALSE] \in RowType /\ [old[h] EXCEPT !.due = FALSE].by = old[h].by
      BY <1>0, <1>t, <2>1 DEF RowType
    <3>2. /\ f \in [DOMAIN f -> RowType]
        /\ \A i \in DOMAIN f : i \in Rows("host") /\ f[i].by = rows["host"][i].by
      BY <1>t, <3>1, RowsFact
    <3>3. rows' = [rows EXCEPT !["host"] = f]
      BY <1>5, <1>t, <2>1 DEF Record, TypeOK
    <3> HIDE DEF f
    <3> QED BY <1>t, <3>2, <3>3, Thinning
  <2> QED BY <1>5, <2>1, Resting DEF Record
<1>6. ASSUME Age PROVE Thinned
  <2> DEFINE old == rows["host"]
             f == [i \in DOMAIN old |-> [old[i] EXCEPT !.due = TRUE]]
  <2>1. \A i \in Rows("host") : /\ [old[i] EXCEPT !.due = TRUE] \in RowType
                                /\ [old[i] EXCEPT !.due = TRUE].by = old[i].by
    BY <1>0, <1>t DEF RowType
  <2>2. /\ f \in [DOMAIN f -> RowType]
        /\ \A i \in DOMAIN f : i \in Rows("host") /\ f[i].by = rows["host"][i].by
    BY <2>1 DEF Rows
  <2>3. rows' = [rows EXCEPT !["host"] = f]
    BY <1>6, <1>t DEF Age, TypeOK
  <2> HIDE DEF f
  <2> QED BY <1>t, <2>2, <2>3, Thinning
<1> QED BY <1>1, <1>3, <1>4, <1>5, <1>6
-----------------------------------------------------------------------------
\* A counter stays under its bound.
Counters ==
  /\ requests \in 0 .. MaxRequests /\ faults \in 0 .. MaxFaults /\ ages \in 0 .. MaxAges

LEMMA Counting ==
  ASSUME EnrolmentAssumption, TypeOK,
         Request \/ Fault \/ UNCHANGED bounds
           \/ (ages < MaxAges /\ ages' = ages + 1 /\ UNCHANGED <<requests, faults>>)
  PROVE  Counters'
BY DEF EnrolmentAssumption, TypeOK, Counters, Request, Fault, bounds

\* What is at rest, and what an enrolment and a certificate are made of.
LEMMA RecordTypes ==
  ASSUME EnrolmentAssumption
  PROVE  /\ Idle.at = "idle"
         /\ \A e \in EnrolType : e # Idle /\ e.at # "idle"
         /\ \A o \in OpType : o # Idle /\ o.at # "idle"
         /\ \A n \in RenewalType : n # Idle /\ n.at # "idle"
         /\ \A p \in PutType : p # Idle /\ p.at # "idle"
         /\ NoRefs \in RefsType
         /\ \A k \in Keys : Cert(k) \in CertType
         /\ Blank \in BoxType
         /\ Old(None) = None
         /\ \A c \in CertType : Old(c) \in CertType /\ Old(c).key = c.key
<1>1. /\ \A e \in EnrolType : e # Idle /\ e.at # "idle"
      /\ \A n \in RenewalType : n # Idle /\ n.at # "idle"
      /\ \A p \in PutType : p # Idle /\ p.at # "idle"
      /\ Idle.at = "idle"
  BY DEF Idle, EnrolType, RenewalType, PutType
<1>2. \A o \in OpType : o # Idle /\ o.at # "idle"
  BY DEF Idle, OpType
<1>3. NoRefs \in RefsType
  BY DEF NoRefs, RefsType
<1>4. /\ \A k \in Keys : Cert(k) \in CertType
      /\ Blank \in BoxType
  BY DEF Cert, CertType, Blank, BoxType
<1>5. ASSUME NEW c \in CertType PROVE Old(c) \in CertType /\ Old(c).key = c.key
  BY DEF Old, CertType, EnrolmentAssumption
<1>6. Old(None) = None
  BY DEF Old
<1> QED BY <1>1, <1>2, <1>3, <1>4, <1>5, <1>6

\* Tokens.
LEMMA TypeTokens ==
  ASSUME EnrolmentAssumption, TypeOK,
         Revoke \/ \E t \in Tokens : Issue(t) \/ Expire(t) \/ AskRevoke(t) \/ DeleteToken(t)
  PROVE  TypeOK'
<1>1. Counters'
  BY Counting DEF Revoke, Issue, Expire, AskRevoke, DeleteToken, bounds
<1>2. rows' = rows /\ enrol' = enrol /\ renewal' = renewal /\ put' = put /\ box' = box
      /\ torn' = torn /\ mixed' = mixed
  BY DEF Revoke, Issue, Expire, AskRevoke, DeleteToken
<1>3. token' \in [Tokens -> Statuses]
  BY DEF TypeOK, Statuses, Revoke, Issue, Expire, AskRevoke, DeleteToken
<1>4. refs' \in [Tokens -> RefsType]
  BY RecordTypes DEF TypeOK, Revoke, Issue, Expire, AskRevoke, DeleteToken
<1>5. op' \in OpType \cup {Idle}
  BY DEF TypeOK, OpType, Revoke, Issue, Expire, AskRevoke, DeleteToken
<1> QED BY <1>1, <1>2, <1>3, <1>4, <1>5 DEF TypeOK, Counters

\* The enrolment.
LEMMA TypeEnrolling ==
  ASSUME EnrolmentAssumption, TypeOK, KeyInv, IdInv,
         Enrolling \/ Interrupt \/ \E t \in Tokens : Enrol(t)
  PROVE  TypeOK'
<1>1. Counters'
  BY Counting DEF Enrolling, Interrupt, Enrol, AddHost, AddRoles, Complete, SaveKey, SaveCert,
                  SaveConfig, bounds
<1>2. op' = op /\ renewal' = renewal /\ put' = put /\ mixed' = mixed
  BY DEF Enrolling, Interrupt, Enrol, AddHost, AddRoles, Complete, SaveKey, SaveCert, SaveConfig
<1> DEFINE Rest == /\ token' \in [Tokens -> Statuses] /\ refs' \in [Tokens -> RefsType]
                   /\ rows' \in [Tables -> TableType] /\ enrol' \in EnrolType \cup {Idle}
                   /\ box' \in BoxType /\ torn' \subseteq Tokens
<1> SUFFICES Rest
  BY <1>1, <1>2 DEF TypeOK, Counters
<1>a. enrol # Idle => /\ enrol \in EnrolType
                      /\ enrol.token \in Tokens /\ enrol.key \in Keys /\ enrol.made \in RefsType
  BY DEF TypeOK, EnrolType
<1>b. \A stage \in {"host", "roles", "token", "answer", "cert", "config"} :
        At(stage) => enrol # Idle
  BY RecordTypes DEF At
<1>c. \A stage \in {"host", "roles", "token", "answer", "cert", "config"} :
        enrol # Idle => [enrol EXCEPT !.at = stage] \in EnrolType
  BY <1>a DEF EnrolType
<1>2a. CASE \E t \in Tokens : Enrol(t)
  <2>1. PICK t \in Tokens : Enrol(t)
    BY <1>2a
  <2>2. enrol' \in EnrolType
    BY <2>1, NewKeyIn, RecordTypes DEF Enrol, EnrolType
  <2> QED BY <2>1, <2>2 DEF Enrol, TypeOK
<1>3. CASE AddHost
  <2>1. enrol # Idle /\ NextId("host") \in Ids /\ "host" \in Tables
    BY <1>3, <1>b, NextIdIn DEF AddHost, IdInv, Tables
  <2> DEFINE r == Row(enrol.token, None)
             I == Rows("host") \cup {NextId("host")}
  <2>2. r \in RowType
    BY <1>a, <2>1 DEF Row, RowType
  <2>3. I \in SUBSET Ids /\ Add("host", r) \in [I -> RowType]
    <3> HIDE DEF r
    <3> QED BY <2>1, <2>2, Adding
  <2>4. rows' = [rows EXCEPT !["host"] = Add("host", r)]
    BY <1>3 DEF AddHost
  <2>5. rows' \in [Tables -> TableType]
    <3> HIDE DEF r, I
    <3> QED BY <2>1, <2>3, <2>4, Changing
  <2>6. enrol' \in EnrolType
    <3>1. [enrol.made EXCEPT !["host"] = NextId("host")] \in RefsType
      BY <1>a, <2>1 DEF RefsType
    <3>2. enrol' = [enrol EXCEPT !.at = "roles",
                                 !.made = [enrol.made EXCEPT !["host"] = NextId("host")]]
      BY <1>3, <1>a, <2>1 DEF AddHost, EnrolType
    <3> QED BY <1>a, <2>1, <3>1, <3>2 DEF EnrolType
  <2> QED BY <1>3, <2>5, <2>6 DEF AddHost, TypeOK
<1>4. CASE AddRoles
  <2>1. enrol # Idle
    BY <1>4, <1>b DEF AddRoles
  <2>2. CASE Fail
    BY <1>4, <1>a, <2>1, <2>2 DEF AddRoles, Fail, TypeOK
  <2>3. CASE ~Fail
    <3> DEFINE asked == Roles[enrol.token]
               row == Row(enrol.token, enrol.made["host"])
               made == [tab \in Tables |-> IF tab \in asked THEN NextId(tab) ELSE enrol.made[tab]]
    <3>1. /\ \A tab \in asked : Free(tab) # {}
          /\ rows' = [tab \in Tables |-> IF tab \in asked THEN Add(tab, row) ELSE rows[tab]]
          /\ enrol' = [enrol EXCEPT !.at = "token", !.made = made]
          /\ UNCHANGED <<token, refs, torn, box>>
      BY <1>4, <2>3 DEF AddRoles
    <3>2. asked \subseteq Tables
      BY <1>a, <2>1 DEF EnrolmentAssumption, Tables
    <3>3. row \in RowType
      BY <1>a, <2>1 DEF Row, RowType, RefsType, Tables
    <3> HIDE DEF row, asked
    <3>4. \A tab \in asked : NextId(tab) \in Ids
      BY <3>1, <3>2, NextIdIn
    <3>5. \A tab \in asked : Add(tab, row) \in TableType
      BY <3>2, <3>3, <3>4, Adding DEF TableType
    <3>6. rows' \in [Tables -> TableType]
      BY <3>1, <3>5 DEF TypeOK
    <3>7. made \in RefsType
      BY <1>a, <2>1, <3>4 DEF RefsType
    <3> HIDE DEF made
    <3>8. enrol' \in EnrolType
      BY <1>a, <2>1, <3>1, <3>7 DEF EnrolType
    <3> QED BY <3>1, <3>6, <3>8 DEF TypeOK
  <2> QED BY <2>2, <2>3
<1>5. CASE Complete
  <2>1. enrol # Idle
    BY <1>5, <1>b DEF Complete
  <2>2. CASE Fail
    BY <1>5, <1>a, <2>1, <2>2 DEF Complete, Fail, TypeOK
  <2>3. CASE ~Fail
    BY <1>5, <1>a, <1>c, <2>1, <2>3 DEF Complete, To, TypeOK, Statuses
  <2> QED BY <2>2, <2>3
<1>6. CASE SaveKey
  BY <1>6, <1>a, <1>b, <1>c DEF SaveKey, To, TypeOK, BoxType
<1>7. CASE SaveCert
  <2>1. enrol # Idle /\ Cert(enrol.key) \in CertType
    BY <1>7, <1>a, <1>b, RecordTypes DEF SaveCert
  <2>2. box' \in BoxType
    BY <1>7, <2>1 DEF SaveCert, BoxType, TypeOK
  <2> QED BY <1>7, <1>c, <2>1, <2>2 DEF SaveCert, To, TypeOK
<1>8. CASE SaveConfig
  BY <1>8 DEF SaveConfig, TypeOK, BoxType
<1>9. CASE Interrupt
  BY <1>9, <1>a DEF Interrupt, TypeOK
<1> QED BY <1>2a, <1>3, <1>4, <1>5, <1>6, <1>7, <1>8, <1>9 DEF Enrolling

\* A host is forgotten.
LEMMA TypeForgetting ==
  ASSUME EnrolmentAssumption, TypeOK,
         Detach \/ Release \/ Drop \/ Forget \/ \E h \in Rows("host") : AskForget(h)
  PROVE  TypeOK'
<1>1. Counters'
  BY Counting DEF Detach, Release, Drop, Forget, AskForget, bounds
<1>2. token' = token /\ enrol' = enrol /\ renewal' = renewal /\ put' = put /\ box' = box
      /\ torn' = torn /\ mixed' = mixed
  BY DEF Detach, Release, Drop, Forget, AskForget
<1>3. \A tab, ids : Released(tab, ids) \in [Tokens -> RefsType]
  BY DEF Released, RefsType, TypeOK
<1>4. refs' \in [Tokens -> RefsType]
  BY <1>3 DEF TypeOK, Detach, Release, Drop, Forget, AskForget
<1>5. rows' \in [Tables -> TableType]
  <2>1. CASE Detach \/ Drop \/ Forget
    BY <2>1, ThinningSteps DEF Thinned
  <2> QED BY <2>1 DEF Release, AskForget, TypeOK
<1>6. op' \in OpType \cup {Idle}
  <2>1. ASSUME NEW stage \in {"release", "drop", "forget"}, op.at \in {"detach", "release", "drop"}
        PROVE  [op EXCEPT !.at = stage] \in OpType
    BY <2>1, RecordTypes DEF TypeOK, OpType
  <2>2. ASSUME NEW h \in Rows("host"), AskForget(h) PROVE op' \in OpType
    <3>1. h \in Ids /\ Of("server", h) \subseteq Ids /\ Of("balancer", h) \subseteq Ids
      BY RowsFact DEF Of, Tables
    <3> QED BY <2>2, <3>1 DEF AskForget, OpType
  <2> QED BY <2>1, <2>2 DEF Detach, Release, Drop, Forget
<1> QED BY <1>1, <1>2, <1>4, <1>5, <1>6 DEF TypeOK, Counters

\* A renewal, the agent's process and time.
LEMMA TypeRenewing ==
  ASSUME EnrolmentAssumption, TypeOK, KeyInv,
         \/ \E r \in Renewals : Plan(r) \/ Renew(r) \/ Unwritten(r) \/ GiveUp(r)
         \/ Boot \/ Die \/ Wipe \/ Age
  PROVE  TypeOK'
<1>1. Counters'
  BY Counting DEF Plan, Renew, Csr, Put, Load, WriteKey, WriteCert, Clear, Record, Unwritten,
                  GiveUp, Boot, Die, Wipe, Age, Fault, Request, bounds
<1> DEFINE Changed == /\ rows' \in [Tables -> TableType]
                      /\ renewal' \in [Renewals -> RenewalType \cup {Idle}]
                      /\ put' \in [Renewals -> PutType \cup {Idle}]
                      /\ box' \in BoxType /\ mixed' \in BOOLEAN
<1> SUFFICES Changed
  <2>1. token' = token /\ refs' = refs /\ enrol' = enrol /\ op' = op /\ torn' = torn
    BY DEF Plan, Renew, Csr, Put, Load, WriteKey, WriteCert, Clear, Record, Unwritten,
           GiveUp, Boot, Die, Wipe, Age, plane
  <2> QED BY <1>1, <2>1 DEF TypeOK, Counters
<1>a. ASSUME NEW r \in Renewals, NEW n \in RenewalType \cup {Idle}, Becomes(r, n)
      PROVE  renewal' \in [Renewals -> RenewalType \cup {Idle}]
  BY <1>a DEF Becomes, TypeOK
<1>b. ASSUME NEW r \in Renewals, NEW stage \in {"wait", "record"},
             renewal[r].at \in {"put", "wait"}
      PROVE  [renewal[r] EXCEPT !.at = stage] \in RenewalType
  BY <1>b, RecordTypes DEF TypeOK, RenewalType
<1>c. ASSUME NEW r \in Renewals, NEW stage \in {"key", "cert", "clear"}, Goes(r, stage),
             put[r].at \in {"load", "key", "cert"}
      PROVE  put' \in [Renewals -> PutType \cup {Idle}] /\ put[r].key \in Keys
  <2>1. [put[r] EXCEPT !.at = stage] \in PutType /\ put[r] \in PutType
    BY <1>c, RecordTypes DEF TypeOK, PutType
  <2>2. put' = [put EXCEPT ![r] = [put[r] EXCEPT !.at = stage]]
    BY <1>c DEF Goes, TypeOK
  <2> QED BY <2>1, <2>2 DEF TypeOK, PutType
<1>d. ASSUME NEW r \in Renewals, put[r].at \in {"load", "key", "cert"}
      PROVE  put[r].key \in Keys /\ Cert(put[r].key) \in CertType
  BY <1>d, RecordTypes DEF TypeOK, PutType
<1>1a. ASSUME NEW r \in Renewals, Plan(r) PROVE Changed
  <2>1. PICK h \in Rows("host") : Becomes(r, [at |-> "csr", host |-> h])
    BY <1>1a DEF Plan
  <2>2. [at |-> "csr", host |-> h] \in RenewalType
    BY <2>1, RowsFact DEF RenewalType, Tables
  <2> QED BY <1>1a, <1>a, <2>1, <2>2 DEF Plan, plane, TypeOK
<1>2. ASSUME NEW r \in Renewals, Csr(r) PROVE Changed
  <2>1. NewKey \in Keys
    BY NewKeyIn
  <2>2. [at |-> "put", host |-> renewal[r].host, key |-> NewKey] \in RenewalType
    BY <1>2, <2>1, RecordTypes DEF Csr, Renewing, TypeOK, RenewalType
  <2> QED BY <1>2, <1>a, <2>1, <2>2 DEF Csr, Done, plane, TypeOK, BoxType
<1>3. ASSUME NEW r \in Renewals, Put(r) PROVE Changed
  <2>1. CASE Up /\ box.pending = renewal[r].key
    <3>1. box.pending \in Keys
      BY <1>3, <2>1, RecordTypes DEF Put, Renewing, TypeOK, RenewalType
    <3>2. [at |-> "load", key |-> box.pending] \in PutType
      BY <3>1 DEF PutType
    <3>3. [renewal[r] EXCEPT !.at = "wait"] \in RenewalType
      BY <1>3, <1>b DEF Put, Renewing
    <3> QED BY <1>3, <1>a, <2>1, <3>2, <3>3 DEF Put, plane, TypeOK
  <2> QED BY <1>3, <1>a, <2>1 DEF Put, Done, plane, TypeOK
<1>4. ASSUME NEW r \in Renewals, Load(r) PROVE Changed
  BY <1>4, <1>c, <1>d DEF Load, Installing, plane, TypeOK, BoxType
<1>5. ASSUME NEW r \in Renewals, WriteKey(r) PROVE Changed
  BY <1>5, <1>c, <1>d DEF WriteKey, Installing, plane, TypeOK, BoxType
<1>6. ASSUME NEW r \in Renewals, WriteCert(r) PROVE Changed
  BY <1>6, <1>c, <1>d DEF WriteCert, Installing, plane, TypeOK, BoxType
<1>7. ASSUME NEW r \in Renewals, Clear(r) PROVE Changed
  <2>1. put' \in [Renewals -> PutType \cup {Idle}] /\ box' \in BoxType
    BY <1>7 DEF Clear, TypeOK, BoxType
  <2>2. renewal' \in [Renewals -> RenewalType \cup {Idle}]
    BY <1>7, <1>a, <1>b DEF Clear, Renewing, TypeOK
  <2> QED BY <1>7, <2>1, <2>2 DEF Clear, plane, TypeOK
<1>8. ASSUME NEW r \in Renewals, Record(r) PROVE Changed
  BY <1>8, <1>a, ThinningSteps DEF Record, Done, Thinned, TypeOK
<1>9. ASSUME NEW r \in Renewals, Unwritten(r) PROVE Changed
  BY <1>9, <1>a DEF Unwritten, Done, Installing, plane, TypeOK
<1>10. ASSUME NEW r \in Renewals, GiveUp(r) PROVE Changed
  BY <1>10, <1>a DEF GiveUp, Done, plane, TypeOK
<1>11. CASE Boot
  BY <1>11 DEF Boot, plane, TypeOK, BoxType
<1>12. Stopped => /\ renewal' \in [Renewals -> RenewalType \cup {Idle}]
                  /\ put' \in [Renewals -> PutType \cup {Idle}]
  BY DEF Stopped, TypeOK
<1>13. CASE Die
  BY <1>12, <1>13 DEF Die, plane, TypeOK, BoxType
<1>14. CASE Wipe
  BY <1>12, <1>14, RecordTypes DEF Wipe, plane, TypeOK
<1>15. CASE Age
  <2>1. box' \in BoxType
    BY <1>15, RecordTypes DEF Age, TypeOK, BoxType
  <2> QED BY <1>15, <2>1, ThinningSteps DEF Age, Thinned, TypeOK
<1> QED BY <1>1a, <1>2, <1>3, <1>4, <1>5, <1>6, <1>7, <1>8, <1>9, <1>10, <1>11, <1>13, <1>14, <1>15
     DEF Renew

\* Every step keeps the types.
LEMMA TypeStep ==
  ASSUME EnrolmentAssumption, TypeOK, KeyInv, IdInv, [Next]_vars
  PROVE  TypeOK'
<1>1. CASE UNCHANGED vars
  BY <1>1 DEF vars, bounds, TypeOK
<1> QED BY <1>1, TypeTokens, TypeEnrolling, TypeForgetting, TypeRenewing DEF Next, Forgetting
-----------------------------------------------------------------------------
\* A row is added for another token, or as the first for its own.
LEMMA UsedAdding ==
  ASSUME TypeOK, NEW tab \in Tables, NEW r, rows'[tab] = Add(tab, r), NEW t
  PROVE  /\ Unused(t, tab) /\ r.by # t => Unused(t, tab)'
         /\ (r.by # t /\ ~Doubled(t, tab)) \/ Unused(t, tab) => ~Doubled(t, tab)'
<1>1. /\ Rows(tab)' = Rows(tab) \cup {NextId(tab)}
      /\ \A i \in Rows(tab)' : rows'[tab][i] = IF i \in Rows(tab) THEN rows[tab][i] ELSE r
  BY DEF Add, Rows
<1>2. Unused(t, tab) /\ r.by # t => Unused(t, tab)'
  BY <1>1 DEF Unused
<1>3. r.by # t /\ ~Doubled(t, tab) => ~Doubled(t, tab)'
  BY <1>1 DEF Doubled
<1>4. Unused(t, tab) => ~Doubled(t, tab)'
  BY <1>1 DEF Unused, Doubled
<1> QED BY <1>2, <1>3, <1>4

\* A token is used twice if it is for some table.
LEMMA TwiceDoubled == \A t : Twice(t) <=> \E tab \in Tables : Doubled(t, tab)
BY DEF Twice, Doubled

LEMMA TwiceDoubledNext == \A t : Twice(t)' <=> \E tab \in Tables : Doubled(t, tab)'
BY DEF Twice, Doubled, Rows

\* A step that adds no row keeps UsedInv, if no token can be used again and an
\* enrolment that has ended between its commits is torn.
LEMMA UsedThinned ==
  ASSUME TypeOK, UsedInv, Thinned, torn \subseteq torn',
         \A t \in Tokens : token'[t] \in {"none", "pending"} => token[t] \in {"none", "pending"},
         \/ enrol' = enrol
         \/ enrol'.at \notin {"host", "roles"} /\
              \/ enrol.at \notin {"roles", "token"}
              \/ enrol.token \in torn' \/ token'[enrol.token] = "completed"
  PROVE  UsedInv'
<1>1. \A t \in Tokens, tab \in Tables : Unused(t, tab) => Unused(t, tab)'
  BY DEF Thinned, Unused, Rows
<1>2. \A t \in Tokens : ~Twice(t) => ~Twice(t)'
  BY DEF Thinned, Twice, Rows
<1>3. {"host", "server", "balancer"} = Tables
  BY DEF Tables
<1> QED BY <1>1, <1>2, <1>3 DEF UsedInv, At

LEMMA UsedStep ==
  ASSUME EnrolmentAssumption, TypeOK, UsedInv, [Next]_vars
  PROVE  UsedInv'
<1>0. /\ enrol # Idle => enrol \in EnrolType /\ enrol.token \in Tokens
      /\ Idle.at = "idle" /\ {"host", "server", "balancer"} = Tables
      /\ UNCHANGED rows => Thinned
  BY RecordTypes, Resting DEF TypeOK, EnrolType, Tables
<1>1. CASE UNCHANGED vars
  BY <1>0, <1>1, UsedThinned DEF vars
<1>2. ASSUME NEW t \in Tokens, Issue(t) \/ Expire(t) \/ AskRevoke(t) \/ DeleteToken(t)
      PROVE  UsedInv'
  <2>1. /\ UNCHANGED <<rows, enrol, torn>>
        /\ \A u \in Tokens : token'[u] \in {"none", "pending"} => token[u] \in {"none", "pending"}
    BY <1>2 DEF Issue, Expire, AskRevoke, DeleteToken, TypeOK
  <2> QED BY <1>0, <2>1, UsedThinned
<1>3. CASE Revoke \/ Detach \/ Release \/ Drop \/ Forget \/ \E h \in Rows("host") : AskForget(h)
  <2>1. /\ UNCHANGED <<enrol, torn>> /\ (UNCHANGED rows \/ Detach \/ Drop \/ Forget)
        /\ \A u \in Tokens : token'[u] \in {"none", "pending"} => token[u] \in {"none", "pending"}
    BY <1>3 DEF Revoke, Detach, Release, Drop, Forget, AskForget, TypeOK
  <2> QED BY <1>0, <2>1, UsedThinned, ThinningSteps
<1>4. ASSUME \/ \E r \in Renewals : Plan(r) \/ Renew(r) \/ Unwritten(r) \/ GiveUp(r)
             \/ Boot \/ Die \/ Wipe \/ Age
      PROVE  UsedInv'
  <2>1. /\ UNCHANGED <<token, enrol, torn>>
        /\ UNCHANGED rows \/ (\E r \in Renewals : Record(r)) \/ Age
    BY <1>4 DEF Plan, Renew, Csr, Put, Load, WriteKey, WriteCert, Clear, Record, Unwritten,
                GiveUp, Boot, Die, Wipe, Age, plane
  <2> QED BY <1>0, <2>1, UsedThinned, ThinningSteps
<1>5. ASSUME NEW t \in Tokens, Enrol(t) PROVE UsedInv'
  <2>1. /\ UNCHANGED <<token, rows, torn>> /\ enrol = Idle /\ token[t] = "pending"
        /\ enrol'.at = "host" /\ enrol'.token = t
    BY <1>5 DEF Enrol, Valid
  <2> QED BY <2>1 DEF UsedInv, Unused, Twice, Rows, At
<1>6. CASE AddHost
  <2> DEFINE row == Row(enrol.token, None)
  <2>1. enrol # Idle
    BY <1>0, <1>6 DEF AddHost, At
  <2>2. /\ rows'["host"] = Add("host", row) /\ \A u \in Tables \ {"host"} : rows'[u] = rows[u]
        /\ row.by = enrol.token
        /\ enrol'.at = "roles" /\ enrol'.token = enrol.token /\ UNCHANGED <<token, torn>>
    BY <1>0, <1>6, <2>1 DEF AddHost, TypeOK, EnrolType, Row
  <2> HIDE DEF row
  <2>3. ASSUME NEW t \in Tokens \ torn
        PROVE  /\ t # enrol.token =>
                    /\ ~Twice(t)'
                    /\ \A tab \in Tables : Unused(t, tab) => Unused(t, tab)'
               /\ t = enrol.token =>
                    /\ ~Twice(t)' /\ Unused(t, "server")' /\ Unused(t, "balancer")'
    <3>1. \A u \in Tables \ {"host"} : Unused(t, u) => Unused(t, u)'
      BY <2>2 DEF Unused, Rows
    <3>2. t # enrol.token => \A tab \in Tables : Unused(t, tab) => Unused(t, tab)'
      BY <1>0, <2>2, <3>1, UsedAdding
    <3>3. ~Twice(t)
      BY DEF UsedInv
    <3>4. t = enrol.token => \A tab \in Tables : Unused(t, tab)
      BY <1>6, <2>1 DEF UsedInv, AddHost
    <3>5. \A u \in Tables \ {"host"} : Doubled(t, u)' => Doubled(t, u)
      BY <2>2 DEF Doubled, Rows
    <3>6. ~Twice(t)'
      BY <1>0, <2>2, <3>3, <3>4, <3>5, UsedAdding, TwiceDoubled, TwiceDoubledNext
    <3> QED BY <1>0, <3>1, <3>2, <3>4, <3>6
  <2> QED BY <1>0, <2>2, <2>3 DEF UsedInv, At
<1>7. CASE AddRoles
  <2> DEFINE asked == Roles[enrol.token]
             row == Row(enrol.token, enrol.made["host"])
  <2>1. enrol # Idle /\ enrol.at = "roles"
    BY <1>0, <1>7 DEF AddRoles, At
  <2>2. CASE Fail
    <3>1. UNCHANGED <<token, rows>> /\ enrol' = Idle /\ torn' = torn \cup {enrol.token}
      BY <2>2 DEF Fail
    <3> QED BY <1>0, <3>1, UsedThinned
  <2>3. CASE ~Fail
    <3>1. /\ rows' = [tab \in Tables |-> IF tab \in asked THEN Add(tab, row) ELSE rows[tab]]
          /\ row.by = enrol.token
          /\ enrol'.at = "token" /\ enrol'.token = enrol.token /\ UNCHANGED <<token, torn>>
      BY <1>0, <1>7, <2>1, <2>3 DEF AddRoles, EnrolType, Row
    <3>2. asked \subseteq {"server", "balancer"}
      BY <1>0, <2>1 DEF EnrolmentAssumption
    <3> HIDE DEF row, asked
    <3>3. \A u \in Tables : rows'[u] = rows[u] \/ (u \in asked /\ rows'[u] = Add(u, row))
      BY <3>1
    <3>4. ASSUME NEW t \in Tokens \ torn
          PROVE  /\ ~Twice(t)'
                 /\ t # enrol.token => \A tab \in Tables : Unused(t, tab) => Unused(t, tab)'
      <4>1. \A u \in Tables : rows'[u] = rows[u] => (Unused(t, u) => Unused(t, u)')
        BY DEF Unused, Rows
      <4>2. t # enrol.token => \A tab \in Tables : Unused(t, tab) => Unused(t, tab)'
        BY <3>1, <3>3, <4>1, UsedAdding
      <4>3. ~Twice(t) /\ (t = enrol.token => Unused(t, "server") /\ Unused(t, "balancer"))
        BY <2>1 DEF UsedInv, At
      <4>4. ASSUME NEW u \in Tables PROVE ~Doubled(t, u)'
        <5>1. ~Doubled(t, u)
          BY <4>3, TwiceDoubled
        <5>2. CASE rows'[u] = rows[u]
          BY <5>1, <5>2 DEF Doubled, Rows
        <5>3. CASE u \in asked /\ rows'[u] = Add(u, row)
          BY <3>1, <3>2, <4>3, <5>1, <5>3, UsedAdding
        <5> QED BY <3>3, <5>2, <5>3
      <4> QED BY <4>2, <4>4, TwiceDoubledNext
    <3> QED BY <1>0, <3>1, <3>4, <2>1 DEF UsedInv, At
  <2> QED BY <2>2, <2>3
<1>8. CASE Complete
  <2>1. enrol # Idle /\ enrol.at = "token"
    BY <1>0, <1>8 DEF Complete, At
  <2>2. CASE Fail
    <3>1. UNCHANGED <<token, rows>> /\ enrol' = Idle /\ torn' = torn \cup {enrol.token}
      BY <2>2 DEF Fail
    <3> QED BY <1>0, <3>1, UsedThinned
  <2>3. CASE ~Fail
    <3>1. /\ token' = [token EXCEPT ![enrol.token] = "completed"] /\ UNCHANGED <<rows, torn>>
          /\ enrol'.at = "answer"
      BY <1>0, <1>8, <2>1, <2>3 DEF Complete, To, EnrolType
    <3>2. /\ token'[enrol.token] = "completed"
          /\ \A t \in Tokens \ {enrol.token} : token'[t] = token[t]
      BY <1>0, <2>1, <3>1 DEF TypeOK
    <3> QED BY <1>0, <3>1, <3>2, UsedThinned
  <2> QED BY <2>2, <2>3
<1>9. CASE SaveKey \/ SaveCert \/ SaveConfig
  <2>1. /\ enrol # Idle /\ enrol.at \in {"answer", "cert", "config"}
        /\ UNCHANGED <<token, rows, torn>> /\ enrol'.at \in {"cert", "config", "idle"}
    BY <1>0, <1>9 DEF SaveKey, SaveCert, SaveConfig, At, To, EnrolType
  <2> QED BY <1>0, <2>1, UsedThinned
<1>10. CASE Interrupt
  <2>1. /\ UNCHANGED <<token, rows>> /\ enrol' = Idle
        /\ torn' = IF enrol.at \in {"roles", "token"} THEN torn \cup {enrol.token} ELSE torn
    BY <1>10 DEF Interrupt
  <2> QED BY <1>0, <2>1, UsedThinned
<1> QED BY <1>1, <1>2, <1>3, <1>4, <1>5, <1>6, <1>7, <1>8, <1>9, <1>10
     DEF Next, Enrolling, Forgetting
-----------------------------------------------------------------------------
\* An enrolment that has begun still finds an id: nobody else adds hosts.
LEMMA IdStep ==
  ASSUME EnrolmentAssumption, TypeOK, IdInv, [Next]_vars
  PROVE  IdInv'
<1>1. CASE \E t \in Tokens : Enrol(t)
  BY <1>1 DEF Enrol, IdInv, Free, Rows
<1>2. CASE ~\E t \in Tokens : Enrol(t)
  <2>0. Idle.at = "idle" /\ (enrol # Idle => enrol \in EnrolType)
    BY RecordTypes DEF TypeOK
  <2>1. enrol' = enrol \/ enrol'.at # "host"
    BY <1>2, <2>0 DEF Next, Issue, Expire, AskRevoke, DeleteToken, Enrolling, AddHost, AddRoles,
       Complete, SaveKey, SaveCert, SaveConfig, Interrupt, Fail, To, At, EnrolType, AskForget,
       Forgetting, Revoke, Detach, Release, Drop, Forget, Plan, Renew, Csr, Put, Load, WriteKey,
       WriteCert, Clear, Record, Unwritten, GiveUp, Boot, Die, Wipe, Age, plane, vars
  <2>2. At("host") /\ At("host")' => Thinned
    BY <1>2, <2>0, ThinningSteps, Resting
       DEF Next, Issue, Expire, AskRevoke, DeleteToken, Enrolling, AddHost, AddRoles, Complete,
           SaveKey, SaveCert, SaveConfig, Interrupt, At, EnrolType, AskForget, Forgetting, Revoke,
           Release, Plan, Renew, Csr, Put, Load, WriteKey, WriteCert, Clear, Unwritten, GiveUp,
           Boot, Die, Wipe, plane, vars
  <2>3. Thinned => Free("host") \subseteq Free("host")'
    BY DEF Thinned, Free, Rows, Tables
  <2> QED BY <2>1, <2>2, <2>3 DEF IdInv, At
<1> QED BY <1>1, <1>2

\* Who asks, and the box, know one key.
LEMMA KeyStep ==
  ASSUME EnrolmentAssumption, TypeOK, KeyInv, [Next]_vars
  PROVE  KeyInv'
<1>0. Idle.at = "idle"
  BY RecordTypes
<1>1. CASE UNCHANGED <<renewal, put>>
  BY <1>1 DEF KeyInv, Renewals
<1>2. ASSUME NEW r \in Renewals,
             \A q \in Renewals \ {r} : renewal'[q] = renewal[q] /\ put'[q] = put[q],
             \/ put'[r] = Idle \/ renewal'[r] = Idle
             \/ renewal'[r].at = "wait" /\ renewal'[r].key = put'[r].key
      PROVE  KeyInv'
  BY <1>2 DEF KeyInv, Renewals
<1>3. ASSUME NEW r \in Renewals, Plan(r) \/ Csr(r) \/ Put(r) \/ Record(r) \/ GiveUp(r)
      PROVE  KeyInv'
  <2>1. \A q \in Renewals \ {r} : renewal'[q] = renewal[q] /\ put'[q] = put[q]
    BY <1>3 DEF Plan, Csr, Put, Record, GiveUp, Becomes, Done, TypeOK
  <2>2. CASE Plan(r) \/ Csr(r) \/ Record(r)
    <3>1. put'[r] = put[r] /\ put[r] = Idle
      BY <1>0, <2>2 DEF Plan, Csr, Record, Renewing, KeyInv
    <3> QED BY <1>2, <2>1, <3>1
  <2>3. CASE Put(r)
    <3>1. CASE Up /\ box.pending = renewal[r].key
      <4>1. /\ put'[r].key = box.pending /\ renewal'[r] = [renewal[r] EXCEPT !.at = "wait"]
        BY <2>3, <3>1 DEF Put, Becomes, TypeOK
      <4>2. renewal[r] \in RenewalType /\ renewal[r].at = "put"
        BY <1>0, <2>3 DEF Put, Renewing, TypeOK
      <4>3. renewal'[r].at = "wait" /\ renewal'[r].key = renewal[r].key
        BY <4>1, <4>2 DEF RenewalType
      <4> QED BY <1>2, <2>1, <3>1, <4>1, <4>3
    <3>2. CASE ~(Up /\ box.pending = renewal[r].key)
      <4>1. renewal'[r] = Idle
        BY <2>3, <3>2 DEF Put, Done, Becomes, TypeOK
      <4> QED BY <1>2, <2>1, <4>1
    <3> QED BY <3>1, <3>2
  <2>4. CASE GiveUp(r)
    <3>1. renewal'[r] = Idle
      BY <2>4 DEF GiveUp, Done, Becomes, TypeOK
    <3> QED BY <1>2, <2>1, <3>1
  <2> QED BY <1>3, <2>2, <2>3, <2>4
<1>4. ASSUME NEW r \in Renewals, Load(r) \/ WriteKey(r) \/ WriteCert(r)
      PROVE  KeyInv'
  <2>1. PICK stage \in {"key", "cert", "clear"} :
          Goes(r, stage) /\ put[r].at \in {"load", "key", "cert"} /\ UNCHANGED renewal
    BY <1>4 DEF Load, WriteKey, WriteCert, Installing
  <2>2. put[r] \in PutType /\ put[r] # Idle
    BY <1>0, <2>1 DEF TypeOK
  <2>3. /\ \A q \in Renewals \ {r} : put'[q] = put[q]
        /\ put'[r].key = put[r].key
    BY <2>1, <2>2 DEF Goes, TypeOK, PutType
  <2> QED BY <1>2, <2>1, <2>2, <2>3 DEF KeyInv
<1>5. ASSUME NEW r \in Renewals, Clear(r) \/ Unwritten(r)
      PROVE  KeyInv'
  <2>1. put'[r] = Idle
    BY <1>5 DEF Clear, Unwritten, TypeOK
  <2>2. \A q \in Renewals \ {r} : renewal'[q] = renewal[q] /\ put'[q] = put[q]
    BY <1>5 DEF Clear, Unwritten, Becomes, Done, TypeOK
  <2> QED BY <1>2, <2>1, <2>2
<1>6. CASE Die \/ Wipe
  BY <1>6 DEF Die, Wipe, Stopped, KeyInv, Renewals
<1> QED BY <1>1, <1>3, <1>4, <1>5, <1>6
   DEF Next, Issue, Expire, AskRevoke, DeleteToken, Enrol, Enrolling, AddHost, AddRoles, Complete,
       SaveKey, SaveCert, SaveConfig, Interrupt, AskForget, Forgetting, Revoke, Detach, Release,
       Drop, Forget, Renew, Boot, Age, vars

-----------------------------------------------------------------------------
\* What a step that concerns neither leaves as it is.
Elsewhere == UNCHANGED <<enrol, renewal, put, box, mixed>>

\* An enrolment has the box for itself: no agent runs.
LEMMA FilesStep ==
  ASSUME EnrolmentAssumption, TypeOK, FilesInv, KeyInv, [Next]_vars
  PROVE  FilesInv'
<1>0. /\ Idle.at = "idle" /\ (enrol # Idle => enrol \in EnrolType /\ enrol.key # None)
      /\ box \in BoxType
      /\ \A k \in Keys : k # None /\ Cert(k) # None
  BY RecordTypes DEF TypeOK, EnrolType, EnrolmentAssumption
<1>1. CASE Elsewhere
  BY <1>1 DEF Elsewhere, FilesInv, Up, At
<1>2. CASE \/ \E t \in Tokens : Enrol(t)
           \/ AddHost \/ AddRoles \/ Complete \/ Interrupt
  <2>1. /\ UNCHANGED <<put, box>>
        /\ \/ enrol' = Idle
           \/ enrol = Idle /\ box.cert = None /\ enrol'.at = "host"
           \/ /\ enrol # Idle /\ enrol.at \in {"host", "roles", "token"}
              /\ enrol'.at \in {"roles", "token", "answer"}
    <3>1. CASE \E t \in Tokens : Enrol(t)
      BY <3>1 DEF Enrol
    <3>2. CASE AddHost
      BY <1>0, <3>2 DEF AddHost, At, EnrolType
    <3>3. CASE AddRoles
      BY <1>0, <3>3 DEF AddRoles, Fail, At, EnrolType
    <3>4. CASE Complete
      BY <1>0, <3>4 DEF Complete, Fail, At, To, EnrolType
    <3> QED BY <1>2, <3>1, <3>2, <3>3, <3>4 DEF Interrupt
  <2> QED BY <2>1 DEF FilesInv, Up, At
<1>3. CASE SaveKey \/ SaveCert \/ SaveConfig
  <2>1. enrol # Idle /\ ~box.ready /\ ~Up /\ UNCHANGED put
    BY <1>0, <1>3 DEF SaveKey, SaveCert, SaveConfig, At, FilesInv
  <2>2. CASE SaveKey
    <3>1. /\ box' = [box EXCEPT !.key = enrol.key] /\ box.cert = None
          /\ enrol'.at = "cert" /\ enrol'.key = enrol.key
      BY <1>0, <2>1, <2>2 DEF SaveKey, To, At, EnrolType, FilesInv
    <3>2. /\ box'.key = enrol.key /\ box'.cert = None /\ ~box'.ready /\ box'.holder = box.holder
      BY <1>0, <2>1, <3>1 DEF BoxType
    <3> QED BY <2>1, <3>1, <3>2 DEF FilesInv, Up, At
  <2>3. CASE SaveCert
    <3>1. /\ box' = [box EXCEPT !.cert = Cert(enrol.key)] /\ box.key = enrol.key
          /\ enrol'.at = "config" /\ enrol'.key = enrol.key
      BY <1>0, <2>1, <2>3 DEF SaveCert, To, At, EnrolType, FilesInv
    <3>2. /\ box'.key = enrol.key /\ box'.cert = Cert(enrol.key) /\ ~box'.ready
          /\ box'.holder = box.holder
      BY <1>0, <2>1, <3>1 DEF BoxType
    <3> QED BY <2>1, <3>1, <3>2 DEF FilesInv, Up, At
  <2>4. CASE SaveConfig
    <3>1. /\ box.cert = Cert(enrol.key) /\ box.key = enrol.key /\ enrol' = Idle
          /\ enrol.key \in Keys
      BY <1>0, <2>1, <2>4 DEF SaveConfig, At, FilesInv, EnrolType
    <3>2. /\ box'.key = box.key /\ box'.cert = box.cert /\ box'.holder = box.holder
      BY <1>0, <2>4 DEF SaveConfig, BoxType
    <3> QED BY <1>0, <2>1, <3>1, <3>2 DEF FilesInv, Up
  <2> QED BY <1>3, <2>2, <2>3, <2>4
<1>4. ASSUME NEW r \in Renewals, Plan(r) \/ Csr(r) \/ Record(r) \/ GiveUp(r)
      PROVE  FilesInv'
  <2>1. /\ UNCHANGED <<enrol, put>> /\ box'.key = box.key /\ box'.cert = box.cert
        /\ box'.ready = box.ready /\ box'.holder = box.holder
    BY <1>0, <1>4 DEF Plan, Csr, Record, GiveUp, plane, BoxType
  <2> QED BY <2>1 DEF FilesInv, Up, At
<1>5. ASSUME NEW r \in Renewals,
             Put(r) \/ Load(r) \/ WriteKey(r) \/ WriteCert(r) \/ Clear(r) \/ Unwritten(r)
      PROVE  FilesInv'
  <2>1. CASE Put(r) /\ ~Up
    BY <2>1 DEF Put, plane, FilesInv, Up, At
  <2>2. CASE Up \/ ~Put(r)
    <3>1. Up /\ enrol = Idle /\ UNCHANGED enrol /\ box.ready /\ box.key # None /\ box.cert # None
      BY <1>0, <1>5, <2>2 DEF Put, Load, WriteKey, WriteCert, Clear, Unwritten, Installing,
                              plane, FilesInv
    <3>2. put[r].at \in {"load", "key", "cert"} => put[r].key \in Keys
      BY <1>0 DEF TypeOK, PutType
    <3>3. /\ box'.ready = box.ready /\ box'.key # None /\ box'.cert # None /\ box'.holder # None
      BY <1>0, <1>5, <3>1, <3>2 DEF Put, Load, WriteKey, WriteCert, Clear, Unwritten, Installing,
                              plane, BoxType, Up
    <3> QED BY <3>1, <3>3 DEF FilesInv, Up
  <2> QED BY <1>5, <2>1, <2>2
<1>6. CASE Boot
  <2>1. /\ box'.key = box.key /\ box'.cert = box.cert /\ box'.ready = box.ready
        /\ box'.holder = box.cert /\ box.ready /\ UNCHANGED <<put, enrol>>
    BY <1>0, <1>6 DEF Boot, Boots, BoxType, plane
  <2> QED BY <2>1 DEF FilesInv, Up, At
<1>7. CASE Die
  <2>1. /\ box'.key = box.key /\ box'.cert = box.cert /\ box'.ready = box.ready
        /\ box'.holder = None /\ (\A r \in Renewals : put'[r] = Idle) /\ UNCHANGED enrol
    BY <1>0, <1>7 DEF Die, Stopped, BoxType, plane
  <2> QED BY <2>1 DEF FilesInv, Up, At, Renewals
<1>8. CASE Wipe
  <2>1. /\ ~box'.ready /\ box'.holder = None /\ (\A r \in Renewals : put'[r] = Idle)
        /\ enrol' = Idle
    BY <1>8 DEF Wipe, Stopped, Blank, plane
  <2> QED BY <2>1 DEF FilesInv, Up, Renewals
<1>9. CASE Age
  <2>1. /\ box'.key = box.key /\ box'.cert = Old(box.cert) /\ box'.ready = box.ready
        /\ box'.holder = Old(box.holder) /\ UNCHANGED put /\ enrol = Idle /\ UNCHANGED enrol
    BY <1>0, <1>9 DEF Age, Quiet, BoxType
  <2>2. \A c \in CertType \cup {None} : Old(c) # None <=> c # None
    BY RecordTypes DEF EnrolmentAssumption
  <2>3. (box'.cert # None <=> box.cert # None) /\ (box'.holder # None <=> box.holder # None)
    BY <1>0, <2>1, <2>2 DEF BoxType
  <2> QED BY <2>1, <2>3 DEF FilesInv, Up, At, Renewals
<1>10. (\/ \E t \in Tokens : Issue(t) \/ Expire(t) \/ AskRevoke(t) \/ DeleteToken(t)
        \/ \E h \in Rows("host") : AskForget(h)
        \/ Forgetting \/ UNCHANGED vars) => Elsewhere
  BY DEF Elsewhere, Issue, Expire, AskRevoke, DeleteToken, AskForget, Forgetting, Revoke, Detach,
         Release, Drop, Forget, vars
<1> QED BY <1>1, <1>2, <1>3, <1>4, <1>5, <1>6, <1>7, <1>8, <1>9, <1>10
     DEF Next, Enrolling, Renew
-----------------------------------------------------------------------------
\* One install at a time leaves a key and a certificate that match.
LEMMA MatchStep ==
  ASSUME EnrolmentAssumption, TypeOK, FilesInv, MatchInv, [Next]_vars
  PROVE  MatchInv'
<1>0. /\ Idle.at = "idle" /\ (enrol # Idle => enrol \in EnrolType /\ enrol.key \in Keys)
      /\ box \in BoxType /\ mixed \in BOOLEAN
      /\ \A k \in Keys : Cert(k).key = k /\ Cert(k) # None /\ k # None
      /\ enrol # Idle => ~box.ready /\ \A r \in Renewals : put[r] = Idle
  BY RecordTypes DEF TypeOK, EnrolType, Cert, EnrolmentAssumption, FilesInv
<1>1. ASSUME UNCHANGED <<put, mixed>>, box'.key = box.key, box'.cert = box.cert,
             box'.ready = box.ready
      PROVE  MatchInv'
  BY <1>1 DEF MatchInv, Installing, Boots, Renewals
<1>2. ASSUME UNCHANGED <<put, mixed>>, enrol # Idle, ~box'.ready
      PROVE  MatchInv'
  BY <1>0, <1>2 DEF MatchInv, Installing, Renewals
<1>3. CASE SaveKey \/ SaveCert
  <2>1. UNCHANGED <<put, mixed>> /\ enrol # Idle /\ box'.ready = box.ready
    BY <1>0, <1>3 DEF SaveKey, SaveCert, At, BoxType
  <2> QED BY <1>0, <1>2, <2>1
<1>4. CASE SaveConfig
  <2>1. /\ UNCHANGED <<put, mixed>> /\ enrol # Idle
        /\ box'.key = enrol.key /\ box'.cert = Cert(enrol.key)
    BY <1>0, <1>4 DEF SaveConfig, At, BoxType, FilesInv
  <2> QED BY <1>0, <2>1 DEF MatchInv, Installing, Boots, Renewals, SaveConfig, BoxType
<1>5. ASSUME NEW r \in Renewals, Put(r) PROVE MatchInv'
  <2>1. CASE UNCHANGED <<put, mixed>>
    BY <1>1, <1>5, <2>1 DEF Put, plane
  <2>2. CASE ~UNCHANGED <<put, mixed>>
    <3>1. /\ put' = [put EXCEPT ![r] = [at |-> "load", key |-> box.pending]]
          /\ mixed' = (mixed \/ \E q \in Renewals : put[q] # Idle) /\ UNCHANGED box
      BY <1>5, <2>2 DEF Put, plane
    <3>2. /\ put'[r].at = "load" /\ \A q \in Renewals \ {r} : put'[q] = put[q]
      BY <3>1 DEF TypeOK
    <3>3. ~mixed' => ~mixed /\ \A q \in Renewals : put[q] = Idle
      BY <3>1
    <3> QED BY <1>0, <3>1, <3>2, <3>3 DEF MatchInv, Installing, Boots, Renewals
  <2> QED BY <2>1, <2>2
<1>6. ASSUME NEW r \in Renewals, Load(r) \/ WriteKey(r) \/ WriteCert(r) PROVE MatchInv'
  <2>1. put[r] \in PutType /\ put[r] # Idle /\ put[r].key \in Keys
    BY <1>0, <1>6 DEF Load, WriteKey, WriteCert, Installing, TypeOK, PutType
  <2>2. PICK stage \in {"key", "cert", "clear"} : Goes(r, stage) /\ UNCHANGED mixed
                 /\ stage = (IF Installing(r, "load") THEN "key"
                                ELSE IF Installing(r, "key") THEN "cert" ELSE "clear")
    BY <1>6 DEF Load, WriteKey, WriteCert, Installing
  <2>3. /\ put'[r].at = stage /\ put'[r].key = put[r].key /\ put'[r] # Idle
        /\ \A q \in Renewals \ {r} : put'[q] = put[q]
    BY <1>0, <2>1, <2>2 DEF Goes, TypeOK, PutType
  <2>4. ~mixed' => \A q \in Renewals \ {r} : put[q] = Idle /\ put'[q] = Idle
    BY <2>1, <2>2, <2>3 DEF MatchInv
  <2>5. ~mixed' => \A p, q \in Renewals : put'[p] # Idle /\ put'[q] # Idle => p = q
    BY <2>4
  <2>6. CASE Load(r)
    <3>1. /\ box'.key = box.key /\ box'.cert = box.cert /\ box'.ready = box.ready
          /\ put[r].at = "load" /\ put'[r].at = "key"
      BY <1>0, <2>2, <2>3, <2>6 DEF Load, Installing, BoxType
    <3>2. ~mixed' => /\ \A q \in Renewals : put[q].at # "cert"
                     /\ \A q \in Renewals : put'[q].at # "cert"
      BY <1>0, <2>4, <3>1
    <3> QED BY <2>2, <2>5, <3>1, <3>2 DEF MatchInv, Installing, Boots, Renewals
  <2>7. CASE WriteKey(r)
    <3>1. /\ box'.key = put[r].key /\ put'[r].at = "cert"
      BY <1>0, <2>2, <2>3, <2>7 DEF WriteKey, Installing, BoxType
    <3> QED BY <1>0, <2>3, <2>4, <2>5, <3>1 DEF MatchInv, Installing, Renewals
  <2>8. CASE WriteCert(r)
    <3>1. /\ box'.key = box.key /\ box'.cert = Cert(put[r].key) /\ put[r].at = "cert"
          /\ put'[r].at = "clear"
      BY <1>0, <2>2, <2>3, <2>8 DEF WriteCert, Installing, BoxType
    <3>2. ~mixed' => box.key = put[r].key
      BY <2>2, <3>1 DEF MatchInv, Installing
    <3>3. box'.ready => Boots(box') \/ mixed'
      BY <1>0, <2>1, <3>1, <3>2 DEF Boots
    <3>4. ~mixed' => \A q \in Renewals : put'[q].at # "cert"
      BY <1>0, <2>4, <3>1
    <3> QED BY <2>5, <3>3, <3>4 DEF MatchInv, Installing, Renewals, Boots
  <2> QED BY <1>6, <2>6, <2>7, <2>8
<1>7. ASSUME NEW r \in Renewals, Clear(r) \/ Unwritten(r) PROVE MatchInv'
  <2>1. /\ box'.key = box.key /\ box'.cert = box.cert /\ box'.ready = box.ready
        /\ put'[r] = Idle /\ \A q \in Renewals \ {r} : put'[q] = put[q]
    BY <1>0, <1>7 DEF Clear, Unwritten, BoxType, plane, TypeOK
  <2>2. ~mixed' => ~mixed /\ put[r].at # "cert"
    BY <1>0, <1>7 DEF Clear, Unwritten, Installing
  <2>3. ~mixed' =>
          /\ \A q \in Renewals : ~Installing(q, "cert")' => ~Installing(q, "cert")
          /\ \A q \in Renewals : put'[q] # Idle => put'[q] = put[q]
    BY <2>1, <2>2 DEF Installing
  <2> QED BY <1>0, <2>1, <2>2, <2>3 DEF MatchInv, Installing, Boots, Renewals
<1>8. CASE Die
  <2>1. /\ box'.key = box.key /\ box'.cert = box.cert /\ box'.ready = box.ready
        /\ \A r \in Renewals : put'[r] = Idle
    BY <1>0, <1>8 DEF Die, Stopped, BoxType
  <2>2. ~mixed' => ~mixed /\ \A r \in Renewals : ~Installing(r, "cert")
    BY <1>8 DEF Die
  <2> QED BY <1>0, <2>1, <2>2 DEF MatchInv, Installing, Boots, Renewals
<1>9. CASE Wipe
  <2>1. ~box'.ready /\ \A r \in Renewals : put'[r] = Idle
    BY <1>9 DEF Wipe, Stopped, Blank
  <2> QED BY <1>0, <2>1 DEF MatchInv, Installing, Renewals
<1>10. CASE Age
  <2>1. /\ box'.key = box.key /\ box'.cert = Old(box.cert) /\ box'.ready = box.ready
        /\ UNCHANGED <<put, mixed>> /\ \A r \in Renewals : put[r] = Idle
    BY <1>0, <1>10 DEF Age, Quiet, BoxType
  <2>2. box.cert \in CertType \cup {None}
    BY <1>0 DEF BoxType
  <2>3. (box.cert # None => Old(box.cert) # None /\ Old(box.cert).key = box.cert.key)
    BY <2>2, RecordTypes DEF EnrolmentAssumption
  <2> QED BY <1>0, <2>1, <2>3 DEF MatchInv, Installing, Boots, Renewals
<1>11. ASSUME \/ \E t \in Tokens : \/ Issue(t) \/ Expire(t) \/ AskRevoke(t) \/ DeleteToken(t)
                                   \/ Enrol(t)
              \/ \E h \in Rows("host") : AskForget(h)
              \/ Forgetting \/ AddHost \/ AddRoles \/ Complete \/ Interrupt \/ UNCHANGED vars
              \/ \E r \in Renewals : Plan(r) \/ Csr(r) \/ Record(r) \/ GiveUp(r)
              \/ Boot
       PROVE  MatchInv'
  <2>1. /\ UNCHANGED <<put, mixed>> /\ box'.key = box.key /\ box'.cert = box.cert
        /\ box'.ready = box.ready
    BY <1>0, <1>11 DEF Issue, Expire, AskRevoke, DeleteToken, Enrol, AskForget, Forgetting, Revoke,
       Detach, Release, Drop, Forget, AddHost, AddRoles, Complete, Interrupt, vars, Plan, Csr,
       Record, GiveUp, Boot, plane, BoxType
  <2> QED BY <1>1, <2>1
<1> QED BY <1>3, <1>4, <1>5, <1>6, <1>7, <1>8, <1>9, <1>10, <1>11
     DEF Next, Enrolling, Renew
-----------------------------------------------------------------------------
\* A certificate grows old only while nobody is about to say that it is fresh.
LEMMA FreshStep ==
  ASSUME EnrolmentAssumption, TypeOK, FilesInv, FreshInv, [Next]_vars
  PROVE  FreshInv'
<1>0. /\ Idle.at = "idle" /\ (enrol # Idle => enrol \in EnrolType /\ enrol.key \in Keys)
      /\ box \in BoxType
      /\ \A k \in Keys : ~IsDue(Cert(k))
      /\ ~IsDue(None)
      /\ enrol # Idle => box.holder = None /\ \A r \in Renewals : put[r] = Idle
      /\ {"host", "server", "balancer"} = Tables
      /\ UNCHANGED rows => Undated
  BY RecordTypes, Resting DEF TypeOK, EnrolType, Cert, IsDue, FilesInv, Up, Tables
<1>u. Undated => ((\E h \in Rows("host")' : ~rows'["host"][h].due)
                    => \E h \in Rows("host") : ~rows["host"][h].due)
  BY DEF Undated, Rows
<1>1. ASSUME Undated, UNCHANGED <<put, renewal>>, enrol' = enrol \/ enrol' = Idle \/ enrol # Idle,
             box'.cert = box.cert, box'.holder = box.holder
      PROVE  FreshInv'
  BY <1>1, <1>u DEF FreshInv, Renewals, Installing, Renewing
<1>2. CASE \E t \in Tokens : Enrol(t)
  <2>1. UNCHANGED <<rows, put, renewal, box>> /\ box.cert = None
    BY <1>2 DEF Enrol
  <2> QED BY <1>0, <1>u, <2>1 DEF FreshInv, Renewals, Installing, Renewing
<1>3. CASE Enrolling \/ Interrupt
  <2>1. enrol # Idle /\ UNCHANGED <<put, renewal>>
    BY <1>0, <1>3 DEF Enrolling, Interrupt, AddHost, AddRoles, Complete, SaveKey, SaveCert,
                      SaveConfig, At
  <2>2. ~IsDue(box.cert) /\ ~IsDue(box.holder)
    BY <1>0, <2>1 DEF FreshInv
  <2>3. ~IsDue(box'.cert) /\ ~IsDue(box'.holder)
    BY <1>0, <1>3, <2>1, <2>2 DEF Enrolling, Interrupt, AddHost, AddRoles, Complete, SaveKey,
                      SaveCert, SaveConfig, BoxType
  <2> QED BY <2>1, <2>3 DEF FreshInv, Renewals, Installing, Renewing
<1>4. ASSUME NEW r \in Renewals,
             \A q \in Renewals \ {r} : put'[q] = put[q] /\ renewal'[q] = renewal[q],
             UNCHANGED enrol, Undated,
             \/ box'.cert = box.cert
             \/ ~IsDue(box'.cert),
             \/ box'.holder = box.holder
             \/ ~IsDue(box'.holder),
             put'[r].at \in {"key", "cert", "clear"} => ~IsDue(box'.holder),
             put'[r].at = "clear" \/ renewal'[r].at = "record" =>
               ~IsDue(box'.cert) /\ ~IsDue(box'.holder)
      PROVE  FreshInv'
  BY <1>4, <1>u DEF FreshInv, Renewals, Installing, Renewing
<1>5. ASSUME NEW r \in Renewals, Plan(r) \/ Csr(r) \/ GiveUp(r) PROVE FreshInv'
  <2>1. /\ UNCHANGED <<rows, put, enrol>> /\ box'.cert = box.cert /\ box'.holder = box.holder
        /\ \A q \in Renewals \ {r} : renewal'[q] = renewal[q]
        /\ renewal'[r].at # "record"
    BY <1>0, <1>5 DEF Plan, Csr, GiveUp, Becomes, Done, plane, BoxType, TypeOK
  <2> QED BY <1>0, <1>4, <2>1 DEF FreshInv, Installing, Renewing
<1>6. ASSUME NEW r \in Renewals, Put(r) PROVE FreshInv'
  <2>1. /\ UNCHANGED <<rows, box, enrol>>
        /\ \A q \in Renewals \ {r} : renewal'[q] = renewal[q] /\ put'[q] = put[q]
    BY <1>6 DEF Put, Becomes, Done, plane, TypeOK
  <2>2. renewal'[r].at # "record"
    <3>1. renewal[r] \in RenewalType
      BY <1>0, <1>6 DEF Put, Renewing, TypeOK
    <3>2. [renewal[r] EXCEPT !.at = "wait"].at = "wait"
      BY <3>1 DEF RenewalType
    <3> QED BY <1>0, <1>6, <3>2 DEF Put, Becomes, Done, TypeOK
  <2>3. put'[r] = put[r] \/ put'[r].at = "load"
    BY <1>6 DEF Put, TypeOK
  <2> QED BY <1>0, <1>4, <2>1, <2>2, <2>3 DEF FreshInv, Installing, Renewing
<1>7. ASSUME NEW r \in Renewals, Load(r) \/ WriteKey(r) \/ WriteCert(r) PROVE FreshInv'
  <2>1. put[r] \in PutType /\ put[r].key \in Keys /\ put[r].at \in {"load", "key", "cert"}
    BY <1>0, <1>7 DEF Load, WriteKey, WriteCert, Installing, TypeOK, PutType
  <2>2. PICK stage \in {"key", "cert", "clear"} : Goes(r, stage)
                 /\ stage = (IF Installing(r, "load") THEN "key"
                                ELSE IF Installing(r, "key") THEN "cert" ELSE "clear")
    BY <1>7 DEF Load, WriteKey, WriteCert, Installing
  <2>3. /\ put'[r].at = stage /\ \A q \in Renewals \ {r} : put'[q] = put[q]
        /\ UNCHANGED <<rows, renewal, enrol>>
    BY <1>7, <2>1, <2>2 DEF Goes, Load, WriteKey, WriteCert, plane, TypeOK, PutType
  <2>4. CASE Load(r)
    <3>1. box'.cert = box.cert /\ box'.holder = Cert(put[r].key) /\ stage = "key"
      BY <1>0, <2>2, <2>4 DEF Load, BoxType
    <3> QED BY <1>0, <1>4, <2>1, <2>3, <3>1 DEF FreshInv, Renewing
  <2>5. CASE WriteKey(r)
    <3>1. box'.cert = box.cert /\ box'.holder = box.holder /\ stage = "cert" /\ put[r].at = "key"
      BY <1>0, <2>2, <2>5 DEF WriteKey, Installing, BoxType
    <3> QED BY <1>0, <1>4, <2>1, <2>3, <3>1 DEF FreshInv, Renewing
  <2>6. CASE WriteCert(r)
    <3>1. box'.cert = Cert(put[r].key) /\ box'.holder = box.holder /\ put[r].at = "cert"
      BY <1>0, <2>2, <2>6 DEF WriteCert, Installing, BoxType
    <3> QED BY <1>0, <1>4, <2>1, <2>3, <3>1 DEF FreshInv, Renewing
  <2> QED BY <1>7, <2>4, <2>5, <2>6
<1>8. ASSUME NEW r \in Renewals, Clear(r) \/ Unwritten(r) PROVE FreshInv'
  <2>1. /\ UNCHANGED <<rows, enrol>> /\ box'.cert = box.cert /\ box'.holder = box.holder
        /\ put'[r] = Idle
        /\ \A q \in Renewals \ {r} : put'[q] = put[q] /\ renewal'[q] = renewal[q]
    BY <1>0, <1>8 DEF Clear, Unwritten, Becomes, Done, plane, BoxType, TypeOK
  <2>2. renewal'[r].at = "record" => renewal[r].at = "record" \/ put[r].at = "clear"
    BY <1>0, <1>8 DEF Clear, Unwritten, Installing, Becomes, Done, TypeOK
  <2> QED BY <1>0, <1>4, <2>1, <2>2 DEF FreshInv, Installing, Renewing
<1>9. ASSUME NEW r \in Renewals, Record(r) PROVE FreshInv'
  <2>1. /\ UNCHANGED <<put, enrol, box>> /\ renewal'[r] = Idle
        /\ \A q \in Renewals \ {r} : renewal'[q] = renewal[q]
    BY <1>9 DEF Record, Becomes, Done, TypeOK
  <2>2. ~IsDue(box.cert) /\ ~IsDue(box.holder)
    BY <1>9 DEF Record, FreshInv
  <2> QED BY <1>0, <2>1, <2>2 DEF FreshInv, Renewals, Installing, Renewing
<1>10. CASE Boot
  <2>1. /\ UNCHANGED <<rows, put, renewal, enrol>> /\ box'.cert = box.cert
        /\ box'.holder = box.cert /\ ~Up
    BY <1>0, <1>10 DEF Boot, plane, BoxType
  <2>2. \A r \in Renewals : put[r] = Idle
    BY <2>1 DEF FilesInv
  <2> QED BY <1>0, <1>u, <2>1, <2>2 DEF FreshInv, Renewals, Installing, Renewing
<1>11. CASE Die \/ Wipe
  <2>1. /\ UNCHANGED <<rows, enrol>> /\ box'.holder = None
        /\ box'.cert \in {box.cert, None}
        /\ \A r \in Renewals : /\ put'[r] = Idle
                               /\ renewal'[r] = renewal[r] \/ renewal'[r] = Idle
    <3>1. CASE Die
      BY <1>0, <3>1 DEF Die, Stopped, plane, BoxType
    <3>2. CASE Wipe
      BY <3>2 DEF Wipe, Stopped, Blank, plane
    <3> QED BY <1>11, <3>1, <3>2
  <2> QED BY <1>0, <1>u, <2>1 DEF FreshInv, Renewals, Installing, Renewing
<1>12. CASE Age
  <2>1. /\ enrol' = Idle /\ \A r \in Renewals : put'[r] = Idle /\ renewal'[r] = Idle
    BY <1>12 DEF Age, Quiet
  <2>2. \A h \in Rows("host")' : rows'["host"][h].due
    <3> DEFINE old == rows["host"]
               f == [i \in DOMAIN old |-> [old[i] EXCEPT !.due = TRUE]]
    <3>1. \A i \in DOMAIN old : old[i] \in RowType
      BY <1>0, RowsFact DEF Rows
    <3>2. \A i \in DOMAIN f : f[i].due
      BY <3>1 DEF RowType
    <3>3. rows'["host"] = f
      BY <1>0, <1>12 DEF Age, TypeOK
    <3> QED BY <3>2, <3>3 DEF Rows
  <2> QED BY <1>0, <2>1, <2>2 DEF FreshInv, Renewals, Installing, Renewing
<1>13. ASSUME \/ \E t \in Tokens : Issue(t) \/ Expire(t) \/ AskRevoke(t) \/ DeleteToken(t)
              \/ \E h \in Rows("host") : AskForget(h)
              \/ Forgetting \/ UNCHANGED vars
       PROVE  FreshInv'
  <2>1. /\ UNCHANGED <<put, renewal, enrol, box>> /\ (UNCHANGED rows \/ Detach \/ Drop \/ Forget)
    BY <1>13 DEF Issue, Expire, AskRevoke, DeleteToken, AskForget, Forgetting, Revoke,
       Detach, Release, Drop, Forget, vars
  <2> QED BY <1>0, <1>1, <2>1, ThinningSteps
<1> QED BY <1>2, <1>3, <1>5, <1>6, <1>7, <1>8, <1>9, <1>10, <1>11, <1>12, <1>13
     DEF Next, Renew
-----------------------------------------------------------------------------
\* The invariant holds at the start, when nothing has happened.
LEMMA Start == EnrolmentAssumption /\ Init => IInv
<1> SUFFICES ASSUME EnrolmentAssumption, Init PROVE IInv
  OBVIOUS
<1>0. /\ NoRefs \in RefsType /\ Blank \in BoxType /\ Idle.at = "idle"
      /\ {0} \subseteq 0 .. MaxRequests \cap 0 .. MaxFaults \cap 0 .. MaxAges
  BY RecordTypes DEF EnrolmentAssumption
<1>1. <<>> \in TableType /\ DOMAIN <<>> = {}
  <2>1. {} \in SUBSET Ids /\ <<>> \in [{} -> RowType]
    OBVIOUS
  <2> QED BY <2>1 DEF TableType
<1>2. TypeOK
  BY <1>0, <1>1 DEF Init, TypeOK, Statuses
<1>3. \A tab \in Tables : Rows(tab) = {}
  BY <1>1 DEF Init, Rows
<1>4. UsedInv
  BY <1>3 DEF Init, UsedInv, Twice, Unused, Tables
<1>5. IdInv /\ FilesInv /\ KeyInv /\ MatchInv
  BY <1>0 DEF Init, IdInv, At, FilesInv, KeyInv, MatchInv, Up, Blank, Installing
<1>6. FreshInv
  BY <1>0, <1>3 DEF Init, FreshInv, IsDue, Blank, Installing, Renewing, Tables
<1> QED BY <1>2, <1>4, <1>5, <1>6 DEF IInv

LEMMA Inductive == EnrolmentAssumption /\ IInv /\ [Next]_vars => IInv'
BY TypeStep, UsedStep, IdStep, FilesStep, KeyStep, MatchStep, FreshStep DEF IInv

\* Tokens, rows, requests, renewals and files keep their types, and there is always
\* an id and a key to be had, for any tokens, ids and keys.
THEOREM TypeCorrect == Spec => []TypeOK
<1>1. IInv => TypeOK
  BY DEF IInv
<1> QED BY <1>1, ConstantsAssumption, Start, Inductive, PTL DEF Spec

\* A token makes one host with its roles, unless an enrolment with it ended between
\* two of its commits, whatever is revoked, deleted or forgotten at the same time.
\* (provision.py _valid_pending, enroll)
THEOREM Once == Spec => []UsedOnce
<1>1. IInv => UsedOnce
  BY DEF IInv, UsedInv, UsedOnce
<1> QED BY <1>1, ConstantsAssumption, Start, Inductive, PTL DEF Spec

\* An agent that runs can be started again from its files, through renewals of any
\* number of callers, lost answers, failed writes, deaths and enrolments.
\* (server.go certPut, enroll.go Run, main.go serve)
THEOREM StartsAgain == Spec => []BootsAgain
<1>1. IInv => BootsAgain
  BY DEF IInv, FilesInv, MatchInv, BootsAgain
<1> QED BY <1>1, ConstantsAssumption, Start, Inductive, PTL DEF Spec

\* No host looks fresh to the cycle while the certificate that its box serves is due.
\* (hosts.py _renew_if_due, server.go certPut)
THEOREM RowBehind == Spec => []RowNotAhead
<1>1. IInv => RowNotAhead
  <2> SUFFICES ASSUME IInv, Up, box.holder.due, NEW h \in Rows("host")
               PROVE  rows["host"][h].due
    BY DEF RowNotAhead
  <2>1. IsDue(box.holder)
    BY DEF Up, IsDue
  <2> QED BY <2>1 DEF IInv, FreshInv
<1> QED BY <1>1, ConstantsAssumption, Start, Inductive, PTL DEF Spec
=============================================================================
