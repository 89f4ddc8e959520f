----------------------------- MODULE Enrolment -----------------------------
(***************************************************************************)
(* How a box becomes a host and keeps its certificate: the tokens and rows *)
(* of the control plane (routers/provision.py, agents.py, hosts.py) and the*)
(* key and certificate of the agent (enroll.go, server.go, main.go).       *)
(*                                                                         *)
(* The handler of an enrolment is a coroutine that never waits, so no other*)
(* coroutine comes in between its commits; handlers in threads do, and the *)
(* program may end there.  A renewal waits for the box twice.  The agent   *)
(* holds its mutex for the pending key only, never for a whole handler.    *)
(*                                                                         *)
(* There is one box.  A certificate is named by the key it was issued for, *)
(* and is fresh or due for renewal; months pass only while nothing is in   *)
(* flight.  Of a host's row the date of its certificate matters.  Zones,   *)
(* names, addresses and what else is in a row are left out.                *)
(***************************************************************************)
EXTENDS Naturals, FiniteSets

CONSTANTS
  Tokens,
  Ids,          \* ids of rows, 1 to a bound
  Keys,         \* private keys, numbered, more than can be held at once
  Roles,        \* Roles[t]: the tables that token t asks for rows of
  None,
  MaxRequests,  \* what operators ask for
  MaxFaults,    \* interrupted enrolments, lost answers, failed writes, restarts
  MaxAges       \* times that months pass

VARIABLES
  token,    \* token[t]: its status
  refs,     \* refs[t]: the rows it names
  rows,     \* rows of hosts, servers and balancers, by id
  enrol,    \* the enrolment under way, on both sides
  op,       \* the request under way that runs in a thread
  renewal,  \* renewal[r]: the cycle's renewal for a host, or the operator's
  put,      \* put[r]: the handler of the box that installs its certificate
  box,      \* the files of the agent and the memory of its process
  torn,     \* ghost: tokens with an enrolment that ended between its commits
  mixed,    \* ghost: installs overlapped, or one ended between two files
  requests, faults, ages

bounds == <<requests, faults, ages>>
vars == <<token, refs, rows, enrol, op, renewal, put, box, torn, mixed, bounds>>
plane == <<token, refs, rows, enrol, op, torn>>
-----------------------------------------------------------------------------
Tables == {"host", "server", "balancer"}

\* The cycle renews for the host of an id, the operator by renew_cert.
Route == 0
Renewals == Ids \cup {Route}

Row(t, h) == [by |-> t, host |-> h, due |-> FALSE]
Rows(tab) == DOMAIN rows[tab]

\* SQLite gives the id after the highest one.
Free(tab) == {i \in Ids : \A j \in Rows(tab) : j < i}
NextId(tab) == CHOOSE i \in Free(tab) : \A j \in Free(tab) : i <= j
Add(tab, r) == [i \in Rows(tab) \cup {NextId(tab)} |->
                  IF i \in Rows(tab) THEN rows[tab][i] ELSE r]
Without(tab, ids) == [i \in Rows(tab) \ ids |-> rows[tab][i]]

NoRefs == [tab \in Tables |-> None]

Cert(k) == [key |-> k, due |-> FALSE]
Blank == [key |-> None, cert |-> None, ready |-> FALSE, holder |-> None, pending |-> None]

Idle == [at |-> "idle"]
Up == box.holder # None

\* A key is generated: none that is kept anywhere.
KeyOf(c) == IF c = None THEN None ELSE c.key
InUse ==
  {box.key, box.pending, KeyOf(box.cert), KeyOf(box.holder)}
  \cup {renewal[r].key : r \in {r \in Renewals : renewal[r].at \in {"put", "wait", "record"}}}
  \cup {put[r].key : r \in {r \in Renewals : put[r] # Idle}}
NewKey == CHOOSE k \in Keys \ InUse : \A j \in Keys \ InUse : k <= j

Request == requests < MaxRequests /\ requests' = requests + 1 /\ UNCHANGED <<faults, ages>>
Fault == faults < MaxFaults /\ faults' = faults + 1 /\ UNCHANGED <<requests, ages>>

Statuses == {"none", "pending", "expired", "revoked", "completed", "gone"}
RowType == [by : Tokens, host : Ids \cup {None}, due : BOOLEAN]
CertType == [key : Keys, due : BOOLEAN]
TableType == UNION {[I -> RowType] : I \in SUBSET Ids}
RefsType == [Tables -> Ids \cup {None}]
EnrolType ==
  [at : {"host", "roles", "token", "answer", "cert", "config"},
   token : Tokens, key : Keys, made : RefsType]
OpType ==
  [at : {"revoke"}, token : Tokens]
  \cup [at : {"detach", "release", "drop", "forget"}, host : Ids,
        servers : SUBSET Ids, balancers : SUBSET Ids]
RenewalType ==
  [at : {"csr"}, host : Ids] \cup [at : {"put", "wait", "record"}, host : Ids, key : Keys]
PutType == [at : {"load", "key", "cert", "clear"}, key : Keys]
BoxType ==
  [key : Keys \cup {None}, cert : CertType \cup {None}, ready : BOOLEAN,
   holder : CertType \cup {None}, pending : Keys \cup {None}]

\* Ids and keys are numbers.  The agent has a key, a pending one, a certificate and
\* another in memory, and a renewal has one key, so that a new one can be found.  A
\* token asks for a server or a balancer besides the host.
EnrolmentAssumption ==
  /\ Ids \subseteq Nat /\ IsFiniteSet(Ids)
  /\ Keys \subseteq Nat /\ (IsFiniteSet(Keys) => Cardinality(Keys) > Cardinality(Ids) + 5)
  /\ None \notin Ids \cup Keys \cup CertType
  /\ Roles \in [Tokens -> SUBSET {"server", "balancer"}]
  /\ {MaxRequests, MaxFaults, MaxAges} \subseteq Nat

ASSUME ConstantsAssumption == EnrolmentAssumption

TypeOK ==
  /\ token \in [Tokens -> Statuses]
  /\ refs \in [Tokens -> RefsType]
  /\ rows \in [Tables -> TableType]
  /\ enrol \in EnrolType \cup {Idle}
  /\ op \in OpType \cup {Idle}
  /\ renewal \in [Renewals -> RenewalType \cup {Idle}]
  /\ put \in [Renewals -> PutType \cup {Idle}]
  /\ box \in BoxType
  /\ torn \subseteq Tokens /\ mixed \in BOOLEAN
  /\ requests \in 0 .. MaxRequests /\ faults \in 0 .. MaxFaults /\ ages \in 0 .. MaxAges
-----------------------------------------------------------------------------
(***************************************************************************)
(* Tokens                                                                  *)
(***************************************************************************)
Issue(t) ==
  /\ token[t] = "none"
  /\ token' = [token EXCEPT ![t] = "pending"]
  /\ UNCHANGED <<refs, rows, enrol, op, renewal, put, box, torn, mixed, bounds>>

Expire(t) ==
  /\ token[t] = "pending"
  /\ token' = [token EXCEPT ![t] = "expired"]
  /\ UNCHANGED <<refs, rows, enrol, op, renewal, put, box, torn, mixed, bounds>>

\* The status that is looked at may be old when the new one is written.
AskRevoke(t) ==
  /\ op = Idle /\ token[t] \in {"pending", "expired"}
  /\ Request
  /\ op' = [at |-> "revoke", token |-> t]
  /\ UNCHANGED <<token, refs, rows, enrol, renewal, put, box, torn, mixed>>

Revoke ==
  /\ op.at = "revoke"
  /\ token' = [token EXCEPT ![op.token] = IF @ = "gone" THEN @ ELSE "revoked"]
  /\ op' = Idle
  /\ UNCHANGED <<refs, rows, enrol, renewal, put, box, torn, mixed, bounds>>

DeleteToken(t) ==
  /\ token[t] \notin {"none", "gone"}
  /\ Request
  /\ token' = [token EXCEPT ![t] = "gone"]
  /\ refs' = [refs EXCEPT ![t] = NoRefs]
  /\ UNCHANGED <<rows, enrol, op, renewal, put, box, torn, mixed>>
-----------------------------------------------------------------------------
(***************************************************************************)
(* Enrolment                                                               *)
(***************************************************************************)
At(stage) == enrol.at = stage
To(stage) == enrol' = [enrol EXCEPT !.at = stage]

\* Mutant: a token that has been used is accepted.
Valid_Again(t) == token[t] \in {"pending", "completed"}

Valid(t) == token[t] = "pending"

\* The agent refuses when it has a certificate, and makes a key for the attempt.
Enrol(t) ==
  /\ enrol = Idle /\ box.cert = None
  /\ Valid(t) /\ Free("host") # {}
  /\ enrol' = [at |-> "host", token |-> t, key |-> NewKey, made |-> NoRefs]
  /\ UNCHANGED <<token, refs, rows, op, renewal, put, box, torn, mixed, bounds>>

AddHost ==
  /\ At("host")
  /\ rows' = [rows EXCEPT !["host"] = Add("host", Row(enrol.token, None))]
  /\ enrol' = [enrol EXCEPT !.at = "roles", !.made["host"] = NextId("host")]
  /\ UNCHANGED <<token, refs, op, renewal, put, box, torn, mixed, bounds>>

\* After a commit the rows are read again: one that is gone is an error.
Still ==
  /\ token[enrol.token] # "gone"
  /\ \A tab \in Tables : enrol.made[tab] \in Rows(tab) \cup {None}

Fail ==
  /\ ~Still
  /\ enrol' = Idle
  /\ torn' = torn \cup {enrol.token}
  /\ UNCHANGED <<token, refs, rows>>

AddRoles ==
  /\ At("roles")
  /\ LET asked == Roles[enrol.token]
         row == Row(enrol.token, enrol.made["host"])
     IN  \/ /\ Still /\ \A tab \in asked : Free(tab) # {}
            /\ rows' = [tab \in Tables |-> IF tab \in asked THEN Add(tab, row) ELSE rows[tab]]
            /\ enrol' = [enrol EXCEPT !.at = "token",
                           !.made = [tab \in Tables |-> IF tab \in asked THEN NextId(tab) ELSE @[tab]]]
            /\ UNCHANGED <<token, refs, torn>>
         \/ Fail
  /\ UNCHANGED <<op, renewal, put, box, mixed, bounds>>

Complete ==
  /\ At("token")
  /\ \/ /\ Still
        /\ token' = [token EXCEPT ![enrol.token] = "completed"]
        /\ refs' = [refs EXCEPT ![enrol.token] = enrol.made]
        /\ To("answer")
        /\ UNCHANGED <<rows, torn>>
     \/ Fail
  /\ UNCHANGED <<op, renewal, put, box, mixed, bounds>>

\* The answer is checked, and the identity written file by file.
SaveKey ==
  /\ At("answer")
  /\ box' = [box EXCEPT !.key = enrol.key]
  /\ To("cert")
  /\ UNCHANGED <<token, refs, rows, op, renewal, put, torn, mixed, bounds>>

SaveCert ==
  /\ At("cert")
  /\ box' = [box EXCEPT !.cert = Cert(enrol.key)]
  /\ To("config")
  /\ UNCHANGED <<token, refs, rows, op, renewal, put, torn, mixed, bounds>>

SaveConfig ==
  /\ At("config")
  /\ box' = [box EXCEPT !.ready = TRUE]
  /\ enrol' = Idle
  /\ UNCHANGED <<token, refs, rows, op, renewal, put, torn, mixed, bounds>>

\* One of the two programs ends, the answer is lost, or a file is not written.
Interrupt ==
  /\ enrol # Idle
  /\ Fault
  /\ enrol' = Idle
  /\ torn' = IF enrol.at \in {"roles", "token"} THEN torn \cup {enrol.token} ELSE torn
  /\ UNCHANGED <<token, refs, rows, op, renewal, put, box, mixed>>
-----------------------------------------------------------------------------
(***************************************************************************)
(* A host is forgotten, by force: in four transactions.                    *)
(***************************************************************************)
Of(tab, h) == {i \in Rows(tab) : rows[tab][i].host = h}

AskForget(h) ==
  /\ op = Idle
  /\ Request
  /\ op' = [at |-> "detach", host |-> h,
            servers |-> Of("server", h), balancers |-> Of("balancer", h)]
  /\ UNCHANGED <<token, refs, rows, enrol, renewal, put, box, torn, mixed>>

\* release_references.
Released(tab, ids) ==
  [t \in Tokens |-> [refs[t] EXCEPT ![tab] = IF @ \in ids THEN None ELSE @]]

Detach ==
  /\ op.at = "detach"
  /\ rows' = [rows EXCEPT !["server"] =
                [i \in DOMAIN @ |-> IF i \in op.servers THEN [@[i] EXCEPT !.host = None] ELSE @[i]]]
  /\ refs' = Released("host", {op.host})
  /\ op' = [op EXCEPT !.at = "release"]
  /\ UNCHANGED <<token, enrol, renewal, put, box, torn, mixed, bounds>>

Release ==
  /\ op.at = "release"
  /\ refs' = Released("balancer", op.balancers)
  /\ op' = [op EXCEPT !.at = "drop"]
  /\ UNCHANGED <<token, rows, enrol, renewal, put, box, torn, mixed, bounds>>

Named(tab, i) == \E t \in Tokens : refs[t][tab] = i

Drop ==
  /\ op.at = "drop"
  /\ IF \E i \in op.balancers : Named("balancer", i)
       THEN op' = Idle /\ UNCHANGED rows
       ELSE /\ rows' = [rows EXCEPT !["balancer"] = Without("balancer", op.balancers)]
            /\ op' = [op EXCEPT !.at = "forget"]
  /\ UNCHANGED <<token, refs, enrol, renewal, put, box, torn, mixed, bounds>>

Forget ==
  /\ op.at = "forget"
  /\ rows' = IF Of("server", op.host) \cup Of("balancer", op.host) # {} \/ Named("host", op.host)
               THEN rows
               ELSE [rows EXCEPT !["host"] = Without("host", {op.host})]
  /\ op' = Idle
  /\ UNCHANGED <<token, refs, enrol, renewal, put, box, torn, mixed, bounds>>
-----------------------------------------------------------------------------
(***************************************************************************)
(* Renewal                                                                 *)
(***************************************************************************)
Renewing(r, stage) == renewal[r].at = stage
Becomes(r, n) == renewal' = [renewal EXCEPT ![r] = n]
Done(r) == Becomes(r, Idle)

\* The cycle looks at the date in the row when the pass begins; the operator
\* does not look.
Plan(r) ==
  /\ Renewing(r, "idle") /\ put[r] = Idle /\ Up
  /\ \/ /\ r \in Rows("host") /\ rows["host"][r].due
        /\ Becomes(r, [at |-> "csr", host |-> r])
        /\ UNCHANGED bounds
     \/ /\ r = Route /\ Request
        /\ \E h \in Rows("host") : Becomes(r, [at |-> "csr", host |-> h])
  /\ UNCHANGED <<plane, put, box, mixed>>

\* Mutant: a key that is pending is kept.
Csr_First(r) ==
  /\ Renewing(r, "csr")
  /\ IF Up /\ (r = Route \/ renewal[r].host \in Rows("host"))
       THEN /\ box' = [box EXCEPT !.pending = IF @ = None THEN NewKey ELSE @]
            /\ Becomes(r, [at |-> "put", host |-> renewal[r].host, key |-> NewKey])
       ELSE Done(r) /\ UNCHANGED box
  /\ UNCHANGED <<plane, put, mixed, bounds>>

\* POST /v1/cert/renew: the last key made is the pending one.
Csr(r) ==
  /\ Renewing(r, "csr")
  /\ IF Up /\ (r = Route \/ renewal[r].host \in Rows("host"))
       THEN /\ box' = [box EXCEPT !.pending = NewKey]
            /\ Becomes(r, [at |-> "put", host |-> renewal[r].host, key |-> NewKey])
       ELSE Done(r) /\ UNCHANGED box
  /\ UNCHANGED <<plane, put, mixed, bounds>>

\* Mutant: a certificate that the agent refuses is recorded.
Put_Recorded(r) ==
  /\ Renewing(r, "put")
  /\ IF Up /\ box.pending = renewal[r].key
       THEN /\ put' = [put EXCEPT ![r] = [at |-> "load", key |-> box.pending]]
            /\ Becomes(r, [renewal[r] EXCEPT !.at = "wait"])
            /\ mixed' = (mixed \/ \E q \in Renewals : put[q] # Idle)
       ELSE /\ Becomes(r, [renewal[r] EXCEPT !.at = "record"])
            /\ UNCHANGED <<put, mixed>>
  /\ UNCHANGED <<plane, box, bounds>>

\* PUT /v1/cert, for the pending key only.
Put(r) ==
  /\ Renewing(r, "put")
  /\ IF Up /\ box.pending = renewal[r].key
       THEN /\ put' = [put EXCEPT ![r] = [at |-> "load", key |-> box.pending]]
            /\ Becomes(r, [renewal[r] EXCEPT !.at = "wait"])
            /\ mixed' = (mixed \/ \E q \in Renewals : put[q] # Idle)
       ELSE Done(r) /\ UNCHANGED <<put, mixed>>
  /\ UNCHANGED <<plane, box, bounds>>

Installing(r, stage) == put[r].at = stage
Goes(r, stage) == put' = [put EXCEPT ![r].at = stage]

Load(r) ==
  /\ Installing(r, "load") /\ Goes(r, "key")
  /\ box' = [box EXCEPT !.holder = Cert(put[r].key)]
  /\ UNCHANGED <<plane, renewal, mixed, bounds>>

\* Mutant: the new key stays in memory.
WriteKey_Kept(r) ==
  /\ Installing(r, "key") /\ Goes(r, "cert")
  /\ UNCHANGED <<box, plane, renewal, mixed, bounds>>

WriteKey(r) ==
  /\ Installing(r, "key") /\ Goes(r, "cert")
  /\ box' = [box EXCEPT !.key = put[r].key]
  /\ UNCHANGED <<plane, renewal, mixed, bounds>>

WriteCert(r) ==
  /\ Installing(r, "cert") /\ Goes(r, "clear")
  /\ box' = [box EXCEPT !.cert = Cert(put[r].key)]
  /\ UNCHANGED <<plane, renewal, mixed, bounds>>

\* Whatever key is pending is dropped, and the call is answered.
Clear(r) ==
  /\ Installing(r, "clear")
  /\ put' = [put EXCEPT ![r] = Idle]
  /\ box' = [box EXCEPT !.pending = None]
  /\ IF Renewing(r, "wait")
       THEN Becomes(r, [renewal[r] EXCEPT !.at = "record"])
       ELSE UNCHANGED renewal
  /\ UNCHANGED <<plane, mixed, bounds>>

Record(r) ==
  /\ Renewing(r, "record")
  /\ LET h == renewal[r].host
     IN  rows' = IF h \in Rows("host") THEN [rows EXCEPT !["host"][h].due = FALSE] ELSE rows
  /\ Done(r)
  /\ UNCHANGED <<token, refs, enrol, op, put, box, torn, mixed, bounds>>

\* A file cannot be written: the handler answers with an error, the key pends.
Unwritten(r) ==
  /\ put[r].at \in {"key", "cert"}
  /\ Fault
  /\ put' = [put EXCEPT ![r] = Idle]
  /\ IF Renewing(r, "wait") THEN Done(r) ELSE UNCHANGED renewal
  /\ mixed' = (mixed \/ Installing(r, "cert"))
  /\ UNCHANGED <<plane, box>>

\* A call times out or its answer is lost.
GiveUp(r) ==
  /\ renewal[r] # Idle
  /\ Fault
  /\ Done(r)
  /\ UNCHANGED <<plane, put, box, mixed>>
-----------------------------------------------------------------------------
(***************************************************************************)
(* The agent's process, and time                                           *)
(***************************************************************************)
Boots(b) == b.ready /\ b.key # None /\ b.cert # None /\ b.cert.key = b.key

Boot ==
  /\ ~Up /\ Boots(box)
  /\ box' = [box EXCEPT !.holder = box.cert]
  /\ UNCHANGED <<plane, renewal, put, mixed, bounds>>

Stopped ==
  /\ put' = [r \in Renewals |-> Idle]
  /\ renewal' = [r \in Renewals |-> IF Renewing(r, "wait") THEN Idle ELSE renewal[r]]

Die ==
  /\ Up
  /\ Fault
  /\ Stopped
  /\ box' = [box EXCEPT !.holder = None, !.pending = None]
  /\ mixed' = (mixed \/ \E r \in Renewals : Installing(r, "cert"))
  /\ UNCHANGED plane

\* The operator stops the agent and removes its directory, to enrol again.
Wipe ==
  /\ enrol = Idle /\ box.cert # None
  /\ Request
  /\ Stopped
  /\ box' = Blank
  /\ mixed' = FALSE
  /\ UNCHANGED plane

Quiet == enrol = Idle /\ \A r \in Renewals : renewal[r] = Idle /\ put[r] = Idle

Old(c) == IF c = None THEN None ELSE [c EXCEPT !.due = TRUE]

Age ==
  /\ ages < MaxAges /\ ages' = ages + 1
  /\ Quiet
  /\ rows' = [rows EXCEPT !["host"] = [i \in DOMAIN @ |-> [@[i] EXCEPT !.due = TRUE]]]
  /\ box' = [box EXCEPT !.cert = Old(@), !.holder = Old(@)]
  /\ UNCHANGED <<token, refs, enrol, op, renewal, put, torn, mixed, requests, faults>>
-----------------------------------------------------------------------------
Init ==
  /\ token = [t \in Tokens |-> "none"] /\ refs = [t \in Tokens |-> NoRefs]
  /\ rows = [tab \in Tables |-> <<>>]
  /\ enrol = Idle /\ op = Idle
  /\ renewal = [r \in Renewals |-> Idle] /\ put = [r \in Renewals |-> Idle]
  /\ box = Blank
  /\ torn = {} /\ mixed = FALSE
  /\ requests = 0 /\ faults = 0 /\ ages = 0

Enrolling == AddHost \/ AddRoles \/ Complete \/ SaveKey \/ SaveCert \/ SaveConfig
Forgetting == Revoke \/ Detach \/ Release \/ Drop \/ Forget
Renew(r) == Csr(r) \/ Put(r) \/ Load(r) \/ WriteKey(r) \/ WriteCert(r) \/ Clear(r) \/ Record(r)

Next ==
  \/ \E t \in Tokens : Issue(t) \/ Expire(t) \/ AskRevoke(t) \/ DeleteToken(t) \/ Enrol(t)
  \/ Enrolling \/ Interrupt
  \/ \E h \in Rows("host") : AskForget(h)
  \/ Forgetting
  \/ \E r \in Renewals : Plan(r) \/ Renew(r) \/ Unwritten(r) \/ GiveUp(r)
  \/ Boot \/ Die \/ Wipe \/ Age

Spec == Init /\ [][Next]_vars

\* Requests go on, the cycle comes round to every host, systemd starts the agent.
Fairness ==
  /\ WF_vars(Enrolling) /\ WF_vars(Forgetting) /\ WF_vars(Boot)
  /\ \A r \in Renewals : WF_vars(Renew(r))
  /\ \A h \in Ids : WF_vars(Plan(h))

FairSpec == Spec /\ Fairness
-----------------------------------------------------------------------------
(***************************************************************************)
(* Properties                                                              *)
(***************************************************************************)
\* An enrolment with one token made rows of one kind more than once.
Twice(t) ==
  \E tab \in Tables : \E i, j \in Rows(tab) :
    i # j /\ rows[tab][i].by = t /\ rows[tab][j].by = t

\* "Consumes the token in the same transaction that issues the certificate, so a
\* replayed URL gets 409": a token makes one host.  (provision.py enroll)
SingleUse == \A t \in Tokens : ~Twice(t)

\* A token makes one host with its roles, unless an enrolment with it ended
\* between two of its commits.  (provision.py _valid_pending, enroll)
UsedOnce == \A t \in Tokens \ torn : ~Twice(t)

\* An agent that runs can be started again from its files, at any time but
\* between the two writes of an install, unless an install ended there once or
\* two installs overlapped.  (server.go certRenew, certPut, enroll.go Run,
\* main.go serve)
BootsAgain ==
  Up /\ ~mixed /\ (\A r \in Renewals : ~Installing(r, "cert")) => Boots(box)

\* No host looks fresh to the cycle while the certificate that its box serves is
\* due: it would never be renewed.  (hosts.py _renew_if_due, server.go certPut)
RowNotAhead ==
  Up /\ box.holder.due => \A h \in Rows("host") : rows["host"][h].due

\* A box with one row comes to serve a fresh certificate, though answers are
\* lost, the operator renews at the same time and the agent restarts between
\* any two steps, as long as it runs.  (hosts.py _renew_if_due, agents.py
\* renew_cert, server.go certRenew, certPut)
Alone == \E h \in Rows("host") : Rows("host") = {h}
Renewed == (Up /\ Alone /\ box.holder.due) ~> (~Up \/ ~Alone \/ ~box.holder.due)
=============================================================================
