------------------------- MODULE HomeAssistantProofs -------------------------
(***************************************************************************)
(* Proofs about HomeAssistant, for every set of servers, zones, scopes and *)
(* clients and every bound; Cached is the instance of it in MCRequests.    *)
(*                                                                         *)
(* LoadsShared is about the step in which a request begins to load.  Such  *)
(* a request has the lock of its key, which is to stand at the head of the *)
(* queue: LockInv says that whoever loads stands there, so nobody else     *)
(* does, and that whoever waits stands in the queue, so that its head is   *)
(* somebody when it is looked at.                                          *)
(*                                                                         *)
(* LocksServed is what is safe about "every request is answered": QueueInv *)
(* says that who stands in a queue asks for its key and stands there once. *)
(***************************************************************************)
EXTENDS MCRequests, SequenceTheorems, TLAPS

\* Who loads a key has its lock.
LoadersLock ==
  \A c \in Clients, k \in Scopes :
    Cached!Loads(c, k) => queue[k] # <<>> /\ Head(queue[k]) = c

Queued(c, k) == \E i \in 1 .. Len(queue[k]) : queue[k][i] = c

\* Who waits for a lock is in its queue.
WaitersQueue ==
  \A c \in Clients : req[c].pc = "wait" => Queued(c, req[c].scope)

LockInv == LoadersLock /\ WaitersQueue

-----------------------------------------------------------------------------
\* What the boxes of a scope say, and what is told of it, is well typed.
LEMMA AllOnType ==
  ASSUME NEW got \in Cached!Partly
  PROVE  Cached!AllOn(got) \in Cached!Replies
BY DEF Cached!AllOn, Cached!Partly, Cached!Replies

LEMMA TellType ==
  ASSUME Cached!TypeOK, NEW k \in Scopes, NEW got \in Cached!Partly, Cached!Tell(k, got)
  PROVE  shown' \in [Scopes -> Cached!Replies \cup {None}]
BY AllOnType DEF Cached!TypeOK, Cached!Tell

LEMMA PutKnown ==
  ASSUME NEW got \in Cached!Partly, NEW s \in Servers, NEW v \in Cached!Answers
  PROVE  Cached!Put(got, s, v) \in Cached!Partly
<1>1. PICK S \in SUBSET Servers : got \in [S -> Cached!Answers]
  BY DEF Cached!Partly
<1>2. Cached!Put(got, s, v) \in [S \cup {s} -> Cached!Answers]
  BY <1>1 DEF Cached!Put
<1> QED BY <1>2 DEF Cached!Partly

LEMMA RequestTypes ==
  /\ Cached!Idle \in Cached!Requests
  /\ \A k \in Scopes : /\ Cached!Waiting(k) \in Cached!Requests
                      /\ Cached!Loading(k, Cached!NoAnswer, Cached!Targets(k)) \in Cached!Requests
  /\ \A v \in Cached!Writes, todo \in SUBSET Servers : Cached!Writing(v, todo) \in Cached!Requests
<1>1. Cached!NoAnswer \in [{} -> Cached!Answers]
  BY DEF Cached!NoAnswer
<1>2. Cached!NoAnswer \in Cached!Partly
  BY <1>1 DEF Cached!Partly
<1>3. \A k \in Scopes : Cached!Targets(k) \in SUBSET Servers
  BY DEF Cached!Targets
<1> QED BY <1>2, <1>3 DEF Cached!Requests

\* A request is a record of its stage.
LEMMA Stages ==
  ASSUME NEW r \in Cached!Requests
  PROVE  /\ r.pc = "wait" => r.scope \in Scopes
         /\ r.pc = "load" =>
              /\ r.scope \in Scopes /\ r.got \in Cached!Partly /\ r.todo \in SUBSET Servers
              /\ r = Cached!Loading(r.scope, r.got, r.todo)
         /\ r.pc = "write" =>
              /\ r.want \in Cached!Writes /\ r.todo \in SUBSET Servers
              /\ r = Cached!Writing(r.want, r.todo)
         /\ r.pc \in {"idle", "wait", "load", "write"}
BY DEF Cached!Requests, Cached!Idle, Cached!Waiting, Cached!Loading, Cached!Writing

\* One box fewer is to be asked.
Asking(r, got, left) == [r EXCEPT !.got = got, !.todo = left]

LEMMA Answering ==
  ASSUME NEW r, r = Cached!Loading(r.scope, r.got, r.todo), NEW got, NEW left
  PROVE  Asking(r, got, left) = Cached!Loading(r.scope, got, left)
<1> SUFFICES ASSUME NEW k, NEW was, NEW todo, r = Cached!Loading(k, was, todo)
             PROVE  [r EXCEPT !.got = got, !.todo = left] = Cached!Loading(k, got, left)
  BY DEF Cached!Loading, Asking
<1>1. [r EXCEPT !.got = got] = Cached!Loading(k, got, todo)
  BY DEF Cached!Loading
<1>2. [Cached!Loading(k, got, todo) EXCEPT !.todo = left] = Cached!Loading(k, got, left)
  BY DEF Cached!Loading
<1> QED BY <1>1, <1>2

\* An entry that is told has what the boxes said.
LEMMA HitType ==
  ASSUME Cached!TypeOK, NEW k \in Scopes, Cached!Hit(k)
  PROVE  shown' \in [Scopes -> Cached!Replies \cup {None}]
<1>1. entry[k] # None /\ entry[k] \in Cached!Entries
  BY DEF Cached!Hit, Cached!Fresh, Cached!Young, Cached!TypeOK
<1>2. entry[k].got \in Cached!Partly
  BY <1>1 DEF Cached!Entries
<1> QED BY <1>2, TellType DEF Cached!Hit

-----------------------------------------------------------------------------
\* Who looks at the lock has it: the queue it leaves is a queue.
LEMMA QueueOfHolder ==
  ASSUME Cached!TypeOK, LockInv, NEW c \in Clients, NEW k \in Scopes,
         Cached!Loads(c, k) \/ (req[c].pc = "wait" /\ req[c].scope = k)
  PROVE  /\ queue[k] \in Seq(Clients) /\ queue[k] # <<>>
         /\ Tail(queue[k]) \in Seq(Clients)
         /\ Len(Tail(queue[k])) = Len(queue[k]) - 1
         /\ \A i \in 1 .. Len(Tail(queue[k])) : Tail(queue[k])[i] = queue[k][i + 1]
<1>1. queue[k] \in Seq(Clients)
  BY DEF Cached!TypeOK
<1>2. queue[k] # <<>>
  BY <1>1 DEF LockInv, LoadersLock, WaitersQueue, Queued
<1> QED BY <1>1, <1>2, HeadTailProperties

\* Requests, the cache and what is told keep their types.
LEMMA TypeStep == Cached!TypeOK /\ LockInv /\ [Cached!Next]_(Cached!vars) => Cached!TypeOK'
<1>0. Ttl \in Nat
  BY CachedAssumption DEF Cached!HomeAssistantAssumption
<1> SUFFICES ASSUME Cached!TypeOK, LockInv, [Cached!Next]_(Cached!vars) PROVE Cached!TypeOK'
  OBVIOUS
<1>1. /\ row \in [Servers -> Cached!Rows] /\ on \in [Servers -> Cached!Setting]
      /\ up \in [Servers -> BOOLEAN] /\ entry \in [Scopes -> Cached!Entries \cup {None}]
      /\ queue \in [Scopes -> Seq(Clients)] /\ req \in [Clients -> Cached!Requests]
      /\ shown \in [Scopes -> Cached!Replies \cup {None}]
      /\ writes \in Nat /\ own \in Nat /\ edits \in Nat
  BY DEF Cached!TypeOK
<1>2. ASSUME NEW c \in Clients, NEW k \in Scopes, Cached!Ask(c, k) PROVE Cached!TypeOK'
  <2>1. CASE Cached!Hit(k) /\ UNCHANGED <<entry, queue, req, Cached!env>>
    BY <1>1, <2>1, HitType DEF Cached!TypeOK, Cached!env
  <2>2. CASE queue[k] = <<>> /\ queue' = [queue EXCEPT ![k] = <<c>>] /\ Cached!Load(c, k)
    BY <1>1, <2>2, RequestTypes DEF Cached!TypeOK, Cached!Load, Cached!env
  <2>3. CASE /\ queue' = [queue EXCEPT ![k] = Append(@, c)]
             /\ req' = [req EXCEPT ![c] = Cached!Waiting(k)]
             /\ UNCHANGED <<entry, shown, Cached!env>>
    <3>1. Append(queue[k], c) \in Seq(Clients)
      BY <1>1, AppendProperties
    <3> QED BY <1>1, <2>3, <3>1, RequestTypes DEF Cached!TypeOK, Cached!env
  <2> QED BY <1>2, <2>1, <2>2, <2>3 DEF Cached!Ask
<1>3. ASSUME NEW c \in Clients, Cached!Enter(c) PROVE Cached!TypeOK'
  <2> DEFINE k == req[c].scope
  <2>1. k \in Scopes
    BY <1>1, <1>3, Stages DEF Cached!Enter
  <2>2. CASE /\ Cached!Hit(k) /\ Cached!Release(k) /\ req' = [req EXCEPT ![c] = Cached!Idle]
             /\ UNCHANGED <<entry, Cached!env>>
    <3>1. queue' \in [Scopes -> Seq(Clients)]
      BY <1>1, <1>3, <2>1, <2>2, QueueOfHolder DEF Cached!Enter, Cached!Release
    <3> QED BY <1>1, <2>1, <2>2, <3>1, HitType, RequestTypes DEF Cached!TypeOK, Cached!env
  <2>3. CASE Cached!Load(c, k) /\ UNCHANGED queue
    BY <1>1, <2>1, <2>3, RequestTypes DEF Cached!TypeOK, Cached!Load, Cached!env
  <2> QED BY <1>3, <2>2, <2>3 DEF Cached!Enter
<1>4. ASSUME NEW c \in Clients, NEW s \in Servers, Cached!Answer(c, s) PROVE Cached!TypeOK'
  <2> DEFINE r == req[c]
             got == Cached!Put(r.got, s, Cached!Says(s))
  <2>1. /\ r.scope \in Scopes /\ r.got \in Cached!Partly /\ r.todo \in SUBSET Servers
        /\ r = Cached!Loading(r.scope, r.got, r.todo)
    BY <1>1, <1>4, Stages DEF Cached!Answer
  <2>2. Cached!Says(s) \in Cached!Answers
    BY <1>1 DEF Cached!Says, Cached!Answers
  <2>3. got \in Cached!Partly
    BY <2>1, <2>2, PutKnown
  <2>4. Asking(r, got, r.todo \ {s}) = Cached!Loading(r.scope, got, r.todo \ {s})
    <3> HIDE DEF r, got
    <3> QED BY <2>1, Answering
  <2>5. Cached!Loading(r.scope, got, r.todo \ {s}) \in Cached!Requests
    BY <2>1, <2>3 DEF Cached!Requests
  <2>6. req' = [req EXCEPT ![c] = Cached!Loading(r.scope, got, r.todo \ {s})]
    BY <1>1, <1>4, <2>4 DEF Cached!Answer, Asking
  <2> QED BY <1>1, <1>4, <2>5, <2>6 DEF Cached!Answer, Cached!TypeOK, Cached!env
<1>5. ASSUME NEW c \in Clients, Cached!Loaded(c) PROVE Cached!TypeOK'
  <2> DEFINE k == req[c].scope
  <2>1. k \in Scopes /\ req[c].got \in Cached!Partly
    BY <1>1, <1>5, Stages DEF Cached!Loaded
  <2>2. entry' \in [Scopes -> Cached!Entries \cup {None}]
    BY <1>0, <1>1, <1>5, <2>1 DEF Cached!Loaded, Cached!Entries
  <2>3. shown' \in [Scopes -> Cached!Replies \cup {None}]
    BY <1>5, <2>1, TellType DEF Cached!Loaded
  <2>4. queue' \in [Scopes -> Seq(Clients)]
    BY <1>1, <1>5, <2>1, QueueOfHolder DEF Cached!Loaded, Cached!Release, Cached!Loads
  <2> QED BY <1>1, <1>5, <2>2, <2>3, <2>4, RequestTypes DEF Cached!Loaded, Cached!TypeOK,
      Cached!env
<1>6. ASSUME NEW c \in Clients, NEW k \in Scopes, NEW v \in Cached!Writes, Cached!Toggle(c, k, v)
      PROVE  Cached!TypeOK'
  <2>1. Cached!Writing(v, Cached!Targets(k)) \in Cached!Requests
    BY RequestTypes DEF Cached!Targets
  <2> QED BY <1>1, <1>6, <2>1 DEF Cached!Toggle, Cached!TypeOK
<1>7. ASSUME NEW c \in Clients, NEW s \in Servers, Cached!Take(c, s) PROVE Cached!TypeOK'
  <2> DEFINE r == req[c]
  <2>1. r.want \in Cached!Writes /\ r.todo \in SUBSET Servers /\ r = Cached!Writing(r.want, r.todo)
    BY <1>1, <1>7, Stages DEF Cached!Take
  <2>2. on' \in [Servers -> Cached!Setting]
    BY <1>1, <1>7, <2>1 DEF Cached!Take, Cached!Taken, Cached!Writes
  <2>3. [r EXCEPT !.todo = @ \ {s}] = Cached!Writing(r.want, r.todo \ {s})
    BY <2>1 DEF Cached!Writing
  <2>4. Cached!Writing(r.want, r.todo \ {s}) \in Cached!Requests
    BY <2>1 DEF Cached!Requests
  <2>5. req' = [req EXCEPT ![c] = Cached!Writing(r.want, r.todo \ {s})]
    BY <1>1, <1>7, <2>3 DEF Cached!Take
  <2> QED BY <1>1, <1>7, <2>2, <2>4, <2>5 DEF Cached!Take, Cached!TypeOK
<1>8. ASSUME NEW c \in Clients, Cached!Applied(c) PROVE Cached!TypeOK'
  BY <1>1, <1>8, RequestTypes DEF Cached!Applied, Cached!Cleared, Cached!TypeOK, Cached!env
<1>9. CASE Cached!ListsWritten
  BY <1>1, <1>9 DEF Cached!ListsWritten, Cached!Cleared, Cached!TypeOK
<1>10. CASE Cached!Tick
  <2>1. entry' \in [Scopes -> Cached!Entries \cup {None}]
    BY <1>0, <1>1, <1>10 DEF Cached!Tick, Cached!Entries, Cached!Young
  <2> QED BY <1>1, <1>10, <2>1 DEF Cached!Tick, Cached!TypeOK, Cached!env
<1>11. ASSUME NEW s \in Servers, Cached!OwnChange(s) \/ Cached!Outage(s) \/ Cached!EditRow(s)
      PROVE  Cached!TypeOK'
  <2>1. CASE Cached!OwnChange(s)
    BY <1>1, <2>1 DEF Cached!OwnChange, Cached!TypeOK, Cached!Setting
  <2>2. CASE Cached!Outage(s)
    <3>1. up' \in [Servers -> BOOLEAN]
      BY <1>1, <2>2 DEF Cached!Outage
    <3> QED BY <1>1, <2>2, <3>1 DEF Cached!Outage, Cached!TypeOK
  <2>3. CASE Cached!EditRow(s)
    BY <1>1, <2>3 DEF Cached!EditRow, Cached!TypeOK
  <2> QED BY <1>11, <2>1, <2>2, <2>3
<1>12. CASE UNCHANGED Cached!vars
  BY <1>12 DEF Cached!vars, Cached!TypeOK
<1> QED
  BY <1>2, <1>3, <1>4, <1>5, <1>6, <1>7, <1>8, <1>9, <1>10, <1>11, <1>12 DEF Cached!Next,
      Cached!Serve

-----------------------------------------------------------------------------
\* A step that leaves the queue of a key as it is, or adds to its end, leaves its
\* head and everybody in it.
LEMMA Standing ==
  ASSUME Cached!TypeOK, NEW k \in Scopes, NEW d \in Clients,
         queue'[k] = queue[k] \/ \E c \in Clients : queue'[k] = Append(queue[k], c)
  PROVE  /\ queue[k] # <<>> => queue'[k] # <<>> /\ Head(queue'[k]) = Head(queue[k])
         /\ Queued(d, k) => Queued(d, k)'
<1>1. queue[k] \in Seq(Clients)
  BY DEF Cached!TypeOK
<1>2. CASE queue'[k] = queue[k]
  BY <1>2 DEF Queued
<1>3. ASSUME NEW c \in Clients, queue'[k] = Append(queue[k], c)
      PROVE  /\ queue[k] # <<>> => queue'[k] # <<>> /\ Head(queue'[k]) = Head(queue[k])
             /\ Queued(d, k) => Queued(d, k)'
  BY <1>1, <1>3, AppendProperties DEF Queued
<1> QED BY <1>2, <1>3

\* Nobody else stands where one stood who gives the lock away.
LEMMA Releasing ==
  ASSUME Cached!TypeOK, LockInv, NEW c \in Clients, NEW k \in Scopes, Cached!Release(k),
         queue[k] # <<>>, Head(queue[k]) = c, req' = [req EXCEPT ![c] = Cached!Idle],
         Cached!Loads(c, k) \/ (req[c].pc = "wait" /\ req[c].scope = k)
  PROVE  LockInv'
<1>1. /\ queue'[k] = Tail(queue[k])
      /\ \A x \in Scopes : x # k => queue'[x] = queue[x]
  BY DEF Cached!TypeOK, Cached!Release
<1>2. /\ req'[c] = Cached!Idle
      /\ \A d \in Clients : d # c => req'[d] = req[d]
  BY DEF Cached!TypeOK
<1>3. LoadersLock'
  BY <1>1, <1>2 DEF LockInv, LoadersLock, Cached!Loads, Cached!Idle
<1>4. WaitersQueue'
  <2> SUFFICES ASSUME NEW d \in Clients, req'[d].pc = "wait"
               PROVE  Queued(d, req[d].scope)' /\ req'[d] = req[d]
    BY DEF WaitersQueue, Queued
  <2> DEFINE x == req[d].scope
  <2>1. d # c /\ req'[d] = req[d] /\ Queued(d, x)
    BY <1>2 DEF LockInv, WaitersQueue, Cached!Idle
  <2>2. x \in Scopes
    BY <2>1, Stages DEF Cached!TypeOK
  <2>3. CASE x # k
    BY <1>1, <2>1, <2>2, <2>3 DEF Queued
  <2>4. CASE x = k
    <3>1. PICK i \in 1 .. Len(queue[k]) : queue[k][i] = d
      BY <2>1, <2>4 DEF Queued
    <3>2. i # 1
      BY <2>1, <3>1, QueueOfHolder, HeadTailProperties
    <3>3. i - 1 \in 1 .. Len(queue'[k]) /\ queue'[k][i - 1] = d
      BY <1>1, <3>1, <3>2, QueueOfHolder, LenProperties
    <3> QED BY <2>1, <2>4, <3>3 DEF Queued
  <2> QED BY <2>1, <2>3, <2>4
<1> QED BY <1>3, <1>4 DEF LockInv

\* Who neither comes to a lock nor leaves one disturbs none.
LEMMA Keeping ==
  ASSUME Cached!TypeOK, LockInv, UNCHANGED queue,
         \A d \in Clients :
           \/ req'[d] = req[d]
           \/ req'[d].pc \in {"idle", "write"}
           \/ req[d].pc = "load" /\ req'[d].pc = "load" /\ req'[d].scope = req[d].scope
  PROVE  LockInv'
<1>1. LoadersLock'
  BY DEF LockInv, LoadersLock, Cached!Loads
<1>2. WaitersQueue'
  BY DEF LockInv, WaitersQueue, Queued
<1> QED BY <1>1, <1>2 DEF LockInv

\* The queue of a key: who comes to a free lock, and who comes to wait.
LEMMA AskLock ==
  ASSUME Cached!TypeOK, LockInv, NEW c \in Clients, NEW k \in Scopes, Cached!Ask(c, k)
  PROVE  LockInv'
<1>1. queue \in [Scopes -> Seq(Clients)] /\ req \in [Clients -> Cached!Requests]
  BY DEF Cached!TypeOK
<1>2. CASE Cached!Hit(k) /\ UNCHANGED <<entry, queue, req, Cached!env>>
  BY <1>2, Keeping
<1>3. CASE queue[k] = <<>> /\ queue' = [queue EXCEPT ![k] = <<c>>] /\ Cached!Load(c, k)
  <2>1. /\ req'[c] = Cached!Loading(k, Cached!NoAnswer, Cached!Targets(k))
        /\ \A d \in Clients : d # c => req'[d] = req[d]
        /\ queue'[k] = <<c>>
        /\ \A x \in Scopes : x # k => queue'[x] = queue[x]
    BY <1>1, <1>3 DEF Cached!Load
  <2>2. req'[c].pc = "load" /\ req'[c].scope = k
    BY <2>1 DEF Cached!Loading
  <2>3. LoadersLock'
    <3> SUFFICES ASSUME NEW d \in Clients, NEW x \in Scopes, Cached!Loads(d, x)'
                 PROVE  queue'[x] # <<>> /\ Head(queue'[x]) = d
      BY DEF LoadersLock
    <3>1. CASE d = c
      BY <2>1, <2>2, <3>1 DEF Cached!Loads
    <3>2. CASE d # c
      <4>1. queue[x] # <<>> /\ Head(queue[x]) = d
        BY <2>1, <3>2 DEF Cached!Loads, LockInv, LoadersLock
      <4> QED BY <1>3, <2>1, <4>1
    <3> QED BY <3>1, <3>2
  <2>4. WaitersQueue'
    <3> SUFFICES ASSUME NEW d \in Clients, req'[d].pc = "wait"
                 PROVE  Queued(d, req[d].scope)' /\ req'[d] = req[d]
      BY DEF WaitersQueue, Queued
    <3>1. req'[d] = req[d] /\ Queued(d, req[d].scope) /\ req[d].scope \in Scopes
      BY <1>1, <2>1, <2>2, Stages DEF LockInv, WaitersQueue
    <3>2. req[d].scope # k
      BY <1>3, <3>1 DEF Queued
    <3> QED BY <2>1, <3>1, <3>2 DEF Queued
  <2> QED BY <2>3, <2>4 DEF LockInv
<1>4. CASE /\ queue' = [queue EXCEPT ![k] = Append(@, c)]
           /\ req' = [req EXCEPT ![c] = Cached!Waiting(k)]
  <2>1. /\ req'[c].pc = "wait" /\ req'[c].scope = k
        /\ \A d \in Clients : d # c => req'[d] = req[d]
        /\ queue'[k] = Append(queue[k], c)
        /\ \A x \in Scopes : x # k => queue'[x] = queue[x]
    BY <1>1, <1>4 DEF Cached!Waiting
  <2>2. \A x \in Scopes : queue'[x] = queue[x] \/ \E d \in Clients : queue'[x] = Append(queue[x], d)
    BY <2>1
  <2>3. LoadersLock'
    <3> SUFFICES ASSUME NEW d \in Clients, NEW x \in Scopes, Cached!Loads(d, x)'
                 PROVE  queue'[x] # <<>> /\ Head(queue'[x]) = d
      BY DEF LoadersLock
    <3>1. queue[x] # <<>> /\ Head(queue[x]) = d
      BY <2>1 DEF Cached!Loads, LockInv, LoadersLock
    <3> QED BY <2>2, <3>1, Standing
  <2>4. WaitersQueue'
    <3> SUFFICES ASSUME NEW d \in Clients, req'[d].pc = "wait"
                 PROVE  Queued(d, req[d].scope)'
      BY DEF WaitersQueue, Queued
    <3>1. CASE d = c
      <4>1. /\ Len(queue'[k]) \in Nat /\ Len(queue'[k]) >= 1
            /\ queue'[k][Len(queue'[k])] = c
        BY <1>1, <2>1, AppendProperties, LenProperties
      <4> QED BY <2>1, <3>1, <4>1 DEF Queued
    <3>2. CASE d # c
      <4>1. req'[d] = req[d] /\ Queued(d, req[d].scope) /\ req[d].scope \in Scopes
        BY <1>1, <2>1, <3>2, Stages DEF LockInv, WaitersQueue
      <4>2. Queued(d, req[d].scope)'
        BY <2>2, <4>1, Standing DEF Queued
      <4> QED BY <4>1, <4>2 DEF Queued
    <3> QED BY <3>1, <3>2
  <2> QED BY <2>3, <2>4 DEF LockInv
<1> QED BY <1>2, <1>3, <1>4 DEF Cached!Ask

\* Who was waiting and has the lock goes, or loads with it.
LEMMA EnterLock ==
  ASSUME Cached!TypeOK, LockInv, NEW c \in Clients, Cached!Enter(c)
  PROVE  LockInv'
<1> DEFINE k == req[c].scope
<1>1. req \in [Clients -> Cached!Requests] /\ k \in Scopes /\ req[c].pc = "wait"
  BY Stages DEF Cached!TypeOK, Cached!Enter
<1>2. queue[k] # <<>> /\ Head(queue[k]) = c
  BY <1>1, QueueOfHolder DEF Cached!Enter
<1>3. CASE Cached!Release(k) /\ req' = [req EXCEPT ![c] = Cached!Idle]
  BY <1>1, <1>2, <1>3, Releasing
<1>4. CASE Cached!Load(c, k) /\ UNCHANGED queue
  <2>1. /\ req'[c].pc = "load" /\ req'[c].scope = k
        /\ \A d \in Clients : d # c => req'[d] = req[d]
    BY <1>1, <1>4 DEF Cached!Load, Cached!Loading
  <2>2. LoadersLock'
    BY <1>2, <1>4, <2>1 DEF LockInv, LoadersLock, Cached!Loads
  <2>3. WaitersQueue'
    BY <1>4, <2>1 DEF LockInv, WaitersQueue, Queued
  <2> QED BY <2>2, <2>3 DEF LockInv
<1> QED BY <1>3, <1>4 DEF Cached!Enter

\* A load keeps its key until it gives the lock away.
LEMMA LockStep == Cached!TypeOK /\ LockInv /\ [Cached!Next]_(Cached!vars) => LockInv'
<1> SUFFICES ASSUME Cached!TypeOK, LockInv, [Cached!Next]_(Cached!vars) PROVE LockInv'
  OBVIOUS
<1>1. req \in [Clients -> Cached!Requests]
  BY DEF Cached!TypeOK
<1>2. ASSUME NEW c \in Clients, NEW s \in Servers, Cached!Answer(c, s) PROVE LockInv'
  <2>1. /\ req'[c] = [req[c] EXCEPT !.got = Cached!Put(@, s, Cached!Says(s)), !.todo = @ \ {s}]
        /\ \A d \in Clients : d # c => req'[d] = req[d]
    BY <1>1, <1>2 DEF Cached!Answer
  <2>2. req[c] = Cached!Loading(req[c].scope, req[c].got, req[c].todo) /\ req[c].pc = "load"
    BY <1>1, <1>2, Stages DEF Cached!Answer
  <2>3. req'[c].pc = "load" /\ req'[c].scope = req[c].scope
    BY <2>1, <2>2 DEF Cached!Loading
  <2> QED BY <1>2, <2>1, <2>2, <2>3, Keeping DEF Cached!Answer
<1>3. ASSUME NEW c \in Clients, Cached!Loaded(c) PROVE LockInv'
  <2> DEFINE k == req[c].scope
  <2>1. k \in Scopes /\ Cached!Loads(c, k)
    BY <1>1, <1>3, Stages DEF Cached!Loaded, Cached!Loads
  <2>2. queue[k] # <<>> /\ Head(queue[k]) = c
    BY <2>1 DEF LockInv, LoadersLock
  <2> QED BY <1>3, <2>1, <2>2, Releasing DEF Cached!Loaded
<1>4. ASSUME NEW c \in Clients, NEW k \in Scopes, NEW v \in Cached!Writes, Cached!Toggle(c, k, v)
      PROVE  LockInv'
  <2>1. req'[c].pc = "write" /\ \A d \in Clients : d # c => req'[d] = req[d]
    BY <1>1, <1>4 DEF Cached!Toggle, Cached!Writing
  <2> QED BY <1>4, <2>1, Keeping DEF Cached!Toggle
<1>5. ASSUME NEW c \in Clients, NEW s \in Servers, Cached!Take(c, s) PROVE LockInv'
  <2>1. req'[c].pc = "write" /\ \A d \in Clients : d # c => req'[d] = req[d]
    <3>1. req[c] = Cached!Writing(req[c].want, req[c].todo)
      BY <1>1, <1>5, Stages DEF Cached!Take
    <3>2. /\ req'[c] = [req[c] EXCEPT !.todo = @ \ {s}]
          /\ \A d \in Clients : d # c => req'[d] = req[d]
      BY <1>1, <1>5 DEF Cached!Take
    <3> QED BY <3>1, <3>2 DEF Cached!Writing
  <2> QED BY <1>5, <2>1, Keeping DEF Cached!Take
<1>6. ASSUME NEW c \in Clients, Cached!Applied(c) PROVE LockInv'
  <2>1. req'[c].pc = "idle" /\ \A d \in Clients : d # c => req'[d] = req[d]
    BY <1>1, <1>6 DEF Cached!Applied, Cached!Idle
  <2> QED BY <1>6, <2>1, Keeping DEF Cached!Applied
<1>7. CASE Cached!ListsWritten \/ Cached!Tick
  BY <1>7, Keeping DEF Cached!ListsWritten, Cached!Tick
<1>8. ASSUME NEW s \in Servers, Cached!OwnChange(s) \/ Cached!Outage(s) \/ Cached!EditRow(s)
      PROVE  LockInv'
  BY <1>8, Keeping DEF Cached!OwnChange, Cached!Outage, Cached!EditRow
<1>9. CASE UNCHANGED Cached!vars
  BY <1>9, Keeping DEF Cached!vars
<1> QED
  BY AskLock, EnterLock, <1>2, <1>3, <1>4, <1>5, <1>6, <1>7, <1>8, <1>9 DEF Cached!Next,
      Cached!Serve

\* Nothing is asked for yet: every lock is free.
LEMMA InitInv == Cached!Init => Cached!TypeOK /\ LockInv
<1> SUFFICES ASSUME Cached!Init PROVE Cached!TypeOK /\ LockInv
  OBVIOUS
<1>1. Cached!TypeOK
  BY RequestTypes DEF Cached!Init, Cached!TypeOK, Cached!Cleared
<1>2. LockInv
  BY DEF Cached!Init, LockInv, LoadersLock, WaitersQueue, Cached!Loads, Cached!Idle
<1> QED BY <1>1, <1>2

\* Types and the discipline of the locks hold together, each by way of the other.
LEMMA Invariants == Cached!Spec => [](Cached!TypeOK /\ LockInv)
BY InitInv, TypeStep, LockStep, PTL DEF Cached!Spec

-----------------------------------------------------------------------------
\* The type of every variable, whatever was asked for, answered or lost.
THEOREM TypeCorrect == Cached!Spec => []Cached!TypeOK
BY Invariants, PTL

\* Who begins to load found no fresh entry, and found the lock free or had
\* waited for it.
LEMMA Begins ==
  ASSUME Cached!TypeOK, LockInv, Cached!Next, NEW c \in Clients, NEW k \in Scopes,
         ~Cached!Loads(c, k), Cached!Loads(c, k)'
  PROVE  ~Cached!Fresh(k) /\ (queue[k] = <<>> \/ Head(queue[k]) = c)
<1>1. req \in [Clients -> Cached!Requests]
  BY DEF Cached!TypeOK
<1>2. ASSUME UNCHANGED req[c] PROVE FALSE
  BY <1>2 DEF Cached!Loads
<1>3. ASSUME req'[c].pc \in {"idle", "wait", "write"} PROVE FALSE
  BY <1>3 DEF Cached!Loads
<1>4. ASSUME NEW d \in Clients, NEW x \in Scopes, Cached!Ask(d, x)
      PROVE  ~Cached!Fresh(k) /\ queue[k] = <<>>
  <2>1. d = c /\ queue[x] = <<>> /\ Cached!Load(d, x)
    BY <1>1, <1>2, <1>3, <1>4 DEF Cached!Ask, Cached!Load, Cached!Waiting
  <2>2. x = k
    BY <1>1, <2>1 DEF Cached!Load, Cached!Loading, Cached!Loads
  <2> QED BY <2>1, <2>2 DEF Cached!Load
<1>5. ASSUME NEW d \in Clients, Cached!Enter(d) PROVE ~Cached!Fresh(k) /\ Head(queue[k]) = c
  <2>1. d = c /\ Cached!Load(d, req[d].scope) /\ Head(queue[req[d].scope]) = d
    BY <1>1, <1>2, <1>3, <1>5 DEF Cached!Enter, Cached!Load, Cached!Idle
  <2>2. req[d].scope = k
    BY <1>1, <2>1 DEF Cached!Load, Cached!Loading, Cached!Loads
  <2> QED BY <2>1, <2>2 DEF Cached!Load
<1>6. ASSUME NEW d \in Clients, NEW s \in Servers, Cached!Answer(d, s) PROVE FALSE
  <2>1. d = c
    BY <1>1, <1>2, <1>6 DEF Cached!Answer
  <2>2. req[c] = Cached!Loading(req[c].scope, req[c].got, req[c].todo) /\ req[c].pc = "load"
    BY <1>1, <1>6, <2>1, Stages DEF Cached!Answer
  <2>3. req'[c] = [req[c] EXCEPT !.got = Cached!Put(@, s, Cached!Says(s)), !.todo = @ \ {s}]
    BY <1>1, <1>6, <2>1 DEF Cached!Answer
  <2>4. req'[c].scope = req[c].scope
    BY <2>2, <2>3 DEF Cached!Loading
  <2> QED BY <2>2, <2>4 DEF Cached!Loads
<1>7. ASSUME NEW d \in Clients, Cached!Loaded(d) \/ Cached!Applied(d) PROVE FALSE
  BY <1>1, <1>2, <1>3, <1>7 DEF Cached!Loaded, Cached!Applied, Cached!Idle
<1>8. ASSUME NEW d \in Clients, NEW x \in Scopes, NEW v \in Cached!Writes, Cached!Toggle(d, x, v)
      PROVE  FALSE
  BY <1>1, <1>2, <1>3, <1>8 DEF Cached!Toggle, Cached!Writing
<1>9. ASSUME NEW d \in Clients, NEW s \in Servers, Cached!Take(d, s) PROVE FALSE
  <2>1. d = c
    BY <1>1, <1>2, <1>9 DEF Cached!Take
  <2>2. req[c] = Cached!Writing(req[c].want, req[c].todo)
    BY <1>1, <1>9, <2>1, Stages DEF Cached!Take
  <2>3. req'[c] = [req[c] EXCEPT !.todo = @ \ {s}]
    BY <1>1, <1>9, <2>1 DEF Cached!Take
  <2>4. req'[c].pc = "write"
    BY <2>2, <2>3 DEF Cached!Writing
  <2> QED BY <1>3, <2>4
<1>10. CASE Cached!ListsWritten \/ Cached!Tick
  BY <1>2, <1>10 DEF Cached!ListsWritten, Cached!Tick
<1>11. ASSUME NEW s \in Servers, Cached!OwnChange(s) \/ Cached!Outage(s) \/ Cached!EditRow(s)
      PROVE  FALSE
  BY <1>2, <1>11 DEF Cached!OwnChange, Cached!Outage, Cached!EditRow
<1> QED
  BY <1>4, <1>5, <1>6, <1>7, <1>8, <1>9, <1>10, <1>11 DEF Cached!Next, Cached!Serve

\* ReadCache collapses concurrent loads into one, whoever asks for which scope
\* and whatever is stored or cleared between the two looks at the entry.
THEOREM LoadsOnce == Cached!Spec => LoadsShared
<1>1. Cached!TypeOK /\ LockInv /\ [Cached!Next]_(Cached!vars) =>
        [\A c \in Clients, k \in Scopes :
           (~Cached!Loads(c, k) /\ Cached!Loads(c, k)') =>
              ~Cached!Fresh(k) /\ \A d \in Clients : ~Cached!Loads(d, k)]_(Cached!vars)
  <2> SUFFICES ASSUME Cached!TypeOK, LockInv, Cached!Next, NEW c \in Clients, NEW k \in Scopes,
                      ~Cached!Loads(c, k), Cached!Loads(c, k)'
               PROVE  ~Cached!Fresh(k) /\ \A d \in Clients : ~Cached!Loads(d, k)
    OBVIOUS
  <2>1. ~Cached!Fresh(k) /\ (queue[k] = <<>> \/ Head(queue[k]) = c)
    BY Begins
  <2> QED BY <2>1 DEF LockInv, LoadersLock
<1> QED BY <1>1, Invariants, PTL DEF Cached!Spec, LoadsShared, Cached!LoadsShared
-----------------------------------------------------------------------------
\* Who stands in the queue of a key asks for that key, stands there once, and
\* waits unless it is at the head.
QueueInv ==
  \A k \in Scopes : \A i \in 1 .. Len(queue[k]) :
    /\ req[queue[k][i]].pc \in {"wait", "load"} /\ req[queue[k][i]].scope = k
    /\ i > 1 => req[queue[k][i]].pc = "wait"
    /\ \A j \in 1 .. Len(queue[k]) : queue[k][j] = queue[k][i] => j = i

\* A lock that is taken is the lock of a request for its key that is at work or
\* about to look at the entry, and everybody who waits stands behind it.
LocksServed ==
  /\ \A k \in Scopes : queue[k] # <<>> =>
       /\ req[Head(queue[k])].pc \in {"wait", "load"}
       /\ req[Head(queue[k])].scope = k
  /\ WaitersQueue

\* Queues that stay as they are, when who stands in one goes on for its key and
\* only the head begins to load.
LEMMA QueueKept ==
  ASSUME Cached!TypeOK, QueueInv, UNCHANGED queue,
         \A d \in Clients :
           \/ req'[d] = req[d]
           \/ \A k \in Scopes : ~Queued(d, k)
           \/ /\ req'[d].pc = "load" /\ req'[d].scope = req[d].scope
              /\ req[d].pc = "load" \/ Head(queue[req[d].scope]) = d
  PROVE  QueueInv'
<1> SUFFICES ASSUME NEW k \in Scopes, NEW i \in 1 .. Len(queue[k])
             PROVE  /\ req'[queue[k][i]].pc \in {"wait", "load"} /\ req'[queue[k][i]].scope = k
                    /\ i > 1 => req'[queue[k][i]].pc = "wait"
                    /\ \A j \in 1 .. Len(queue[k]) : queue[k][j] = queue[k][i] => j = i
  BY DEF QueueInv
<1> DEFINE d == queue[k][i]
<1>1. queue[k] \in Seq(Clients) /\ d \in Clients /\ Queued(d, k)
  BY DEF Cached!TypeOK, Queued
<1>2. /\ req[d].pc \in {"wait", "load"} /\ req[d].scope = k
      /\ i > 1 => req[d].pc = "wait"
      /\ \A j \in 1 .. Len(queue[k]) : queue[k][j] = d => j = i
  BY DEF QueueInv
<1>3. CASE req'[d] = req[d]
  BY <1>2, <1>3
<1>4. CASE /\ req'[d].pc = "load" /\ req'[d].scope = req[d].scope
           /\ req[d].pc = "load" \/ Head(queue[req[d].scope]) = d
  <2>1. Head(queue[k]) = d => i = 1
    BY <1>1, <1>2, HeadTailProperties
  <2>2. ~(i > 1)
    BY <1>2, <1>4, <2>1
  <2> QED BY <1>2, <1>4, <2>2
<1>5. \/ req'[d] = req[d]
      \/ /\ req'[d].pc = "load" /\ req'[d].scope = req[d].scope
         /\ req[d].pc = "load" \/ Head(queue[req[d].scope]) = d
  <2> HIDE DEF d
  <2> QED BY <1>1
<1> QED BY <1>3, <1>4, <1>5

\* The head goes: who stood behind it moves up.
LEMMA QueueMovesUp ==
  ASSUME Cached!TypeOK, QueueInv, NEW c \in Clients, NEW k \in Scopes, Cached!Release(k),
         queue[k] # <<>>, Head(queue[k]) = c, req' = [req EXCEPT ![c] = Cached!Idle]
  PROVE  QueueInv'
<1>1. queue \in [Scopes -> Seq(Clients)] /\ queue[k] \in Seq(Clients)
  BY DEF Cached!TypeOK
<1>2. /\ queue'[k] = Tail(queue[k])
      /\ \A x \in Scopes : x # k => queue'[x] = queue[x]
      /\ \A d \in Clients : d # c => req'[d] = req[d]
  BY <1>1 DEF Cached!TypeOK, Cached!Release
<1>3. queue[k][1] = c /\ Len(queue[k]) \in Nat /\ 1 \in 1 .. Len(queue[k])
  BY <1>1, HeadTailProperties, LenProperties
<1>4. req[c].scope = k
  BY <1>3 DEF QueueInv
<1> SUFFICES ASSUME NEW x \in Scopes, NEW i \in 1 .. Len(queue'[x])
             PROVE  /\ req'[queue'[x][i]].pc \in {"wait", "load"}
                    /\ req'[queue'[x][i]].scope = x
                    /\ i > 1 => req'[queue'[x][i]].pc = "wait"
                    /\ \A j \in 1 .. Len(queue'[x]) : queue'[x][j] = queue'[x][i] => j = i
  BY DEF QueueInv
<1>5. CASE x # k
  <2> DEFINE d == queue[x][i]
  <2>1. queue'[x] = queue[x] /\ queue[x] \in Seq(Clients)
    BY <1>1, <1>2, <1>5
  <2>2. d \in Clients /\ i \in 1 .. Len(queue[x])
    BY <2>1
  <2>3. /\ req[d].pc \in {"wait", "load"} /\ req[d].scope = x
        /\ i > 1 => req[d].pc = "wait"
        /\ \A j \in 1 .. Len(queue[x]) : queue[x][j] = d => j = i
    BY <2>2 DEF QueueInv
  <2>4. req'[d] = req[d]
    BY <1>2, <1>4, <1>5, <2>2, <2>3
  <2> QED BY <2>1, <2>3, <2>4
<1>6. CASE x = k
  <2>1. /\ Len(queue'[k]) = Len(queue[k]) - 1
        /\ \A j \in 1 .. Len(queue'[k]) : queue'[k][j] = queue[k][j + 1]
    BY <1>1, <1>2, HeadTailProperties
  <2> DEFINE d == queue[k][i + 1]
  <2>2. i + 1 \in 1 .. Len(queue[k]) /\ i + 1 > 1 /\ queue'[k][i] = d
    BY <1>3, <1>6, <2>1
  <2>3. d \in Clients
    BY <1>1, <2>2
  <2>4. /\ req[d].scope = k /\ req[d].pc = "wait"
        /\ \A j \in 1 .. Len(queue[k]) : queue[k][j] = d => j = i + 1
    BY <2>2 DEF QueueInv
  <2>5. d # c
    BY <1>3, <2>2, <2>4
  <2>6. \A j \in 1 .. Len(queue'[k]) : queue'[k][j] = d => j = i
    <3> SUFFICES ASSUME NEW j \in 1 .. Len(queue'[k]), queue'[k][j] = d PROVE j = i
      OBVIOUS
    <3>1. j + 1 \in 1 .. Len(queue[k]) /\ queue[k][j + 1] = d
      BY <1>3, <2>1
    <3> QED BY <2>4, <3>1
  <2> HIDE DEF d
  <2>7. req'[d] = req[d]
    BY <1>2, <2>3, <2>5
  <2> QED BY <1>6, <2>2, <2>4, <2>6, <2>7
<1> QED BY <1>5, <1>6

\* A request that stands nowhere comes to the end of one queue.
LEMMA QueueJoined ==
  ASSUME Cached!TypeOK, QueueInv, NEW c \in Clients, NEW k \in Scopes,
         \A x \in Scopes : ~Queued(c, x),
         queue' = [queue EXCEPT ![k] = Append(@, c)],
         \A d \in Clients : d # c => req'[d] = req[d],
         req'[c].scope = k,
         req'[c].pc = "wait" \/ (req'[c].pc = "load" /\ queue[k] = <<>>)
  PROVE  QueueInv'
<1>1. queue \in [Scopes -> Seq(Clients)] /\ queue[k] \in Seq(Clients)
  BY DEF Cached!TypeOK
<1>2. /\ queue'[k] = Append(queue[k], c)
      /\ \A x \in Scopes : x # k => queue'[x] = queue[x]
  BY <1>1
<1>3. /\ Len(queue[k]) \in Nat /\ Len(queue'[k]) = Len(queue[k]) + 1
      /\ queue'[k][Len(queue[k]) + 1] = c
      /\ \A j \in 1 .. Len(queue[k]) : queue'[k][j] = queue[k][j]
  BY <1>1, <1>2, AppendProperties, LenProperties
\* Who stood in a queue is as before.
<1>4. ASSUME NEW x \in Scopes, NEW i \in 1 .. Len(queue[x])
      PROVE  /\ queue[x][i] # c /\ req'[queue[x][i]] = req[queue[x][i]]
             /\ req[queue[x][i]].pc \in {"wait", "load"} /\ req[queue[x][i]].scope = x
             /\ i > 1 => req[queue[x][i]].pc = "wait"
             /\ \A j \in 1 .. Len(queue[x]) : queue[x][j] = queue[x][i] => j = i
  <2>1. queue[x][i] \in Clients
    BY <1>1
  <2>2. queue[x][i] # c
    BY DEF Queued
  <2> QED BY <2>1, <2>2 DEF QueueInv
<1> SUFFICES ASSUME NEW x \in Scopes, NEW i \in 1 .. Len(queue'[x])
             PROVE  /\ req'[queue'[x][i]].pc \in {"wait", "load"}
                    /\ req'[queue'[x][i]].scope = x
                    /\ i > 1 => req'[queue'[x][i]].pc = "wait"
                    /\ \A j \in 1 .. Len(queue'[x]) : queue'[x][j] = queue'[x][i] => j = i
  BY DEF QueueInv
<1>5. CASE x # k
  BY <1>2, <1>4, <1>5
<1>6. CASE x = k /\ i \in 1 .. Len(queue[k])
  <2>1. \A j \in 1 .. Len(queue'[k]) : queue'[k][j] = queue[k][i] => j = i
    <3> SUFFICES ASSUME NEW j \in 1 .. Len(queue'[k]), queue'[k][j] = queue[k][i] PROVE j = i
      OBVIOUS
    <3>1. j \in 1 .. Len(queue[k]) \/ j = Len(queue[k]) + 1
      BY <1>3
    <3> QED BY <1>3, <1>4, <1>6, <3>1
  <2>2. queue'[k][i] = queue[k][i]
    BY <1>3, <1>6
  <2> QED BY <1>4, <1>6, <2>1, <2>2
<1>7. CASE x = k /\ i = Len(queue[k]) + 1
  <2>1. \A j \in 1 .. Len(queue'[k]) : queue'[k][j] = c => j = i
    <3> SUFFICES ASSUME NEW j \in 1 .. Len(queue'[k]), queue'[k][j] = c PROVE j = i
      OBVIOUS
    <3>1. j \in 1 .. Len(queue[k]) \/ j = Len(queue[k]) + 1
      BY <1>3
    <3> QED BY <1>3, <1>4, <1>7, <3>1
  <2>2. queue'[k][i] = c
    BY <1>3, <1>7
  <2>3. queue[k] = <<>> => ~(i > 1)
    BY <1>1, <1>7, EmptySeq
  <2> QED BY <1>7, <2>1, <2>2, <2>3
<1> QED BY <1>3, <1>5, <1>6, <1>7

\* Whoever comes to a lock, goes on with it or gives it away.
LEMMA QueueStep ==
  Cached!TypeOK /\ LockInv /\ QueueInv /\ [Cached!Next]_(Cached!vars) => QueueInv'
<1> SUFFICES ASSUME Cached!TypeOK, LockInv, QueueInv, [Cached!Next]_(Cached!vars)
             PROVE  QueueInv'
  OBVIOUS
<1>1. req \in [Clients -> Cached!Requests] /\ queue \in [Scopes -> Seq(Clients)]
  BY DEF Cached!TypeOK
<1>2. \A c \in Clients : Cached!New(c) => \A k \in Scopes : ~Queued(c, k)
  <2> SUFFICES ASSUME NEW c \in Clients, Cached!New(c), NEW k \in Scopes PROVE ~Queued(c, k)
    OBVIOUS
  <2>1. queue[k] \in Seq(Clients) /\ DOMAIN queue[k] = 1 .. Len(queue[k])
    BY <1>1, LenProperties
  <2> QED BY <2>1 DEF Cached!New, Cached!Range, Queued
<1>3. \A c \in Clients : req[c].pc = "write" => \A k \in Scopes : ~Queued(c, k)
  BY DEF QueueInv, Queued
<1>4. ASSUME NEW c \in Clients, NEW k \in Scopes, Cached!Ask(c, k) PROVE QueueInv'
  <2>1. \A x \in Scopes : ~Queued(c, x)
    BY <1>2, <1>4 DEF Cached!Ask
  <2>2. CASE Cached!Hit(k) /\ UNCHANGED <<entry, queue, req, Cached!env>>
    BY <2>2, QueueKept
  <2>3. CASE queue[k] = <<>> /\ queue' = [queue EXCEPT ![k] = <<c>>] /\ Cached!Load(c, k)
    <3>1. /\ req'[c].pc = "load" /\ req'[c].scope = k
          /\ \A d \in Clients : d # c => req'[d] = req[d]
      BY <1>1, <2>3 DEF Cached!Load, Cached!Loading
    <3>2. Append(queue[k], c) = <<c>>
      BY <2>3
    <3>3. queue' = [queue EXCEPT ![k] = Append(@, c)]
      BY <2>3, <3>2
    <3> QED BY <2>1, <2>3, <3>1, <3>3, QueueJoined
  <2>4. CASE /\ queue' = [queue EXCEPT ![k] = Append(@, c)]
             /\ req' = [req EXCEPT ![c] = Cached!Waiting(k)]
    <3>1. /\ req'[c].pc = "wait" /\ req'[c].scope = k
          /\ \A d \in Clients : d # c => req'[d] = req[d]
      BY <1>1, <2>4 DEF Cached!Waiting
    <3> QED BY <2>1, <2>4, <3>1, QueueJoined
  <2> QED BY <1>4, <2>2, <2>3, <2>4 DEF Cached!Ask
<1>5. ASSUME NEW c \in Clients, Cached!Enter(c) PROVE QueueInv'
  <2> DEFINE k == req[c].scope
  <2>1. k \in Scopes /\ req[c].pc = "wait"
    BY <1>1, <1>5, Stages DEF Cached!Enter
  <2>2. queue[k] # <<>> /\ Head(queue[k]) = c
    BY <1>5, <2>1, QueueOfHolder DEF Cached!Enter
  <2>3. CASE Cached!Release(k) /\ req' = [req EXCEPT ![c] = Cached!Idle]
    BY <2>1, <2>2, <2>3, QueueMovesUp
  <2>4. CASE Cached!Load(c, k) /\ UNCHANGED queue
    <3>1. /\ req'[c].pc = "load" /\ req'[c].scope = k
          /\ \A d \in Clients : d # c => req'[d] = req[d]
      BY <1>1, <2>4 DEF Cached!Load, Cached!Loading
    <3> QED BY <2>2, <2>4, <3>1, QueueKept
  <2> QED BY <1>5, <2>3, <2>4 DEF Cached!Enter
<1>6. ASSUME NEW c \in Clients, NEW s \in Servers, Cached!Answer(c, s) PROVE QueueInv'
  <2>1. /\ req'[c] = [req[c] EXCEPT !.got = Cached!Put(@, s, Cached!Says(s)), !.todo = @ \ {s}]
        /\ \A d \in Clients : d # c => req'[d] = req[d]
    BY <1>1, <1>6 DEF Cached!Answer
  <2>2. req[c] = Cached!Loading(req[c].scope, req[c].got, req[c].todo) /\ req[c].pc = "load"
    BY <1>1, <1>6, Stages DEF Cached!Answer
  <2>3. req'[c].pc = "load" /\ req'[c].scope = req[c].scope
    BY <2>1, <2>2 DEF Cached!Loading
  <2> QED BY <1>6, <2>1, <2>2, <2>3, QueueKept DEF Cached!Answer
<1>7. ASSUME NEW c \in Clients, Cached!Loaded(c) PROVE QueueInv'
  <2> DEFINE k == req[c].scope
  <2>1. k \in Scopes /\ Cached!Loads(c, k)
    BY <1>1, <1>7, Stages DEF Cached!Loaded, Cached!Loads
  <2>2. queue[k] # <<>> /\ Head(queue[k]) = c
    BY <2>1 DEF LockInv, LoadersLock
  <2> QED BY <1>7, <2>1, <2>2, QueueMovesUp DEF Cached!Loaded
\* A toggle, and each step of one, is of a request that stands nowhere.
<1>8. ASSUME NEW c \in Clients, \A k \in Scopes : ~Queued(c, k), UNCHANGED queue,
             \A d \in Clients : d # c => req'[d] = req[d]
      PROVE  QueueInv'
  BY <1>8, QueueKept
<1>9. ASSUME NEW c \in Clients, NEW k \in Scopes, NEW v \in Cached!Writes, Cached!Toggle(c, k, v)
      PROVE  QueueInv'
  BY <1>1, <1>2, <1>8, <1>9 DEF Cached!Toggle
<1>10. ASSUME NEW c \in Clients, NEW s \in Servers, Cached!Take(c, s) PROVE QueueInv'
  BY <1>1, <1>3, <1>8, <1>10 DEF Cached!Take
<1>11. ASSUME NEW c \in Clients, Cached!Applied(c) PROVE QueueInv'
  BY <1>1, <1>3, <1>8, <1>11 DEF Cached!Applied
<1>12. CASE UNCHANGED <<queue, req>>
  BY <1>12, QueueKept
<1> QED
  BY <1>4, <1>5, <1>6, <1>7, <1>9, <1>10, <1>11, <1>12 DEF Cached!Next, Cached!Serve,
     Cached!ListsWritten, Cached!Tick, Cached!OwnChange, Cached!Outage, Cached!EditRow,
     Cached!env, Cached!vars

\* No key of the cache is locked by a request that has gone, has moved on to a
\* toggle or stands behind itself, and nobody waits outside the queue that is
\* served: what is safe about "every request is answered".  (ReadCache.get's
\* "async with lock", for any number of requests.)
THEOREM LocksAreServed == Cached!Spec => []LocksServed
<1>1. Cached!Init => QueueInv
  <2> SUFFICES ASSUME Cached!Init, NEW k \in Scopes PROVE Len(queue[k]) = 0
    BY DEF QueueInv
  <2> QED BY EmptySeq DEF Cached!Init
<1>2. Cached!TypeOK /\ LockInv /\ QueueInv => LocksServed
  <2> SUFFICES ASSUME Cached!TypeOK, LockInv, QueueInv, NEW k \in Scopes, queue[k] # <<>>
               PROVE  /\ req[Head(queue[k])].pc \in {"wait", "load"}
                      /\ req[Head(queue[k])].scope = k
    BY DEF LocksServed, LockInv
  <2>1. queue[k] \in Seq(Clients)
    BY DEF Cached!TypeOK
  <2>2. 1 \in 1 .. Len(queue[k]) /\ Head(queue[k]) = queue[k][1]
    BY <2>1, EmptySeq
  <2> QED BY <2>2 DEF QueueInv
<1> QED BY <1>1, <1>2, QueueStep, Invariants, PTL DEF Cached!Spec
=============================================================================
