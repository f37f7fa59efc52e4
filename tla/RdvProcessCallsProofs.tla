----------------------- MODULE RdvProcessCallsProofs ------------------------
(***************************************************************************)
(* What RdvProcess promises of the calls of an application that creates    *)
(* its requests before it uses them: the assertions of the library hold,   *)
(* and no handshake is left over when the application ends.                *)
(*                                                                         *)
(* Every step of a process is of one of six kinds. Each part of the        *)
(* invariant is shown to be kept by the kinds, not by the actions.         *)
(***************************************************************************)
EXTENDS RdvProcessMpiProofs

-----------------------------------------------------------------------------
(* The applications. *)

\* Each request is created once, and freed when its operations have returned.
UsedOnce ==
  \A d \in Deployments : \A p \in Process : \A i \in 1 .. Len(d.program[p]) :
    LET do == d.program[p][i].do
        r  == d.program[p][i].on
    IN /\ do = "init" => Times(d, r, "init", i) = 0
       /\ do = "free" => Times(d, r, "start", i) = Times(d, r, "wait", i)

\* The program of a process has a barrier before position i.
Met(d, p, i) == \E j \in 1 .. i - 1 : d.program[p][j].do = "barrier"

\* All requests are created before the processes meet, and started behind that.
CreatedFirst(d) ==
  \A p \in Process : \A i \in 1 .. Len(d.program[p]) :
    /\ d.program[p][i].do = "init" => ~Met(d, p, i)
    /\ d.program[p][i].do = "start" => Met(d, p, i)

\* No process has two requests.
OneRequestPerProcess(d) ==
  \A r, q \in DOMAIN d.requests :
    Owner(d.requests[r].channel, d.requests[r].side) =
      Owner(d.requests[q].channel, d.requests[q].side) => r = q

\* So no request is created by a process that has already used another one.
CreatedInTime == \A d \in Deployments : CreatedFirst(d) \/ OneRequestPerProcess(d)

LEMMA OnceUsed ==
  ASSUME UsedOnce, IInv, NEW p \in Process, ~Ended(p)
  PROVE  /\ Call(p).do = "init" => Made(Call(p).on, "init") = 0
         /\ Call(p).do = "free" => Made(Call(p).on, "start") = Made(Call(p).on, "wait")
<1>1. next[p] \in 1 .. Len(Program(p)) /\ deployment \in Deployments
  BY DEF IInv, Ended
<1>2. Call(p).do \notin Collective => OwnerOf(Call(p).on) = p
  BY CallOwned
<1> QED
  BY <1>1, <1>2 DEF UsedOnce, Made, Call, Program, Collective

\* The application stays the same.
LEMMA SameApplication ==
  ASSUME deployment' = deployment
  PROVE  /\ Requests' = Requests /\ Channels' = Channels /\ Queues' = Queues
         /\ \A r : /\ ChannelOf(r)' = ChannelOf(r) /\ SideOf(r)' = SideOf(r)
                   /\ OwnerOf(r)' = OwnerOf(r)
                   /\ Inbox(r)' = Inbox(r) /\ Outbox(r)' = Outbox(r)
         /\ \A p : Program(p)' = Program(p) /\ Owned(p)' = Owned(p)
BY DEF Requests, Channels, Queues, ChannelOf, SideOf, OwnerOf, Inbox, Outbox, Program, Owned

-----------------------------------------------------------------------------
(* Removing a request from a list. *)

Elements(s) == {s[i] : i \in 1 .. Len(s)}
Once(s) == \A i, j \in 1 .. Len(s) : s[i] = s[j] => i = j

LEMMA RemovedAt ==
  ASSUME NEW T, NEW q \in Seq(T), NEW e
  PROVE  \/ RemoveFirst(q, e) = q /\ \A i \in 1 .. Len(q) : q[i] # e
         \/ \E k \in 1 .. Len(q) :
              /\ q[k] = e /\ Len(RemoveFirst(q, e)) = Len(q) - 1
              /\ \A i \in 1 .. Len(q) - 1 :
                   RemoveFirst(q, e)[i] = IF i < k THEN q[i] ELSE q[i + 1]
<1>1. CASE \E i \in 1 .. Len(q) : q[i] = e
  <2> DEFINE I == {i \in 1 .. Len(q) : q[i] = e}
             k == Min(I)
  <2>1. \E i \in I : \A j \in I : i <= j
    <3>1. I \in SUBSET Nat /\ I # {}
      BY <1>1
    <3> HIDE DEF I
    <3> QED
      BY <3>1, LeastExists
  <2>2. k \in 1 .. Len(q) /\ q[k] = e
    BY <2>1 DEF Min
  <2>3. SelectInSeq(q, LAMBDA v : v = e) = k
    BY <1>1 DEF SelectInSeq
  <2>4. RemoveFirst(q, e) = SubSeq(q, 1, k - 1) \o SubSeq(q, k + 1, Len(q))
    BY <1>1, <2>3 DEF RemoveFirst, RemoveAt
  <2> HIDE DEF k
  <2>5. Len(q) \in Nat /\ k \in Int /\ 1 <= k /\ k <= Len(q) /\ \A j \in 1 .. Len(q) : q[j] \in T
    BY <2>2
  <2>6. PICK a : a = SubSeq(q, 1, k - 1)
    OBVIOUS
  <2>7. PICK b : b = SubSeq(q, k + 1, Len(q))
    OBVIOUS
  <2>8. a \in Seq(T) /\ Len(a) = k - 1 /\ \A i \in 1 .. k - 1 : a[i] = q[i]
    BY <2>5, <2>6, SubSeqProperties
  <2>9. b \in Seq(T) /\ Len(b) = Len(q) - k /\ \A i \in 1 .. Len(q) - k : b[i] = q[k + i]
    BY <2>5, <2>7, SubSeqProperties
  <2>10. /\ Len(a \o b) = Len(q) - 1
         /\ \A i \in 1 .. Len(q) - 1 : (a \o b)[i] = IF i <= k - 1 THEN a[i] ELSE b[i - (k - 1)]
    BY <2>5, <2>8, <2>9, ConcatProperties
  <2>11. \A i \in 1 .. Len(q) - 1 : (a \o b)[i] = IF i < k THEN q[i] ELSE q[i + 1]
    <3> SUFFICES ASSUME NEW i \in 1 .. Len(q) - 1
                 PROVE  (a \o b)[i] = IF i < k THEN q[i] ELSE q[i + 1]
      OBVIOUS
    <3>1. CASE i < k
      BY <2>5, <2>8, <2>10, <3>1
    <3>2. CASE ~(i < k)
      <4>1. i - (k - 1) \in 1 .. Len(q) - k /\ k + (i - (k - 1)) = i + 1 /\ ~(i <= k - 1)
        BY <2>5, <3>2
      <4>2. b[i - (k - 1)] = q[i + 1]
        BY <2>9, <4>1
      <4> QED
        BY <2>10, <3>2, <4>1, <4>2
    <3> QED
      BY <3>1, <3>2
  <2> QED
    BY <2>2, <2>4, <2>6, <2>7, <2>10, <2>11
<1>2. CASE ~ \E i \in 1 .. Len(q) : q[i] = e
  BY <1>2 DEF RemoveFirst
<1> QED
  BY <1>1, <1>2

LEMMA Removed ==
  ASSUME NEW T, NEW q \in Seq(T), Once(q), NEW e
  PROVE  /\ Once(RemoveFirst(q, e))
         /\ Elements(RemoveFirst(q, e)) = Elements(q) \ {e}
<1> PICK n \in Nat : n = Len(q)
  OBVIOUS
<1> PICK s : s = RemoveFirst(q, e)
  OBVIOUS
<1>1. CASE s = q /\ \A i \in 1 .. n : q[i] # e
  BY <1>1 DEF Once, Elements
<1>2. ASSUME NEW k \in 1 .. n, q[k] = e, Len(s) = n - 1,
             \A i \in 1 .. n - 1 : s[i] = IF i < k THEN q[i] ELSE q[i + 1]
      PROVE  Once(s) /\ Elements(s) = Elements(q) \ {e}
  <2>1. \A i, j \in 1 .. n : q[i] = q[j] => i = j
    BY DEF Once
  <2>2. Once(s)
    BY <1>2, <2>1 DEF Once
  <2>3. ASSUME NEW i \in 1 .. n - 1 PROVE s[i] \in Elements(q) \ {e}
    <3>1. \E j \in 1 .. n : j # k /\ s[i] = q[j]
      BY <1>2
    <3> QED
      BY <1>2, <2>1, <3>1 DEF Elements
  <2>4. ASSUME NEW j \in 1 .. n, q[j] # e PROVE q[j] \in Elements(s)
    <3>1. CASE j < k
      BY <1>2, <3>1 DEF Elements
    <3>2. CASE ~(j < k)
      <4>1. j - 1 \in 1 .. n - 1 /\ ~(j - 1 < k) /\ (j - 1) + 1 = j
        BY <1>2, <2>4, <3>2
      <4> QED
        BY <1>2, <4>1 DEF Elements
    <3> QED
      BY <3>1, <3>2
  <2> QED
    BY <1>2, <2>2, <2>3, <2>4 DEF Elements
<1> QED
  BY <1>1, <1>2, RemovedAt

-----------------------------------------------------------------------------
(* Stacks: what is at the bottom. *)

LEMMA LastPush ==
  ASSUME NEW T, NEW fs \in Seq(T), fs # <<>>, NEW f \in T
  PROVE  LET n == <<f>> \o fs IN
         n # <<>> /\ Len(n) = Len(fs) + 1 /\ n[Len(n)] = fs[Len(fs)]
<1> DEFINE n == <<f>> \o fs
<1>1. /\ <<f>> \in Seq(T) /\ Len(<<f>>) = 1 /\ <<f>>[1] = f
      /\ Len(fs) \in Nat \ {0}
  BY EmptySeq
<1>2. /\ Len(n) = Len(fs) + 1
      /\ \A i \in 1 .. Len(fs) + 1 : n[i] = IF i = 1 THEN f ELSE fs[i - 1]
  BY <1>1, ConcatProperties
<1>3. n # <<>>
  BY <1>1, <1>2
<1> HIDE DEF n
<1> QED
  BY <1>1, <1>2, <1>3

LEMMA LastTop ==
  ASSUME NEW T, NEW fs \in Seq(T), fs # <<>>, NEW g \in T
  PROVE  LET n == <<g>> \o Tail(fs) IN
         /\ n # <<>> /\ Len(n) = Len(fs) /\ Len(fs) \in Nat \ {0}
         /\ n[Len(n)] = IF Len(fs) = 1 THEN g ELSE fs[Len(fs)]
<1> DEFINE n == <<g>> \o Tail(fs)
<1>1. /\ <<g>> \in Seq(T) /\ Len(<<g>>) = 1 /\ <<g>>[1] = g
      /\ Len(fs) \in Nat \ {0}
  BY EmptySeq
<1>2. /\ Tail(fs) \in Seq(T) /\ Len(Tail(fs)) = Len(fs) - 1
      /\ \A i \in 1 .. Len(fs) - 1 : Tail(fs)[i] = fs[i + 1]
  BY <1>1, HeadTailProperties
<1>3. /\ Len(n) = Len(fs)
      /\ \A i \in 1 .. Len(fs) : n[i] = IF i = 1 THEN g ELSE Tail(fs)[i - 1]
  BY <1>1, <1>2, ConcatProperties
<1>4. n # <<>>
  BY <1>1, <1>3
<1> HIDE DEF n
<1>5. \A i \in 1 .. Len(fs) : n[i] = IF i = 1 THEN g ELSE fs[i]
  BY <1>1, <1>2, <1>3
<1> QED
  BY <1>1, <1>3, <1>4, <1>5

LEMMA LastPop ==
  ASSUME NEW T, NEW fs \in Seq(T), fs # <<>>, Len(fs) # 1
  PROVE  /\ Tail(fs) # <<>> /\ Len(Tail(fs)) = Len(fs) - 1
         /\ Tail(fs)[Len(Tail(fs))] = fs[Len(fs)]
<1>1. Len(fs) \in Nat \ {0}
  BY EmptySeq
<1>2. /\ Tail(fs) \in Seq(T) /\ Len(Tail(fs)) = Len(fs) - 1
      /\ \A i \in 1 .. Len(fs) - 1 : Tail(fs)[i] = fs[i + 1]
  BY <1>1, HeadTailProperties
<1>3. Tail(fs) # <<>>
  <2>1. Len(Tail(fs)) # 0
    BY <1>1, <1>2
  <2> QED
    BY <1>2, <2>1, EmptySeq
<1> QED
  BY <1>1, <1>2, <1>3

\* Nothing is nested in a call that is at a place of its own.
LEMMA AloneAt ==
  ASSUME MpiInv, NEW p \in Process, NEW place, place # "block", At(p, place)
  PROVE  /\ InCall(p) /\ stack[p] \in Seq(Frames(req, p)) /\ Len(stack[p]) = 1
         /\ Bottom(p) = stack[p][1] /\ Bottom(p).at = place
         /\ Current(p) = Bottom(p).req /\ Current(p) = Call(p).on /\ Bottom(p).rest = <<>>
<1>1. /\ stack[p] # <<>> /\ stack[p][1].at = place /\ stack[p][1].rest = <<>>
      /\ stack[p][1].req = Current(p)
  BY DEF At, Current
<1>2. InCall(p) /\ stack[p] \in Seq(Frames(req, p)) /\ Based(stack[p], Call(p).on, Bottom(p).at)
  BY <1>1, InCallBased
<1>3. Len(stack[p]) \in Nat \ {0}
  BY <1>1, <1>2, EmptySeq
<1>4. Len(stack[p]) = 1
  <2>1. PICK n \in Nat \ {0} : n = Len(stack[p])
    BY <1>3
  <2>2. 1 \notin 1 .. n - 1
    BY <1>1, <1>2, <2>1 DEF Based
  <2>3. n = 1
    BY <2>2
  <2> QED
    BY <2>1, <2>3
<1> QED
  BY <1>1, <1>2, <1>4 DEF Bottom, Based

\* A call on r is at one of some places.
Within(r, places) == LET p == OwnerOf(r) IN
  InCall(p) /\ Bottom(p).req = r /\ Bottom(p).at \in places

LEMMA NextWithin ==
  ASSUME deployment' = deployment, NEW r, NEW places
  PROVE  Within(r, places)' <=>
           LET fs == stack'[OwnerOf(r)] IN
           fs # <<>> /\ fs[Len(fs)].req = r /\ fs[Len(fs)].at \in places
BY SameApplication DEF Within, InCall, Bottom

-----------------------------------------------------------------------------
(* Requests with an operation under way. *)

\* Between the start and the end of the wait of an operation.
Active(r) == Made(r, "start") # Made(r, "wait")

LEMMA ActiveStays ==
  ASSUME MpiInv, NEW p \in Process, Moves(p) \/ Returns(p), NEW z \in Requests,
         Moves(p) \/ z # Call(p).on \/ Call(p).do \notin {"start", "wait"}
  PROVE  Active(z)' <=> Active(z)
<1>1. CASE Moves(p)
  BY <1>1, MadeSame DEF Moves, Active
<1>2. CASE Returns(p) /\ (z # Call(p).on \/ Call(p).do \notin {"start", "wait"})
  <2>1. \A do \in {"start", "wait"} : Made(z, do)' = Made(z, do) /\ Made(z, do) \in Nat
    BY <1>2, Known, MadeStep, MadeNat DEF Returns, Calls, Collective
  <2> QED
    BY <2>1 DEF Active
<1> QED
  BY <1>1, <1>2

LEMMA ActiveStarts ==
  ASSUME UsedInTurn, MpiInv, NEW p \in Process, Returns(p), NEW r \in Requests, r = Call(p).on,
         Call(p).do = "start"
  PROVE  Active(r)'
<1>1. Made(r, "start") = Made(r, "wait")
  BY Known, InTurn DEF Returns, Advances
<1>2. Made(r, "start")' = Made(r, "start") + 1 /\ Made(r, "wait")' = Made(r, "wait")
  BY Known, MadeStep, MadeNat DEF Returns, Calls, Collective
<1> QED
  BY <1>1, <1>2, Known, MadeNat DEF Active

LEMMA ActiveWaits ==
  ASSUME UsedInTurn, MpiInv, NEW p \in Process, ~Ended(p), Call(p).do = "wait"
  PROVE  /\ Call(p).on \in Requests /\ OwnerOf(Call(p).on) = p
         /\ Active(Call(p).on) /\ Made(Call(p).on, "start") >= 1
<1>1. Call(p).on \in Requests /\ OwnerOf(Call(p).on) = p
  BY Known, CallOwned DEF Collective
<1>2. Made(Call(p).on, "start") = Made(Call(p).on, "wait") + 1 /\ Made(Call(p).on, "wait") \in Nat
  BY <1>1, Known, InTurn, MadeNat
<1> QED
  BY <1>1, <1>2 DEF Active

-----------------------------------------------------------------------------
(* What the operations leave of the other requests. *)

\* No message of z comes under way, but for that of a receive that searches.
Spared(old, new, z) ==
  /\ new[z].type = old[z].type
  /\ old[z].backup = "null" =>
       new[z].backup = "null" \/ (old[z].type = "search" /\ SideOf(z) = "R")

LEMMA PostSendSpares ==
  ASSUME IInv, NEW rq, Table(rq), NEW r \in Requests, SideOf(r) = "S",
         \A z \in Requests \ {r} : rq[z] = req[z],
         NEW synchronous, PostSend(rq, r, synchronous)
  PROVE  /\ \A z \in Requests \ {r} : Spared(rq, req', z) /\ req'[z].puts = rq[z].puts
         /\ req'[r].puts = rq[r].puts /\ req'[r].type = rq[r].type
<1>1. rq \in [Requests -> MPIOPT_Request]
  BY DEF Table
<1>2. CASE Posted(ChannelOf(r)) # {}
  <2>1. PICK q, m : /\ q = CHOOSE z \in Posted(ChannelOf(r)) : TRUE
                    /\ req' = [rq EXCEPT ![r].backup = "done", ![q].backup = "done",
                                         ![q].buf = m]
    BY <1>2, Zenon DEF PostSend
  <2>2. q \in Requests \ {r} /\ rq[q].backup = "pending"
    BY <1>2, <2>1 DEF Posted
  <2>3. /\ \A z \in Requests \ {r, q} : req'[z] = rq[z]
        /\ req'[q].type = rq[q].type /\ req'[q].puts = rq[q].puts
        /\ req'[r].type = rq[r].type /\ req'[r].puts = rq[r].puts
    BY <1>1, <2>1, <2>2 DEF MPIOPT_Request
  <2> QED
    BY <2>2, <2>3 DEF Spared
<1>3. CASE Posted(ChannelOf(r)) = {}
  <2>1. PICK b : req' = [rq EXCEPT ![r].backup = b]
    BY <1>3, Zenon DEF PostSend
  <2> QED
    BY <1>1, <2>1 DEF Spared, MPIOPT_Request
<1> QED
  BY <1>2, <1>3

LEMMA PostRecvSpares ==
  ASSUME IInv, NEW rq, Table(rq), NEW r \in Requests, PostRecv(rq, r)
  PROVE  /\ \A z \in Requests \ {r} : Spared(rq, req', z) /\ req'[z].puts = rq[z].puts
         /\ req'[r].puts = rq[r].puts /\ req'[r].type = rq[r].type
<1>1. rq \in [Requests -> MPIOPT_Request]
  BY DEF Table
<1>2. CASE payload[ChannelOf(r)] # <<>>
  <2> DEFINE m == Head(payload[ChannelOf(r)])
  <2>1. PICK q, b, n : /\ q = m.from /\ b = Acknowledged(rq, m) /\ n = m.n
    OBVIOUS
  <2>2. req' = [rq EXCEPT ![r].backup = "done", ![r].buf = n, ![q].backup = b]
    BY <1>2, <2>1 DEF PostRecv
  <2>3. q \in Requests => (rq[q].backup = "null" => b = "null")
    BY <2>1 DEF Acknowledged
  <2> HIDE DEF m
  <2> QED
    BY <1>1, <1>2, <2>2, <2>3 DEF Spared, MPIOPT_Request
<1>3. CASE payload[ChannelOf(r)] = <<>>
  <2>1. req' = [rq EXCEPT ![r].backup = "pending"]
    BY <1>3 DEF PostRecv
  <2> QED
    BY <1>1, <2>1 DEF Spared, MPIOPT_Request
<1> QED
  BY <1>2, <1>3

LEMMA SearchPeerSpares ==
  ASSUME IInv, NEW rq, Table(rq), NEW p, NEW r \in Requests, NEW callers,
         SearchPeer(rq, p, r, callers)
  PROVE  \A z \in Requests : Spared(rq, req', z) /\ req'[z].puts = rq[z].puts
<1>1. CASE rq[r].remote = Null /\ Iprobe(r)
  <2>1. PICK q : req' = [rq EXCEPT ![r].remote = q, ![q].infoSend = "done"]
    BY <1>1 DEF SearchPeer
  <2> QED
    BY <2>1 DEF Table, MPIOPT_Request, Spared
<1>2. CASE ~ (rq[r].remote = Null /\ Iprobe(r)) /\ PostsReceive(rq, r)
  <2>1. PostRecv(rq, r) /\ SideOf(r) = "R" /\ rq[r].type = "search"
    BY <1>2 DEF SearchPeer, PostsReceive
  <2> QED
    BY <2>1, PostRecvSpares DEF Spared
<1>3. CASE ~ (rq[r].remote = Null /\ Iprobe(r)) /\ ~PostsReceive(rq, r)
  BY <1>3 DEF SearchPeer, Spared
<1> QED
  BY <1>1, <1>2, <1>3
-----------------------------------------------------------------------------
(* The invariants. *)

\* Places of a wait that settles how the request is going to communicate.
FirstPlaces == SendPlaces \union RecvPlaces \union {"receive", "received"}

\* backup_request holds a message from the start to the wait of an operation,
\* no longer: a request that falls back has begun, and MPI_Wait has set the
\* message of the first operation to MPI_REQUEST_NULL.
BackupInv ==
  \A r \in Requests :
    /\ req[r].type = "fallback" => req[r].operation_number >= 1
    /\ Within(r, {"sent", "received"}) => req[r].backup = "null"
    /\ req[r].type = "fallback" /\ req[r].backup # "null" => Active(r)
    /\ SideOf(r) = "S" /\ Within(r, {"post"}) => req[r].backup = "null"

Listed(p) == Elements(list[p])

\* A request is on the list once, from its creation on.
ListInv ==
  /\ \A p \in Process : Once(list[p]) /\ \A r \in Listed(p) : Made(r, "init") >= 1
  /\ \A r \in Requests : Made(r, "init") = 0 => req[r].type \in {"new", "plain"}

\* The next progress of r blocks until the peer has taken the addresses of r.
Unmet(r) == req[r].type = "search" /\ req[r].remote = Null /\ Iprobe(r)

\* The protocol of r is settled, and so is the wait that has settled it.
Decided(r) == req[r].type \in {"rdma", "fallback"} /\ ~Within(r, FirstPlaces)

\* When the protocol of a request is settled, the others of its process have all
\* been progressed: none would block in the search for a peer that has sent its
\* addresses.
MeetInv ==
  \A r \in Requests : \A q \in Listed(OwnerOf(r)) \ {r} : Unmet(q) =>
    /\ ~Decided(r)
    /\ Within(r, {"sent", "received"}) => q \in Elements(Bottom(OwnerOf(r)).rest)

\* So the pass over the list in the wait for a flag does not nest another one.
FlagAlone ==
  \A p \in Process : InCall(p) /\ Bottom(p).at = "flag" =>
    /\ Len(stack[p]) = 1
    /\ Elements(Bottom(p).rest) \subseteq Listed(p) \ {Bottom(p).req}

\* RDMA operations are outstanding between start and wait alone, and behind the
\* flush the wait goes for those of a fetch.
PutsInv ==
  \A r \in Requests : req[r].puts # <<>> =>
    /\ req[r].type = "rdma" /\ Active(r)
    /\ LET p == OwnerOf(r) IN
       InCall(p) /\ Bottom(p).req = r => Bottom(p).at \in {"flush", "fetched"}

\* Whoever is behind a barrier has left no process in front of its own.
BarrierInv ==
  (\E p \in Process : \E i \in 1 .. next[p] - 1 : Program(p)[i].do = "barrier") =>
    \A q \in Process : Program(q) # <<>> =>
      \E i \in 1 .. next[q] : i <= Len(Program(q)) /\ Program(q)[i].do = "barrier"

-----------------------------------------------------------------------------
(* What a step of a process may be. *)

\* Nothing that matters happens to the requests other than r.
Elsewhere(r) == \A z \in Requests \ {r} : Spared(req, req', z) /\ req'[z].puts = req[z].puts

\* A start returns,
Starts(p) == LET r == Call(p).on IN
  /\ Call(p).do = "start" /\ Returns(p) /\ list' = list /\ Elsewhere(r)
  /\ req[r].type \in {"rdma"} \union Ordinary \/ InCall(p)
  /\ req'[r].type = req[r].type
  /\ req[r].type # "rdma" => req'[r].puts = req[r].puts

\* ... or a wait,
WaitEnds(p) == LET r == Call(p).on at == Bottom(p).at IN
  /\ Call(p).do = "wait" /\ Returns(p) /\ list' = list /\ Elsewhere(r)
  /\ InCall(p) /\ Bottom(p).rest = <<>>
  /\ at \in {"sent", "received", "flag", "fetched", "mpi_wait"}
  /\ at = "sent" => req'[r].type = IF req[r].type = "rdma" THEN "rdma" ELSE "fallback"
  /\ at # "sent" => req'[r].type = req[r].type
  /\ req'[r].puts = req[r].puts
  /\ at = "fetched" => req[r].puts = <<>>
  /\ req'[r].backup \in {"null", req[r].backup}
  /\ at = "mpi_wait" => req'[r].backup = "null"

\* ... a call goes on to another place,
Goes(p) == LET r == Call(p).on at == Bottom(p)'.at IN
  /\ Moves(p) /\ list' = list /\ Elsewhere(r)
  /\ at \in FirstPlaces \/ Within(r, {"flush", "flag"}) \/ ~InCall(p)
  /\ \/ req'[r].type = req[r].type
     \/ /\ Within(r, {"test", "decide"})
        /\ req'[r].type = "rdma" \/ (req'[r].type = "fallback" /\ req'[r].remote = Null)
  /\ at = "sent" /\ req'[r].type = "search" => req'[r].remote = Null
  /\ at = "post" => \A z \in Requests : z = r => ~Unmet(z)'
  /\ at \in {"sent", "received"} => Bottom(p)'.rest = Others(p, r) /\ req'[r].backup = "null"
  /\ at = "flag" => Len(stack'[p]) = 1 /\ Bottom(p)'.rest \in {<<>>, Others(p, r)}
  /\ at = "post" /\ SideOf(r) = "S" => req'[r].backup = "null"
  /\ at \notin {"flush", "fetched"} => req'[r].puts = <<>>

\* ... or progresses the other requests.
Nests(p) ==
  /\ Moves(p) /\ InCall(p) /\ list' = list
  /\ Bottom(p)'.at = Bottom(p).at
  /\ \/ Bottom(p)'.rest = Bottom(p).rest
     \/ /\ Bottom(p).rest # <<>> /\ Bottom(p)'.rest = Tail(Bottom(p).rest)
        /\ \E z \in Requests : z = Head(Bottom(p).rest) /\ ~Unmet(z)'
  /\ Len(stack'[p]) = 1 \/ Len(stack[p]) # 1
       \/ (Bottom(p).rest # <<>> /\ Unmet(Head(Bottom(p).rest)))
  /\ \A z \in Requests :
       /\ Spared(req, req', z)
       /\ \/ req'[z].puts = req[z].puts
          \/ /\ OwnerOf(z) = p /\ SideOf(z) = "R" /\ req[z].type = "rdma"
             /\ req[z].flag = ReadyFlag(z)
             /\ Len(stack[p]) = 1 => Bottom(p).rest # <<>> /\ z = Head(Bottom(p).rest)

\* Where a step leaves a call.
LEMMA MovesInto ==
  ASSUME MpiInv, NEW p \in Process, Moves(p)
  PROVE  /\ InCall(p)' /\ Bottom(p)'.req = Call(p).on
         /\ Based(stack'[p], Call(p).on, Bottom(p)'.at)
         /\ Fits(req', Call(p).on, Bottom(p)'.at)
         /\ Call(p).do = IF Bottom(p)'.at = "post" THEN "start" ELSE "wait"
<1>1. PICK fs, at : /\ stack' = [stack EXCEPT ![p] = fs] /\ Based(fs, Call(p).on, at)
                    /\ Call(p).do = IF at = "post" THEN "start" ELSE "wait"
                    /\ Fits(req', Call(p).on, at)
  BY DEF Moves
<1>2. stack'[p] = fs
  BY <1>1, Known DEF TypeInv
<1>3. fs # <<>> /\ fs[Len(fs)].req = Call(p).on /\ fs[Len(fs)].at = at
  BY <1>1 DEF Based
<1> QED
  BY <1>1, <1>2, <1>3 DEF InCall, Bottom

LEMMA MovesIfInCall ==
  ASSUME MpiInv, NEW p \in Process, Outcome(p), InCall(p)'
  PROVE  Moves(p)
BY Known DEF Outcome, Returns, InCall, TypeInv

LEMMA GoInto ==
  ASSUME MpiInv, NEW p \in Process, NEW place, place # "block", At(p, place), NEW f, Go(p, f)
  PROVE  InCall(p)' /\ Bottom(p)' = f /\ Len(stack'[p]) = 1
<1> PICK T : T = Frames(req, p) \union {f}
  OBVIOUS
<1>1. stack[p] \in Seq(Frames(req, p)) /\ stack[p] # <<>> /\ Len(stack[p]) = 1
  BY AloneAt DEF InCall
<1>2. stack[p] \in Seq(T) /\ f \in T
  BY <1>1
<1>3. stack'[p] = <<f>> \o Tail(stack[p])
  BY Known DEF Go, TypeInv
<1> QED
  BY <1>1, <1>2, <1>3, LastTop DEF InCall, Bottom

LEMMA SearchInto ==
  ASSUME MpiInv, NEW p \in Process, NEW rq, NEW r, NEW f, SearchPeer(rq, p, r, <<f>>)
  PROVE  InCall(p)' /\ Bottom(p)' = f
<1> PICK b : b = Frame(r, "block", <<>>)
  OBVIOUS
<1>1. stack'[p] = <<b>> \o <<f>> \/ stack'[p] = <<f>>
  BY Known DEF SearchPeer, TypeInv
<1>2. <<f>> \in Seq({b, f}) /\ <<f>> # <<>> /\ <<f>>[Len(<<f>>)] = f
  OBVIOUS
<1>3. LET n == <<b>> \o <<f>> IN n # <<>> /\ n[Len(n)] = f
  BY <1>2, LastPush
<1> QED
  BY <1>1, <1>2, <1>3 DEF InCall, Bottom

-----------------------------------------------------------------------------
(* The actions that start an operation. *)

\* A search leaves nothing to be met.
LEMMA SearchMeets ==
  ASSUME IInv, NEW rq, Table(rq), deployment' = deployment, NEW p, NEW r \in Requests, NEW callers,
         SearchPeer(rq, p, r, callers)
  PROVE  ~Unmet(r)'
<1>1. Requests' = Requests /\ Inbox(r)' = Inbox(r) /\ Queues' = Queues
  BY SameApplication
<1>2. CASE rq[r].remote = Null /\ Iprobe(r)
  <2>1. PICK q : /\ q = Head(info[Inbox(r)])
                 /\ req' = [rq EXCEPT ![r].remote = q, ![q].infoSend = "done"]
    BY <1>2 DEF SearchPeer
  <2>2. q \in Requests
    BY <1>2, <2>1 DEF IInv, Sound, InfoSound, Iprobe
  <2>3. q # Null
    BY <2>2, NullAssumption DEF IInv, Requests
  <2>4. req'[r].remote = q
    <3>1. PICK mid : mid = [rq EXCEPT ![r].remote = q] /\ req' = [mid EXCEPT ![q].infoSend = "done"]
      BY <2>1
    <3>2. rq \in [Requests -> MPIOPT_Request] /\ "remote" \in DOMAIN rq[r]
      BY DEF Table, MPIOPT_Request
    <3>3. DOMAIN mid = Requests /\ mid[r] = [rq[r] EXCEPT !.remote = q]
      BY <3>1, <3>2
    <3>4. req'[r] = mid[r] \/ req'[r] = [mid[r] EXCEPT !.infoSend = "done"]
      BY <3>1, <3>3
    <3> QED
      BY <3>2, <3>3, <3>4
  <2> QED
    BY <2>3, <2>4 DEF Unmet
<1>3. CASE ~ (rq[r].remote = Null /\ Iprobe(r))
  <2>1. info' = info /\ (req' = rq \/ PostRecv(rq, r))
    BY <1>3 DEF SearchPeer
  <2>2. req'[r].remote = rq[r].remote
    BY <2>1, PostRecvRemotes DEF SameRemotes, Shape, Table, MPIOPT_Request
  <2> QED
    BY <1>1, <1>3, <2>1, <2>2 DEF Unmet, Iprobe
<1> QED
  BY <1>2, <1>3

LEMMA RdmaStarts ==
  ASSUME OneRequestPerSide, UsedInTurn, MpiInv, NEW p \in Process, StartRdma(p)
  PROVE  Starts(p)
<1>1. Calling(p, "start") /\ Return(p) /\ list' = list /\ deployment' = deployment
      /\ req[Call(p).on].type = "rdma"
  BY DEF StartRdma
<1>2. PICK r \in Requests :
        /\ r = Call(p).on /\ ~Ended(p) /\ Call(p).do = "start"
        /\ Table(Begun(r)) /\ \A z \in Requests \ {r} : Begun(r)[z] = req[z]
        /\ Begun(r)[r].type = req[r].type /\ Begun(r)[r].remote = req[r].remote
  BY <1>1, StartBegins
<1>3. Returns(p)
  BY <1>1, <1>2 DEF Returns, Return, Advances
<1>4. req[r].remote \in Requests /\ req[r].remote # r
  BY <1>1, <1>2, Known, PeerEnd
<1>5. Elsewhere(r) /\ req'[r].type = req[r].type
  <2>1. PICK rq, n, q : rq = Begun(r) /\ n = req[r].operation_number + 1 /\ q = rq[r].remote
    OBVIOUS
  <2>2. req' = Announce(rq, r, n) \/ req' = Push(rq, r, n) \/ req' = Fetch(rq, r, n)
    BY <1>2, <2>1, Zenon DEF StartRdma
  <2>3. q \in Requests /\ q # r /\ Table(rq) /\ rq[r].type = req[r].type
        /\ \A z \in Requests \ {r} : rq[z] = req[z]
    BY <1>2, <1>4, <2>1
  <2>4. CASE req' = Announce(rq, r, n)
    BY <2>3, <2>4, AnnounceFields DEF Elsewhere, Spared
  <2>5. CASE req' = Push(rq, r, n)
    <3>1. /\ \A z \in Requests \ {r, q} : req'[z] = rq[z]
          /\ req'[r].type = rq[r].type
          /\ req'[q].type = rq[q].type /\ req'[q].backup = rq[q].backup
          /\ SameFlags(rq[q], req'[q])
      BY <2>1, <2>3, <2>5, PushFields
    <3> QED
      BY <2>3, <3>1 DEF Elsewhere, Spared, SameFlags
  <2>6. CASE req' = Fetch(rq, r, n)
    BY <2>1, <2>3, <2>6, FetchFields DEF Elsewhere, Spared
  <2> QED
    BY <2>2, <2>4, <2>5, <2>6
<1> QED
  BY <1>1, <1>2, <1>3, <1>5 DEF Starts

LEMMA OrdinaryStarts ==
  ASSUME OneRequestPerSide, UsedInTurn, MpiInv, NEW p \in Process, StartOrdinary(p)
  PROVE  Starts(p)
<1>1. Calling(p, "start") /\ Return(p) /\ list' = list /\ deployment' = deployment
  BY DEF StartOrdinary
<1>2. PICK r \in Requests :
        /\ r = Call(p).on /\ ~Ended(p) /\ Call(p).do = "start"
        /\ Table(Begun(r)) /\ \A z \in Requests \ {r} : Begun(r)[z] = req[z]
        /\ Begun(r)[r].type = req[r].type /\ SameFlags(req[r], Begun(r)[r])
  BY <1>1, StartBegins
<1>3. Returns(p)
  BY <1>1, <1>2 DEF Returns, Return, Advances
<1>4. Elsewhere(r) /\ req'[r].type = req[r].type /\ req'[r].puts = req[r].puts
  <2>1. PICK rq : rq = Begun(r)
    OBVIOUS
  <2>2. CASE SideOf(r) = "S"
    <3>1. PostSend(rq, r, FALSE)
      BY <1>2, <2>1, <2>2 DEF StartOrdinary
    <3>2. /\ \A z \in Requests \ {r} : Spared(rq, req', z) /\ req'[z].puts = rq[z].puts
          /\ req'[r].puts = rq[r].puts /\ req'[r].type = rq[r].type
      BY <1>2, <2>1, <2>2, <3>1, Known, PostSendSpares
    <3> QED
      BY <1>2, <2>1, <3>2 DEF Elsewhere, Spared, SameFlags
  <2>3. CASE SideOf(r) # "S"
    <3>1. PostRecv(rq, r)
      BY <1>2, <2>1, <2>3 DEF StartOrdinary
    <3> QED
      BY <1>2, <2>1, <3>1, Known, PostRecvSpares DEF Elsewhere, Spared, SameFlags
  <2> QED
    BY <2>2, <2>3
<1>5. req[r].type \in Ordinary
  BY <1>2 DEF StartOrdinary, Ordinary
<1> QED
  BY <1>1, <1>2, <1>3, <1>4, <1>5 DEF Starts

LEMMA FirstStarts ==
  ASSUME UsedInTurn, MpiInv, NEW p \in Process, PostFirst(p)
  PROVE  Starts(p)
<1>1. At(p, "post") /\ Return(p) /\ list' = list /\ deployment' = deployment
  BY DEF PostFirst
<1>2. /\ InCall(p) /\ Current(p) = Call(p).on /\ ~Ended(p) /\ Call(p).do = "start"
      /\ Call(p).on \in Requests
  BY <1>1, Known, AtBase, BaseOf
<1>3. PICK r \in Requests : r = Call(p).on
  BY <1>2
<1>4. Returns(p)
  BY <1>1, <1>2 DEF Returns, Return, Advances
<1>5. \/ SideOf(r) = "S" /\ PostSend(req, r, TRUE)
      \/ PostRecv(req, r)
      \/ req' = req
  BY <1>2, <1>3 DEF PostFirst
<1>6. Elsewhere(r) /\ req'[r].type = req[r].type /\ req'[r].puts = req[r].puts
  BY <1>5, Known, PostSendSpares, PostRecvSpares DEF Elsewhere, Spared
<1> QED
  BY <1>1, <1>2, <1>3, <1>4, <1>6 DEF Starts

-----------------------------------------------------------------------------
(* The ends of a wait. *)

LEMMA EndOfWait ==
  ASSUME UsedInTurn, MpiInv, NEW p \in Process,
         NEW place \in {"sent", "received", "flag", "fetched", "mpi_wait"},
         At(p, place), Return(p), deployment' = deployment, list' = list,
         NEW r, r = Call(p).on
  PROVE  /\ r \in Requests /\ Current(p) = r /\ Call(p).do = "wait" /\ Returns(p)
         /\ InCall(p) /\ Bottom(p).rest = <<>> /\ Bottom(p).at = place
<1>1. /\ InCall(p) /\ Current(p) = r /\ Bottom(p).rest = <<>> /\ Bottom(p).at = place
  BY AloneAt
<1>2. Call(p).do = "wait" /\ ~Ended(p) /\ r \in Requests
  BY WaitAt
<1> QED
  BY <1>1, <1>2 DEF Returns, Return, Advances

\* Nothing happens to the other requests.
LEMMA NoneElsewhere ==
  ASSUME NEW r, \A z \in Requests \ {r} : req'[z] = req[z]
  PROVE  Elsewhere(r)
BY DEF Elsewhere, Spared

LEMMA EndsOf ==
  ASSUME UsedInTurn, MpiInv, NEW p \in Process,
         WaitSendEnd(p) \/ WaitRecvEnd(p) \/ WaitFlagEnd(p) \/ WaitFetched(p) \/ WaitOrdinary(p)
  PROVE  WaitEnds(p)
<1> PICK r : r = Call(p).on
  OBVIOUS
<1>1. req \in [Requests -> MPIOPT_Request] /\ \A z \in Requests : req[z].backup \in {"null", "pending", "done"}
  BY Known DEF Table, MPIOPT_Request
<1>2. CASE WaitSendEnd(p)
  <2>1. At(p, "sent") /\ Return(p) /\ deployment' = deployment /\ list' = list
    BY <1>2 DEF WaitSendEnd
  <2>2. /\ r \in Requests /\ Current(p) = r /\ Call(p).do = "wait" /\ Returns(p)
        /\ InCall(p) /\ Bottom(p).rest = <<>> /\ Bottom(p).at = "sent"
    BY <2>1, EndOfWait
  <2>3. PICK t : /\ t = IF req[r].type = "rdma" THEN "rdma" ELSE "fallback"
                 /\ req' = [req EXCEPT ![r].type = t]
    BY <1>2, <2>2 DEF WaitSendEnd
  <2>4. /\ \A z \in Requests \ {r} : req'[z] = req[z]
        /\ req'[r].type = t /\ req'[r].puts = req[r].puts /\ req'[r].backup = req[r].backup
    BY <1>1, <2>2, <2>3 DEF MPIOPT_Request
  <2> QED
    BY <2>1, <2>2, <2>3, <2>4, NoneElsewhere DEF WaitEnds
<1>3. CASE WaitRecvEnd(p)
  <2>1. At(p, "received") /\ Return(p) /\ deployment' = deployment /\ list' = list /\ req' = req
    BY <1>3 DEF WaitRecvEnd
  <2>2. /\ r \in Requests /\ Current(p) = r /\ Call(p).do = "wait" /\ Returns(p)
        /\ InCall(p) /\ Bottom(p).rest = <<>> /\ Bottom(p).at = "received"
    BY <2>1, EndOfWait
  <2> QED
    BY <2>1, <2>2, NoneElsewhere DEF WaitEnds
<1>4. CASE WaitFlagEnd(p)
  <2>1. At(p, "flag") /\ Return(p) /\ deployment' = deployment /\ list' = list /\ req' = req
    BY <1>4 DEF WaitFlagEnd
  <2>2. /\ r \in Requests /\ Current(p) = r /\ Call(p).do = "wait" /\ Returns(p)
        /\ InCall(p) /\ Bottom(p).rest = <<>> /\ Bottom(p).at = "flag"
    BY <2>1, EndOfWait
  <2> QED
    BY <2>1, <2>2, NoneElsewhere DEF WaitEnds
<1>5. CASE WaitFetched(p)
  <2>1. /\ At(p, "fetched") /\ Return(p) /\ deployment' = deployment /\ list' = list /\ req' = req
        /\ req[Current(p)].puts = <<>>
    BY <1>5 DEF WaitFetched
  <2>2. /\ r \in Requests /\ Current(p) = r /\ Call(p).do = "wait" /\ Returns(p)
        /\ InCall(p) /\ Bottom(p).rest = <<>> /\ Bottom(p).at = "fetched"
    BY <2>1, EndOfWait
  <2> QED
    BY <2>1, <2>2, NoneElsewhere DEF WaitEnds
<1>6. CASE WaitOrdinary(p)
  <2>1. At(p, "mpi_wait") /\ Return(p) /\ deployment' = deployment /\ list' = list
    BY <1>6 DEF WaitOrdinary
  <2>2. /\ r \in Requests /\ Current(p) = r /\ Call(p).do = "wait" /\ Returns(p)
        /\ InCall(p) /\ Bottom(p).rest = <<>> /\ Bottom(p).at = "mpi_wait"
    BY <2>1, EndOfWait
  <2>3. req' = [req EXCEPT ![r].backup = "null"]
    BY <1>6, <2>2 DEF WaitOrdinary
  <2>4. /\ \A z \in Requests \ {r} : req'[z] = req[z]
        /\ req'[r].type = req[r].type /\ req'[r].puts = req[r].puts /\ req'[r].backup = "null"
    BY <1>1, <2>2, <2>3 DEF MPIOPT_Request
  <2> QED
    BY <2>1, <2>2, <2>4, NoneElsewhere DEF WaitEnds
<1> QED
  BY <1>2, <1>3, <1>4, <1>5, <1>6

-----------------------------------------------------------------------------
(* The steps of a wait. *)

LEMMA NoPuts ==
  ASSUME MpiInv, PutsInv, NEW p \in Process, NEW r \in Requests, OwnerOf(r) = p,
         req[r].type # "rdma"
           \/ (InCall(p) /\ Bottom(p).req = r /\ Bottom(p).at \notin {"flush", "fetched"})
  PROVE  req[r].puts = <<>>
BY DEF PutsInv

LEMMA AtWithin ==
  ASSUME MpiInv, NEW p \in Process, NEW place, place # "block", At(p, place),
         NEW r, r = Call(p).on, NEW places
  PROVE  /\ r \in Requests /\ OwnerOf(r) = p
         /\ Within(r, places) <=> place \in places
<1>1. InCall(p) /\ Bottom(p).req = r /\ Bottom(p).at = place
  BY AloneAt
<1>2. r \in Requests /\ OwnerOf(r) = p
  BY <1>1, Known, BaseOf
<1> QED
  BY <1>1, <1>2 DEF Within

LEMMA GoGoes ==
  ASSUME OneRequestPerSide, UsedInTurn, MpiInv, PutsInv, NEW p \in Process, Step(p),
         NEW place, place \notin {"block", "post", "fetched"}, At(p, place),
         NEW r, r = Call(p).on, NEW at, at # "post", NEW rest, Go(p, Frame(r, at, rest)),
         list' = list, Elsewhere(r),
         req'[r].puts = req[r].puts \/ at \in {"flush", "fetched"},
         place = "flush" => req[r].puts = <<>>,
         at \in FirstPlaces \/ place \in {"flush", "flag"},
         \/ req'[r].type = req[r].type
         \/ /\ place \in {"test", "decide"}
            /\ req'[r].type = "rdma" \/ (req'[r].type = "fallback" /\ req'[r].remote = Null),
         at = "sent" /\ req'[r].type = "search" => req'[r].remote = Null,
         at \in {"sent", "received"} => rest = Others(p, r) /\ req'[r].backup = "null",
         at = "flag" => rest \in {<<>>, Others(p, r)}
  PROVE  Goes(p)
<1>1. PICK f : f = Frame(r, at, rest) /\ f.at = at /\ f.rest = rest
  BY DEF Frame
<1>2. InCall(p)' /\ Bottom(p)' = f /\ Len(stack'[p]) = 1
  BY <1>1, GoInto
<1>3. Moves(p)
  BY <1>2, StepOutcome, MovesIfInCall
<1>4. /\ r \in Requests /\ OwnerOf(r) = p /\ InCall(p) /\ Bottom(p).req = r /\ Bottom(p).at = place
      /\ \A places : Within(r, places) <=> place \in places
  BY AtWithin, AloneAt
<1>5. req[r].puts = <<>> \/ at \in {"flush", "fetched"} \/ place = "flush"
  BY <1>4, NoPuts
<1> QED
  BY <1>1, <1>2, <1>3, <1>4, <1>5 DEF Goes

\* An action that changes neither requests nor lists.
LEMMA SameElsewhere ==
  ASSUME req' = req, NEW r
  PROVE  Elsewhere(r) /\ req'[r] = req[r]
BY DEF Elsewhere, Spared

LEMMA QuietlyGoes ==
  ASSUME OneRequestPerSide, UsedInTurn, MpiInv, PutsInv, NEW p \in Process,
         WaitRecvLook(p) \/ WaitFlush(p) \/ WaitFlagRound(p)
  PROVE  Goes(p)
<1> PICK r : r = Call(p).on
  OBVIOUS
<1>1. req' = req /\ list' = list /\ Step(p)
  BY DEF WaitRecvLook, WaitFlush, WaitFlagRound, Step
<1>2. CASE WaitRecvLook(p)
  <2>1. At(p, "look") /\ Current(p) = r
    BY <1>2, AloneAt DEF WaitRecvLook
  <2>2. PICK at \in {"decide", "last", "again"} : \E rest : Go(p, Frame(r, at, rest))
    BY <1>2, <2>1, Zenon DEF WaitRecvLook, GoTo, ProgressOthersThen
  <2>3. Elsewhere(r) /\ req'[r] = req[r]
    BY <1>1, SameElsewhere
  <2>4. at \in FirstPlaces /\ at \notin {"post", "sent", "received", "flag"}
    BY DEF FirstPlaces, RecvPlaces
  <2>5. PICK place : place = "look"
    OBVIOUS
  <2>6. At(p, place) /\ place \notin {"block", "post", "fetched", "flush"}
    BY <2>1, <2>5
  <2> QED
    BY <1>1, <2>2, <2>3, <2>4, <2>6, GoGoes
<1>3. CASE WaitFlush(p)
  <2>1. At(p, "flush") /\ Current(p) = r /\ req[r].puts = <<>>
    BY <1>3, AloneAt DEF WaitFlush
  <2>2. Go(p, Frame(r, "flag", <<>>))
    BY <1>3, <2>1 DEF WaitFlush, GoTo
  <2> QED
    BY <1>1, <2>1, <2>2, GoGoes, SameElsewhere
<1>4. CASE WaitFlagRound(p)
  <2>1. At(p, "flag") /\ Current(p) = r
    BY <1>4, AloneAt DEF WaitFlagRound
  <2>2. Go(p, Frame(r, "flag", Others(p, r)))
    BY <1>4, <2>1 DEF WaitFlagRound, ProgressOthersThen
  <2> QED
    BY <1>1, <2>1, <2>2, GoGoes, SameElsewhere
<1> QED
  BY <1>2, <1>3, <1>4

LEMMA TestGoes ==
  ASSUME OneRequestPerSide, UsedInTurn, MpiInv, PutsInv, NEW p \in Process, WaitSendTest(p)
  PROVE  Goes(p)
<1>1. At(p, "test") /\ list' = list /\ Step(p)
  BY DEF WaitSendTest, Step
<1>2. PICK r : r = Call(p).on /\ r = Current(p) /\ r \in Requests
  BY <1>1, AloneAt, AtWithin
<1>3. PICK t, b, at :
        /\ at = IF req[r].backup # "pending" THEN "sent" ELSE "probe"
        /\ b = IF req[r].backup # "pending" THEN "null" ELSE req[r].backup
        /\ t = IF req[r].remote # Null THEN "rdma" ELSE req[r].type
  OBVIOUS
<1>4. req' = [req EXCEPT ![r].type = t, ![r].backup = b] /\ Go(p, Frame(r, at, Others(p, r)))
  <2>1. req \in [Requests -> MPIOPT_Request]
    BY Known DEF Table
  <2> QED
    BY <1>2, <1>3, <2>1 DEF WaitSendTest, ProgressOthersThen
<1>5. /\ \A z \in Requests \ {r} : req'[z] = req[z]
      /\ req'[r].puts = req[r].puts /\ req'[r].backup = b
      /\ req'[r].type = t /\ req'[r].remote = req[r].remote
  <2>1. req \in [Requests -> MPIOPT_Request]
    BY Known DEF Table
  <2> QED
    BY <1>2, <1>4, <2>1 DEF MPIOPT_Request
<1>6. Elsewhere(r)
  BY <1>5, NoneElsewhere
<1>7. at \in FirstPlaces /\ at \notin {"post", "flag", "received"} /\ (at = "sent" => b = "null")
  BY <1>3 DEF FirstPlaces, SendPlaces
<1>8. /\ req'[r].type = req[r].type \/ req'[r].type = "rdma"
      /\ req'[r].type = "search" => req'[r].remote = Null
  BY <1>3, <1>5
<1>9. PICK place, rest : place = "test" /\ rest = Others(p, r)
  OBVIOUS
<1>10. At(p, place) /\ place \notin {"block", "post", "fetched", "flush"} /\ place \in {"test", "decide"}
       /\ Go(p, Frame(r, at, rest))
  BY <1>1, <1>4, <1>9
<1>11. /\ at = "sent" /\ req'[r].type = "search" => req'[r].remote = Null
       /\ at \in {"sent", "received"} => rest = Others(p, r) /\ req'[r].backup = "null"
       /\ at \in FirstPlaces /\ at # "post" /\ at # "flag"
       /\ req'[r].puts = req[r].puts /\ r = Call(p).on
  BY <1>2, <1>5, <1>7, <1>8, <1>9
<1> QED
  BY <1>1, <1>6, <1>8, <1>10, <1>11, GoGoes

LEMMA DecideGoes ==
  ASSUME OneRequestPerSide, UsedInTurn, MpiInv, PutsInv, NEW p \in Process, WaitRecvDecide(p)
  PROVE  Goes(p)
<1>1. At(p, "decide") /\ list' = list /\ Step(p)
  BY DEF WaitRecvDecide, Step
<1>2. PICK r : r = Call(p).on /\ r = Current(p) /\ r \in Requests
  BY <1>1, AloneAt, AtWithin
<1>3. PICK t, rq : /\ t = IF req[r].remote = Null THEN "fallback" ELSE "rdma"
                   /\ rq = SetType(req, r, t)
  OBVIOUS
<1>4. Go(p, Frame(r, "receive", <<>>)) /\ (PostRecv(rq, r) \/ req' = rq)
  <2>1. rq = [req EXCEPT ![r].type = IF req[r].remote = Null THEN "fallback" ELSE "rdma"]
    BY <1>3 DEF SetType
  <2> QED
    BY <1>2, <2>1 DEF WaitRecvDecide, GoTo
<1>5. Table(rq)
  BY <1>2, <1>3, Known, SetTyped DEF Alike, Types
<1>6. \A z \in Requests \ {r} : rq[z] = req[z] /\ rq[r].puts = req[r].puts
  BY <1>2, <1>3, Known DEF SetType, Table, MPIOPT_Request
<1>7. rq[r].puts = req[r].puts
  BY <1>2, <1>3, Known DEF SetType, Table, MPIOPT_Request
<1>8. Elsewhere(r) /\ req'[r].puts = req[r].puts /\ req'[r].type = rq[r].type
  BY <1>2, <1>4, <1>5, <1>6, <1>7, Known, PostRecvSpares DEF Elsewhere, Spared
<1>11. req'[r].type = "rdma" \/ (req'[r].type = "fallback" /\ req'[r].remote = Null)
  <2>1. rq[r].type = t /\ rq[r].remote = req[r].remote
    BY <1>2, <1>3, Known DEF SetType, Table, MPIOPT_Request
  <2>2. req'[r].remote = rq[r].remote
    BY <1>2, <1>4, <1>5, PostRecvRemotes DEF SameRemotes, Shape, Table, MPIOPT_Request
  <2> QED
    BY <1>3, <1>8, <2>1, <2>2
<1>9. PICK place, at, rest : place = "decide" /\ at = "receive" /\ rest = <<>>
  OBVIOUS
<1>10. /\ At(p, place) /\ place \notin {"block", "post", "fetched", "flush"}
       /\ Go(p, Frame(r, at, rest)) /\ at \in FirstPlaces
       /\ at \notin {"post", "sent", "received", "flag"} /\ place \in {"test", "decide"}
  BY <1>1, <1>4, <1>9 DEF FirstPlaces
<1> QED
  BY <1>1, <1>2, <1>8, <1>10, <1>11, GoGoes

LEMMA ReceiveGoes ==
  ASSUME OneRequestPerSide, UsedInTurn, MpiInv, PutsInv, NEW p \in Process, WaitRecvTest(p)
  PROVE  Goes(p)
<1>1. At(p, "receive") /\ list' = list /\ Step(p)
  BY DEF WaitRecvTest, Step
<1>2. PICK r : r = Call(p).on /\ r = Current(p) /\ r \in Requests
  BY <1>1, AloneAt, AtWithin
<1>3. PICK b, at :
        /\ at = IF req[r].backup # "pending" THEN "received" ELSE "receive"
        /\ b = IF req[r].backup # "pending" THEN "null" ELSE req[r].backup
  OBVIOUS
<1>4. req \in [Requests -> MPIOPT_Request]
  BY Known DEF Table
<1>5. req' = [req EXCEPT ![r].backup = b] /\ Go(p, Frame(r, at, Others(p, r)))
  BY <1>2, <1>3, <1>4 DEF WaitRecvTest, ProgressOthersThen
<1>6. /\ \A z \in Requests \ {r} : req'[z] = req[z]
      /\ req'[r].puts = req[r].puts /\ req'[r].backup = b /\ req'[r].type = req[r].type
  BY <1>2, <1>4, <1>5 DEF MPIOPT_Request
<1>7. Elsewhere(r)
  BY <1>6, NoneElsewhere
<1>8. /\ at \in FirstPlaces /\ at # "post" /\ at # "flag"
      /\ at \in {"sent", "received"} => req'[r].backup = "null"
  BY <1>3, <1>6 DEF FirstPlaces
<1>9. PICK place, rest : place = "receive" /\ rest = Others(p, r)
  OBVIOUS
<1>10. At(p, place) /\ place \notin {"block", "post", "fetched", "flush"} /\ Go(p, Frame(r, at, rest))
  BY <1>1, <1>5, <1>9
<1>11. req'[r].puts = req[r].puts /\ req'[r].type = req[r].type /\ r = Call(p).on
  BY <1>2, <1>6
<1>12. at # "sent"
  BY <1>3
<1> QED
  BY <1>1, <1>7, <1>8, <1>9, <1>10, <1>11, <1>12, GoGoes

LEMMA CrosstalkGoes ==
  ASSUME OneRequestPerSide, UsedInTurn, MpiInv, PutsInv, NEW p \in Process, WaitCrosstalk(p)
  PROVE  Goes(p)
<1>1. At(p, "flag") /\ list' = list /\ Step(p)
  BY DEF WaitCrosstalk, Step
<1>2. PICK r : r = Call(p).on /\ r = Current(p) /\ r \in Requests /\ Fits(req, r, "flag")
  BY <1>1, WaitAt
<1>3. req' = Fetch(req, r, req[r].operation_number) /\ Go(p, Frame(r, "fetched", <<>>))
  BY <1>2 DEF WaitCrosstalk, GoTo
<1>4. req[r].remote \in Requests
  BY <1>2, Known, PeerEnd DEF Fits, SendPlaces, RecvPlaces
<1>5. (\A z \in Requests \ {r} : req'[z] = req[z]) /\ req'[r].type = req[r].type
  BY <1>2, <1>3, <1>4, Known, FetchFields
<1>6. Elsewhere(r)
  BY <1>5, NoneElsewhere
<1> QED
  BY <1>1, <1>2, <1>3, <1>5, <1>6, GoGoes

LEMMA ProbesGo ==
  ASSUME OneRequestPerSide, UsedInTurn, MpiInv, PutsInv, NEW p \in Process,
         WaitSendProbe(p) \/ WaitRecvProbe(p)
  PROVE  Goes(p)
<1>1. PICK place \in {"probe", "again", "last"}, at \in {"test", "decide", "look"} :
        At(p, place) /\ SearchPeer(req, p, Current(p), <<Frame(Current(p), at, <<>>)>>)
  BY Zenon DEF WaitSendProbe, WaitRecvProbe
<1>2. list' = list /\ Step(p)
  BY DEF WaitSendProbe, WaitRecvProbe, Step
<1>3. place # "block"
  OBVIOUS
<1>4. PICK r : r = Call(p).on /\ r = Current(p) /\ r \in Requests /\ OwnerOf(r) = p
  BY <1>1, <1>3, AloneAt, AtWithin
<1>5. InCall(p) /\ Bottom(p).req = r /\ Bottom(p).at = place
  BY <1>1, <1>3, <1>4, AloneAt
<1>6. PICK f : f = Frame(r, at, <<>>)
  OBVIOUS
<1>7. SearchPeer(req, p, r, <<f>>)
  BY <1>1, <1>4, <1>6
<1>8. InCall(p)' /\ Bottom(p)'.at = at
  BY <1>6, <1>7, SearchInto DEF Frame
<1>9. Moves(p)
  BY <1>2, <1>8, StepOutcome, MovesIfInCall
<1>10. \A z \in Requests : Spared(req, req', z) /\ req'[z].puts = req[z].puts
  BY <1>4, <1>7, Known, SearchPeerSpares
<1>11. req[r].puts = <<>>
  BY <1>4, <1>5, NoPuts
<1>12. Elsewhere(r) /\ req'[r].type = req[r].type /\ req'[r].puts = <<>>
  BY <1>4, <1>10, <1>11 DEF Elsewhere, Spared
<1>13. at \in FirstPlaces /\ at \notin {"sent", "received", "flag", "post"}
  BY DEF FirstPlaces, SendPlaces, RecvPlaces
<1> QED
  BY <1>2, <1>4, <1>8, <1>9, <1>12, <1>13 DEF Goes

LEMMA SearchingGoes ==
  ASSUME OneRequestPerSide, UsedInTurn, MpiInv, PutsInv, NEW p \in Process, StartSearching(p)
  PROVE  Goes(p)
<1>1. /\ Calling(p, "start") /\ req[Call(p).on].type = "search" /\ list' = list /\ Step(p)
      /\ ~InCall(p)
  BY DEF StartSearching, Step, Calling, InCall
<1>2. PICK r \in Requests :
        /\ r = Call(p).on /\ OwnerOf(r) = p /\ ~Ended(p) /\ Call(p).do = "start"
        /\ r \notin Starting /\ r \in Settled
        /\ Table(Begun(r)) /\ \A z \in Requests \ {r} : Begun(r)[z] = req[z]
        /\ Begun(r)[r].type = req[r].type /\ SameFlags(req[r], Begun(r)[r])
        /\ Begun(r)[r].backup = req[r].backup
  BY <1>1, StartBegins
<1>3. PICK rq, f : rq = Begun(r) /\ f = Frame(r, "post", <<>>)
  OBVIOUS
<1>4. SearchPeer(rq, p, r, <<f>>)
  BY <1>2, <1>3 DEF StartSearching
<1>5. InCall(p)' /\ Bottom(p)'.at = "post"
  BY <1>3, <1>4, SearchInto DEF Frame
<1>6. Moves(p)
  BY <1>1, <1>5, StepOutcome, MovesIfInCall
<1>7. \A z \in Requests : Spared(rq, req', z) /\ req'[z].puts = rq[z].puts
  BY <1>2, <1>3, <1>4, Known, SearchPeerSpares
<1>8. Elsewhere(r) /\ req'[r].type = req[r].type /\ req'[r].puts = req[r].puts
  BY <1>2, <1>3, <1>7 DEF Elsewhere, Spared, SameFlags
<1>9. req[r].puts = <<>>
  BY <1>1, <1>2, NoPuts
<1>10. ASSUME SideOf(r) = "S" PROVE req'[r].backup = "null"
  <2>1. Status(r, Starting, Settled, FALSE, TRUE)
    BY <1>2, StatusIs
  <2>2. SendInv(req[r], FALSE, TRUE)
    BY <1>10, <2>1, Known, SendEnd
  <2>3. req[r].backup = "null"
    BY <1>1, <1>2, <2>2 DEF SendInv, EndInv
  <2> QED
    BY <1>2, <1>3, <1>7, <1>10, <2>3 DEF Spared
<1>11. ~Unmet(r)'
  BY <1>2, <1>3, <1>4, <1>6, Known, SearchMeets DEF Moves
<1> QED
  BY <1>1, <1>2, <1>5, <1>6, <1>8, <1>9, <1>10, <1>11 DEF Goes

LEMMA WaitGoes ==
  ASSUME OneRequestPerSide, UsedInTurn, MpiInv, PutsInv, NEW p \in Process, Wait(p)
  PROVE  Goes(p)
<1>1. Calling(p, "wait") /\ list' = list /\ req' = req /\ Step(p) /\ ~InCall(p) /\ stack[p] = <<>>
  BY DEF Wait, Step, Calling, InCall
<1>2. PICK r \in Requests : r = Call(p).on /\ OwnerOf(r) = p /\ ~Ended(p) /\ Call(p).do = "wait"
  BY <1>1, ActiveWaits DEF Calling
<1>3. PICK at : at = CASE req[r].type = "rdma" -> "flush"
                       [] req[r].type \in {"fallback", "plain"} -> "mpi_wait"
                       [] OTHER -> IF SideOf(r) = "S" THEN "probe" ELSE "look"
  OBVIOUS
<1>4. PICK f : f = Frame(r, at, <<>>)
  OBVIOUS
<1>5. stack'[p] = <<f>> \o <<>>
  BY <1>1, <1>2, <1>3, <1>4, Known DEF Wait, Enter, TypeInv
<1>6. InCall(p)' /\ Bottom(p)'.at = at
  BY <1>4, <1>5 DEF InCall, Bottom, Frame
<1>7. Moves(p)
  BY <1>1, <1>6, StepOutcome, MovesIfInCall
<1>8. Elsewhere(r) /\ req'[r] = req[r]
  BY <1>1, SameElsewhere
<1>9. \/ at = "flush" /\ req[r].type = "rdma"
      \/ at \in {"mpi_wait", "probe", "look"} /\ req[r].type # "rdma"
  BY <1>3
<1>10. at = "flush" \/ req'[r].puts = <<>>
  BY <1>2, <1>8, <1>9, NoPuts
<1> QED
  BY <1>1, <1>2, <1>6, <1>7, <1>8, <1>9, <1>10 DEF Goes

-----------------------------------------------------------------------------
(* The steps of the nested progress. *)

\* The call at the bottom of the stack of a process that is in a call.
LEMMA BottomIs ==
  ASSUME MpiInv, NEW p \in Process, InCall(p)
  PROVE  /\ stack[p] \in Seq(Frames(req, p)) /\ stack[p] # <<>>
         /\ Len(stack[p]) \in Nat \ {0} /\ stack[p][Len(stack[p])] = Bottom(p)
         /\ stack[p][1] \in Frames(req, p) /\ stack[p][1].rest \in Seq(Owned(p))
         /\ Bottom(p).at # "block" /\ (stack[p][1].at = "block" => Len(stack[p]) # 1)
<1>1. stack[p] \in Seq(Frames(req, p)) /\ stack[p] # <<>> /\ Bottom(p).at # "block"
  BY Known, BaseOf DEF InCall
<1>2. Len(stack[p]) \in Nat \ {0} /\ stack[p][Len(stack[p])] = Bottom(p)
  BY <1>1, EmptySeq DEF Bottom
<1>3. stack[p][1] \in Frames(req, p)
  BY <1>1, <1>2
<1> QED
  BY <1>1, <1>2, <1>3 DEF Frames

LEMMA RoundNests ==
  ASSUME OneRequestPerSide, UsedInTurn, MpiInv, NEW p \in Process, BlockRound(p)
  PROVE  Nests(p)
<1>1. At(p, "block") /\ InCall(p) /\ list' = list /\ req' = req /\ Step(p) /\ stack[p][1].at = "block"
  BY DEF BlockRound, At, InCall, Step
<1>2. PICK g : g = Frame(Current(p), "block", Others(p, Current(p)))
  OBVIOUS
<1>3. stack'[p] = <<g>> \o Tail(stack[p])
  BY <1>2, Known DEF BlockRound, ProgressOthersThen, Go, TypeInv
<1>4. /\ stack[p] \in Seq(Frames(req, p) \union {g}) /\ stack[p] # <<>>
      /\ Len(stack[p]) # 1 /\ stack[p][Len(stack[p])] = Bottom(p)
  BY <1>1, BottomIs
<1>5. InCall(p)' /\ Bottom(p)' = Bottom(p)
  BY <1>3, <1>4, LastTop DEF InCall, Bottom
<1>6. Moves(p)
  BY <1>1, <1>5, StepOutcome, MovesIfInCall
<1> QED
  BY <1>1, <1>4, <1>5, <1>6 DEF Nests, Spared

LEMMA EndNests ==
  ASSUME OneRequestPerSide, UsedInTurn, MpiInv, NEW p \in Process, BlockEnd(p)
  PROVE  Nests(p)
<1>1. At(p, "block") /\ InCall(p) /\ list' = list /\ Step(p) /\ stack[p][1].at = "block"
      /\ Current(p) \in Requests
  BY Known, TopTyped DEF BlockEnd, At, InCall, Step
<1>2. PICK r \in Requests : r = Current(p)
  BY <1>1
<1>3. stack'[p] = Tail(stack[p])
  BY Known DEF BlockEnd, TypeInv
<1>4. /\ stack[p] \in Seq(Frames(req, p)) /\ stack[p] # <<>>
      /\ Len(stack[p]) # 1 /\ stack[p][Len(stack[p])] = Bottom(p)
  BY <1>1, BottomIs
<1>5. InCall(p)' /\ Bottom(p)' = Bottom(p)
  BY <1>3, <1>4, LastPop DEF InCall, Bottom
<1>6. Moves(p)
  BY <1>1, <1>5, StepOutcome, MovesIfInCall
<1>7. req' = req \/ (PostsReceive(req, r) /\ PostRecv(req, r))
  BY <1>2 DEF BlockEnd
<1>8. \A z \in Requests : Spared(req, req', z) /\ req'[z].puts = req[z].puts
  BY <1>7, Known, PostRecvSpares DEF Spared, PostsReceive
<1> QED
  BY <1>1, <1>4, <1>5, <1>6, <1>8 DEF Nests

LEMMA NextNests ==
  ASSUME OneRequestPerSide, UsedInTurn, MpiInv, NEW p \in Process, ProgressNext(p)
  PROVE  Nests(p)
<1>1. InCall(p) /\ list' = list /\ Step(p) /\ stack[p][1].rest # <<>> /\ deployment' = deployment
  BY DEF ProgressNext, InCall, Step
<1>2. /\ stack[p] \in Seq(Frames(req, p)) /\ stack[p] # <<>>
      /\ Len(stack[p]) \in Nat \ {0} /\ stack[p][Len(stack[p])] = Bottom(p)
      /\ stack[p][1] \in Frames(req, p) /\ stack[p][1].rest \in Seq(Owned(p))
  BY <1>1, BottomIs
<1>3. PICK f : f = stack[p][1]
  OBVIOUS
<1>4. PICK r, g : r = Head(f.rest) /\ g = Frame(f.req, f.at, Tail(f.rest))
  OBVIOUS
<1>5. r \in Owned(p) /\ r \in Requests /\ OwnerOf(r) = p
  BY <1>1, <1>2, <1>3, <1>4 DEF Owned, OwnerOf
<1>6. g.at = f.at /\ g.rest = Tail(f.rest)
  BY <1>4 DEF Frame
<1>7. PICK callers : callers = <<g>> \o Tail(stack[p])
  OBVIOUS
<1>8. \/ req[r].type = "search" /\ SearchPeer(req, p, r, callers)
      \/ /\ req[r].type = "rdma" /\ SideOf(r) = "R" /\ req[r].flag = ReadyFlag(r)
         /\ req' = Fetch(req, r, req[r].operation_number) /\ stack' = [stack EXCEPT ![p] = callers]
      \/ /\ req[r].type = "fallback" /\ req' = [req EXCEPT ![r].backup = "null"]
         /\ stack' = [stack EXCEPT ![p] = callers]
      \/ req[r].type # "search" /\ req' = req /\ stack' = [stack EXCEPT ![p] = callers]
  BY <1>3, <1>4, <1>7, Zenon DEF ProgressNext, Go
<1>9. PICK T : T = Frames(req, p) \union {g, Frame(r, "block", <<>>)}
  OBVIOUS
<1>10. stack[p] \in Seq(T) /\ g \in T /\ Frame(r, "block", <<>>) \in T
  BY <1>2, <1>9
<1>11. /\ callers # <<>> /\ Len(callers) = Len(stack[p]) /\ callers \in Seq(T)
       /\ callers[Len(callers)] = IF Len(stack[p]) = 1 THEN g ELSE Bottom(p)
  BY <1>2, <1>7, <1>10, LastTop, EntersTyped
<1>12. \/ stack'[p] = callers
       \/ Unmet(r) /\ stack'[p] = <<Frame(r, "block", <<>>)>> \o callers
  BY <1>8, Known DEF SearchPeer, TypeInv, Unmet
<1>13. /\ InCall(p)' /\ Bottom(p)' = IF Len(stack[p]) = 1 THEN g ELSE Bottom(p)
       /\ Len(stack'[p]) = Len(stack[p]) \/ Unmet(r)
  <2>1. CASE stack'[p] = callers
    BY <1>11, <2>1 DEF InCall, Bottom
  <2>2. CASE Unmet(r) /\ stack'[p] = <<Frame(r, "block", <<>>)>> \o callers
    BY <1>10, <1>11, <2>2, LastPush DEF InCall, Bottom
  <2> QED
    BY <1>12, <2>1, <2>2
<1>14. Moves(p)
  BY <1>1, <1>13, StepOutcome, MovesIfInCall
<1>15. /\ \A z \in Requests : Spared(req, req', z)
       /\ \A z \in Requests :
            \/ req'[z].puts = req[z].puts
            \/ z = r /\ SideOf(r) = "R" /\ req[r].type = "rdma" /\ req[r].flag = ReadyFlag(r)
  <2>1. CASE SearchPeer(req, p, r, callers)
    BY <1>5, <2>1, Known, SearchPeerSpares
  <2>2. CASE /\ req[r].type = "rdma" /\ SideOf(r) = "R" /\ req[r].flag = ReadyFlag(r)
             /\ req' = Fetch(req, r, req[r].operation_number)
    <3>1. req[r].remote \in Requests
      BY <1>5, <2>2, Known, PeerEnd
    <3>2. /\ \A z \in Requests \ {r} : req'[z] = req[z]
          /\ req'[r].type = req[r].type /\ req'[r].backup = req[r].backup
      BY <1>5, <2>2, <3>1, Known, FetchFields
    <3> QED
      BY <2>2, <3>2 DEF Spared
  <2>3. CASE req' = [req EXCEPT ![r].backup = "null"]
    <3>1. req \in [Requests -> MPIOPT_Request]
      BY Known DEF Table
    <3>2. /\ \A z \in Requests \ {r} : req'[z] = req[z]
          /\ req'[r].type = req[r].type /\ req'[r].backup = "null" /\ req'[r].puts = req[r].puts
      BY <1>5, <2>3, <3>1 DEF MPIOPT_Request
    <3> QED
      BY <3>2 DEF Spared
  <2>4. CASE req' = req
    BY <2>4 DEF Spared
  <2> QED
    BY <1>8, <2>1, <2>2, <2>3, <2>4
<1>16. ~Unmet(r)'
  <2>1. CASE req[r].type = "search" /\ SearchPeer(req, p, r, callers)
    BY <1>1, <1>5, <2>1, Known, SearchMeets
  <2>2. CASE req[r].type # "search"
    BY <1>5, <1>15, <2>2 DEF Unmet, Spared
  <2> QED
    BY <1>8, <2>1, <2>2
<1>17. Len(stack[p]) = 1 => Bottom(p) = f
  BY <1>2, <1>3
<1> QED
  <2>1. CASE Len(stack[p]) = 1
    <3>1. /\ Bottom(p) = f /\ Bottom(p)' = g /\ Bottom(p).rest # <<>>
          /\ r = Head(Bottom(p).rest) /\ Bottom(p)'.rest = Tail(Bottom(p).rest)
          /\ Bottom(p)'.at = Bottom(p).at
      BY <1>1, <1>3, <1>4, <1>6, <1>13, <1>17, <2>1
    <3> QED
      BY <1>1, <1>5, <1>13, <1>14, <1>15, <1>16, <2>1, <3>1 DEF Nests
  <2>2. CASE Len(stack[p]) # 1
    <3>1. Bottom(p)' = Bottom(p)
      BY <1>13, <2>2
    <3> QED
      BY <1>1, <1>5, <1>14, <1>15, <2>2, <3>1 DEF Nests
  <2> QED
    BY <2>1, <2>2

-----------------------------------------------------------------------------
(* All steps of a process. *)

\* Every step of a process is of one of these kinds.
LEMMA StepKinds ==
  ASSUME OneRequestPerSide, UsedInTurn, MpiInv, PutsInv, NEW p \in Process, Step(p)
  PROVE  \/ InitRequest(p) \/ FreeRequest(p) \/ Finalize(p) \/ Barrier(p)
         \/ Starts(p) \/ WaitEnds(p) \/ Goes(p) \/ Nests(p)
BY RdmaStarts, OrdinaryStarts, FirstStarts, EndsOf, QuietlyGoes, TestGoes, DecideGoes, ReceiveGoes,
   CrosstalkGoes, ProbesGo, SearchingGoes, WaitGoes, RoundNests, EndNests, NextNests DEF Step

\* A collective call, or a request is freed.
Quiet(p) ==
  /\ Returns(p) /\ ~InCall(p) /\ Call(p).do \in {"free", "finalize", "barrier"}
  /\ req' = req /\ info' = info
  /\ Call(p).do # "free" => AllHere(p)
  /\ list' = IF Call(p).do = "free" THEN [list EXCEPT ![p] = Others(p, Call(p).on)] ELSE list

LEMMA QuietSteps ==
  ASSUME NEW p \in Process, FreeRequest(p) \/ Finalize(p) \/ Barrier(p)
  PROVE  Quiet(p)
BY DEF FreeRequest, Finalize, Barrier, Quiet, Returns, Return, Advances, Calling, InCall

\* What InitRequest does.
Creates(p) == LET r == Call(p).on IN
  /\ Returns(p) /\ ~InCall(p) /\ Call(p).do = "init" /\ r \in Requests /\ OwnerOf(r) = p
  /\ Created(req'[r]) /\ req'[r].remote = Null
  /\ \A z \in Requests \ {r} : req'[z] = req[z]
  /\ info' = [info EXCEPT ![Outbox(r)] = Append(@, r)]
  /\ list' = [list EXCEPT ![p] = <<r>> \o @]

LEMMA InitCreates ==
  ASSUME MpiInv, NEW p \in Process, InitRequest(p)
  PROVE  Creates(p)
<1>1. Calling(p, "init") /\ Returns(p) /\ ~InCall(p) /\ Call(p).do = "init" /\ ~Ended(p)
  BY DEF InitRequest, Calling, Returns, Return, Advances, InCall
<1>2. PICK r \in Requests : r = Call(p).on /\ OwnerOf(r) = p
  BY <1>1, Known, CallOwned DEF Collective
<1>3. PICK x : x = [Cleared("search") EXCEPT !.infoSend = "pending"]
  OBVIOUS
<1>4. Created(x) /\ x.remote = Null
  BY <1>3 DEF Created, Cleared
<1>5. req' = [req EXCEPT ![r] = x]
  BY <1>2, <1>3 DEF InitRequest
<1>6. req'[r] = x /\ \A z \in Requests \ {r} : req'[z] = req[z]
  BY <1>5, Known DEF Table
<1>7. info' = [info EXCEPT ![Outbox(r)] = Append(@, r)] /\ list' = [list EXCEPT ![p] = <<r>> \o @]
  BY <1>2 DEF InitRequest
<1> QED
  BY <1>1, <1>2, <1>4, <1>6, <1>7 DEF Creates

Kinds(p) == Creates(p) \/ Quiet(p) \/ Starts(p) \/ WaitEnds(p) \/ Goes(p) \/ Nests(p)

LEMMA AllKinds ==
  ASSUME OneRequestPerSide, UsedInTurn, MpiInv, PutsInv, NEW p \in Process, Step(p)
  PROVE  Kinds(p)
BY StepKinds, InitCreates, QuietSteps DEF Kinds

\* A step of p, as the requests of all processes see it.
LEMMA WithinStep ==
  ASSUME MpiInv, NEW p \in Process, Moves(p) \/ Returns(p), NEW z \in Requests
  PROVE  /\ OwnerOf(z) \in Process
         /\ OwnerOf(z) # p =>
              /\ stack'[OwnerOf(z)] = stack[OwnerOf(z)]
              /\ \A places : Within(z, places)' <=> Within(z, places)
         /\ OwnerOf(z) = p =>
              \A places :
                /\ Within(z, places) => InCall(p) /\ z = Call(p).on
                /\ Within(z, places)' => Moves(p) /\ z = Call(p).on /\ Bottom(p)'.at \in places
                /\ Moves(p) /\ z = Call(p).on /\ Bottom(p)'.at \in places => Within(z, places)'
<1>1. OwnerOf(z) \in Process /\ deployment' = deployment
  BY Known, OwnerTyped DEF Moves, Returns, Advances
<1>2. ASSUME OwnerOf(z) # p
      PROVE  /\ stack'[OwnerOf(z)] = stack[OwnerOf(z)]
             /\ \A places : Within(z, places)' <=> Within(z, places)
  <2>1. stack'[OwnerOf(z)] = stack[OwnerOf(z)]
    BY <1>1, <1>2, Known DEF Moves, Returns, TypeInv
  <2> QED
    BY <1>1, <2>1, NextWithin DEF Within, InCall, Bottom
<1>3. ASSUME OwnerOf(z) = p, NEW places
      PROVE  /\ Within(z, places) => InCall(p) /\ z = Call(p).on
             /\ Within(z, places)' => Moves(p) /\ z = Call(p).on /\ Bottom(p)'.at \in places
             /\ Moves(p) /\ z = Call(p).on /\ Bottom(p)'.at \in places => Within(z, places)'
  <2>1. Within(z, places) => InCall(p) /\ z = Call(p).on
    BY <1>3, Known, BaseOf DEF Within
  <2>2. Within(z, places)' <=> LET fs == stack'[p] IN
                                fs # <<>> /\ fs[Len(fs)].req = z /\ fs[Len(fs)].at \in places
    BY <1>1, <1>3, NextWithin
  <2>3. CASE Moves(p)
    BY <2>1, <2>2, <2>3, MovesInto DEF InCall, Bottom
  <2>4. CASE Returns(p)
    <3>1. stack'[p] = <<>>
      BY <2>4, Known DEF Returns, TypeInv
    <3>2. ~Moves(p)
      BY <3>1, MovesInto DEF InCall
    <3> QED
      BY <2>1, <2>2, <3>1, <3>2
  <2> QED
    BY <2>3, <2>4
<1> QED
  BY <1>1, <1>2, <1>3

\* What is counted of a request that does not search.
LEMMA Counts ==
  ASSUME MpiInv, NEW z \in Requests
  PROVE  /\ Made(z, "start") \in Nat
         /\ req[z].operation_number = Made(z, "start") + IF z \in Starting THEN 1 ELSE 0
         /\ z \in Starting => req[z].type = "search"
<1>1. Made(z, "start") \in Nat
  BY Known, MadeNat
<1>2. z \in Starting => req[z].type = "search"
  <2> SUFFICES ASSUME z \in Starting PROVE req[z].type = "search"
    OBVIOUS
  <2>1. OwnerOf(z) \in Process /\ InCall(OwnerOf(z))
        /\ Bottom(OwnerOf(z)).req = z /\ Bottom(OwnerOf(z)).at = "post"
    BY Known, OwnerTyped DEF Starting
  <2>2. Fits(req, z, "post")
    BY <2>1, Known, BaseOf
  <2> QED
    BY <2>2 DEF Fits, SendPlaces, RecvPlaces
<1> QED
  BY <1>1, <1>2, Known DEF CountInv

\* Starts are counted up.
LEMMA MadeGrows ==
  ASSUME MpiInv, NEW p \in Process, Moves(p) \/ Returns(p), NEW z \in Requests,
         NEW do \in Calls \ Collective
  PROVE  Made(z, do)' >= Made(z, do) /\ Made(z, do)' \in Nat /\ Made(z, do) \in Nat
<1>1. Made(z, do) \in Nat
  BY Known, MadeNat
<1>2. CASE Moves(p)
  BY <1>1, <1>2, MadeSame DEF Moves
<1>3. CASE Returns(p)
  BY <1>1, <1>3, Known, MadeStep DEF Returns
<1> QED
  BY <1>2, <1>3

\* What happens to the type of a request.
LEMMA TypeStep ==
  ASSUME MpiInv, NEW p \in Process, Kinds(p), NEW z \in Requests, req'[z].type # req[z].type
  PROVE  /\ z = Call(p).on
         /\ \/ Creates(p) /\ req'[z].type = "search"
            \/ /\ Call(p).do = "wait" /\ ~Ended(p) /\ InCall(p)
               /\ OwnerOf(z) = p /\ Bottom(p).at \in {"sent", "test", "decide"}
               /\ req'[z].type \in {"rdma", "fallback"}
<1>1. ~Quiet(p) /\ ~Starts(p) /\ ~Nests(p)
  BY DEF Quiet, Starts, Nests, Elsewhere, Spared
<1>2. CASE Creates(p)
  BY <1>2 DEF Creates, Created
<1>3. CASE WaitEnds(p) \/ Goes(p)
  <2>1. z = Call(p).on
    BY <1>3 DEF WaitEnds, Goes, Elsewhere, Spared
  <2>2. InCall(p)
    <3>1. CASE WaitEnds(p)
      BY <3>1 DEF WaitEnds
    <3>2. CASE Goes(p)
      <4>1. Within(z, {"test", "decide"})
        BY <2>1, <3>2 DEF Goes
      <4>2. Moves(p) \/ Returns(p)
        BY <3>2 DEF Goes
      <4>3. OwnerOf(z) = p
        BY <2>1, <3>2, Known, CallOwned DEF Goes, Moves, Collective
      <4> QED
        BY <4>1, <4>3 DEF Within
    <3> QED
      BY <1>3, <3>1, <3>2
  <2>3. /\ ~Ended(p) /\ OwnerOf(z) = p /\ (Bottom(p).at = "post" <=> Call(p).do = "start")
        /\ Call(p).do \in {"start", "wait"}
    BY <2>1, <2>2, Known, BaseOf
  <2>4. Bottom(p).at \in {"sent", "test", "decide"} /\ req'[z].type \in {"rdma", "fallback"}
    BY <1>3, <2>1, <2>3 DEF WaitEnds, Goes, Within
  <2> QED
    BY <2>1, <2>2, <2>3, <2>4
<1> QED
  BY <1>1, <1>2, <1>3 DEF Kinds

-----------------------------------------------------------------------------
(* Each part of the invariant is kept by the steps of every kind. *)

\* A request that a step creates is in no call.
LEMMA CreatedAlone ==
  ASSUME MpiInv, NEW p \in Process, Creates(p), NEW z \in Requests
  PROVE  /\ OwnerOf(z) = p => \A places : ~Within(z, places) /\ ~Within(z, places)'
         /\ z = Call(p).on => OwnerOf(z) = p
<1>1. Returns(p) /\ ~InCall(p)
  BY DEF Creates
<1>2. ASSUME OwnerOf(z) = p, NEW places, Within(z, places)' PROVE FALSE
  <2>1. Moves(p)
    BY <1>1, <1>2, WithinStep
  <2> QED
    BY <1>1, <2>1, Known, MovesInto DEF Returns, InCall, TypeInv
<1> QED
  BY <1>1, <1>2 DEF Within, Creates

LEMMA NotBoth ==
  ASSUME MpiInv, NEW p \in Process
  PROVE  ~ (Moves(p) /\ Returns(p))
BY Known, MovesInto DEF Returns, InCall, TypeInv

\* Where a request that searches cannot be.
LEMMA PlacesFit ==
  ASSUME MpiInv, NEW z \in Requests
  PROVE  /\ Within(z, {"post"}) => req[z].type = "search" /\ req[z].operation_number = 1
         /\ Within(z, {"sent"}) => SideOf(z) = "S"
         /\ Within(z, {"received"}) => req[z].type \in {"rdma", "fallback"}
         /\ Within(z, FirstPlaces) => req[z].operation_number = 1
         /\ Within(z, SendPlaces) => SideOf(z) = "S"
         /\ Within(z, RecvPlaces) => req[z].type = "search"
         /\ Within(z, {"receive", "received"}) => req[z].type \in {"rdma", "fallback"} /\ SideOf(z) = "R"
         /\ Within(z, {"flush", "flag", "fetched"}) => req[z].type = "rdma"
         /\ Within(z, {"mpi_wait"}) => req[z].type \in Ordinary
<1> DEFINE p == OwnerOf(z)
<1> SUFFICES ASSUME InCall(p), Bottom(p).req = z
             PROVE  /\ Bottom(p).at = "post" => req[z].type = "search" /\ req[z].operation_number = 1
                    /\ Bottom(p).at = "sent" => SideOf(z) = "S"
                    /\ Bottom(p).at = "received" => req[z].type \in {"rdma", "fallback"}
                    /\ Bottom(p).at \in FirstPlaces => req[z].operation_number = 1
                    /\ Bottom(p).at \in SendPlaces => SideOf(z) = "S"
                    /\ Bottom(p).at \in RecvPlaces => req[z].type = "search"
                    /\ Bottom(p).at \in {"receive", "received"} =>
                         req[z].type \in {"rdma", "fallback"} /\ SideOf(z) = "R"
                    /\ Bottom(p).at \in {"flush", "flag", "fetched"} => req[z].type = "rdma"
                    /\ Bottom(p).at = "mpi_wait" => req[z].type \in Ordinary
  BY DEF Within
<1>1. p \in Process
  BY Known, OwnerTyped
<1>2. PICK at : at = Bottom(p).at
  OBVIOUS
<1>3. Fits(req, z, at)
  BY <1>1, <1>2, Known, BaseOf
<1> QED
  BY <1>2, <1>3 DEF Fits, FirstPlaces, SendPlaces, RecvPlaces

LEMMA BackupStep ==
  ASSUME UsedInTurn, MpiInv, MpiInv', BackupInv,
         NEW p \in Process, Moves(p) \/ Returns(p), Kinds(p)
  PROVE  BackupInv'
<1> PICK r : r = Call(p).on
  OBVIOUS
<1>1. deployment' = deployment
  BY DEF Moves, Returns, Advances
<1>2. /\ Requests' = Requests /\ \A z : SideOf(z)' = SideOf(z) /\ OwnerOf(z)' = OwnerOf(z)
  BY <1>1, SameApplication
<1> SUFFICES ASSUME NEW z \in Requests
             PROVE  /\ req'[z].type = "fallback" => req'[z].operation_number >= 1
                    /\ Within(z, {"sent", "received"})' => req'[z].backup = "null"
                    /\ req'[z].type = "fallback" /\ req'[z].backup # "null" => Active(z)'
                    /\ SideOf(z) = "S" /\ Within(z, {"post"})' => req'[z].backup = "null"
  BY <1>2 DEF BackupInv
<1>3. /\ req[z].type = "fallback" => req[z].operation_number >= 1
      /\ Within(z, {"sent", "received"}) => req[z].backup = "null"
      /\ req[z].type = "fallback" /\ req[z].backup # "null" => Active(z)
      /\ SideOf(z) = "S" /\ Within(z, {"post"}) => req[z].backup = "null"
  BY DEF BackupInv
<1>4. ASSUME req'[z].type = "fallback" PROVE req'[z].operation_number >= 1
  <2>1. Made(z, "start") >= 1
    <3>1. CASE req[z].type = "fallback"
      BY <1>3, <3>1, Counts
    <3>2. CASE req[z].type # "fallback"
      <4>1. z = r /\ Call(p).do = "wait" /\ ~Ended(p)
        BY <1>4, <3>2, TypeStep
      <4> QED
        BY <4>1, ActiveWaits
    <3> QED
      BY <3>1, <3>2
  <2>2. Made(z, "start")' >= 1 /\ Made(z, "start")' \in Nat
    BY <2>1, MadeGrows DEF Calls, Collective
  <2>3. req'[z].operation_number = Made(z, "start")' + IF z \in Starting' THEN 1 ELSE 0
    BY <1>2 DEF MpiInv, CountInv
  <2> QED
    BY <2>2, <2>3
<1>5. CASE z # r /\ Spared(req, req', z)
  <2>1. Active(z)' <=> Active(z)
    BY <1>5, ActiveStays
  <2>2. req'[z].backup = "null" \/ req[z].backup # "null" \/ (req[z].type = "search" /\ SideOf(z) = "R")
    BY <1>5 DEF Spared
  <2>3. Within(z, {"sent", "received"})' => Within(z, {"sent", "received"})
    BY <1>5, WithinStep
  <2>4. Within(z, {"post"})' => Within(z, {"post"})
    BY <1>5, WithinStep
  <2>5. Within(z, {"sent", "received"}) => SideOf(z) = "S" \/ req[z].type # "search"
    BY PlacesFit DEF Within
  <2> QED
    BY <1>3, <1>4, <1>5, <2>1, <2>2, <2>3, <2>4, <2>5 DEF Spared
<1>6. CASE Creates(p)
  <2>1. CASE z = r
    <3>1. req'[z].type = "search" /\ req'[z].backup = "null"
      BY <1>6, <2>1 DEF Creates, Created
    <3> QED
      BY <3>1
  <2>2. CASE z # r
    BY <1>5, <1>6, <2>2 DEF Creates, Spared
  <2> QED
    BY <2>1, <2>2
<1>7. CASE Quiet(p)
  <2>1. Active(z)' <=> Active(z)
    BY <1>7, ActiveStays DEF Quiet
  <2>2. /\ Within(z, {"sent", "received"})' => Within(z, {"sent", "received"})
        /\ Within(z, {"post"})' => Within(z, {"post"})
    BY <1>7, WithinStep, NotBoth DEF Quiet
  <2> QED
    BY <1>3, <1>4, <1>7, <2>1, <2>2 DEF Quiet
<1>8. CASE z = r /\ (Starts(p) \/ WaitEnds(p))
  <2>1. Returns(p) /\ ~Moves(p) /\ r \in Requests /\ OwnerOf(r) = p
    BY <1>8, Known, NotBoth, CallOwned DEF Starts, WaitEnds, Returns, Advances, Collective
  <2>2. ~Within(z, {"sent", "received"})' /\ ~Within(z, {"post"})'
    BY <1>8, <2>1, WithinStep
  <2>3. CASE Starts(p)
    <3>1. Active(z)'
      BY <1>8, <2>1, <2>3, ActiveStarts DEF Starts
    <3> QED
      BY <1>4, <2>2, <3>1
  <2>4. CASE WaitEnds(p)
    <3>1. InCall(p) /\ Bottom(p).req = z
      BY <1>8, <2>4, Known, BaseOf DEF WaitEnds
    <3>2. CASE Bottom(p).at \in {"sent", "received"}
      <4>1. Within(z, {"sent", "received"})
        BY <1>8, <2>1, <3>1, <3>2 DEF Within
      <4>2. req'[z].backup = "null"
        BY <1>3, <1>8, <2>4, <4>1 DEF WaitEnds
      <4> QED
        BY <1>4, <2>2, <4>2
    <3>3. CASE Bottom(p).at \in {"flag", "fetched"}
      <4>1. Within(z, {"flush", "flag", "fetched"})
        BY <1>8, <2>1, <3>1, <3>3 DEF Within
      <4>2. req[z].type = "rdma"
        BY <4>1, PlacesFit
      <4>3. req'[z].type = "rdma"
        BY <1>8, <2>4, <3>3, <4>2 DEF WaitEnds
      <4> QED
        BY <2>2, <4>3
    <3>4. CASE Bottom(p).at = "mpi_wait"
      <4>1. req'[z].backup = "null"
        BY <1>8, <2>4, <3>4 DEF WaitEnds
      <4> QED
        BY <1>4, <2>2, <4>1
    <3> QED
      BY <2>4, <3>2, <3>3, <3>4 DEF WaitEnds
  <2> QED
    BY <1>8, <2>3, <2>4
<1>9. CASE z = r /\ Goes(p)
  <2>1. Moves(p) /\ r \in Requests /\ OwnerOf(r) = p /\ ~Ended(p)
    BY <1>9, Known, CallOwned DEF Goes, Moves, Collective
  <2>2. Active(z)' <=> Active(z)
    BY <2>1, ActiveStays
  <2>3. PICK at : at = Bottom(p)'.at
    OBVIOUS
  <2>4. Within(z, {"sent", "received"})' => at \in {"sent", "received"}
    BY <1>9, <2>1, <2>3, WithinStep
  <2>5. Within(z, {"post"})' => at = "post"
    BY <1>9, <2>1, <2>3, WithinStep
  <2>6. Fits(req', z, at) /\ Call(p).do = IF at = "post" THEN "start" ELSE "wait"
    BY <1>9, <2>1, <2>3, MovesInto
  <2>7. req'[z].type = "fallback" => Active(z)'
    <3>1. CASE at = "post"
      BY <2>6, <3>1 DEF Fits, SendPlaces, RecvPlaces
    <3>2. CASE at # "post"
      BY <1>9, <2>1, <2>2, <2>6, <3>2, ActiveWaits
    <3> QED
      BY <3>1, <3>2
  <2> QED
    BY <1>4, <1>9, <2>3, <2>4, <2>5, <2>7 DEF Goes
<1>10. CASE Nests(p)
  <2>1. Moves(p) /\ InCall(p) /\ Spared(req, req', z) /\ Bottom(p)'.at = Bottom(p).at
    BY <1>10 DEF Nests
  <2>2. CASE z # r
    BY <1>5, <2>1, <2>2
  <2>3. CASE z = r
    <3>1. Active(z)' <=> Active(z)
      BY <2>1, ActiveStays
    <3>2. OwnerOf(z) = p /\ Bottom(p).req = z
      BY <2>1, <2>3, Known, BaseOf
    <3>3. /\ Within(z, {"sent", "received"})' => Within(z, {"sent", "received"})
          /\ Within(z, {"post"})' => Within(z, {"post"})
      BY <2>1, <2>3, <3>2, WithinStep DEF Within
    <3>4. req'[z].backup = "null" \/ req[z].backup # "null" \/ (req[z].type = "search" /\ SideOf(z) = "R")
      BY <2>1 DEF Spared
    <3>5. Within(z, {"sent", "received"}) => SideOf(z) = "S" \/ req[z].type # "search"
      BY PlacesFit DEF Within
    <3> QED
      BY <1>3, <1>4, <2>1, <3>1, <3>3, <3>4, <3>5 DEF Spared
  <2> QED
    BY <2>2, <2>3
<1>11. Starts(p) \/ WaitEnds(p) \/ Goes(p) => z = r \/ Spared(req, req', z)
  BY DEF Starts, WaitEnds, Goes, Elsewhere
<1> QED
  BY <1>5, <1>6, <1>7, <1>8, <1>9, <1>10, <1>11 DEF Kinds

\* A receiver that finds its peer ready has an operation under way that is not
\* its first.
LEMMA ReadyActive ==
  ASSUME MpiInv, NEW z \in Requests, SideOf(z) = "R", req[z].type = "rdma",
         req[z].flag = ReadyFlag(z)
  PROVE  Active(z) /\ req[z].operation_number >= 2
<1>1. PICK x : x = req[z].remote
  OBVIOUS
<1>2. x \in Requests /\ ChannelOf(x) = ChannelOf(z) /\ SideOf(x) = "S"
  <2>1. x \in Requests /\ ChannelOf(x) = ChannelOf(z) /\ SideOf(x) # SideOf(z)
    BY <1>1, Known, PeerEnd DEF Table
  <2> QED
    BY <2>1, Known, RequestsTyped DEF Side
<1>3. PICK c : c = ChannelOf(z) /\ c \in Channels
  BY Known, RequestsTyped
<1>4. RecvInv(req[z], payload[c], z \in Starting, z \in Settled) /\ FlagInv(req[x], req[z])
  BY <1>2, <1>3, Known DEF Chans, ChannelInv, Ends
<1>5. PICK b, n, k : b = req[z].buf /\ n = req[x].operation_number /\ k = req[z].operation_number
  OBVIOUS
<1>6. b \in Nat /\ k \in Nat
  BY <1>5, Known, FieldsTyped
<1>7. 2 * k + 1 \in ToldBySend(b, n) /\ k \in {b, b + 1} /\ (z \in Settled => k = b)
  BY <1>4, <1>5 DEF FlagInv, RecvInv, ReadyFlag
<1>8. k = b + 1 /\ k >= 2
  BY <1>6, <1>7, ReadyTold
<1>9. z \notin Settled /\ z \notin Starting
  BY <1>6, <1>7, <1>8, Counts
<1> QED
  BY <1>5, <1>8, <1>9 DEF Settled, Idle, Active

\* Others than the request of the call are on the list.
LEMMA OthersListed ==
  ASSUME MpiInv, ListInv, NEW p \in Process, NEW r
  PROVE  Elements(Others(p, r)) = Listed(p) \ {r}
<1>1. list[p] \in Seq(Requests) /\ Once(list[p])
  BY Known DEF TypeInv, ListInv
<1> QED
  BY <1>1, Removed DEF Others, Listed

LEMMA TailWithin ==
  ASSUME NEW T, NEW s \in Seq(T), s # <<>>
  PROVE  /\ Elements(Tail(s)) \subseteq Elements(s) /\ Head(s) \in Elements(s)
         /\ \A e \in Elements(s) : e = Head(s) \/ e \in Elements(Tail(s))
<1>1. /\ Len(s) \in Nat \ {0} /\ Len(Tail(s)) = Len(s) - 1 /\ Head(s) = s[1]
      /\ \A i \in 1 .. Len(s) - 1 : Tail(s)[i] = s[i + 1]
  BY EmptySeq, HeadTailProperties
<1>2. PICK n \in Nat \ {0} : n = Len(s)
  BY <1>1
<1>3. ASSUME NEW i \in 1 .. n PROVE s[i] = Head(s) \/ s[i] \in Elements(Tail(s))
  <2>1. CASE i = 1
    BY <1>1, <2>1
  <2>2. CASE i # 1
    <3>1. i - 1 \in 1 .. n - 1 /\ (i - 1) + 1 = i
      BY <2>2
    <3>2. Tail(s)[i - 1] = s[i]
      BY <1>1, <1>2, <3>1
    <3> QED
      BY <1>1, <1>2, <3>1, <3>2 DEF Elements
  <2> QED
    BY <2>1, <2>2
<1>4. Elements(Tail(s)) \subseteq Elements(s) /\ Head(s) \in Elements(s)
  <2>1. \A i \in 1 .. n - 1 : i + 1 \in 1 .. n
    OBVIOUS
  <2> QED
    BY <1>1, <1>2, <2>1 DEF Elements
<1> QED
  BY <1>2, <1>3, <1>4 DEF Elements

\* What a step does to the list of a process in a call: nothing.
LEMMA ListStep ==
  ASSUME MpiInv, NEW p \in Process, Kinds(p)
  PROVE  \/ list' = list
         \/ Quiet(p) /\ Call(p).do = "free" /\ list' = [list EXCEPT ![p] = Others(p, Call(p).on)]
         \/ Creates(p) /\ list' = [list EXCEPT ![p] = <<Call(p).on>> \o @]
BY DEF Kinds, Quiet, Creates, Starts, WaitEnds, Goes, Nests

LEMMA FlagStep ==
  ASSUME MpiInv, ListInv, MeetInv, FlagAlone,
         NEW p \in Process, Moves(p) \/ Returns(p), Kinds(p)
  PROVE  FlagAlone'
<1>1. deployment' = deployment
  BY DEF Moves, Returns, Advances
<1> SUFFICES ASSUME NEW q \in Process, stack'[q] # <<>>, stack'[q][Len(stack'[q])].at = "flag"
             PROVE  /\ Len(stack'[q]) = 1
                    /\ Elements(stack'[q][Len(stack'[q])].rest) \subseteq
                         Elements(list'[q]) \ {stack'[q][Len(stack'[q])].req}
  BY DEF FlagAlone, InCall, Bottom, Listed
<1>2. CASE q # p
  <2>1. stack'[q] = stack[q]
    BY <1>2, Known DEF Moves, Returns, TypeInv
  <2>2. list'[q] = list[q]
    BY <1>2, Known, ListStep DEF TypeInv
  <2> QED
    BY <2>1, <2>2 DEF FlagAlone, InCall, Bottom, Listed
<1>3. CASE q = p
  <2>1. InCall(p)' /\ ~Returns(p) /\ Moves(p)
    BY <1>3, Known DEF InCall, Returns, TypeInv
  <2>2. Goes(p) \/ Nests(p)
    BY <2>1 DEF Kinds, Quiet, Creates, Starts, WaitEnds
  <2>3. list' = list /\ Bottom(p)'.at = "flag" /\ Bottom(p)'.req = Call(p).on
    BY <1>3, <2>1, <2>2, MovesInto DEF Bottom, Goes, Nests
  <2>4. CASE Goes(p)
    <3>1. Len(stack'[p]) = 1 /\ Bottom(p)'.rest \in {<<>>, Others(p, Call(p).on)}
      BY <2>3, <2>4 DEF Goes
    <3>2. Elements(Bottom(p)'.rest) \subseteq Listed(p) \ {Call(p).on}
      <4>1. Elements(<<>>) = {}
        BY DEF Elements
      <4> QED
        BY <3>1, <4>1, OthersListed
    <3> QED
      BY <1>3, <2>3, <3>1, <3>2 DEF Bottom, Listed
  <2>5. CASE Nests(p)
    <3>1. InCall(p) /\ Bottom(p).at = "flag"
      BY <2>3, <2>5 DEF Nests
    <3>2. /\ Len(stack[p]) = 1 /\ Elements(Bottom(p).rest) \subseteq Listed(p) \ {Bottom(p).req}
          /\ Bottom(p).req = Call(p).on /\ Call(p).on \in Requests /\ OwnerOf(Call(p).on) = p
      BY <3>1, Known, BaseOf DEF FlagAlone
    <3>3. Bottom(p).rest \in Seq(Owned(p))
      <4>1. stack[p][Len(stack[p])] = stack[p][1]
        BY <3>2
      <4> QED
        BY <3>1, <4>1, BottomIs
    <3>4. Elements(Bottom(p)'.rest) \subseteq Elements(Bottom(p).rest)
      BY <2>5, <3>3, TailWithin DEF Nests
    <3>5. Len(stack'[p]) = 1
      <4> SUFFICES ASSUME Bottom(p).rest # <<>>, Unmet(Head(Bottom(p).rest)) PROVE FALSE
        BY <2>5, <3>2 DEF Nests
      <4>1. PICK z, r : z = Head(Bottom(p).rest) /\ r = Call(p).on
        OBVIOUS
      <4>2. z \in Listed(p) \ {r}
        BY <3>2, <3>3, <4>1, TailWithin
      <4>3. Within(r, {"flush", "flag", "fetched"}) /\ ~Within(r, FirstPlaces)
        BY <3>1, <3>2, <4>1 DEF Within, FirstPlaces, SendPlaces, RecvPlaces
      <4>4. Decided(r)
        BY <3>2, <4>1, <4>3, PlacesFit DEF Decided
      <4> QED
        BY <3>2, <4>1, <4>2, <4>4 DEF MeetInv
    <3> QED
      BY <1>3, <2>3, <3>2, <3>4, <3>5 DEF Bottom, Listed
  <2> QED
    BY <2>2, <2>4, <2>5
<1> QED
  BY <1>2, <1>3

LEMMA PutsStep ==
  ASSUME UsedInTurn, MpiInv, MpiInv', PutsInv, FlagAlone,
         NEW p \in Process, Moves(p) \/ Returns(p), Kinds(p)
  PROVE  PutsInv'
<1> PICK r : r = Call(p).on
  OBVIOUS
<1>1. deployment' = deployment
  BY DEF Moves, Returns, Advances
<1>2. /\ Requests' = Requests /\ \A z : SideOf(z)' = SideOf(z) /\ OwnerOf(z)' = OwnerOf(z)
  BY <1>1, SameApplication
<1>3. ASSUME NEW z \in Requests
      PROVE  req[z].puts # <<>> =>
               /\ req[z].type = "rdma" /\ Active(z)
               /\ InCall(OwnerOf(z)) /\ Bottom(OwnerOf(z)).req = z =>
                    Bottom(OwnerOf(z)).at \in {"flush", "fetched"}
  BY DEF PutsInv
<1> DEFINE Held(z) == LET fs == stack'[OwnerOf(z)] IN
                      fs # <<>> /\ fs[Len(fs)].req = z => fs[Len(fs)].at \in {"flush", "fetched"}
<1> SUFFICES ASSUME NEW z \in Requests, req'[z].puts # <<>>
             PROVE  req'[z].type = "rdma" /\ Active(z)' /\ Held(z)
  BY <1>2 DEF PutsInv, InCall, Bottom
<1>4. OwnerOf(z) \in Process
  BY Known, OwnerTyped
<1>5. Returns(p) /\ OwnerOf(z) = p => Held(z)
  BY Known DEF Returns, TypeInv
<1>6. OwnerOf(z) # p => stack'[OwnerOf(z)] = stack[OwnerOf(z)]
  BY WithinStep
<1>7. Moves(p) => InCall(p)' /\ Bottom(p)'.req = r
  BY MovesInto
\* Nothing happens to z.
<1>8. ASSUME req'[z].puts = req[z].puts, req'[z].type = req[z].type, Active(z)' <=> Active(z),
             OwnerOf(z) = p => Held(z)
      PROVE  req'[z].type = "rdma" /\ Active(z)' /\ Held(z)
  <2>1. OwnerOf(z) # p => Held(z)
    BY <1>3, <1>6, <1>8 DEF InCall, Bottom
  <2> QED
    BY <1>3, <1>8, <2>1
<1>9. CASE z # r /\ req'[z].puts = req[z].puts /\ req'[z].type = req[z].type
  <2>1. Active(z)' <=> Active(z)
    BY <1>9, ActiveStays
  <2>2. OwnerOf(z) = p => Held(z)
    BY <1>5, <1>7, <1>9 DEF Bottom
  <2> QED
    BY <1>8, <1>9, <2>1, <2>2
<1>10. CASE Creates(p)
  <2>1. CASE z = r
    BY <1>10, <2>1 DEF Creates, Created
  <2> QED
    BY <1>9, <1>10, <2>1 DEF Creates
<1>11. CASE Quiet(p)
  <2>1. Active(z)' <=> Active(z)
    BY <1>11, ActiveStays DEF Quiet
  <2> QED
    BY <1>5, <1>8, <1>11, <2>1 DEF Quiet
<1>12. CASE Starts(p)
  <2>1. CASE z = r
    <3>1. Returns(p) /\ Call(p).do = "start" /\ OwnerOf(r) = p
      BY <1>12, Known, CallOwned DEF Starts, Returns, Advances, Collective
    <3>2. Active(z)' /\ Held(z)
      BY <1>5, <2>1, <3>1, ActiveStarts
    <3>3. req'[z].type = "rdma"
      BY <1>3, <1>12, <2>1 DEF Starts
    <3> QED
      BY <3>2, <3>3
  <2> QED
    BY <1>9, <1>12, <2>1 DEF Starts, Elsewhere, Spared
<1>13. CASE WaitEnds(p)
  <2>1. CASE z = r
    <3>1. InCall(p) /\ Bottom(p).req = z /\ OwnerOf(z) = p
      BY <1>13, <2>1, Known, BaseOf DEF WaitEnds
    <3>2. Bottom(p).at = "fetched" /\ req[z].puts # <<>>
      BY <1>3, <1>13, <2>1, <3>1 DEF WaitEnds
    <3> QED
      BY <1>13, <2>1, <3>2 DEF WaitEnds
  <2> QED
    BY <1>9, <1>13, <2>1 DEF WaitEnds, Elsewhere, Spared
<1>14. CASE Goes(p)
  <2>1. CASE z = r
    <3>1. Moves(p) /\ OwnerOf(z) = p /\ ~Ended(p)
      BY <1>14, <2>1, Known, CallOwned DEF Goes, Moves, Collective
    <3>2. PICK at : at = Bottom(p)'.at /\ at \in {"flush", "fetched"}
      BY <1>14, <2>1 DEF Goes
    <3>3. Fits(req', z, at) /\ Call(p).do = "wait"
      BY <2>1, <3>1, <3>2, MovesInto
    <3>4. req'[z].type = "rdma"
      BY <3>2, <3>3 DEF Fits, SendPlaces, RecvPlaces
    <3>5. Active(z)'
      BY <2>1, <3>1, <3>3, ActiveWaits, ActiveStays
    <3> QED
      BY <3>1, <3>2, <3>4, <3>5 DEF Bottom
  <2> QED
    BY <1>9, <1>14, <2>1 DEF Goes, Elsewhere, Spared
<1>15. CASE Nests(p)
  <2>1. Moves(p) /\ InCall(p) /\ Bottom(p)'.at = Bottom(p).at /\ Spared(req, req', z)
    BY <1>15 DEF Nests
  <2>2. req'[z].type = req[z].type /\ (Active(z)' <=> Active(z))
    BY <2>1, ActiveStays DEF Spared
  <2>3. Bottom(p).req = r
    BY <2>1, Known, BaseOf
  <2>4. CASE req'[z].puts = req[z].puts
    <3>1. OwnerOf(z) = p => Held(z)
      BY <1>3, <1>7, <2>1, <2>3, <2>4 DEF Bottom
    <3> QED
      BY <1>8, <2>2, <2>4, <3>1
  <2>5. CASE req'[z].puts # req[z].puts
    <3>1. /\ OwnerOf(z) = p /\ SideOf(z) = "R" /\ req[z].type = "rdma" /\ req[z].flag = ReadyFlag(z)
          /\ Len(stack[p]) = 1 => Bottom(p).rest # <<>> /\ z = Head(Bottom(p).rest)
      BY <1>15, <2>5 DEF Nests
    <3>2. Active(z) /\ req[z].operation_number >= 2
      BY <3>1, ReadyActive
    <3>3. Held(z)
      <4> SUFFICES ASSUME z = r PROVE Bottom(p).at \in {"flush", "fetched"}
        BY <1>7, <2>1, <3>1 DEF Bottom
      <4>1. \A places : Within(z, places) <=> Bottom(p).at \in places
        BY <2>1, <2>3, <3>1 DEF Within
      <4>2. Bottom(p).at # "post" /\ Bottom(p).at \notin FirstPlaces /\ Bottom(p).at # "mpi_wait"
        BY <3>1, <3>2, <4>1, PlacesFit DEF Ordinary
      <4>3. Bottom(p).at # "flag"
        <5> SUFFICES ASSUME Bottom(p).at = "flag" PROVE FALSE
          OBVIOUS
        <5>1. Len(stack[p]) = 1 /\ Elements(Bottom(p).rest) \subseteq Listed(p) \ {z}
          BY <2>1, <2>3 DEF FlagAlone
        <5>2. Bottom(p).rest \in Seq(Owned(p))
          <6>1. stack[p][Len(stack[p])] = stack[p][1]
            BY <5>1
          <6> QED
            BY <2>1, <6>1, BottomIs
        <5>3. z \in Elements(Bottom(p).rest)
          BY <3>1, <5>1, <5>2, TailWithin
        <5> QED
          BY <5>1, <5>3
      <4>4. Fits(req, z, Bottom(p).at)
        BY <2>1, <2>3, Known, BaseOf
      <4> QED
        BY <4>2, <4>3, <4>4 DEF Fits, FirstPlaces, SendPlaces, RecvPlaces
    <3> QED
      BY <2>2, <3>1, <3>2, <3>3
  <2> QED
    BY <2>4, <2>5
<1> HIDE DEF Held
<1> QED
  BY <1>10, <1>11, <1>12, <1>13, <1>14, <1>15 DEF Kinds

LEMMA Prepended ==
  ASSUME NEW T, NEW q \in Seq(T), Once(q), NEW e \in T, e \notin Elements(q)
  PROVE  Once(<<e>> \o q) /\ Elements(<<e>> \o q) = Elements(q) \union {e}
<1> PICK s : s = <<e>> \o q
  OBVIOUS
<1> PICK n \in Nat : n = Len(q)
  OBVIOUS
<1>1. Len(s) = n + 1 /\ \A i \in 1 .. n + 1 : s[i] = IF i = 1 THEN e ELSE q[i - 1]
  <2>1. <<e>> \in Seq(T) /\ Len(<<e>>) = 1 /\ <<e>>[1] = e
    OBVIOUS
  <2> QED
    BY <2>1, ConcatProperties
<1>2. \A i \in 1 .. n : q[i] # e
  BY DEF Elements
<1>3. \A i, j \in 1 .. n : q[i] = q[j] => i = j
  BY DEF Once
<1>4. Once(s)
  <2> SUFFICES ASSUME NEW i \in 1 .. n + 1, NEW j \in 1 .. n + 1, s[i] = s[j] PROVE i = j
    BY <1>1 DEF Once
  <2>1. (i # 1 => i - 1 \in 1 .. n) /\ (j # 1 => j - 1 \in 1 .. n)
    OBVIOUS
  <2>2. s[i] = (IF i = 1 THEN e ELSE q[i - 1]) /\ s[j] = (IF j = 1 THEN e ELSE q[j - 1])
    BY <1>1
  <2>3. i = 1 <=> j = 1
    BY <1>2, <2>1, <2>2
  <2>4. ASSUME i # 1, j # 1 PROVE i - 1 = j - 1
    BY <1>3, <2>1, <2>2, <2>4
  <2> QED
    BY <2>3, <2>4
<1>5. Elements(s) \subseteq Elements(q) \union {e}
  <2> SUFFICES ASSUME NEW i \in 1 .. n + 1 PROVE s[i] \in Elements(q) \union {e}
    BY <1>1 DEF Elements
  <2>1. i # 1 => i - 1 \in 1 .. n
    OBVIOUS
  <2> QED
    BY <1>1, <2>1 DEF Elements
<1>6. Elements(q) \union {e} \subseteq Elements(s)
  <2>1. \A i \in 1 .. n : i + 1 \in 1 .. n + 1 /\ i + 1 # 1 /\ (i + 1) - 1 = i
    OBVIOUS
  <2>2. \A i \in 1 .. n : s[i + 1] = q[i]
    BY <1>1, <2>1
  <2>3. s[1] = e /\ 1 \in 1 .. n + 1
    BY <1>1
  <2> QED
    BY <1>1, <2>1, <2>2, <2>3 DEF Elements
<1> QED
  BY <1>4, <1>5, <1>6

\* A request is created at most once.
LEMMA CreatedNew ==
  ASSUME UsedOnce, MpiInv, NEW p \in Process, Creates(p), NEW r, r = Call(p).on
  PROVE  r \in Requests /\ OwnerOf(r) = p /\ Made(r, "init") = 0 /\ Made(r, "init")' = 1
<1>1. r \in Requests /\ OwnerOf(r) = p /\ ~Ended(p) /\ Call(p).do = "init" /\ Advances(p)
  BY DEF Creates, Returns, Advances
<1>2. Made(r, "init") = 0
  BY <1>1, Known, OnceUsed
<1>3. Made(r, "init")' = Made(r, "init") + 1
  BY <1>1, Known, MadeStep DEF Calls, Collective
<1> QED
  BY <1>1, <1>2, <1>3

\* A list after a step.
LEMMA ListedStep ==
  ASSUME UsedOnce, MpiInv, ListInv, NEW p \in Process, Kinds(p), NEW q \in Process
  PROVE  /\ Once(list'[q])
         /\ \A z \in Elements(list'[q]) : \/ z \in Listed(q)
                                          \/ Creates(p) /\ q = p /\ z = Call(p).on
<1>1. list[q] \in Seq(Requests) /\ Once(list[q]) /\ list \in [Process -> Seq(Requests)]
  BY Known DEF TypeInv, ListInv
<1>2. CASE list'[q] = list[q]
  BY <1>1, <1>2 DEF Listed
<1>3. CASE q = p /\ list' = [list EXCEPT ![p] = Others(p, Call(p).on)]
  <2>1. list'[q] = RemoveFirst(list[q], Call(p).on)
    BY <1>1, <1>3 DEF Others
  <2> QED
    BY <1>1, <2>1, Removed DEF Listed
<1>4. CASE q = p /\ Creates(p) /\ list' = [list EXCEPT ![p] = <<Call(p).on>> \o @]
  <2>1. PICK r : r = Call(p).on
    OBVIOUS
  <2>2. r \in Requests /\ Made(r, "init") = 0
    BY <1>4, <2>1, CreatedNew
  <2>3. r \notin Elements(list[q])
    BY <2>2 DEF ListInv, Listed
  <2>4. list'[q] = <<r>> \o list[q]
    BY <1>1, <1>4, <2>1
  <2> QED
    BY <1>1, <1>4, <2>1, <2>2, <2>3, <2>4, Prepended DEF Listed
<1> QED
  BY <1>1, <1>2, <1>3, <1>4, ListStep

LEMMA ListInvStep ==
  ASSUME UsedOnce, MpiInv, ListInv, NEW p \in Process, Moves(p) \/ Returns(p), Kinds(p)
  PROVE  ListInv'
<1>1. deployment' = deployment /\ Requests' = Requests
  BY SameApplication DEF Moves, Returns, Advances
<1>2. \A z \in Requests : Made(z, "init")' >= Made(z, "init") /\ Made(z, "init")' \in Nat
                          /\ Made(z, "init") \in Nat
  BY MadeGrows DEF Calls, Collective
<1>3. ASSUME NEW q \in Process, NEW z \in Elements(list'[q]) PROVE Made(z, "init")' >= 1
  <2>1. CASE z \in Listed(q)
    <3>1. z \in Requests /\ Made(z, "init") >= 1
      BY <2>1, Known DEF ListInv, Listed, Elements, TypeInv
    <3> QED
      BY <1>2, <3>1
  <2>2. CASE Creates(p) /\ z = Call(p).on
    BY <2>2, CreatedNew
  <2> QED
    BY <2>1, <2>2, ListedStep
<1>4. ASSUME NEW z \in Requests, Made(z, "init")' = 0 PROVE req'[z].type \in {"new", "plain"}
  <2>1. Made(z, "init") = 0 /\ req[z].type \in {"new", "plain"}
    BY <1>2, <1>4 DEF ListInv
  <2>2. ~Creates(p) \/ z # Call(p).on
    BY <1>4, CreatedNew
  <2>3. req'[z].type = req[z].type
    <3> SUFFICES ASSUME req'[z].type # req[z].type PROVE FALSE
      OBVIOUS
    <3>1. z = Call(p).on /\ InCall(p) /\ Bottom(p).at \in {"sent", "test", "decide"}
      BY <2>2, TypeStep
    <3>2. PICK at : at = Bottom(p).at
      OBVIOUS
    <3>3. Fits(req, z, at)
      BY <3>1, <3>2, Known, BaseOf
    <3> QED
      BY <2>1, <3>1, <3>2, <3>3 DEF Fits, SendPlaces, RecvPlaces
  <2> QED
    BY <2>1, <2>3
<1> QED
  BY <1>1, <1>3, <1>4, ListedStep DEF ListInv, Listed

\* Who has entered a collective call has come to one.
LEMMA EnteredOne ==
  ASSUME IInv, NEW p \in Process, NEW do
  PROVE  /\ Entered(p, do) \in Nat
         /\ Entered(p, do) >= 1 <=>
              \E i \in 1 .. next[p] : i <= Len(Program(p)) /\ Program(p)[i].do = do
<1>1. PICK n \in Nat : n = Len(Program(p)) /\ DOMAIN Program(p) = 1 .. n
  BY ProgramsAssumption DEF IInv, Program
<1>2. PICK T : T = {i \in DOMAIN Program(p) : i <= next[p] /\ Program(p)[i].do = do}
  OBVIOUS
<1>3. IsFiniteSet(T)
  <2>1. T \in SUBSET (1 .. n)
    BY <1>1, <1>2
  <2>2. IsFiniteSet(1 .. n)
    BY FS_Interval
  <2> QED
    BY <2>1, <2>2, FS_Subset
<1>4. Cardinality(T) \in Nat /\ (Cardinality(T) = 0 <=> T = {})
  BY <1>3, FS_CardinalityType, FS_EmptySet
<1>5. T # {} <=> \E i \in 1 .. next[p] : i <= n /\ Program(p)[i].do = do
  BY <1>1, <1>2 DEF IInv
<1> QED
  BY <1>1, <1>2, <1>4, <1>5 DEF Entered

LEMMA BarrierStep ==
  ASSUME MpiInv, BarrierInv, NEW p \in Process, Moves(p) \/ Returns(p), Kinds(p)
  PROVE  BarrierInv'
<1>1. deployment' = deployment /\ \A q : Program(q)' = Program(q)
  BY SameApplication DEF Moves, Returns, Advances
<1>2. next \in [Process -> Nat \ {0}] /\ IInv
  BY Known DEF IInv
<1>3. \A q \in Process : /\ next'[q] \in {next[q], next[q] + 1} 
                         /\ next'[q] # next[q] => q = p /\ Returns(p)
  BY <1>2 DEF Moves, Returns, Advances
<1> DEFINE Reached(q) == \E i \in 1 .. next[q] : i <= Len(Program(q)) /\ Program(q)[i].do = "barrier"
<1>4. SUFFICES ASSUME NEW t \in Process, NEW i \in 1 .. next'[t] - 1, Program(t)[i].do = "barrier",
                      NEW q \in Process, Program(q) # <<>>
               PROVE  Reached(q)
  <2>1. ASSUME NEW q \in Process, Reached(q)
        PROVE \E i \in 1 .. next'[q] : i <= Len(Program(q)) /\ Program(q)[i].do = "barrier"
    BY <1>2, <1>3, <2>1
  <2> HIDE DEF Reached
  <2> QED
    BY <1>1, <2>1 DEF BarrierInv
<1>5. CASE i \in 1 .. next[t] - 1
  BY <1>4, <1>5 DEF BarrierInv
<1>6. CASE i \notin 1 .. next[t] - 1
  <2>1. i = next[t] /\ t = p /\ Returns(p)
    BY <1>2, <1>3, <1>6
  <2>2. Call(p).do = "barrier" /\ ~Ended(p)
    BY <1>4, <2>1 DEF Call, Returns, Advances
  <2>3. ~Moves(p)
    BY <2>2 DEF Moves
  <2>4. AllHere(p)
    BY <2>2, <2>3 DEF Kinds, Quiet, Creates, Starts, WaitEnds, Goes, Nests
  <2>5. Entered(p, "barrier") >= 1
    <3>1. next[p] \in 1 .. next[p] /\ next[p] <= Len(Program(p)) /\ Program(p)[next[p]].do = "barrier"
      <4>1. Len(Program(p)) \in Nat
        BY <1>2, ProgramsAssumption DEF IInv, Program
      <4> QED
        BY <1>2, <2>2, <4>1 DEF Ended, Call
    <3> QED
      BY <1>2, <3>1, EnteredOne
  <2>6. Entered(q, "barrier") >= 1
    <3>1. Entered(q, "barrier") >= Entered(p, "barrier")
      BY <1>4, <2>2, <2>4 DEF AllHere
    <3> QED
      BY <1>2, <2>5, <3>1, EnteredOne
  <2> QED
    BY <1>2, <2>6, EnteredOne
<1> QED
  BY <1>5, <1>6

-----------------------------------------------------------------------------
(* Addresses that are taken. *)

\* No addresses are taken in a step,
Silent == info' = info /\ \A z \in Requests : req'[z].remote = req[z].remote

\* ... or z learns those of its peer.
Learns(z) ==
  /\ req[z].type = "search" /\ req[z].remote = Null /\ Iprobe(z)
  /\ req'[z].remote = Head(info[Inbox(z)])
  /\ info' = [info EXCEPT ![Inbox(z)] = Tail(@)]
  /\ \A y \in Requests \ {z} : req'[y].remote = req[y].remote

Hears == Silent \/ \E z \in Requests : Learns(z)

LEMMA SilentChange ==
  ASSUME NEW rq, SameRemotes(rq, req), SameRemotes(req', rq), info' = info
  PROVE  Silent
BY DEF Silent, SameRemotes

LEMMA SearchHears ==
  ASSUME IInv, NEW rq, SameRemotes(rq, req), NEW p, NEW r \in Requests, NEW callers,
         SearchPeer(rq, p, r, callers), req[r].remote = Null => req[r].type = "search"
  PROVE  Hears
<1>1. Shape(rq) /\ Shape(req)
  BY DEF SameRemotes, IInv, Sound
<1>2. rq[r].remote = req[r].remote
  BY DEF SameRemotes
<1>3. CASE rq[r].remote = Null /\ Iprobe(r)
  <2>1. PICK q : /\ q = Head(info[Inbox(r)])
                 /\ req' = [rq EXCEPT ![r].remote = q, ![q].infoSend = "done"]
                 /\ info' = [info EXCEPT ![Inbox(r)] = Tail(@)]
    BY <1>3 DEF SearchPeer
  <2>2. req'[r].remote = q /\ \A y \in Requests \ {r} : req'[y].remote = rq[y].remote
    BY <1>1, <2>1 DEF Shape
  <2>3. Learns(r)
    BY <1>2, <1>3, <2>1, <2>2 DEF Learns, SameRemotes
  <2> QED
    BY <2>3 DEF Hears
<1>4. CASE ~(rq[r].remote = Null /\ Iprobe(r))
  <2>1. info' = info /\ (PostRecv(rq, r) \/ req' = rq)
    BY <1>4 DEF SearchPeer
  <2>2. SameRemotes(req', rq)
    BY <1>1, <2>1, PostRecvRemotes DEF SameRemotes
  <2> QED
    BY <2>1, <2>2, SilentChange DEF Hears
<1> QED
  BY <1>3, <1>4

LEMMA StartHears ==
  ASSUME MpiInv, NEW p \in Process,
         StartRdma(p) \/ StartOrdinary(p) \/ StartSearching(p) \/ PostFirst(p)
  PROVE  Hears
<1> PICK r : r = Call(p).on
  OBVIOUS
<1>1. Shape(req) /\ SameRemotes(Begun(r), req) /\ Shape(Begun(r)) /\ SameRemotes(req, req) /\ IInv
  BY Known, BegunRemotes DEF IInv, Sound, SameRemotes
<1>2. PICK rq : rq = Begun(r)
  OBVIOUS
<1>3. CASE StartRdma(p)
  <2>1. /\ info' = info
        /\ \/ \E n : req' = Announce(rq, r, n)
           \/ \E n : req' = Push(rq, r, n)
           \/ \E n : req' = Fetch(rq, r, n)
    BY <1>2, <1>3 DEF StartRdma
  <2> QED
    BY <1>1, <1>2, <2>1, MovedRemotes, SilentChange DEF Hears
<1>4. CASE StartOrdinary(p)
  <2>1. info' = info /\ (PostSend(rq, r, FALSE) \/ PostRecv(rq, r))
    BY <1>2, <1>4 DEF StartOrdinary
  <2> QED
    BY <1>1, <1>2, <2>1, PostSendRemotes, PostRecvRemotes, SilentChange DEF Hears
<1>5. CASE StartSearching(p)
  <2>1. Calling(p, "start") /\ req[r].type = "search" /\ SearchPeer(rq, p, r, <<Frame(r, "post", <<>>)>>)
    BY <1>2, <1>5 DEF StartSearching
  <2>2. r \in Requests
    BY <1>1, <2>1, CallOnRequest DEF Calls, Collective
  <2> QED
    BY <1>1, <1>2, <2>1, <2>2, SearchHears
<1>6. CASE PostFirst(p)
  <2>1. /\ info' = info
        /\ \/ PostSend(req, Current(p), TRUE) \/ PostRecv(req, Current(p))
           \/ req' = req
    BY <1>6 DEF PostFirst
  <2> QED
    BY <1>1, <2>1, PostSendRemotes, PostRecvRemotes, SilentChange DEF Hears
<1> QED
  BY <1>3, <1>4, <1>5, <1>6

LEMMA WaitHears ==
  ASSUME UsedInTurn, MpiInv, NEW p \in Process,
         \/ Wait(p) \/ WaitSendProbe(p) \/ WaitSendTest(p) \/ WaitSendEnd(p)
         \/ WaitRecvLook(p) \/ WaitRecvProbe(p) \/ WaitRecvDecide(p)
         \/ WaitRecvTest(p) \/ WaitRecvEnd(p)
         \/ WaitFlush(p) \/ WaitFlagRound(p) \/ WaitFlagEnd(p)
         \/ WaitCrosstalk(p) \/ WaitFetched(p) \/ WaitOrdinary(p)
  PROVE  Hears
<1>1. Shape(req) /\ IInv /\ SameRemotes(req, req) /\ Table(req)
  BY Known DEF IInv, Sound, SameRemotes
<1>2. CASE \/ Wait(p) \/ WaitRecvLook(p) \/ WaitRecvEnd(p) \/ WaitFlush(p)
           \/ WaitFlagRound(p) \/ WaitFlagEnd(p) \/ WaitFetched(p)
  <2>1. req' = req /\ info' = info
    BY <1>2 DEF Wait, WaitRecvLook, WaitRecvEnd, WaitFlush, WaitFlagRound, WaitFlagEnd, WaitFetched
  <2> QED
    BY <2>1 DEF Hears, Silent
<1>3. CASE WaitSendProbe(p) \/ WaitRecvProbe(p)
  <2>1. PICK place : place \in {"probe", "again", "last"} /\ At(p, place)
    BY <1>3 DEF WaitSendProbe, WaitRecvProbe
  <2>2. PICK r \in Requests : r = Current(p) /\ Fits(req, r, place)
    BY <2>1, WaitAt
  <2>3. \E f : SearchPeer(req, p, r, <<f>>)
    BY <1>3, <2>2 DEF WaitSendProbe, WaitRecvProbe
  <2>4. req[r].remote = Null => req[r].type = "search"
    BY <1>1, <2>1, <2>2 DEF Fits, SendPlaces, RecvPlaces, Table
  <2> QED
    BY <1>1, <2>3, <2>4, SearchHears
<1>4. CASE \/ WaitSendTest(p) \/ WaitSendEnd(p) \/ WaitRecvTest(p) \/ WaitOrdinary(p)
  <2>1. info' = info /\ SameRemotes(req', req)
    BY <1>1, <1>4 DEF WaitSendTest, WaitSendEnd, WaitRecvTest, WaitOrdinary,
                      SameRemotes, Shape
  <2> QED
    BY <1>1, <2>1, SilentChange DEF Hears
<1>5. CASE WaitRecvDecide(p)
  <2>1. PICK t, rq : rq = [req EXCEPT ![Current(p)].type = t] /\ (PostRecv(rq, Current(p)) \/ req' = rq)
    BY <1>5 DEF WaitRecvDecide
  <2>2. SameRemotes(rq, req) /\ Shape(rq)
    BY <1>1, <2>1 DEF SameRemotes, Shape
  <2>3. info' = info
    BY <1>5 DEF WaitRecvDecide
  <2>4. SameRemotes(req', rq)
    BY <2>1, <2>2, PostRecvRemotes DEF SameRemotes
  <2> QED
    BY <2>2, <2>3, <2>4, SilentChange DEF Hears
<1>6. CASE WaitCrosstalk(p)
  <2>1. info' = info /\ \E r, n : req' = Fetch(req, r, n)
    BY <1>6 DEF WaitCrosstalk
  <2> QED
    BY <1>1, <2>1, MovedRemotes, SilentChange DEF Hears
<1> QED
  BY <1>2, <1>3, <1>4, <1>5, <1>6

LEMMA ProgressHears ==
  ASSUME UsedInTurn, MpiInv, NEW p \in Process, BlockRound(p) \/ BlockEnd(p) \/ ProgressNext(p)
  PROVE  Hears
<1>1. Shape(req) /\ IInv /\ SameRemotes(req, req) /\ Table(req)
  BY Known DEF IInv, Sound, SameRemotes
<1>2. CASE BlockRound(p)
  BY <1>2 DEF BlockRound, Hears, Silent
<1>3. CASE BlockEnd(p)
  <2>1. info' = info /\ (PostRecv(req, Current(p)) \/ req' = req)
    BY <1>3 DEF BlockEnd
  <2> QED
    BY <1>1, <2>1, PostRecvRemotes, SilentChange DEF Hears
<1>4. CASE ProgressNext(p)
  <2>1. InCall(p) /\ stack[p][1].rest # <<>>
    BY <1>4 DEF ProgressNext, InCall
  <2>2. PICK r : r = Head(stack[p][1].rest) /\ r \in Requests
    <3>1. PICK s : s = stack[p][1].rest
      OBVIOUS
    <3>2. s \in Seq(Owned(p)) /\ s # <<>>
      BY <2>1, <3>1, BottomIs
    <3>3. Head(s) \in Owned(p)
      BY <3>2
    <3> QED
      BY <3>1, <3>3 DEF Owned
  <2>3. PICK callers :
          \/ req[r].type = "search" /\ SearchPeer(req, p, r, callers)
          \/ info' = info /\ req' = Fetch(req, r, req[r].operation_number)
          \/ info' = info /\ req' = [req EXCEPT ![r].backup = "null"]
          \/ info' = info /\ req' = req
    BY <1>4, <2>2, Zenon DEF ProgressNext
  <2>4. SameRemotes([req EXCEPT ![r].backup = "null"], req)
    BY <1>1 DEF SameRemotes, Shape
  <2> QED
    BY <1>1, <2>2, <2>3, <2>4, SearchHears, MovedRemotes, SilentChange DEF Hears
<1> QED
  BY <1>2, <1>3, <1>4

LEMMA StepHears ==
  ASSUME UsedInTurn, MpiInv, NEW p \in Process, Step(p)
  PROVE  InitRequest(p) \/ Hears
<1>1. CASE FreeRequest(p) \/ Finalize(p) \/ Barrier(p)
  <2>1. Silent
    BY <1>1 DEF FreeRequest, Finalize, Barrier, Silent
  <2> QED
    BY <2>1 DEF Hears
<1> QED
  BY <1>1, StartHears, WaitHears, ProgressHears DEF Step

\* News come with the creation of requests only.
LEMMA UnmetBefore ==
  ASSUME MpiInv, NEW p \in Process, Moves(p) \/ Returns(p), Kinds(p), ~Creates(p), Hears,
         NEW q \in Requests, Unmet(q)'
  PROVE  Unmet(q)
<1>1. deployment' = deployment
  BY DEF Moves, Returns, Advances
<1>2. Inbox(q)' = Inbox(q) /\ Queues' = Queues
  BY <1>1, SameApplication
<1>3. req'[q].type = "search" /\ req'[q].remote = Null /\ Inbox(q) \in Queues /\ info'[Inbox(q)] # <<>>
  BY <1>2 DEF Unmet, Iprobe
<1>4. InfoSound(info) /\ Null \notin Requests
  BY Known, NullAssumption DEF IInv, Sound, Requests
<1>5. req[q].remote = Null /\ info[Inbox(q)] # <<>>
  <2>1. CASE Silent
    BY <1>3, <2>1 DEF Silent
  <2>2. ASSUME NEW z \in Requests, Learns(z) PROVE req[q].remote = Null /\ info[Inbox(q)] # <<>>
    <3>1. req[q].remote = Null
      BY <1>3, <2>2 DEF Learns
    <3>2. info[Inbox(q)] # <<>>
      BY <1>3, <1>4, <2>2 DEF Learns, Iprobe, InfoSound
    <3> QED
      BY <3>1, <3>2
  <2> QED
    BY <2>1, <2>2 DEF Hears
<1>6. req[q].type = "search"
  BY <1>3, TypeStep
<1> QED
  BY <1>3, <1>5, <1>6 DEF Unmet, Iprobe

-----------------------------------------------------------------------------
(* Others are met before the protocol of a request is settled. *)

\* While requests are created that way, no operation has begun.
LEMMA NotBegun ==
  ASSUME MpiInv, BarrierInv, CreatedFirst(deployment), NEW p \in Process, ~Ended(p),
         Call(p).do = "init", NEW z \in Requests
  PROVE  req[z].operation_number = 0
<1>1. IInv /\ deployment \in Deployments /\ next \in [Process -> Nat \ {0}]
  BY Known DEF IInv
<1>2. \A q \in Process : Len(Program(q)) \in Nat /\ DOMAIN Program(q) = 1 .. Len(Program(q))
  BY <1>1, ProgramsAssumption DEF Program
<1>3. next[p] \in 1 .. Len(Program(p)) /\ Program(p)[next[p]].do = "init"
  BY <1>1, <1>2 DEF Ended, Call
<1>4. \A i \in 1 .. next[p] - 1 : Program(p)[i].do # "barrier"
  BY <1>3 DEF CreatedFirst, Met, Program
<1>5. \A i \in 1 .. next[p] : Program(p)[i].do # "barrier"
  BY <1>1, <1>3, <1>4
<1>6. Program(p) # <<>>
  BY <1>3
<1>7. ASSUME NEW q \in Process, NEW i \in 1 .. next[q] - 1 PROVE Program(q)[i].do # "barrier"
  BY <1>5, <1>6 DEF BarrierInv
<1>8. ASSUME NEW q \in Process, NEW i \in 1 .. next[q], i <= Len(Program(q)) PROVE Program(q)[i].do # "start"
  <2> SUFFICES ASSUME Program(q)[i].do = "start" PROVE FALSE
    OBVIOUS
  <2>1. i \in 1 .. Len(Program(q))
    BY <1>1, <1>2, <1>8
  <2>2. PICK j \in 1 .. i - 1 : Program(q)[j].do = "barrier"
    BY <2>1 DEF CreatedFirst, Met, Program
  <2>3. j \in 1 .. next[q] - 1
    BY <1>1
  <2> QED
    BY <1>7, <2>2, <2>3
<1>9. OwnerOf(z) \in Process
  BY <1>1, OwnerTyped
<1>10. Made(z, "start") = 0
  <2>1. next[OwnerOf(z)] <= Len(Program(OwnerOf(z))) + 1
    BY <1>9, Known DEF PlaceInv
  <2>2. \A j \in 1 .. next[OwnerOf(z)] - 1 : Program(OwnerOf(z))[j].do # "start"
    BY <1>1, <1>2, <1>8, <1>9, <2>1
  <2>3. {j \in 1 .. next[OwnerOf(z)] - 1 : /\ Program(OwnerOf(z))[j].do = "start"
                                          /\ Program(OwnerOf(z))[j].on = z} = {}
    BY <2>2
  <2> QED
    BY <2>3, FS_EmptySet DEF Made, Times, OwnerOf, ChannelOf, SideOf, Program
<1>11. z \notin Starting
  <2> SUFFICES ASSUME z \in Starting PROVE FALSE
    OBVIOUS
  <2>1. PICK q : q = OwnerOf(z) /\ InCall(q) /\ Bottom(q).at = "post"
    BY DEF Starting
  <2>2. ~Ended(q) /\ Call(q).do = "start" /\ q \in Process
    BY <1>9, <2>1, Known, BaseOf
  <2> QED
    BY <1>1, <1>2, <1>8, <2>2 DEF Ended, Call
<1> QED
  BY <1>10, <1>11, Counts

\* RDMA is for those that have been started.
LEMMA RdmaBegun ==
  ASSUME MpiInv, NEW z \in Requests
  PROVE  /\ req[z].type = "rdma" => req[z].operation_number >= 1
         /\ req[z].type = "search" /\ z \in Settled =>
              req[z].operation_number = 0 /\ req[z].backup = "null"
<1>1. ChannelOf(z) \in Channels /\ SideOf(z) \in {"S", "R"}
  BY Known, RequestsTyped DEF Side
<1>2. EndInv(req[z], z \in Starting, z \in Settled)
  BY <1>1, Known DEF Chans, ChannelInv, Ends, SendInv, RecvInv
<1> QED
  BY <1>2 DEF EndInv

LEMMA MeetStep ==
  ASSUME OneRequestPerSide, UsedInTurn, UsedOnce, CreatedInTime,
         MpiInv, MpiInv', BackupInv, ListInv, MeetInv, BarrierInv,
         NEW p \in Process, Moves(p) \/ Returns(p), Kinds(p), Creates(p) \/ Hears
  PROVE  MeetInv'
<1>1. deployment' = deployment
  BY DEF Moves, Returns, Advances
<1>2. /\ Requests' = Requests /\ \A z : SideOf(z)' = SideOf(z) /\ OwnerOf(z)' = OwnerOf(z)
  BY <1>1, SameApplication
<1> SUFFICES ASSUME NEW r \in Requests, NEW q \in Elements(list'[OwnerOf(r)]) \ {r}, Unmet(q)'
             PROVE  /\ ~Decided(r)'
                    /\ Within(r, {"sent", "received"})' =>
                         LET fs == stack'[OwnerOf(r)] IN q \in Elements(fs[Len(fs)].rest)
  BY <1>2 DEF MeetInv, Listed, Bottom
<1>3. PICK o \in Process : o = OwnerOf(r)
  BY Known, OwnerTyped
<1>4. q \in Listed(o) \/ (Creates(p) /\ o = p /\ q = Call(p).on)
  BY <1>3, ListedStep
<1>5. q \in Requests /\ OwnerOf(q) = o
  <2>1. CASE q \in Listed(o)
    <3>1. list[o] \in Seq(Owned(o))
      BY Known DEF TypeInv
    <3>2. PICK s : s = list[o]
      OBVIOUS
    <3>3. PICK i \in 1 .. Len(s) : q = s[i]
      BY <2>1, <3>2 DEF Listed, Elements
    <3>4. q \in Owned(o)
      BY <3>1, <3>2, <3>3
    <3> QED
      BY <3>4 DEF Owned, OwnerOf
  <2>2. CASE Creates(p) /\ o = p /\ q = Call(p).on
    BY <2>2 DEF Creates
  <2> QED
    BY <1>4, <2>1, <2>2
<1>6. Decided(r)' <=> req'[r].type \in {"rdma", "fallback"} /\ ~Within(r, FirstPlaces)'
  BY DEF Decided, FirstPlaces, SendPlaces, RecvPlaces
<1>7. CASE Creates(p)
  <2>1. deployment \in Deployments
    BY Known DEF IInv
  <2>2. CreatedFirst(deployment)
    <3>1. ~OneRequestPerProcess(deployment)
      BY <1>3, <1>5 DEF OneRequestPerProcess, OwnerOf, ChannelOf, SideOf, Requests
    <3> QED
      BY <2>1, <3>1 DEF CreatedInTime
  <2>3. \A z \in Requests : req[z].operation_number = 0
    BY <1>7, <2>2, NotBegun DEF Creates, Returns, Advances
  <2>4. req[r].type \notin {"rdma", "fallback"} /\ ~Within(r, {"sent", "received"})
    <3>1. req[r].type # "fallback"
      BY <2>3 DEF BackupInv
    <3>2. req[r].type # "rdma"
      BY <2>3, RdmaBegun
    <3>3. ~Within(r, FirstPlaces)
      BY <2>3, PlacesFit
    <3> QED
      BY <3>1, <3>2, <3>3 DEF Within, FirstPlaces, SendPlaces
  <2>5. req'[r].type \notin {"rdma", "fallback"}
    BY <1>7, <2>4, TypeStep DEF Creates, Created
  <2>6. ~Within(r, {"sent", "received"})'
    <3>1. CASE o = p
      BY <1>3, <1>7, <3>1, CreatedAlone
    <3>2. CASE o # p
      BY <1>3, <2>4, <3>2, WithinStep
    <3> QED
      BY <3>1, <3>2
  <2> QED
    BY <1>6, <2>5, <2>6
<1> SUFFICES ASSUME ~Creates(p)
             PROVE  /\ ~Decided(r)'
                    /\ Within(r, {"sent", "received"})' =>
                         LET fs == stack'[OwnerOf(r)] IN q \in Elements(fs[Len(fs)].rest)
  BY <1>7
<1>8. Unmet(q) /\ q \in Listed(o) \ {r}
  BY <1>4, <1>5, UnmetBefore
<1>9. /\ ~ (req[r].type \in {"rdma", "fallback"} /\ ~Within(r, FirstPlaces))
      /\ Within(r, {"sent", "received"}) => q \in Elements(Bottom(o).rest)
  BY <1>3, <1>8 DEF MeetInv, Decided
\* Nothing happens to r.
<1>10. CASE o # p
  <2>1. req'[r].type = req[r].type
    BY <1>3, <1>10, TypeStep
  <2> QED
    BY <1>3, <1>6, <1>9, <1>10, <2>1, WithinStep DEF Bottom
<1>11. CASE o = p /\ r # Call(p).on
  <2>1. req'[r].type = req[r].type
    BY <1>11, TypeStep
  <2>2. \A places : ~Within(r, places) /\ ~Within(r, places)'
    BY <1>3, <1>11, WithinStep
  <2> QED
    BY <1>6, <1>9, <2>1, <2>2
<1>12. CASE o = p /\ r = Call(p).on
  <2>1. \A places : Within(r, places) <=> InCall(p) /\ Bottom(p).at \in places
    <3>1. InCall(p) => Bottom(p).req = r
      BY <1>12, Known, BaseOf
    <3> QED
      BY <1>3, <1>12, <3>1 DEF Within
  <2>2. CASE Quiet(p)
    <3>1. req'[r].type = req[r].type /\ ~InCall(p) /\ ~Moves(p)
      BY <2>2, NotBoth DEF Quiet
    <3>2. ~Within(r, FirstPlaces) /\ ~Within(r, {"sent", "received"})'
      BY <1>3, <1>12, <2>1, <3>1, WithinStep
    <3> QED
      BY <1>6, <1>9, <3>1, <3>2
  <2>3. CASE Starts(p)
    <3>1. req'[r].type = req[r].type /\ ~Moves(p) /\ Call(p).do = "start"
      BY <1>12, <2>3, NotBoth DEF Starts
    <3>2. ~Within(r, FirstPlaces)
      <4> SUFFICES ASSUME InCall(p) PROVE Bottom(p).at \notin FirstPlaces
        BY <2>1
      <4> QED
        BY <3>1, Known, BaseOf DEF FirstPlaces, SendPlaces, RecvPlaces
    <3>3. ~Within(r, {"sent", "received"})'
      BY <1>3, <1>12, <3>1, WithinStep
    <3> QED
      BY <1>6, <1>9, <3>1, <3>2, <3>3
  <2>4. CASE WaitEnds(p)
    <3>1. InCall(p) /\ Bottom(p).rest = <<>> /\ ~Moves(p)
          /\ Bottom(p).at \in {"sent", "received", "flag", "fetched", "mpi_wait"}
      BY <2>4, NotBoth DEF WaitEnds
    <3>2. Bottom(p).at \notin {"sent", "received"}
      <4>1. Elements(<<>>) = {}
        BY DEF Elements
      <4>2. ~Within(r, {"sent", "received"})
        BY <1>9, <1>12, <3>1, <4>1
      <4> QED
        BY <2>1, <3>1, <4>2
    <3>3. req'[r].type = req[r].type
      BY <1>12, <2>4, <3>2 DEF WaitEnds
    <3>4. ~Within(r, FirstPlaces)
      BY <2>1, <3>1, <3>2 DEF FirstPlaces, SendPlaces, RecvPlaces
    <3>5. ~Within(r, {"sent", "received"})'
      BY <1>3, <1>12, <3>1, WithinStep
    <3> QED
      BY <1>6, <1>9, <3>3, <3>4, <3>5
  <2>5. CASE Goes(p)
    <3>1. PICK at : at = Bottom(p)'.at
      OBVIOUS
    <3>2. Moves(p) /\ list' = list
      BY <2>5 DEF Goes
    <3>3. \A places : Within(r, places)' <=> at \in places
      BY <1>3, <1>12, <3>1, <3>2, WithinStep
    <3>4. ~Decided(r)'
      <4>1. CASE at \in FirstPlaces
        BY <1>6, <3>3, <4>1
      <4>2. CASE Within(r, {"flush", "flag"})
        <5>1. Within(r, {"flush", "flag", "fetched"}) /\ ~Within(r, FirstPlaces)
          BY <2>1, <4>2 DEF FirstPlaces, SendPlaces, RecvPlaces
        <5> QED
          BY <1>9, <5>1, PlacesFit
      <4>3. CASE ~InCall(p)
        <5>1. req'[r].type = req[r].type /\ ~Within(r, FirstPlaces)
          BY <1>12, <2>1, <2>5, <4>3 DEF Goes
        <5> QED
          BY <1>6, <1>9, <5>1
      <4> QED
        BY <1>12, <2>5, <3>1, <4>1, <4>2, <4>3 DEF Goes
    <3>5. ASSUME at \in {"sent", "received"} PROVE q \in Elements(Bottom(p)'.rest)
      <4>1. Bottom(p)'.rest = Others(p, r)
        BY <1>12, <2>5, <3>1, <3>5 DEF Goes
      <4> QED
        BY <1>8, <1>12, <4>1, OthersListed
    <3> QED
      BY <1>3, <1>12, <3>3, <3>4, <3>5 DEF Bottom
  <2>6. CASE Nests(p)
    <3>1. Moves(p) /\ InCall(p) /\ Bottom(p)'.at = Bottom(p).at /\ req'[r].type = req[r].type
      BY <2>6 DEF Nests, Spared
    <3>2. \A places : Within(r, places)' <=> Within(r, places)
      BY <1>3, <1>12, <2>1, <3>1, WithinStep
    <3>3. ASSUME Within(r, {"sent", "received"}) PROVE q \in Elements(Bottom(p)'.rest)
      <4>1. q \in Elements(Bottom(p).rest)
        BY <1>9, <1>12, <3>3
      <4>2. Bottom(p).rest \in Seq(Owned(p))
        <5>1. Bottom(p) \in Frames(req, p)
          BY <3>1, BottomIs
        <5> QED
          BY <5>1 DEF Frames
      <4>3. CASE Bottom(p)'.rest = Bottom(p).rest
        BY <4>1, <4>3
      <4>4. CASE /\ Bottom(p).rest # <<>> /\ Bottom(p)'.rest = Tail(Bottom(p).rest)
                 /\ \E z \in Requests : z = Head(Bottom(p).rest) /\ ~Unmet(z)'
        BY <4>1, <4>2, <4>4, TailWithin
      <4> QED
        BY <2>6, <4>3, <4>4 DEF Nests
    <3> QED
      BY <1>3, <1>6, <1>9, <1>12, <3>1, <3>2, <3>3 DEF Bottom
  <2> QED
    BY <2>2, <2>3, <2>4, <2>5, <2>6 DEF Kinds
<1> QED
  BY <1>10, <1>11, <1>12

-----------------------------------------------------------------------------
(* The invariant of the calls. *)

CallsInv == MpiInv /\ BackupInv /\ ListInv /\ MeetInv /\ FlagAlone /\ PutsInv /\ BarrierInv

LEMMA InitCallsInv == Init => CallsInv
<1> SUFFICES ASSUME Init PROVE CallsInv
  OBVIOUS
<1>1. MpiInv
  BY InitMpiInv
<1>2. /\ next = [p \in Process |-> 1]
      /\ list = [p \in Process |-> <<>>]
      /\ stack = [p \in Process |-> <<>>]
      /\ \A r \in Requests : req[r].type \in {"new", "plain"} /\ req[r].puts = <<>>
  BY DEF Init, Cleared
<1>3. \A p \in Process : ~InCall(p) /\ Listed(p) = {}
  BY <1>2 DEF InCall, Listed, Elements
<1>4. \A r \in Requests : \A places : ~Within(r, places)
  BY <1>1, <1>3, Known, OwnerTyped DEF Within
<1>5. BackupInv /\ PutsInv /\ FlagAlone
  BY <1>2, <1>3, <1>4 DEF BackupInv, PutsInv, FlagAlone
<1>6. ListInv
  BY <1>2, <1>3 DEF ListInv, Once
<1>7. MeetInv
  BY <1>1, <1>3, Known, OwnerTyped DEF MeetInv
<1>8. BarrierInv
  BY <1>2 DEF BarrierInv
<1> QED
  BY <1>1, <1>5, <1>6, <1>7, <1>8 DEF CallsInv

\* A step of the network, or none.
Resting ==
  /\ UNCHANGED <<deployment, next, list, stack, info>>
  /\ \A z \in Requests : /\ req'[z].type = req[z].type /\ req'[z].backup = req[z].backup
                         /\ req'[z].operation_number = req[z].operation_number
                         /\ req'[z].remote = req[z].remote
                         /\ req'[z].puts # <<>> => req[z].puts # <<>>

LEMMA PutRests ==
  ASSUME MpiInv, NEW r \in Requests, PutFlag(r)
  PROVE  Resting
<1>1. Table(req) /\ Shape(req) /\ req[r].puts # <<>>
      /\ UNCHANGED <<deployment, next, list, stack, info>>
  BY Known DEF PutFlag, IInv, Sound
<1>2. PICK q : q = req[r].remote /\ PutOf(req, r, req')
  BY <1>1, PutFields
<1>3. \A z \in Requests : req'[z].remote = req[z].remote
  BY <1>1 DEF PutFlag, Shape
<1>4. \A z \in Requests : SameCalls(req[z], req'[z])
  BY <1>2 DEF PutOf
<1>5. \A z \in Requests : z # r => req'[z].puts = req[z].puts
  BY <1>2 DEF PutOf
<1> QED
  BY <1>1, <1>3, <1>4, <1>5 DEF Resting, SameCalls

LEMMA RestingStep ==
  ASSUME CallsInv, MpiInv', Resting
  PROVE  CallsInv'
<1>1. /\ deployment' = deployment /\ next' = next /\ list' = list /\ stack' = stack /\ info' = info
      /\ \A z \in Requests : /\ req'[z].type = req[z].type /\ req'[z].backup = req[z].backup
                             /\ req'[z].operation_number = req[z].operation_number
                             /\ req'[z].remote = req[z].remote
                             /\ req'[z].puts # <<>> => req[z].puts # <<>>
  BY DEF Resting
<1>2. /\ Requests' = Requests /\ Queues' = Queues
      /\ \A z : SideOf(z)' = SideOf(z) /\ OwnerOf(z)' = OwnerOf(z) /\ Inbox(z)' = Inbox(z)
      /\ \A p : Program(p)' = Program(p)
  BY <1>1, SameApplication
<1>3. /\ \A z, do : Made(z, do)' = Made(z, do)
      /\ \A z : Active(z)' <=> Active(z)
      /\ \A p : /\ InCall(p)' <=> InCall(p)
                /\ Bottom(p)' = Bottom(p) /\ Listed(p)' = Listed(p)
  BY <1>1, MadeSame DEF Active, InCall, Bottom, Listed
<1>4. \A z, places : Within(z, places)' <=> Within(z, places)
  BY <1>1, NextWithin DEF Within, InCall, Bottom
<1>5. BackupInv'
  BY <1>1, <1>2, <1>3, <1>4 DEF CallsInv, BackupInv
<1>6. ListInv'
  BY <1>1, <1>2, <1>3 DEF CallsInv, ListInv
<1>7. MeetInv'
  <2>1. \A z \in Requests : (Unmet(z)' <=> Unmet(z)) /\ (Decided(z)' <=> Decided(z))
    BY <1>1, <1>2, <1>4 DEF Unmet, Decided, Iprobe
  <2>2. \A r \in Requests : Listed(OwnerOf(r)) \subseteq Requests
    BY Known, OwnerTyped DEF CallsInv, TypeInv, Listed, Elements
  <2> SUFFICES ASSUME NEW r \in Requests, NEW q \in Elements(list'[OwnerOf(r)]) \ {r}, Unmet(q)'
               PROVE  /\ ~Decided(r)'
                      /\ Within(r, {"sent", "received"})' =>
                           LET fs == stack'[OwnerOf(r)] IN q \in Elements(fs[Len(fs)].rest)
    BY <1>2 DEF MeetInv, Listed, Bottom
  <2>3. q \in Listed(OwnerOf(r)) \ {r} /\ q \in Requests
    BY <1>1, <2>2 DEF Listed
  <2> QED
    BY <1>1, <1>4, <2>1, <2>3 DEF CallsInv, MeetInv, Bottom
<1>8. FlagAlone'
  BY <1>1, <1>3 DEF CallsInv, FlagAlone, InCall, Bottom, Listed
<1>9. PutsInv'
  BY <1>1, <1>2, <1>3 DEF CallsInv, PutsInv, InCall, Bottom
<1>10. BarrierInv'
  BY <1>1, <1>2 DEF CallsInv, BarrierInv
<1> QED
  BY <1>5, <1>6, <1>7, <1>8, <1>9, <1>10 DEF CallsInv

LEMMA NextCallsInv ==
  ASSUME OneRequestPerSide, UsedInTurn, UsedOnce, CreatedInTime, CallsInv, [Next]_vars
  PROVE  CallsInv'
<1>1. MpiInv /\ MpiInv'
  BY NextMpiInv DEF CallsInv
<1>2. ASSUME NEW p \in Process, Step(p) PROVE CallsInv'
  <2>1. /\ Moves(p) \/ Returns(p)
        /\ Kinds(p)
        /\ Creates(p) \/ Hears
    BY <1>1, <1>2, StepOutcome, AllKinds, StepHears, InitCreates DEF CallsInv, Outcome
  <2>2. BackupInv'
    BY <1>1, <2>1, BackupStep DEF CallsInv
  <2>3. ListInv'
    BY <1>1, <2>1, ListInvStep DEF CallsInv
  <2>4. MeetInv'
    BY <1>1, <2>1, MeetStep DEF CallsInv
  <2>5. FlagAlone'
    BY <1>1, <2>1, FlagStep DEF CallsInv
  <2>6. PutsInv'
    BY <1>1, <2>1, PutsStep DEF CallsInv
  <2>7. BarrierInv'
    BY <1>1, <2>1, BarrierStep DEF CallsInv
  <2> QED
    BY <1>1, <2>2, <2>3, <2>4, <2>5, <2>6, <2>7 DEF CallsInv
<1>3. CASE \E r \in Requests : PutFlag(r)
  BY <1>1, <1>3, PutRests, RestingStep
<1>4. CASE AllEnded \/ UNCHANGED vars
  <2>1. Resting
    BY <1>4 DEF AllEnded, vars, Resting
  <2> QED
    BY <1>1, <2>1, RestingStep
<1> QED
  BY <1>2, <1>3, <1>4 DEF Next

-----------------------------------------------------------------------------
(* The assertions. *)

LEMMA StartAsserts ==
  ASSUME UsedInTurn, CallsInv, NEW p \in Process, Calling(p, "start")
  PROVE  LET r == req[Call(p).on] IN
         CASE r.type = "rdma"     -> r.puts = <<>>
           [] r.type = "search"   -> r.operation_number = 0 /\ r.backup = "null"
           [] r.type = "fallback" -> r.backup = "null"
           [] OTHER               -> TRUE
<1>1. MpiInv /\ PutsInv /\ BackupInv
  BY DEF CallsInv
<1>2. ~Ended(p) /\ Call(p).do = "start" /\ ~InCall(p)
  BY DEF Calling, InCall
<1>3. PICK z \in Requests : z = Call(p).on /\ OwnerOf(z) = p
  BY <1>1, <1>2, Known, CallOwned DEF Collective
<1>4. Made(z, "start") = Made(z, "wait")
  BY <1>1, <1>2, <1>3, Known, InTurn
<1>5. ~Active(z) /\ z \in Settled
  BY <1>2, <1>3, <1>4 DEF Active, Settled, Idle, Starting
<1>6. req[z].type = "rdma" => req[z].puts = <<>>
  BY <1>1, <1>5 DEF PutsInv
<1>7. req[z].type = "search" => req[z].operation_number = 0 /\ req[z].backup = "null"
  BY <1>1, <1>5, RdmaBegun
<1>8. req[z].type = "fallback" => req[z].backup = "null"
  BY <1>1, <1>5 DEF BackupInv
<1> QED
  BY <1>3, <1>6, <1>7, <1>8

LEMMA FrameAsserts ==
  ASSUME CallsInv, NEW p \in Process, NEW i \in DOMAIN stack[p]
  PROVE  LET f == stack[p][i] IN
         /\ f.at \in {"post", "probe", "test", "look", "again", "last", "decide"} =>
              req[f.req].operation_number = 1
         /\ f.at = "post" /\ SideOf(f.req) = "S" => req[f.req].backup = "null"
<1>1. MpiInv /\ BackupInv
  BY DEF CallsInv
<1>2. stack[p] \in Seq(Frames(req, p))
  BY <1>1, Known DEF TypeInv
<1>3. InCall(p) /\ i \in 1 .. Len(stack[p]) /\ Len(stack[p]) \in Nat
  BY <1>2 DEF InCall
<1>4. PICK f : f = stack[p][i]
  OBVIOUS
<1> SUFFICES ASSUME f.at # "block"
             PROVE  /\ f.at \in {"post", "probe", "test", "look", "again", "last", "decide"} =>
                         req[f.req].operation_number = 1
                    /\ f.at = "post" /\ SideOf(f.req) = "S" => req[f.req].backup = "null"
  BY <1>4
<1>5. i = Len(stack[p])
  <2>1. i \notin 1 .. Len(stack[p]) - 1
    BY <1>1, <1>3, <1>4, Known, BaseOf DEF Based
  <2> QED
    BY <1>3, <2>1
<1>6. f = Bottom(p)
  BY <1>4, <1>5 DEF Bottom
<1>7. f.req \in Requests /\ \A places : Within(f.req, places) <=> f.at \in places
  BY <1>1, <1>3, <1>6, Known, BaseOf DEF Within
<1>8. f.at \in FirstPlaces \union {"post"} => req[f.req].operation_number = 1
  BY <1>1, <1>7, PlacesFit
<1>9. f.at = "post" /\ SideOf(f.req) = "S" => req[f.req].backup = "null"
  BY <1>1, <1>7 DEF BackupInv
<1> QED
  BY <1>8, <1>9 DEF FirstPlaces, SendPlaces, RecvPlaces

LEMMA CallsAsserted ==
  ASSUME UsedInTurn, UsedOnce, CallsInv
  PROVE  AssertionsHold
<1>1. ASSUME NEW p \in Process, Calling(p, "free") PROVE req[Call(p).on].puts = <<>>
  <2>1. MpiInv /\ PutsInv /\ ~Ended(p) /\ Call(p).do = "free"
    BY <1>1 DEF CallsInv, Calling
  <2>2. Call(p).on \in Requests /\ ~Active(Call(p).on)
    BY <2>1, Known, CallOwned, OnceUsed DEF Collective, Active
  <2> QED
    BY <2>1, <2>2 DEF PutsInv
<1> QED
  BY <1>1, StartAsserts, FrameAsserts DEF AssertionsHold

\* MPIX_Start finds no transfer and no message of an earlier operation, neither
\* a wait nor a first start is found by progress in an operation but the first,
\* and MPIX_Request_free finds no transfer: the assertions in the library hold,
\* for every application that creates and uses its requests in that order.
THEOREM AssertionsHoldHolds ==
  OneRequestPerSide /\ UsedInTurn /\ UsedOnce /\ CreatedInTime => (Spec => []AssertionsHold)
<1> SUFFICES ASSUME OneRequestPerSide, UsedInTurn, UsedOnce, CreatedInTime
             PROVE  Spec => []AssertionsHold
  OBVIOUS
<1>1. Init => CallsInv
  BY InitCallsInv
<1>2. CallsInv /\ [Next]_vars => CallsInv'
  BY NextCallsInv
<1>3. CallsInv => AssertionsHold
  BY CallsAsserted
<1> QED
  BY <1>1, <1>2, <1>3, PTL DEF Spec

-----------------------------------------------------------------------------
(* The handshake messages. *)

Unheld(r) == \A q \in Requests : req[q].remote # r

\* The addresses of a request are with MPI or with its peer from its creation on.
InfoInv ==
  \A r \in Requests :
    /\ Len(info[Outbox(r)]) <= 1
    /\ req[r].type \in {"new", "plain"} <=> info[Outbox(r)] = <<>> /\ Unheld(r)
    /\ info[Outbox(r)] = <<>> \/ Unheld(r)
    /\ deployment.requests[r].persistent => req[r].type # "plain"
    /\ req[r].type \in {"new", "plain"} => req[r].remote = Null

\* One request sends to each outbox, and it is the inbox of its peer.
LEMMA OwnOutbox ==
  ASSUME OneRequestPerSide, IInv, NEW r \in Requests, NEW q \in Requests
  PROVE  /\ Outbox(r) = Outbox(q) => r = q
         /\ ChannelOf(q) = ChannelOf(r) /\ SideOf(q) # SideOf(r) => Outbox(q) = Inbox(r)
<1>1. /\ SideOf(r) \in Side /\ SideOf(q) \in Side
      /\ ChannelOf(r) \in Channel /\ ChannelOf(q) \in Channel
  BY RequestsTyped
<1>2. ASSUME Outbox(r) = Outbox(q) PROVE r = q
  <2>1. ChannelOf(r) = ChannelOf(q) /\ SideOf(r) = SideOf(q)
    BY <1>1, <1>2, QueueOfOne DEF Outbox
  <2> QED
    BY <2>1 DEF OneRequestPerSide, IInv, Requests, ChannelOf, SideOf
<1>3. ASSUME ChannelOf(q) = ChannelOf(r), SideOf(q) # SideOf(r) PROVE Outbox(q) = Inbox(r)
  BY <1>1, <1>3 DEF Outbox, Inbox, Side, PeerSide
<1> QED
  BY <1>2, <1>3

\* Only the creation of a request changes whether it takes part in handshakes.
LEMMA TypeKept ==
  ASSUME MpiInv, NEW p \in Process, Kinds(p), ~Creates(p), NEW z \in Requests
  PROVE  /\ req'[z].type \in {"new", "plain"} <=> req[z].type \in {"new", "plain"}
         /\ req'[z].type = "plain" <=> req[z].type = "plain"
<1> SUFFICES ASSUME req'[z].type # req[z].type
             PROVE  req[z].type \notin {"new", "plain"} /\ req'[z].type \notin {"new", "plain"}
  OBVIOUS
<1>1. /\ z = Call(p).on /\ InCall(p) /\ Bottom(p).at \in {"sent", "test", "decide"}
      /\ req'[z].type \in {"rdma", "fallback"}
  BY TypeStep
<1>2. PICK at : at = Bottom(p).at
  OBVIOUS
<1>3. Fits(req, z, at)
  BY <1>1, <1>2, Known, BaseOf
<1> QED
  BY <1>1, <1>2, <1>3 DEF Fits, SendPlaces, RecvPlaces

\* The addresses of its peer are in the inbox of a request.
LEMMA TakesPeer ==
  ASSUME IInv, NEW z \in Requests, Iprobe(z)
  PROVE  LET y == Head(info[Inbox(z)]) IN
         y \in Requests /\ Outbox(y) = Inbox(z) /\ info[Inbox(z)] \in Seq(Requests)
<1>1. PICK s : s = info[Inbox(z)]
  OBVIOUS
<1>2. s \in Seq(Requests) /\ s # <<>> /\ \A i \in 1 .. Len(s) : Outbox(s[i]) = Inbox(z)
  BY <1>1 DEF IInv, Sound, InfoSound, Iprobe
<1>3. 1 \in 1 .. Len(s) /\ Head(s) = s[1] /\ Head(s) \in Requests
  BY <1>2
<1> QED
  BY <1>1, <1>2, <1>3

LEMMA InfoCreates ==
  ASSUME OneRequestPerSide, UsedOnce, MpiInv, ListInv, InfoInv, NEW p \in Process, Creates(p),
         deployment' = deployment
  PROVE  InfoInv'
<1>1. PICK c \in Requests : c = Call(p).on
  BY DEF Creates
<1>2. /\ Created(req'[c]) /\ req'[c].remote = Null
      /\ \A z \in Requests \ {c} : req'[z] = req[z]
      /\ info' = [info EXCEPT ![Outbox(c)] = Append(@, c)]
  BY <1>1 DEF Creates
<1>3. IInv /\ InfoSound(info) /\ Null \notin Requests
  BY Known, NullAssumption DEF IInv, Sound, Requests
<1>4. req[c].type \in {"new", "plain"}
  BY <1>1, CreatedNew DEF ListInv
<1>5. info[Outbox(c)] = <<>> /\ Unheld(c) /\ req[c].remote = Null
  BY <1>4 DEF InfoInv
<1>6. \A z \in Requests : req'[z].remote = req[z].remote
  BY <1>2, <1>5
<1>7. Outbox(c) \in Queues /\ info'[Outbox(c)] = <<c>>
  BY <1>2, <1>3, <1>5, OutboxQueue DEF InfoSound
<1>8. \A r \in Requests \ {c} : Outbox(r) \in Queues /\ info'[Outbox(r)] = info[Outbox(r)]
  BY <1>2, <1>3, OutboxQueue, OwnOutbox DEF InfoSound
<1>9. Len(<<c>>) <= 1 /\ <<c>> # <<>> /\ req'[c].type = "search"
  BY <1>2 DEF Created
<1>10. Requests' = Requests /\ \A r : Outbox(r)' = Outbox(r)
  BY SameApplication
<1> SUFFICES ASSUME NEW r \in Requests
             PROVE  /\ Len(info'[Outbox(r)]) <= 1
                    /\ req'[r].type \in {"new", "plain"} <=> info'[Outbox(r)] = <<>> /\ Unheld(r)
                    /\ info'[Outbox(r)] = <<>> \/ Unheld(r)
                    /\ deployment.requests[r].persistent => req'[r].type # "plain"
                    /\ req'[r].type \in {"new", "plain"} => req'[r].remote = Null
  BY <1>6, <1>10 DEF InfoInv, Unheld
<1> QED
  BY <1>2, <1>5, <1>7, <1>8, <1>9 DEF InfoInv

LEMMA InfoHears ==
  ASSUME OneRequestPerSide, MpiInv, InfoInv, NEW p \in Process, Kinds(p), ~Creates(p), Hears,
         deployment' = deployment
  PROVE  InfoInv'
<1>1. IInv /\ InfoSound(info) /\ Null \notin Requests
  BY Known, NullAssumption DEF IInv, Sound, Requests
<1>2. Requests' = Requests /\ \A r : Outbox(r)' = Outbox(r)
  BY SameApplication
<1>3. \A r \in Requests : /\ req'[r].type \in {"new", "plain"} <=> req[r].type \in {"new", "plain"}
                          /\ req'[r].type = "plain" <=> req[r].type = "plain"
  BY TypeKept
<1> SUFFICES ASSUME NEW r \in Requests
             PROVE  LET unheld == \A q \in Requests : req'[q].remote # r IN
                    /\ Len(info'[Outbox(r)]) <= 1
                    /\ req[r].type \in {"new", "plain"} <=> info'[Outbox(r)] = <<>> /\ unheld
                    /\ info'[Outbox(r)] = <<>> \/ unheld
                    /\ deployment.requests[r].persistent => req[r].type # "plain"
                    /\ req[r].type \in {"new", "plain"} => req'[r].remote = Null
  BY <1>2, <1>3 DEF InfoInv, Unheld
<1>4. /\ Len(info[Outbox(r)]) <= 1
      /\ req[r].type \in {"new", "plain"} <=> info[Outbox(r)] = <<>> /\ Unheld(r)
      /\ info[Outbox(r)] = <<>> \/ Unheld(r)
      /\ deployment.requests[r].persistent => req[r].type # "plain"
      /\ req[r].type \in {"new", "plain"} => req[r].remote = Null
  BY DEF InfoInv
<1>5. CASE Silent
  BY <1>4, <1>5 DEF Silent, Unheld
<1>6. ASSUME NEW z \in Requests, Learns(z)
      PROVE  LET unheld == \A q \in Requests : req'[q].remote # r IN
             /\ Len(info'[Outbox(r)]) <= 1
             /\ req[r].type \in {"new", "plain"} <=> info'[Outbox(r)] = <<>> /\ unheld
             /\ info'[Outbox(r)] = <<>> \/ unheld
             /\ deployment.requests[r].persistent => req[r].type # "plain"
             /\ req[r].type \in {"new", "plain"} => req'[r].remote = Null
  <2>1. PICK y : y = Head(info[Inbox(z)])
    OBVIOUS
  <2>2. /\ req[z].type = "search" /\ req[z].remote = Null /\ Iprobe(z) /\ req'[z].remote = y
        /\ info' = [info EXCEPT ![Inbox(z)] = Tail(@)]
        /\ \A x \in Requests \ {z} : req'[x].remote = req[x].remote
    BY <1>6, <2>1 DEF Learns
  <2>3. y \in Requests /\ Outbox(y) = Inbox(z) /\ info[Inbox(z)] \in Seq(Requests)
        /\ info[Inbox(z)] # <<>> /\ Inbox(z) \in Queues
    BY <1>1, <2>1, <2>2, TakesPeer DEF Iprobe
  <2>4. CASE r = y
    <3>1. Len(info[Outbox(y)]) = 1
      <4>1. Len(info[Outbox(y)]) # 0 /\ Len(info[Outbox(y)]) \in Nat
        BY <2>3, EmptySeq
      <4>2. Len(info[Outbox(y)]) <= 1
        BY <1>4, <2>4
      <4>3. PICK n : n = Len(info[Outbox(y)])
        OBVIOUS
      <4>4. n \in Nat /\ n # 0 /\ n <= 1
        BY <4>1, <4>2, <4>3
      <4>5. n = 1
        BY <4>4
      <4> QED
        BY <4>3, <4>5
    <3>2. info'[Outbox(y)] = <<>>
      <4>1. Tail(info[Outbox(y)]) \in Seq(Requests) /\ Len(Tail(info[Outbox(y)])) = 0
        BY <2>3, <3>1, HeadTailProperties
      <4>2. info'[Outbox(y)] = Tail(info[Outbox(y)])
        BY <1>1, <2>2, <2>3 DEF InfoSound
      <4> QED
        BY <4>1, <4>2, EmptySeq
    <3>3. req[y].type \notin {"new", "plain"}
      BY <1>4, <2>3, <2>4
    <3>4. Len(<<>>) <= 1
      OBVIOUS
    <3> QED
      BY <1>4, <2>2, <2>4, <3>2, <3>3, <3>4
  <2>5. CASE r # y
    <3>1. Outbox(r) # Outbox(y)
      BY <1>1, <2>3, <2>5, OwnOutbox
    <3>2. info'[Outbox(r)] = info[Outbox(r)]
      BY <1>1, <2>2, <2>3, <3>1, OutboxQueue DEF InfoSound
    <3>3. (\A q \in Requests : req'[q].remote # r) <=> Unheld(r)
      BY <1>1, <2>2, <2>5 DEF Unheld
    <3>4. req[r].type \in {"new", "plain"} => req'[r].remote = Null
      BY <1>4, <2>2
    <3> QED
      BY <1>4, <3>2, <3>3, <3>4
  <2> QED
    BY <2>4, <2>5
<1> QED
  BY <1>5, <1>6 DEF Hears

-----------------------------------------------------------------------------
(* A request that is past its first look for the peer has taken what there  *)
(* was to be taken.                                                         *)

\* So the search of the first start or of the list has taken the addresses, or
\* there is no peer to send them: such a request is the one that falls back.
MetInv ==
  \A r \in Requests :
    /\ req[r].type # "plain" /\ req[r].operation_number >= 1 => ~Iprobe(r)
    /\ req[r].type = "fallback" \/ (Within(r, {"sent"}) /\ req[r].type = "search") =>
         req[r].remote = Null

LEMMA MetCreates ==
  ASSUME MpiInv, MpiInv', BarrierInv, MetInv, CreatedFirst(deployment),
         NEW p \in Process, Creates(p), deployment' = deployment
  PROVE  MetInv'
<1>1. Requests' = Requests
  BY SameApplication
<1>2. ~Ended(p) /\ Call(p).do = "init" /\ Advances(p) /\ Returns(p)
  BY DEF Creates, Returns, Advances
<1> SUFFICES ASSUME NEW r \in Requests
             PROVE  /\ req'[r].operation_number = 0
                    /\ req'[r].type = "fallback" \/ (Within(r, {"sent"})' /\ req'[r].type = "search") =>
                         req'[r].remote = Null
  BY <1>1 DEF MetInv
<1>3. req[r].operation_number = 0
  BY <1>2, NotBegun
<1>4. CASE r = Call(p).on
  BY <1>4 DEF Creates, Created
<1>5. CASE r # Call(p).on
  <2>1. req'[r] = req[r]
    BY <1>5 DEF Creates
  <2>2. Within(r, {"sent"})' => Within(r, {"sent"})
    BY <1>2, WithinStep, CreatedAlone
  <2> QED
    BY <1>3, <2>1, <2>2 DEF MetInv
<1> QED
  BY <1>4, <1>5

\* A request begins its first operation with a look for the peer.
LEMMA FirstBegun ==
  ASSUME MpiInv, MpiInv', BackupInv, NEW p \in Process, Moves(p) \/ Returns(p), Kinds(p), ~Creates(p),
         NEW r \in Requests, req[r].operation_number = 0, req'[r].operation_number >= 1
  PROVE  req'[r].type = "plain" \/ (req'[r].type = "search" /\ ~Unmet(r)')
<1>1. deployment' = deployment
  BY DEF Moves, Returns, Advances
<1>2. Made(r, "start") = 0 /\ r \notin Starting
  BY Counts
<1>3. /\ Made(r, "start")' \in Nat
      /\ req'[r].operation_number = Made(r, "start")' + IF r \in Starting' THEN 1 ELSE 0
  <2>1. Requests' = Requests
    BY <1>1, SameApplication
  <2>2. Made(r, "start")' \in Nat
    BY MadeGrows DEF Calls, Collective
  <2> QED
    BY <2>1, <2>2 DEF MpiInv, CountInv
<1>4. CASE Moves(p)
  <2>1. Made(r, "start")' = 0
    BY <1>2, <1>4, MadeSame DEF Moves
  <2>2. r \in Starting'
    BY <1>3, <2>1
  <2>3. Within(r, {"post"})'
    BY <1>1, <2>2, NextStatus, NextWithin
  <2>4. ~Within(r, {"post"})
    BY <1>2 DEF Within, Starting
  <2>5. OwnerOf(r) = p /\ r = Call(p).on /\ Bottom(p)'.at = "post"
    BY <1>4, <2>3, <2>4, WithinStep
  <2>6. Goes(p)
    <3>1. ~Nests(p)
      <4> SUFFICES ASSUME Nests(p) PROVE FALSE
        OBVIOUS
      <4>1. InCall(p) /\ Bottom(p).at = "post"
        BY <2>5 DEF Nests
      <4> QED
        BY <2>4, <2>5, <4>1, Known, BaseOf DEF Within
    <3>2. ~Returns(p)
      BY <1>4, NotBoth
    <3> QED
      BY <3>1, <3>2 DEF Kinds, Quiet, Starts, WaitEnds
  <2>7. ~Unmet(r)'
    BY <2>5, <2>6 DEF Goes
  <2>8. Fits(req', r, "post")
    BY <1>4, <2>5, MovesInto
  <2> QED
    BY <2>7, <2>8 DEF Fits, SendPlaces, RecvPlaces
<1>5. CASE Returns(p)
  <2>1. r \notin Starting'
    <3> SUFFICES ASSUME r \in Starting' PROVE FALSE
      OBVIOUS
    <3>1. Within(r, {"post"})'
      BY <1>1, NextStatus, NextWithin
    <3>2. Within(r, {"post"})
      BY <1>5, <3>1, WithinStep, NotBoth
    <3> QED
      BY <1>2, <3>2 DEF Within, Starting
  <2>2. Made(r, "start")' >= 1
    BY <1>3, <2>1
  <2>3. Call(p).do = "start" /\ r = Call(p).on
    BY <1>2, <1>5, <2>2, Known, MadeStep DEF Returns, Calls, Collective
  <2>4. Starts(p)
    BY <1>5, <2>3, NotBoth DEF Kinds, Quiet, WaitEnds, Goes, Nests
  <2>5. req'[r].type = req[r].type /\ (req[r].type \in {"rdma", "fallback", "plain"} \/ InCall(p))
    BY <2>3, <2>4 DEF Starts, Ordinary
  <2>6. ~InCall(p)
    <3> SUFFICES ASSUME InCall(p) PROVE FALSE
      OBVIOUS
    <3>1. Bottom(p).at = "post" /\ Bottom(p).req = r /\ OwnerOf(r) = p
      BY <2>3, Known, BaseOf
    <3> QED
      BY <1>2, <3>1 DEF Starting
  <2>7. req[r].type # "rdma" /\ req[r].type # "fallback"
    BY RdmaBegun DEF BackupInv
  <2> QED
    BY <2>5, <2>6, <2>7
<1> QED
  BY <1>4, <1>5

\* A request that has met its peer holds the addresses that were there.
LEMMA MetEmpty ==
  ASSUME OneRequestPerSide, IInv, InfoInv, NEW r \in Requests, req[r].type = "search", ~Unmet(r)
  PROVE  ~Iprobe(r)
<1> SUFFICES ASSUME req[r].remote # Null, Iprobe(r) PROVE FALSE
  BY DEF Unmet
<1>1. PICK y : y = req[r].remote
  OBVIOUS
<1>2. y \in Requests /\ ChannelOf(y) = ChannelOf(r) /\ SideOf(y) # SideOf(r)
  BY <1>1 DEF IInv, Sound, Paired
<1>3. Outbox(y) = Inbox(r)
  BY <1>2, OwnOutbox
<1>4. ~Unheld(y)
  BY <1>1 DEF Unheld
<1>5. info[Outbox(y)] = <<>>
  BY <1>2, <1>4 DEF InfoInv
<1> QED
  BY <1>3, <1>5 DEF Iprobe

LEMMA MetHears ==
  ASSUME OneRequestPerSide, UsedInTurn, MpiInv, MpiInv', BackupInv, InfoInv, InfoInv', MetInv,
         NEW p \in Process, Moves(p) \/ Returns(p), Kinds(p), ~Creates(p), Hears
  PROVE  MetInv'
<1>1. deployment' = deployment
  BY DEF Moves, Returns, Advances
<1>2. Requests' = Requests /\ Queues' = Queues /\ \A r : Inbox(r)' = Inbox(r)
  BY <1>1, SameApplication
<1>3. InfoSound(info)
  BY Known DEF IInv, Sound
<1> SUFFICES ASSUME NEW r \in Requests
             PROVE  /\ req'[r].type # "plain" /\ req'[r].operation_number >= 1 => ~Iprobe(r)'
                    /\ req'[r].type = "fallback" \/ (Within(r, {"sent"})' /\ req'[r].type = "search") =>
                         req'[r].remote = Null
  BY <1>2 DEF MetInv
<1>4. Iprobe(r)' => Iprobe(r)
  <2> SUFFICES ASSUME Inbox(r) \in Queues, info'[Inbox(r)] # <<>> PROVE info[Inbox(r)] # <<>>
    BY <1>2 DEF Iprobe
  <2>1. CASE Silent
    BY <2>1 DEF Silent
  <2>2. ASSUME NEW z \in Requests, Learns(z) PROVE info[Inbox(r)] # <<>>
    BY <1>3, <2>2 DEF Learns, Iprobe, InfoSound
  <2> QED
    BY <2>1, <2>2 DEF Hears
<1>5. req[r].operation_number \in Nat
  BY Known, FieldsTyped
<1>6. req'[r].type = "plain" <=> req[r].type = "plain"
  BY TypeKept
<1>7. req'[r].type # "plain" /\ req'[r].operation_number >= 1 => ~Iprobe(r)'
  <2>1. CASE req[r].operation_number >= 1
    BY <1>4, <1>6, <2>1 DEF MetInv
  <2>2. ASSUME req[r].operation_number = 0, req'[r].operation_number >= 1, req'[r].type # "plain"
        PROVE  ~Iprobe(r)'
    <3>1. req'[r].type = "search" /\ ~Unmet(r)'
      BY <2>2, FirstBegun
    <3>2. OneRequestPerSide' /\ IInv'
      BY DEF OneRequestPerSide, MpiInv, TypeInv
    <3>3. (OneRequestPerSide /\ IInv /\ InfoInv /\ r \in Requests /\ req[r].type = "search" /\ ~Unmet(r)
             => ~Iprobe(r))'
      BY MetEmpty, PTL
    <3> QED
      BY <1>2, <3>1, <3>2, <3>3
  <2> QED
    BY <1>5, <2>1, <2>2
\* Who has begun takes no more addresses.
<1>8. req[r].type # "plain" /\ req[r].operation_number >= 1 => req'[r].remote = req[r].remote
  <2> SUFFICES ASSUME ~Iprobe(r) PROVE req'[r].remote = req[r].remote
    BY DEF MetInv
  <2> QED
    BY DEF Hears, Silent, Learns
<1>9. ASSUME req'[r].type = "fallback" PROVE req'[r].remote = Null
  <2>1. CASE req[r].type = "fallback"
    BY <1>8, <2>1 DEF BackupInv, MetInv
  <2>2. CASE req[r].type # "fallback"
    <3>1. /\ r = Call(p).on /\ InCall(p) /\ OwnerOf(r) = p
          /\ Bottom(p).at \in {"sent", "test", "decide"}
      BY <1>9, <2>2, TypeStep
    <3>2. CASE Goes(p)
      BY <1>9, <2>2, <3>1, <3>2 DEF Goes
    <3>3. CASE WaitEnds(p)
      <4>1. Bottom(p).at = "sent" /\ req[r].type # "rdma"
        BY <1>9, <2>2, <3>1, <3>3 DEF WaitEnds
      <4>2. Fits(req, r, "sent") /\ Bottom(p).req = r
        BY <3>1, <4>1, Known, BaseOf
      <4>3. req[r].type = "search" /\ req[r].operation_number = 1
        BY <4>1, <4>2 DEF Fits, SendPlaces
      <4>4. Within(r, {"sent"})
        BY <3>1, <4>1, <4>2 DEF Within
      <4> QED
        BY <1>8, <4>3, <4>4 DEF MetInv
    <3>4. Goes(p) \/ WaitEnds(p)
      BY <1>9, <2>2, <3>1 DEF Kinds, Quiet, Starts, Nests, Spared
    <3> QED
      BY <3>2, <3>3, <3>4
  <2> QED
    BY <2>1, <2>2
<1>10. ASSUME Within(r, {"sent"})', req'[r].type = "search" PROVE req'[r].remote = Null
  <2>1. req[r].type = "search"
    BY <1>10, TypeStep
  <2>2. CASE Within(r, {"sent"})
    <3>1. req[r].operation_number = 1
      BY <2>2, PlacesFit DEF Within, FirstPlaces, SendPlaces
    <3> QED
      BY <1>8, <2>1, <2>2, <3>1 DEF MetInv
  <2>3. CASE ~Within(r, {"sent"})
    <3>1. OwnerOf(r) = p /\ Moves(p) /\ r = Call(p).on /\ Bottom(p)'.at = "sent"
      BY <1>10, <2>3, WithinStep
    <3>2. ~Nests(p)
      <4> SUFFICES ASSUME Nests(p) PROVE FALSE
        OBVIOUS
      <4>1. InCall(p) /\ Bottom(p).at = "sent"
        BY <3>1 DEF Nests
      <4> QED
        BY <2>3, <3>1, <4>1, Known, BaseOf DEF Within
    <3>3. Goes(p)
      BY <3>1, <3>2, NotBoth DEF Kinds, Quiet, Starts, WaitEnds
    <3> QED
      BY <1>10, <3>1, <3>3 DEF Goes
  <2> QED
    BY <2>2, <2>3
<1> QED
  BY <1>7, <1>9, <1>10

-----------------------------------------------------------------------------
(* The invariant of the handshake. *)

ShakeInv == CallsInv /\ InfoInv /\ MetInv

LEMMA InitShakeInv == OneRequestPerSide /\ Init => ShakeInv
<1> SUFFICES ASSUME OneRequestPerSide, Init PROVE ShakeInv
  OBVIOUS
<1>1. CallsInv /\ IInv
  BY InitCallsInv, Known DEF CallsInv
<1>2. \A r \in Requests : info[Outbox(r)] = <<>>
  BY <1>1, OutboxQueue DEF Init
<1>3. \A r \in Requests : /\ req[r].type = IF deployment.requests[r].persistent THEN "new" ELSE "plain"
                          /\ req[r].remote = Null /\ req[r].operation_number = 0
  BY DEF Init, Cleared
<1>4. \A r \in Requests : Unheld(r)
  BY <1>3, NullAssumption, Known DEF CallsInv, Unheld, Requests, Init
<1>5. Len(<<>>) <= 1
  OBVIOUS
<1>6. InfoInv
  BY <1>2, <1>3, <1>4, <1>5 DEF InfoInv
<1>7. MetInv
  BY <1>3 DEF MetInv
<1> QED
  BY <1>1, <1>6, <1>7 DEF ShakeInv

LEMMA RestingShake ==
  ASSUME ShakeInv, CallsInv', Resting
  PROVE  ShakeInv'
<1>1. /\ deployment' = deployment /\ stack' = stack /\ info' = info
      /\ \A z \in Requests : /\ req'[z].type = req[z].type
                             /\ req'[z].operation_number = req[z].operation_number
                             /\ req'[z].remote = req[z].remote
  BY DEF Resting
<1>2. /\ Requests' = Requests /\ Queues' = Queues
      /\ \A z : Inbox(z)' = Inbox(z) /\ Outbox(z)' = Outbox(z)
  BY <1>1, SameApplication
<1>3. \A z, places : Within(z, places)' <=> Within(z, places)
  BY <1>1, NextWithin DEF Within, InCall, Bottom
<1>4. InfoInv'
  BY <1>1, <1>2 DEF ShakeInv, InfoInv, Unheld
<1>5. MetInv'
  BY <1>1, <1>2, <1>3 DEF ShakeInv, MetInv, Iprobe
<1> QED
  BY <1>4, <1>5 DEF ShakeInv

LEMMA NextShakeInv ==
  ASSUME OneRequestPerSide, UsedInTurn, UsedOnce, \A d \in Deployments : CreatedFirst(d),
         ShakeInv, [Next]_vars
  PROVE  ShakeInv'
<1>1. CallsInv /\ InfoInv /\ MetInv /\ CallsInv'
  BY NextCallsInv DEF ShakeInv, CreatedInTime
<1>2. MpiInv /\ MpiInv' /\ CreatedFirst(deployment)
  BY <1>1, Known DEF CallsInv, IInv
<1>3. ASSUME NEW p \in Process, Step(p) PROVE ShakeInv'
  <2>1. /\ Moves(p) \/ Returns(p)
        /\ Kinds(p)
        /\ Creates(p) \/ Hears
    BY <1>1, <1>2, <1>3, StepOutcome, AllKinds, StepHears, InitCreates DEF CallsInv, Outcome
  <2>2. deployment' = deployment
    BY <2>1 DEF Moves, Returns, Advances
  <2>3. InfoInv'
    BY <1>1, <1>2, <2>1, <2>2, InfoCreates, InfoHears DEF CallsInv
  <2>4. MetInv'
    BY <1>1, <1>2, <2>1, <2>2, <2>3, MetCreates, MetHears DEF CallsInv
  <2> QED
    BY <1>1, <2>3, <2>4 DEF ShakeInv
<1>4. CASE \E r \in Requests : PutFlag(r)
  BY <1>1, <1>2, <1>4, PutRests, RestingShake
<1>5. CASE AllEnded \/ UNCHANGED vars
  <2>1. Resting
    BY <1>5 DEF AllEnded, vars, Resting
  <2> QED
    BY <1>1, <2>1, RestingShake
<1> QED
  BY <1>3, <1>4, <1>5 DEF Next

-----------------------------------------------------------------------------
(* All handshakes are complete. *)

\* Every request that is created is started as well.
EachStarted ==
  \A d \in Deployments : \A r \in DOMAIN d.requests :
    LET calls == d.program[Owner(d.requests[r].channel, d.requests[r].side)] IN
    d.requests[r].persistent =>
      \E i \in 1 .. Len(calls) : calls[i].do = "start" /\ calls[i].on = r

LEMMA StartedAtEnd ==
  ASSUME EachStarted, MpiInv, NEW r \in Requests, deployment.requests[r].persistent, Ended(OwnerOf(r))
  PROVE  req[r].operation_number >= 1
<1>1. IInv /\ deployment \in Deployments /\ r \in DOMAIN deployment.requests
  BY Known DEF IInv, Requests
<1>2. OwnerOf(r) \in Process
  BY <1>1, OwnerTyped
<1>3. PICK n \in Nat \ {0} : n = next[OwnerOf(r)]
  BY <1>1, <1>2 DEF IInv
<1>4. PICK m \in Nat : m = Len(Program(OwnerOf(r))) /\ m < n
  BY <1>1, <1>2, <1>3, ProgramsAssumption DEF Program, Ended
<1>5. PICK i \in 1 .. m : Program(OwnerOf(r))[i].do = "start" /\ Program(OwnerOf(r))[i].on = r
  BY <1>1, <1>4 DEF EachStarted, Program, OwnerOf, ChannelOf, SideOf
<1>6. PICK T : T = {j \in 1 .. n - 1 : /\ Program(OwnerOf(r))[j].do = "start"
                                       /\ Program(OwnerOf(r))[j].on = r}
  OBVIOUS
<1>7. i \in T
  BY <1>4, <1>5, <1>6
<1>8. IsFiniteSet(T)
  <2>1. T \in SUBSET (1 .. n - 1)
    BY <1>6
  <2>2. IsFiniteSet(1 .. n - 1)
    BY FS_Interval
  <2> QED
    BY <2>1, <2>2, FS_Subset
<1>9. Cardinality(T) \in Nat /\ Cardinality(T) # 0
  BY <1>7, <1>8, FS_CardinalityType, FS_EmptySet
<1>10. Made(r, "start") = Cardinality(T)
  BY <1>3, <1>6 DEF Made, Times, Program, OwnerOf, ChannelOf, SideOf
<1> QED
  BY <1>9, <1>10, Counts

LEMMA ShakenAtEnd ==
  ASSUME OneRequestPerSide, EachStarted, ShakeInv
  PROVE  HandshakesSettled
<1>1. MpiInv /\ InfoInv /\ MetInv
  BY DEF ShakeInv, CallsInv
<1>2. IInv /\ InfoSound(info)
  BY <1>1, Known DEF IInv, Sound
<1> SUFFICES ASSUME \A p \in Process : Ended(p),
                    NEW q \in Queues, NEW i \in DOMAIN info[q], NEW r \in Requests,
                    ChannelOf(r) = ChannelOf(info[q][i]), SideOf(r) # SideOf(info[q][i]),
                    deployment.requests[r].persistent
             PROVE  FALSE
  BY DEF HandshakesSettled
<1>3. PICK y : y = info[q][i]
  OBVIOUS
<1>4. y \in Requests /\ Outbox(y) = q /\ info[q] # <<>>
  <2>1. info[q] \in Seq(Requests) /\ DOMAIN info[q] = 1 .. Len(info[q])
    BY <1>2 DEF InfoSound
  <2>2. \A j \in 1 .. Len(info[q]) : Outbox(info[q][j]) = q
    BY <1>2 DEF InfoSound
  <2>3. info[q] # <<>>
    BY <2>1
  <2> QED
    BY <1>3, <2>1, <2>2, <2>3
<1>5. Inbox(r) = q
  BY <1>2, <1>3, <1>4, OwnOutbox
<1>6. Iprobe(r)
  BY <1>4, <1>5 DEF Iprobe
<1>7. req[r].operation_number >= 1
  BY <1>1, <1>2, OwnerTyped, StartedAtEnd
<1>8. req[r].type # "plain"
  BY <1>1 DEF InfoInv
<1> QED
  BY <1>1, <1>6, <1>7, <1>8 DEF MetInv

\* When all processes have ended, the addresses that have not been received are
\* those of requests whose other side uses MPI itself: MPIOPT_FINALIZE leaves no
\* handshake half-way, if every request that is created is started once.
THEOREM HandshakesSettledHolds ==
  /\ OneRequestPerSide /\ UsedInTurn /\ UsedOnce
  /\ \A d \in Deployments : CreatedFirst(d)
  /\ EachStarted
  => (Spec => []HandshakesSettled)
<1> SUFFICES ASSUME OneRequestPerSide, UsedInTurn, UsedOnce,
                    \A d \in Deployments : CreatedFirst(d), EachStarted
             PROVE  Spec => []HandshakesSettled
  OBVIOUS
<1>1. Init => ShakeInv
  BY InitShakeInv
<1>2. ShakeInv /\ [Next]_vars => ShakeInv'
  BY NextShakeInv
<1>3. ShakeInv => HandshakesSettled
  BY ShakenAtEnd
<1> QED
  BY <1>1, <1>2, <1>3, PTL DEF Spec

-----------------------------------------------------------------------------
(* Requests that fall back have no peer. *)

\* A request goes back to MPI only if its other side is not yet, or never,
\* created as a persistent one: no pair that could use RDMA falls back.
Connects ==
  \A r \in Requests : req[r].type = "fallback" =>
    \A q \in Requests : ChannelOf(q) = ChannelOf(r) /\ SideOf(q) # SideOf(r) =>
      req[q].type \in {"new", "plain"}

LEMMA ShakenConnects ==
  ASSUME OneRequestPerSide, ShakeInv
  PROVE  Connects
<1>1. MpiInv /\ BackupInv /\ InfoInv /\ MetInv
  BY DEF ShakeInv, CallsInv
<1>2. IInv /\ Paired(req)
  BY <1>1, Known DEF IInv, Sound
<1> SUFFICES ASSUME NEW r \in Requests, req[r].type = "fallback",
                    NEW q \in Requests, ChannelOf(q) = ChannelOf(r), SideOf(q) # SideOf(r)
             PROVE  req[q].type \in {"new", "plain"}
  BY DEF Connects
<1>3. req[r].remote = Null /\ req[r].operation_number >= 1 /\ ~Iprobe(r)
  BY <1>1 DEF BackupInv, MetInv
<1>4. Outbox(q) = Inbox(r) /\ Outbox(q) \in Queues
  BY <1>2, OwnOutbox, OutboxQueue
<1>5. info[Outbox(q)] = <<>>
  BY <1>3, <1>4 DEF Iprobe
<1>6. Unheld(q)
  <2> SUFFICES ASSUME NEW z \in Requests, req[z].remote = q PROVE FALSE
    BY DEF Unheld
  <2>1. ChannelOf(z) = ChannelOf(q) /\ SideOf(z) # SideOf(q)
    BY <1>2, NullAssumption DEF Paired, Requests, IInv
  <2>2. SideOf(z) = SideOf(r)
    BY <1>2, <2>1, RequestsTyped DEF Side
  <2>3. z = r
    BY <1>2, <2>1, <2>2 DEF OneRequestPerSide, IInv, Requests, ChannelOf, SideOf
  <2>4. Null \notin Requests
    BY <1>2, NullAssumption DEF IInv, Requests
  <2> QED
    BY <1>3, <2>3, <2>4
<1> QED
  BY <1>1, <1>5, <1>6 DEF InfoInv

\* wait_send_when_searching_for_connection and its counterpart of a receive give
\* up on requests without a peer alone: if all requests are created before a
\* barrier and started behind it, two that could use RDMA get connected, however
\* their calls nest. As everywhere in RdvProcess, addresses that have been sent
\* are seen by MPI_Iprobe; RdvHandshake is about those that take their time.
THEOREM ConnectsHolds ==
  /\ OneRequestPerSide /\ UsedInTurn /\ UsedOnce
  /\ \A d \in Deployments : CreatedFirst(d)
  => (Spec => []Connects)
<1> SUFFICES ASSUME OneRequestPerSide, UsedInTurn, UsedOnce,
                    \A d \in Deployments : CreatedFirst(d)
             PROVE  Spec => []Connects
  OBVIOUS
<1>1. Init => ShakeInv
  BY InitShakeInv
<1>2. ShakeInv /\ [Next]_vars => ShakeInv'
  BY NextShakeInv
<1>3. ShakeInv => Connects
  BY ShakenConnects
<1> QED
  BY <1>1, <1>2, <1>3, PTL DEF Spec
=============================================================================
