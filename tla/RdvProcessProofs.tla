-------------------------- MODULE RdvProcessProofs ---------------------------
(***************************************************************************)
(* What RdvProcess promises of every application, with any number of       *)
(* processes, requests and calls, also of those that do not end.           *)
(***************************************************************************)
EXTENDS RdvProcess, SequenceTheorems, FiniteSetTheorems, WellFoundedInduction, TLAPS

\* The application has one request for each side of a channel: none is freed and
\* created again.
OneRequestPerSide ==
  \A d \in Deployments : \A r, q \in DOMAIN d.requests :
    /\ d.requests[r].channel = d.requests[q].channel
    /\ d.requests[r].side = d.requests[q].side
    => r = q

\* The table of requests has a remote field for each.
Shape(rq) == /\ DOMAIN rq = Requests
             /\ \A r \in Requests : "remote" \in DOMAIN rq[r]

SameRemotes(rq, old) == Shape(rq) /\ \A r \in Requests : rq[r].remote = old[r].remote

\* Whoever holds addresses holds those of the other side of its channel.
Paired(rq) ==
  \A r \in Requests :
    LET q == rq[r].remote IN
    q # Null => q \in Requests /\ ChannelOf(q) = ChannelOf(r) /\ SideOf(q) # SideOf(r)

\* A handshake message is where the request that sent it puts it.
InfoSound(inf) ==
  /\ inf \in [Queues -> Seq(Requests)]
  /\ \A q \in Queues : \A i \in 1 .. Len(inf[q]) : Outbox(inf[q][i]) = q

Sound(rq, inf) == Shape(rq) /\ Paired(rq) /\ InfoSound(inf)

IInv == /\ deployment \in Deployments
        /\ next \in [Process -> Nat \ {0}]
        /\ Sound(req, info)

-----------------------------------------------------------------------------
(* The calls of the application. *)

LEMMA CallOnRequest ==
  ASSUME IInv, NEW p \in Process, NEW do \in Calls \ Collective, Calling(p, do)
  PROVE  Call(p).on \in Requests
<1>1. next[p] \in 1 .. Len(Program(p))
  BY DEF IInv, Calling, Ended
<1> QED
  BY <1>1, DeploymentsAssumption DEF IInv, Calling, Call, Program, Requests

LEMMA RequestsTyped ==
  ASSUME IInv, NEW r \in Requests
  PROVE  SideOf(r) \in Side /\ ChannelOf(r) \in Channel /\ ChannelOf(r) \in Channels
  BY DeploymentsAssumption DEF IInv, Requests, SideOf, ChannelOf, Channels

\* Communicator, direction and tag name one side of one channel.
LEMMA QueueOfOne ==
  ASSUME NEW c \in Channel, NEW d \in Channel, NEW s \in Side, NEW t \in Side,
         Queue(c, s) = Queue(d, t)
  PROVE  c = d /\ s = t
  BY DEF Queue, Communicator, Owner, PeerSide, Side, Channel

LEMMA OutboxQueue ==
  ASSUME IInv, NEW r \in Requests
  PROVE  Outbox(r) \in Queues
  BY RequestsTyped DEF Outbox, Queues

LEMMA InboxOfPeer ==
  ASSUME IInv, NEW r \in Requests, NEW q \in Requests, Outbox(q) = Inbox(r)
  PROVE  ChannelOf(q) = ChannelOf(r) /\ SideOf(q) # SideOf(r)
<1>1. PeerSide(SideOf(r)) \in Side /\ PeerSide(SideOf(r)) # SideOf(r)
  BY RequestsTyped DEF PeerSide, Side
<1> QED
  BY <1>1, RequestsTyped, QueueOfOne DEF Outbox, Inbox

-----------------------------------------------------------------------------
(* What leaves the remote fields alone. *)

LEMMA SamePaired ==
  ASSUME NEW rq, NEW old, Paired(old), SameRemotes(rq, old)
  PROVE  Shape(rq) /\ Paired(rq)
  BY DEF SameRemotes, Paired

LEMMA BegunRemotes ==
  ASSUME Shape(req), NEW r
  PROVE  SameRemotes(Begun(r), req)
  BY DEF Begun, SameRemotes, Shape

LEMMA MovedRemotes ==
  ASSUME NEW rq, Shape(rq), NEW r, NEW n
  PROVE  /\ SameRemotes(Push(rq, r, n), rq)
         /\ SameRemotes(Fetch(rq, r, n), rq)
         /\ SameRemotes(Announce(rq, r, n), rq)
  BY DEF Push, Fetch, Announce, SameRemotes, Shape

LEMMA PostSendRemotes ==
  ASSUME NEW rq, Shape(rq), NEW r, NEW synchronous \in BOOLEAN,
         PostSend(rq, r, synchronous)
  PROVE  SameRemotes(req', rq)
<1>1. \/ \E q, m : req' = [rq EXCEPT ![r].backup = "done", ![q].backup = "done", ![q].buf = m]
      \/ \E b : req' = [rq EXCEPT ![r].backup = b]
  BY Zenon DEF PostSend
<1>2. ASSUME NEW q, NEW m,
             req' = [rq EXCEPT ![r].backup = "done", ![q].backup = "done", ![q].buf = m]
      PROVE  SameRemotes(req', rq)
  BY <1>2 DEF SameRemotes, Shape
<1>3. ASSUME NEW b, req' = [rq EXCEPT ![r].backup = b] PROVE SameRemotes(req', rq)
  BY <1>3 DEF SameRemotes, Shape
<1> QED
  BY <1>1, <1>2, <1>3

LEMMA PostRecvRemotes ==
  ASSUME NEW rq, Shape(rq), NEW r, PostRecv(rq, r)
  PROVE  SameRemotes(req', rq)
  BY DEF PostRecv, SameRemotes, Shape
-----------------------------------------------------------------------------
(* Looking for the peer. *)

LEMMA SearchPeerStep ==
  ASSUME IInv, NEW rq, Shape(rq), Paired(rq), NEW p, NEW r, NEW callers,
         SearchPeer(rq, p, r, callers)
  PROVE  Sound(req', info')
<1>1. CASE rq[r].remote = Null /\ Iprobe(r)
  <2> DEFINE q == Head(info[Inbox(r)])
  <2>1. /\ req' = [rq EXCEPT ![r].remote = q, ![q].infoSend = "done"]
        /\ info' = [info EXCEPT ![Inbox(r)] = Tail(@)]
    BY <1>1 DEF SearchPeer
  <2>2. Inbox(r) \in Queues /\ info[Inbox(r)] \in Seq(Requests) /\ info[Inbox(r)] # <<>>
    BY <1>1 DEF Iprobe, IInv, Sound, InfoSound
  <2>3. q \in Requests /\ Outbox(q) = Inbox(r)
    BY <2>2 DEF IInv, Sound, InfoSound
  <2>4. InfoSound(info')
    <3>1. /\ Tail(info[Inbox(r)]) \in Seq(Requests)
          /\ Len(Tail(info[Inbox(r)])) = Len(info[Inbox(r)]) - 1
          /\ \A i \in 1 .. Len(info[Inbox(r)]) - 1 :
               Tail(info[Inbox(r)])[i] = info[Inbox(r)][i + 1]
      BY <2>2
    <3>2. info' \in [Queues -> Seq(Requests)]
      BY <2>1, <3>1 DEF IInv, Sound, InfoSound
    <3>3. ASSUME NEW x \in Queues, NEW i \in 1 .. Len(info'[x])
          PROVE  Outbox(info'[x][i]) = x
      <4>1. CASE x = Inbox(r)
        BY <4>1, <2>1, <2>2, <3>1 DEF IInv, Sound, InfoSound
      <4>2. CASE x # Inbox(r)
        BY <4>2, <2>1 DEF IInv, Sound, InfoSound
      <4> QED
        BY <4>1, <4>2
    <3> QED
      BY <3>2, <3>3 DEF InfoSound
  <2>5. Shape(req')
    BY <2>1 DEF Shape
  <2>6. ASSUME NEW x \in Requests
        PROVE  req'[x].remote = IF x = r THEN q ELSE rq[x].remote
    <3> HIDE DEF q
    <3> QED
      BY <2>1 DEF Shape
  <2>7. ASSUME r \in Requests PROVE ChannelOf(q) = ChannelOf(r) /\ SideOf(q) # SideOf(r)
    BY <2>3, <2>7, InboxOfPeer
  <2> HIDE DEF q
  <2> QED
    BY <2>3, <2>4, <2>5, <2>6, <2>7 DEF Sound, Paired
<1>2. CASE ~ (rq[r].remote = Null /\ Iprobe(r))
  <2>1. info' = info /\ (PostRecv(rq, r) \/ req' = rq)
    BY <1>2 DEF SearchPeer
  <2> QED
    BY <2>1, PostRecvRemotes, SamePaired DEF IInv, Sound
<1> QED
  BY <1>1, <1>2

-----------------------------------------------------------------------------
(* The steps. *)

\* A step that leaves the remote fields and the messages alone.
LEMMA QuietStep ==
  ASSUME IInv, NEW rq, SameRemotes(rq, req), info' = info, req' = rq
  PROVE  Sound(req', info')
  BY SamePaired DEF IInv, Sound

LEMMA InitRequestStep ==
  ASSUME IInv, NEW p \in Process, InitRequest(p)
  PROVE  Sound(req', info')
<1> DEFINE r == Call(p).on
<1>1. r \in Requests
  BY CallOnRequest DEF InitRequest, Calls, Collective
<1>2. /\ req' = [req EXCEPT ![r] = [Cleared("search") EXCEPT !.infoSend = "pending"]]
      /\ info' = [info EXCEPT ![Outbox(r)] = Append(@, r)]
  BY DEF InitRequest
<1> HIDE DEF r
<1>3. Outbox(r) \in Queues
  BY <1>1, OutboxQueue
<1>4. InfoSound(info')
  <2>1. /\ info[Outbox(r)] \in Seq(Requests)
        /\ Append(info[Outbox(r)], r) \in Seq(Requests)
        /\ Len(Append(info[Outbox(r)], r)) = Len(info[Outbox(r)]) + 1
        /\ \A i \in 1 .. Len(info[Outbox(r)]) :
             Append(info[Outbox(r)], r)[i] = info[Outbox(r)][i]
        /\ Append(info[Outbox(r)], r)[Len(info[Outbox(r)]) + 1] = r
    BY <1>1, <1>3 DEF IInv, Sound, InfoSound
  <2>2. info' \in [Queues -> Seq(Requests)]
    BY <1>2, <2>1 DEF IInv, Sound, InfoSound
  <2>3. ASSUME NEW x \in Queues, NEW i \in 1 .. Len(info'[x])
        PROVE  Outbox(info'[x][i]) = x
    <3>1. CASE x = Outbox(r)
      <4>1. info'[x] = Append(info[x], r)
        BY <3>1, <1>2 DEF IInv, Sound, InfoSound
      <4>2. i \in 1 .. Len(info[x]) \/ i = Len(info[x]) + 1
        BY <3>1, <4>1, <2>1
      <4> QED
        BY <3>1, <4>1, <4>2, <2>1 DEF IInv, Sound, InfoSound
    <3>2. CASE x # Outbox(r)
      BY <3>2, <1>2 DEF IInv, Sound, InfoSound
    <3> QED
      BY <3>1, <3>2
  <2> QED
    BY <2>2, <2>3 DEF InfoSound
<1>5. Shape(req') /\ \A x \in Requests : req'[x].remote = IF x = r THEN Null ELSE req[x].remote
  <2>1. DOMAIN req' = Requests
    BY <1>2 DEF IInv, Sound, Shape
  <2>2. req'[r].remote = Null /\ "remote" \in DOMAIN req'[r]
    BY <1>1, <1>2 DEF IInv, Sound, Shape, Cleared
  <2>3. \A x \in Requests : x # r => req'[x] = req[x]
    BY <1>2 DEF IInv, Sound, Shape
  <2> QED
    BY <2>1, <2>2, <2>3 DEF IInv, Sound, Shape
<1> QED
  BY <1>4, <1>5 DEF IInv, Sound, Paired

LEMMA StartStep ==
  ASSUME IInv, NEW p \in Process,
         StartRdma(p) \/ StartOrdinary(p) \/ StartSearching(p) \/ PostFirst(p)
  PROVE  Sound(req', info')
<1> DEFINE r == Call(p).on
<1>1. /\ Shape(req)
      /\ SameRemotes(Begun(r), req) /\ Shape(Begun(r)) /\ Paired(Begun(r))
  BY BegunRemotes, SamePaired DEF IInv, Sound, SameRemotes
<1>2. ASSUME NEW rq, SameRemotes(rq, Begun(r)) PROVE Shape(rq) /\ Paired(rq)
  BY <1>1, <1>2, SamePaired
<1>3. CASE StartRdma(p)
  <2>1. /\ info' = info
        /\ \/ \E n : req' = Announce(Begun(r), r, n)
           \/ \E n : req' = Push(Begun(r), r, n)
           \/ \E n : req' = Fetch(Begun(r), r, n)
    BY <1>3 DEF StartRdma
  <2> HIDE DEF r
  <2> QED
    BY <1>1, <1>2, <2>1, MovedRemotes DEF IInv, Sound
<1>4. CASE StartOrdinary(p)
  <2>1. info' = info /\ (PostSend(Begun(r), r, FALSE) \/ PostRecv(Begun(r), r))
    BY <1>4 DEF StartOrdinary
  <2> HIDE DEF r
  <2> QED
    BY <1>1, <1>2, <2>1, PostSendRemotes, PostRecvRemotes DEF IInv, Sound
<1>5. CASE StartSearching(p)
  BY <1>1, <1>5, SearchPeerStep DEF StartSearching
<1>6. CASE PostFirst(p)
  <2>1. /\ info' = info
        /\ \/ PostSend(req, Current(p), TRUE) \/ PostRecv(req, Current(p))
           \/ req' = req
    BY <1>6 DEF PostFirst
  <2> QED
    BY <1>1, <2>1, PostSendRemotes, PostRecvRemotes, SamePaired DEF IInv, Sound
<1> QED
  BY <1>3, <1>4, <1>5, <1>6

LEMMA WaitStep ==
  ASSUME IInv, NEW p \in Process,
         \/ Wait(p) \/ WaitSendProbe(p) \/ WaitSendTest(p) \/ WaitSendEnd(p)
         \/ WaitRecvLook(p) \/ WaitRecvProbe(p) \/ WaitRecvDecide(p)
         \/ WaitRecvTest(p) \/ WaitRecvEnd(p)
         \/ WaitFlush(p) \/ WaitFlagRound(p) \/ WaitFlagEnd(p)
         \/ WaitCrosstalk(p) \/ WaitFetched(p) \/ WaitOrdinary(p)
  PROVE  Sound(req', info')
<1>1. Shape(req) /\ Paired(req) /\ InfoSound(info)
  BY DEF IInv, Sound
<1>2. CASE \/ Wait(p) \/ WaitRecvLook(p) \/ WaitRecvEnd(p) \/ WaitFlush(p)
           \/ WaitFlagRound(p) \/ WaitFlagEnd(p) \/ WaitFetched(p)
  BY <1>1, <1>2 DEF Sound, Wait, WaitRecvLook, WaitRecvEnd, WaitFlush,
                    WaitFlagRound, WaitFlagEnd, WaitFetched
<1>3. CASE WaitSendProbe(p) \/ WaitRecvProbe(p)
  BY <1>1, <1>3, SearchPeerStep DEF WaitSendProbe, WaitRecvProbe
<1>4. CASE \/ WaitSendTest(p) \/ WaitSendEnd(p) \/ WaitRecvTest(p) \/ WaitOrdinary(p)
  <2>1. info' = info /\ SameRemotes(req', req)
    BY <1>1, <1>4 DEF WaitSendTest, WaitSendEnd, WaitRecvTest, WaitOrdinary,
                      SameRemotes, Shape
  <2> QED
    BY <2>1, <1>1, SamePaired DEF Sound
<1>5. CASE WaitRecvDecide(p)
  <2>1. PICK t : LET rq == [req EXCEPT ![Current(p)].type = t] IN
                 PostRecv(rq, Current(p)) \/ req' = rq
    BY <1>5 DEF WaitRecvDecide
  <2> DEFINE rq == [req EXCEPT ![Current(p)].type = t]
  <2>2. SameRemotes(rq, req)
    BY <1>1 DEF SameRemotes, Shape
  <2>3. Shape(rq) /\ Paired(rq)
    <3> HIDE DEF rq
    <3> QED
      BY <2>2, <1>1, SamePaired
  <2>4. info' = info
    BY <1>5 DEF WaitRecvDecide
  <2>5. PostRecv(rq, Current(p)) \/ req' = rq
    BY <2>1
  <2> HIDE DEF rq
  <2> QED
    BY <1>1, <2>3, <2>4, <2>5, PostRecvRemotes, SamePaired DEF Sound
<1>6. CASE WaitCrosstalk(p)
  BY <1>1, <1>6, MovedRemotes, SamePaired DEF WaitCrosstalk, Sound
<1> QED
  BY <1>2, <1>3, <1>4, <1>5, <1>6

LEMMA ProgressStep ==
  ASSUME IInv, NEW p \in Process, BlockRound(p) \/ BlockEnd(p) \/ ProgressNext(p)
  PROVE  Sound(req', info')
<1>1. Shape(req) /\ Paired(req) /\ InfoSound(info)
  BY DEF IInv, Sound
<1>2. CASE BlockRound(p)
  BY <1>1, <1>2 DEF BlockRound, Sound
<1>3. CASE BlockEnd(p)
  <2>1. info' = info /\ (PostRecv(req, Current(p)) \/ req' = req)
    BY <1>3 DEF BlockEnd
  <2> QED
    BY <1>1, <2>1, PostRecvRemotes, SamePaired DEF Sound
<1>4. CASE ProgressNext(p)
  <2>1. PICK r, callers :
          \/ SearchPeer(req, p, r, callers)
          \/ info' = info /\ req' = Fetch(req, r, req[r].operation_number)
          \/ info' = info /\ req' = [req EXCEPT ![r].backup = "null"]
          \/ info' = info /\ req' = req
    BY <1>4, Zenon DEF ProgressNext
  <2>2. SameRemotes([req EXCEPT ![r].backup = "null"], req)
    BY <1>1 DEF SameRemotes, Shape
  <2> QED
    BY <1>1, <2>1, <2>2, SearchPeerStep, MovedRemotes, SamePaired DEF Sound
<1> QED
  BY <1>2, <1>3, <1>4

LEMMA PutFlagStep ==
  ASSUME IInv, NEW r \in Requests, PutFlag(r)
  PROVE  Sound(req', info')
<1>1. Shape(req) /\ Paired(req) /\ InfoSound(info)
  BY DEF IInv, Sound
<1>2. info' = info /\ SameRemotes(req', req)
  BY <1>1 DEF PutFlag, SameRemotes, Shape
<1> QED
  BY <1>1, <1>2, SamePaired DEF Sound

-----------------------------------------------------------------------------

LEMMA InitIInv == Init => IInv
  BY DEF Init, IInv, Sound, Shape, Paired, InfoSound, Cleared

\* A step makes at most one call return.
LEMMA CallsStep ==
  ASSUME IInv, NEW p \in Process, Step(p)
  PROVE  deployment' = deployment /\ next' \in [Process -> Nat \ {0}]
<1>1. next \in [Process -> Nat \ {0}]
  BY DEF IInv
<1>2. deployment' = deployment /\ (next' = next \/ Return(p))
  BY Zenon DEF Step, InitRequest, StartRdma, StartOrdinary, StartSearching, PostFirst,
     Wait, WaitSendProbe, WaitSendTest, WaitSendEnd, WaitRecvLook, WaitRecvProbe,
     WaitRecvDecide, WaitRecvTest, WaitRecvEnd, WaitFlush, WaitFlagRound, WaitFlagEnd,
     WaitCrosstalk, WaitFetched, WaitOrdinary, BlockRound, BlockEnd, ProgressNext,
     FreeRequest, Finalize, Barrier
<1>3. ASSUME Return(p) PROVE next' \in [Process -> Nat \ {0}]
  BY <1>1, <1>3 DEF Return
<1> QED
  BY <1>1, <1>2, <1>3

LEMMA NextIInv == IInv /\ [Next]_vars => IInv'
<1> SUFFICES ASSUME IInv, [Next]_vars PROVE IInv'
  OBVIOUS
<1>1. ASSUME deployment' = deployment, next' \in [Process -> Nat \ {0}], Sound(req', info')
      PROVE  IInv'
  BY <1>1 DEF IInv, Sound, Shape, Paired, InfoSound, Requests, Queues, Channels,
              ChannelOf, SideOf, Outbox
<1>2. ASSUME NEW p \in Process, Step(p) PROVE Sound(req', info')
  <2>1. CASE FreeRequest(p) \/ Finalize(p) \/ Barrier(p)
    BY <2>1 DEF FreeRequest, Finalize, Barrier, IInv
  <2> QED
    BY <1>2, <2>1, InitRequestStep, StartStep, WaitStep, ProgressStep DEF Step
<1>3. CASE \E p \in Process : Step(p)
  BY <1>1, <1>2, <1>3, CallsStep
<1>4. CASE \E r \in Requests : PutFlag(r)
  BY <1>1, <1>4, PutFlagStep DEF PutFlag, IInv
<1>5. CASE AllEnded \/ UNCHANGED vars
  BY <1>1, <1>5 DEF AllEnded, vars, IInv
<1> QED
  BY <1>3, <1>4, <1>5 DEF Next

(***************************************************************************)
(* However the calls of a process nest, receive_rdma_info never takes the  *)
(* addresses of another channel or of its own direction; of two requests   *)
(* that are the only ones of their channel, each can be connected to the   *)
(* other alone.  The latter fails if one is freed and created again while  *)
(* the addresses of the first are still with MPI.                          *)
(***************************************************************************)
THEOREM PartnersPairedHolds == OneRequestPerSide => (Spec => []PartnersPaired)
<1> SUFFICES ASSUME OneRequestPerSide PROVE Spec => []PartnersPaired
  OBVIOUS
<1>1. IInv => PartnersPaired
  <2> SUFFICES ASSUME IInv, NEW r \in Requests, req[r].remote # Null
               PROVE  LET q == req[r].remote IN
                      /\ ChannelOf(q) = ChannelOf(r) /\ SideOf(q) # SideOf(r)
                      /\ req[q].remote \in {Null, r}
    BY DEF PartnersPaired
  <2> DEFINE q == req[r].remote
             x == req[q].remote
  <2>1. q \in Requests /\ ChannelOf(q) = ChannelOf(r) /\ SideOf(q) # SideOf(r)
    BY DEF IInv, Sound, Paired
  <2>2. x # Null => x \in Requests /\ ChannelOf(x) = ChannelOf(q) /\ SideOf(x) # SideOf(q)
    BY <2>1 DEF IInv, Sound, Paired
  <2> HIDE DEF q, x
  <2>3. x # Null => x \in Requests /\ ChannelOf(x) = ChannelOf(r) /\ SideOf(x) = SideOf(r)
    BY <2>1, <2>2, RequestsTyped DEF Side
  <2>4. x \in {Null, r}
    BY <2>3 DEF OneRequestPerSide, Requests, ChannelOf, SideOf, IInv
  <2> QED
    BY <2>1, <2>4 DEF q, x
<1> QED
  BY <1>1, InitIInv, NextIInv, PTL DEF Spec

-----------------------------------------------------------------------------
(* Types. *)

Owned(p) == {r \in Requests : Owner(ChannelOf(r), SideOf(r)) = p}

\* The calls a process can be in: on its own requests, an RDMA transfer on a
\* connected one.
Frames(rq, p) ==
  {f \in [req : Owned(p), at : Places, rest : Seq(Owned(p))] :
     f.at \in {"flush", "flag", "fetched"} => rq[f.req].remote # Null}

\* A request of type rdma holds addresses.
Table(rq) == /\ rq \in [Requests -> MPIOPT_Request]
             /\ \A r \in Requests : rq[r].type = "rdma" => rq[r].remote # Null

Messages == Seq([from : Requests, n : Nat])

TypeInv == /\ IInv
           /\ Table(req)
           /\ list \in [Process -> Seq(Requests)]
           /\ \A p \in Process : list[p] \in Seq(Owned(p))
           /\ freed \subseteq Requests
           /\ DOMAIN stack = Process /\ stack = [p \in Process |-> stack[p]]
           /\ \A p \in Process : stack[p] \in Seq(Frames(req, p))
           /\ payload \in [Channels -> Messages]

Keeps(rq, new) == \A r \in Requests : rq[r].remote # Null => new[r].remote # Null

LEMMA LeastExists ==
  ASSUME NEW T \in SUBSET Nat, T # {}
  PROVE  \E i \in T : \A j \in T : i <= j
<1> DEFINE R == OpToRel(<, Nat)
<1>1. IsWellFoundedOn(R, Nat)
  BY NatLessThanWellFounded
<1>2. PICK x \in T : \A y \in T : ~ (<<y, x>> \in R)
  <2> HIDE DEF R
  <2> QED
    BY <1>1, WFMin
<1>3. \A a, b \in Nat : a < b => <<a, b>> \in R
  BY DEF OpToRel
<1>4. \A y \in T : ~ (y < x)
  <2> HIDE DEF R
  <2> QED
    BY <1>2, <1>3
<1> QED
  BY <1>4

LEMMA RemoveFirstTyped ==
  ASSUME NEW T, NEW q \in Seq(T), NEW e
  PROVE  RemoveFirst(q, e) \in Seq(T)
<1>1. CASE \E i \in 1 .. Len(q) : q[i] = e
  <2> DEFINE I == {i \in 1 .. Len(q) : q[i] = e}
             k == Min(I)
  <2>1. \E i \in I : \A j \in I : i <= j
    <3>1. I \in SUBSET Nat /\ I # {}
      BY <1>1
    <3> HIDE DEF I
    <3> QED
      BY <3>1, LeastExists
  <2>2. k \in 1 .. Len(q)
    BY <2>1 DEF Min
  <2>3. SelectInSeq(q, LAMBDA v : v = e) = k
    BY <1>1 DEF SelectInSeq
  <2>4. RemoveFirst(q, e) = SubSeq(q, 1, k - 1) \o SubSeq(q, k + 1, Len(q))
    BY <1>1, <2>3 DEF RemoveFirst, RemoveAt
  <2> HIDE DEF k
  <2>5. Len(q) \in Nat /\ k \in Int /\ \A j \in 1 .. Len(q) : q[j] \in T
    BY <2>2
  <2>6. SubSeq(q, 1, k - 1) \in Seq(T)
    BY <2>2, <2>5, SubSeqProperties
  <2>7. SubSeq(q, k + 1, Len(q)) \in Seq(T)
    BY <2>2, <2>5, SubSeqProperties
  <2> QED
    BY <2>4, <2>6, <2>7, ConcatProperties
<1>2. CASE ~ \E i \in 1 .. Len(q) : q[i] = e
  BY <1>2 DEF RemoveFirst
<1> QED
  BY <1>1, <1>2

LEMMA OwnedCall ==
  ASSUME IInv, NEW p \in Process, NEW do \in Calls \ Collective, Calling(p, do)
  PROVE  Call(p).on \in Owned(p)
<1>1. next[p] \in 1 .. Len(Program(p))
  BY DEF IInv, Calling, Ended
<1> QED
  BY <1>1, DeploymentsAssumption
     DEF IInv, Calling, Call, Program, Requests, Owned, ChannelOf, SideOf

LEMMA StartedNat ==
  ASSUME IInv, NEW r \in Requests
  PROVE  Started(ChannelOf(r), SideOf(r)) \in Nat
<1> DEFINE c == ChannelOf(r)
           p == Owner(c, SideOf(r))
<1>1. p \in Process
  BY RequestsTyped DEF Owner, Channel
<1>2. next[p] - 1 \in Int
  BY <1>1 DEF IInv
<1> DEFINE T == {i \in 1 .. next[p] - 1 :
                   LET call == Program(p)[i] IN
                   /\ call.do = "start"
                   /\ SideOf(call.on) = SideOf(r) /\ ChannelOf(call.on) = c}
<1>3. IsFiniteSet(1 .. next[p] - 1)
  BY <1>2, FS_Interval
<1>4. T \subseteq 1 .. next[p] - 1
  OBVIOUS
<1>5. Cardinality(T) \in Nat
  BY <1>3, <1>4, FS_Subset, FS_CardinalityType
<1> QED
  BY <1>5 DEF Started

\* A change of a request's other fields.
Alike(rq, new) ==
  /\ Table(new)
  /\ \A r \in Requests : new[r].remote = rq[r].remote

Types == {"new", "plain", "search", "rdma", "fallback"}

SetType(rq, r, t)   == [rq EXCEPT ![r].type = t]
SetNumber(rq, r, n) == [rq EXCEPT ![r].operation_number = n]
SetFlag(rq, r, n)   == [rq EXCEPT ![r].flag = n]
SetPuts(rq, r, ps)  == [rq EXCEPT ![r].puts = ps]
SetBuf(rq, r, n)    == [rq EXCEPT ![r].buf = n]
SetBackup(rq, r, b) == [rq EXCEPT ![r].backup = b]

LEMMA AlikeKeeps ==
  ASSUME NEW rq, NEW new, Alike(rq, new)
  PROVE  Table(new) /\ Keeps(rq, new)
  BY DEF Alike, Keeps

LEMMA AlikeTransitive ==
  ASSUME NEW rq, NEW mid, NEW new, Alike(rq, mid), Alike(mid, new)
  PROVE  Alike(rq, new)
  BY DEF Alike

LEMMA SetTyped ==
  ASSUME NEW rq, Table(rq), NEW r \in Requests
  PROVE  /\ \A n \in Nat : /\ Alike(rq, SetNumber(rq, r, n))
                           /\ Alike(rq, SetFlag(rq, r, n))
                           /\ Alike(rq, SetBuf(rq, r, n))
         /\ \A ps \in Seq(Nat) : Alike(rq, SetPuts(rq, r, ps))
         /\ \A b \in {"null", "pending", "done"} : Alike(rq, SetBackup(rq, r, b))
         /\ \A t \in Types :
              (t = "rdma" => rq[r].remote # Null) => Alike(rq, SetType(rq, r, t))
<1>1. rq \in [Requests -> MPIOPT_Request]
  BY DEF Table
<1>2. ASSUME NEW n \in Nat PROVE Alike(rq, SetNumber(rq, r, n))
  BY <1>1 DEF SetNumber, Alike, Table, MPIOPT_Request
<1>3. ASSUME NEW n \in Nat PROVE Alike(rq, SetFlag(rq, r, n))
  BY <1>1 DEF SetFlag, Alike, Table, MPIOPT_Request
<1>4. ASSUME NEW n \in Nat PROVE Alike(rq, SetBuf(rq, r, n))
  BY <1>1 DEF SetBuf, Alike, Table, MPIOPT_Request
<1>5. ASSUME NEW ps \in Seq(Nat) PROVE Alike(rq, SetPuts(rq, r, ps))
  BY <1>1 DEF SetPuts, Alike, Table, MPIOPT_Request
<1>6. ASSUME NEW b \in {"null", "pending", "done"} PROVE Alike(rq, SetBackup(rq, r, b))
  BY <1>1 DEF SetBackup, Alike, Table, MPIOPT_Request
<1>7. ASSUME NEW t \in Types, t = "rdma" => rq[r].remote # Null
      PROVE  Alike(rq, SetType(rq, r, t))
  BY <1>1, <1>7 DEF Types, SetType, Alike, Table, MPIOPT_Request
<1> QED
  BY <1>2, <1>3, <1>4, <1>5, <1>6, <1>7

LEMMA FieldsTyped ==
  ASSUME NEW rq, Table(rq), NEW r \in Requests
  PROVE  /\ rq[r] \in MPIOPT_Request
         /\ rq[r].operation_number \in Nat /\ rq[r].flag \in Nat /\ rq[r].buf \in Nat
         /\ rq[r].puts \in Seq(Nat) /\ rq[r].backup \in {"null", "pending", "done"}
         /\ rq[r].remote \in Requests \union {Null} /\ rq[r].type \in Types
  BY DEF Table, MPIOPT_Request, Types

\* A request of type rdma has a peer.
LEMMA PeerTyped ==
  ASSUME NEW rq, Table(rq), NEW r \in Requests,
         rq[r].type = "rdma" \/ rq[r].remote # Null
  PROVE  rq[r].remote \in Requests
  BY DEF Table, MPIOPT_Request

LEMMA BegunTyped ==
  ASSUME TypeInv, NEW r \in Requests
  PROVE  Alike(req, Begun(r))
<1> DEFINE n == req[r].operation_number + 1
           b == IF SideOf(r) = "S" THEN Started(ChannelOf(r), "S") + 1 ELSE req[r].buf
<1>1. Table(req) /\ n \in Nat /\ b \in Nat
  BY StartedNat, FieldsTyped DEF TypeInv
<1>2. Begun(r) = SetBuf(SetNumber(req, r, n), r, b)
  BY <1>1 DEF Begun, SetNumber, SetBuf, Table, MPIOPT_Request
<1> HIDE DEF n, b
<1>3. Alike(req, SetNumber(req, r, n))
  BY <1>1, SetTyped
<1>4. Alike(SetNumber(req, r, n), SetBuf(SetNumber(req, r, n), r, b))
  BY <1>1, <1>3, SetTyped, AlikeKeeps
<1> QED
  BY <1>2, <1>3, <1>4, AlikeTransitive

\* What Push and Fetch write.
LEMMA WrittenTyped ==
  ASSUME NEW rq, Table(rq), NEW r \in Requests, NEW q \in Requests,
         NEW n \in Nat, NEW ps \in Seq(Nat), NEW b \in Nat
  PROVE  Alike(rq, SetBuf(SetPuts(SetFlag(rq, r, n), r, ps), q, b))
<1>1. Alike(rq, SetFlag(rq, r, n))
  BY SetTyped
<1>2. Alike(SetFlag(rq, r, n), SetPuts(SetFlag(rq, r, n), r, ps))
  BY <1>1, SetTyped, AlikeKeeps
<1>3. Alike(SetPuts(SetFlag(rq, r, n), r, ps), SetBuf(SetPuts(SetFlag(rq, r, n), r, ps), q, b))
  BY <1>2, SetTyped, AlikeKeeps
<1> QED
  BY <1>1, <1>2, <1>3, AlikeTransitive

LEMMA MovedTyped ==
  ASSUME NEW rq, Table(rq), NEW r \in Requests, rq[r].remote \in Requests, NEW n \in Nat
  PROVE  /\ Alike(rq, Fetch(rq, r, n))
         /\ Alike(rq, Push(rq, r, n))
         /\ Alike(rq, Announce(rq, r, n))
<1> DEFINE q  == rq[r].remote
           ps == Append(rq[r].puts, 2 * n + 2)
           as == Append(rq[r].puts, 2 * n + 1)
<1>1. /\ ps \in Seq(Nat) /\ as \in Seq(Nat)
      /\ rq[r].buf \in Nat /\ rq[q].buf \in Nat /\ 2 * n + 2 \in Nat
  BY FieldsTyped, AppendProperties
<1>2. /\ Fetch(rq, r, n) = SetBuf(SetPuts(SetFlag(rq, r, 2 * n + 2), r, ps), r, rq[q].buf)
      /\ Push(rq, r, n) = SetBuf(SetPuts(SetFlag(rq, r, 2 * n + 2), r, ps), q, rq[r].buf)
      /\ Announce(rq, r, n) = SetPuts(rq, r, as)
  BY DEF Fetch, Push, Announce, SetBuf, SetPuts, SetFlag, Table, MPIOPT_Request
<1> HIDE DEF ps, as
<1> QED
  BY <1>1, <1>2, WrittenTyped, SetTyped

LEMMA PostSendTyped ==
  ASSUME payload \in [Channels -> Messages], NEW rq, Table(rq), NEW r \in Requests,
         ChannelOf(r) \in Channels, NEW synchronous \in BOOLEAN, PostSend(rq, r, synchronous)
  PROVE  Alike(rq, req') /\ payload' \in [Channels -> Messages]
<1> DEFINE c == ChannelOf(r)
           q == CHOOSE q \in Posted(c) : TRUE
<1>1. rq[r].buf \in Nat
  BY FieldsTyped
<1>2. Alike(rq, SetBackup(rq, r, "done"))
  BY SetTyped
<1>3. CASE Posted(c) # {}
  <2>1. q \in Requests
    BY <1>3 DEF Posted
  <2>2. /\ req' = [rq EXCEPT ![r].backup = "done", ![q].backup = "done", ![q].buf = rq[r].buf]
        /\ payload' = payload
    BY <1>3 DEF PostSend
  <2> HIDE DEF q
  <2> DEFINE mid == SetBackup(rq, r, "done")
             new == SetBackup(mid, q, "done")
  <2>3. req' = SetBuf(new, q, rq[r].buf)
    BY <2>2 DEF SetBackup, SetBuf
  <2>4. Alike(mid, new)
    <3> HIDE DEF mid
    <3> QED
      BY <1>2, <2>1, SetTyped, AlikeKeeps DEF mid
  <2> HIDE DEF new
  <2>5. Alike(new, req')
    BY <1>1, <2>1, <2>3, <2>4, SetTyped, AlikeKeeps
  <2> QED
    BY <1>2, <2>2, <2>4, <2>5, AlikeTransitive
<1>4. CASE Posted(c) = {}
  <2>1. \E b \in {"pending", "done"} : req' = SetBackup(rq, r, b)
    BY <1>4 DEF PostSend, SetBackup
  <2>2. payload' = [payload EXCEPT ![c] = Append(@, [from |-> r, n |-> rq[r].buf])]
    BY <1>4 DEF PostSend
  <2>3. Append(payload[c], [from |-> r, n |-> rq[r].buf]) \in Messages
    BY <1>1, AppendProperties DEF Messages
  <2> QED
    BY <2>1, <2>2, <2>3, SetTyped
<1> QED
  BY <1>3, <1>4

LEMMA PostRecvTyped ==
  ASSUME payload \in [Channels -> Messages], NEW rq, Table(rq), NEW r \in Requests,
         ChannelOf(r) \in Channels, PostRecv(rq, r)
  PROVE  Alike(rq, req') /\ payload' \in [Channels -> Messages]
<1> DEFINE c == ChannelOf(r)
           m == Head(payload[c])
<1>1. CASE payload[c] # <<>>
  <2>1. m \in [from : Requests, n : Nat] /\ Tail(payload[c]) \in Messages
    BY <1>1, HeadTailProperties DEF Messages
  <2> DEFINE q == m.from
             k == m.n
             b == Acknowledged(rq, m)
             new == SetBuf(SetBackup(rq, r, "done"), r, k)
  <2>2. req' = SetBackup(new, q, b) /\ payload' = [payload EXCEPT ![c] = Tail(@)]
    BY <1>1 DEF PostRecv, SetBackup, SetBuf
  <2>3. q \in Requests /\ k \in Nat
    BY <2>1
  <2>4. b \in {"null", "pending", "done"}
    BY <2>3, FieldsTyped DEF Acknowledged
  <2> HIDE DEF m, q, k, b
  <2>5. Alike(rq, SetBackup(rq, r, "done"))
    BY SetTyped
  <2>6. Alike(SetBackup(rq, r, "done"), new)
    BY <2>3, <2>5, SetTyped, AlikeKeeps
  <2> HIDE DEF new
  <2>7. Alike(new, req')
    BY <2>2, <2>3, <2>4, <2>6, SetTyped, AlikeKeeps
  <2> QED
    BY <2>1, <2>2, <2>5, <2>6, <2>7, AlikeTransitive
<1>2. CASE payload[c] = <<>>
  <2>1. req' = SetBackup(rq, r, "pending") /\ payload' = payload
    BY <1>2 DEF PostRecv, SetBackup
  <2> QED
    BY <2>1, SetTyped
<1> QED
  BY <1>1, <1>2

\* What Init gives a request.
LEMMA ClearedTyped ==
  ASSUME NEW t \in {"new", "plain", "search"}
  PROVE  Cleared(t) \in MPIOPT_Request /\ Cleared(t).type = t
<1>1. <<>> \in Seq(Nat)
  OBVIOUS
<1> QED
  BY <1>1 DEF Cleared, MPIOPT_Request

LEMMA FramesKept ==
  ASSUME NEW rq, NEW new, Keeps(rq, new), NEW p, NEW fs \in Seq(Frames(rq, p))
  PROVE  fs \in Seq(Frames(new, p))
<1>1. Frames(rq, p) \subseteq Frames(new, p)
  BY DEF Frames, Keeps, Owned
<1> QED
  BY <1>1, SeqMonotonic

LEMMA EntersTyped ==
  ASSUME NEW T, NEW fs \in Seq(T), NEW f \in T
  PROVE  /\ <<f>> \o fs \in Seq(T)
         /\ fs # <<>> => /\ fs[1] \in T /\ Tail(fs) \in Seq(T)
                         /\ <<f>> \o Tail(fs) \in Seq(T)
<1>1. <<f>> \in Seq(T)
  OBVIOUS
<1>2. fs # <<>> => fs[1] \in T /\ Tail(fs) \in Seq(T)
  BY HeadTailProperties
<1> QED
  BY <1>1, <1>2, ConcatProperties

\* A step of p that is typed.
Typed(p) ==
  /\ Table(req')
  /\ \E fs \in Seq(Frames(req', p)) : stack' = [stack EXCEPT ![p] = fs]
  /\ \A q \in Process \ {p} : \A r \in Owned(q) :
       req[r].remote # Null => req'[r].remote # Null
  /\ payload' \in [Channels -> Messages]

LEMMA SearchPeerTyped ==
  ASSUME TypeInv, NEW rq, Alike(req, rq), NEW p \in Process, NEW r \in Owned(p),
         NEW callers \in Seq(Frames(req, p)), SearchPeer(rq, p, r, callers)
  PROVE  Typed(p) /\ Keeps(req, req')
<1> DEFINE c == ChannelOf(r)
<1>1. r \in Requests /\ c \in Channels /\ Table(rq) /\ Keeps(req, rq)
  BY RequestsTyped, AlikeKeeps DEF Owned, TypeInv
<1>2. payload \in [Channels -> Messages]
  BY DEF TypeInv
<1>3. CASE rq[r].remote = Null /\ Iprobe(r)
  <2> DEFINE q == Head(info[Inbox(r)])
             mid == [rq EXCEPT ![r].remote = q]
             f == Frame(r, "block", <<>>)
  <2>1. /\ req' = [mid EXCEPT ![q].infoSend = "done"]
        /\ stack' = [stack EXCEPT ![p] = <<f>> \o callers]
        /\ payload' = payload
    BY <1>3 DEF SearchPeer
  <2>2. q \in Requests /\ Outbox(q) = Inbox(r)
    <3>1. Inbox(r) \in Queues /\ info[Inbox(r)] \in Seq(Requests) /\ info[Inbox(r)] # <<>>
      BY <1>3 DEF Iprobe, TypeInv, IInv, Sound, InfoSound
    <3>2. q = info[Inbox(r)][1] /\ 1 \in 1 .. Len(info[Inbox(r)])
      BY <3>1
    <3> HIDE DEF q
    <3> QED
      BY <3>1, <3>2 DEF TypeInv, IInv, Sound, InfoSound
  <2> HIDE DEF q
  <2>3. Table(req') /\ Keeps(rq, req')
    <3>1. mid \in [Requests -> MPIOPT_Request] /\ \A x \in Requests : mid[x].type = rq[x].type
      BY <1>1, <2>2 DEF Table, MPIOPT_Request
    <3>2. \A x \in Requests : mid[x].remote = IF x = r THEN q ELSE rq[x].remote
      BY <1>1 DEF Table, MPIOPT_Request
    <3> HIDE DEF mid
    <3>3. /\ req' \in [Requests -> MPIOPT_Request]
          /\ \A x \in Requests : req'[x].type = mid[x].type /\ req'[x].remote = mid[x].remote
      BY <2>1, <2>2, <3>1 DEF MPIOPT_Request
    <3>4. rq[r].type # "rdma"
      BY <1>1, <1>3 DEF Table
    <3> QED
      BY <1>1, <1>3, <3>1, <3>2, <3>3, <3>4 DEF Table, Keeps
  <2>4. Keeps(req, req')
    BY <1>1, <2>3 DEF Keeps
  <2>5. f \in Frames(req', p)
    BY DEF Frame, Frames, Places
  <2>6. <<f>> \o callers \in Seq(Frames(req', p))
    BY <2>4, <2>5, FramesKept, EntersTyped
  <2> QED
    BY <1>2, <2>1, <2>3, <2>4, <2>6 DEF Typed, Keeps, Owned
<1>4. CASE ~ (rq[r].remote = Null /\ Iprobe(r))
  <2>1. /\ stack' = [stack EXCEPT ![p] = callers]
        /\ PostRecv(rq, r) \/ (req' = rq /\ payload' = payload)
    BY <1>4, Zenon DEF SearchPeer
  <2>2. Alike(rq, req') /\ payload' \in [Channels -> Messages]
    <3>1. CASE PostRecv(rq, r)
      BY <1>1, <1>2, <3>1, PostRecvTyped
    <3>2. CASE req' = rq /\ payload' = payload
      BY <1>1, <1>2, <3>2 DEF Alike
    <3> QED
      BY <2>1, <3>1, <3>2
  <2>3. Table(req') /\ Keeps(req, req')
    BY <2>2, AlikeTransitive, AlikeKeeps
  <2>4. callers \in Seq(Frames(req', p))
    BY <2>3, FramesKept
  <2> QED
    BY <2>1, <2>2, <2>3, <2>4 DEF Typed, Keeps, Owned
<1> QED
  BY <1>3, <1>4

-----------------------------------------------------------------------------
(* Types in the steps. *)

LEMMA TypeFacts ==
  ASSUME TypeInv
  PROVE  Table(req) /\ payload \in [Channels -> Messages] /\ Alike(req, req) /\ IInv
  BY DEF TypeInv, Alike

LEMMA OwnedTyped ==
  ASSUME TypeInv, NEW p \in Process, NEW r \in Owned(p)
  PROVE  r \in Requests /\ ChannelOf(r) \in Channels
  BY RequestsTyped DEF TypeInv, Owned

LEMMA OthersTyped ==
  ASSUME TypeInv, NEW p \in Process, NEW r
  PROVE  Others(p, r) \in Seq(Owned(p))
<1>1. list[p] \in Seq(Owned(p))
  BY DEF TypeInv
<1> QED
  BY <1>1, RemoveFirstTyped DEF Others

LEMMA TopTyped ==
  ASSUME TypeInv, NEW p \in Process, stack[p] # <<>>
  PROVE  /\ stack[p] \in Seq(Frames(req, p)) /\ Tail(stack[p]) \in Seq(Frames(req, p))
         /\ stack[p][1] \in Frames(req, p) /\ Current(p) \in Owned(p)
         /\ Current(p) \in Requests /\ ChannelOf(Current(p)) \in Channels
<1>1. stack[p] \in Seq(Frames(req, p))
  BY DEF TypeInv
<1>2. stack[p][1] \in Frames(req, p) /\ Tail(stack[p]) \in Seq(Frames(req, p))
  BY <1>1, HeadTailProperties
<1>3. Current(p) \in Owned(p)
  BY <1>2 DEF Current, Frames
<1> QED
  BY <1>1, <1>2, <1>3, OwnedTyped

LEMMA FrameTyped ==
  ASSUME NEW rq, NEW p, NEW r \in Owned(p), NEW at \in Places, NEW rest \in Seq(Owned(p)),
         at \in {"flush", "flag", "fetched"} => rq[r].remote # Null
  PROVE  Frame(r, at, rest) \in Frames(rq, p)
  BY DEF Frame, Frames

LEMMA PlainFrame ==
  ASSUME NEW rq, NEW p, NEW r \in Owned(p), NEW at \in Places \ {"flush", "flag", "fetched"}
  PROVE  Frame(r, at, <<>>) \in Frames(rq, p) /\ <<Frame(r, at, <<>>)>> \in Seq(Frames(rq, p))
<1>1. <<>> \in Seq(Owned(p))
  OBVIOUS
<1>2. Frame(r, at, <<>>) \in Frames(rq, p)
  BY <1>1, FrameTyped
<1> HIDE DEF Frames
<1> QED
  BY <1>2

LEMMA NewStackTyped ==
  ASSUME TypeInv, NEW p \in Process, Alike(req, req'), payload' \in [Channels -> Messages],
         NEW fs \in Seq(Frames(req, p)), stack' = [stack EXCEPT ![p] = fs]
  PROVE  Typed(p)
<1>1. Table(req') /\ Keeps(req, req')
  BY AlikeKeeps
<1>2. fs \in Seq(Frames(req', p))
  BY <1>1, FramesKept
<1> QED
  BY <1>1, <1>2 DEF Typed, Keeps, Owned

LEMMA GoTyped ==
  ASSUME TypeInv, NEW p \in Process, Alike(req, req'), payload' \in [Channels -> Messages],
         stack[p] # <<>>, NEW f \in Frames(req, p), Go(p, f)
  PROVE  Typed(p)
<1>1. <<f>> \o Tail(stack[p]) \in Seq(Frames(req, p))
  BY TopTyped, EntersTyped
<1>2. stack' = [stack EXCEPT ![p] = <<f>> \o Tail(stack[p])]
  BY DEF Go
<1> QED
  BY <1>1, <1>2, NewStackTyped

LEMMA ReturnTyped ==
  ASSUME TypeInv, NEW p \in Process, Alike(req, req'), payload' \in [Channels -> Messages],
         Return(p)
  PROVE  Typed(p)
<1>1. <<>> \in Seq(Frames(req, p)) /\ stack' = [stack EXCEPT ![p] = <<>>]
  BY DEF Return
<1> QED
  BY <1>1, NewStackTyped

\* A place that is not in an RDMA transfer.
LEMMA GoToTyped ==
  ASSUME TypeInv, NEW p \in Process, Alike(req, req'), payload' \in [Channels -> Messages],
         stack[p] # <<>>, NEW at \in Places \ {"flush", "flag", "fetched"},
         GoTo(p, at) \/ ProgressOthersThen(p, at)
  PROVE  Typed(p)
<1>1. Others(p, Current(p)) \in Seq(Owned(p)) /\ <<>> \in Seq(Owned(p))
  BY OthersTyped
<1>2. /\ Frame(Current(p), at, <<>>) \in Frames(req, p)
      /\ Frame(Current(p), at, Others(p, Current(p))) \in Frames(req, p)
  BY <1>1, TopTyped, FrameTyped
<1> QED
  BY <1>2, GoTyped DEF GoTo, ProgressOthersThen

LEMMA StartTyped ==
  ASSUME TypeInv, NEW p \in Process,
         StartRdma(p) \/ StartOrdinary(p) \/ StartSearching(p) \/ PostFirst(p)
  PROVE  Typed(p)
<1> DEFINE r == Call(p).on
<1>1. CASE StartRdma(p) \/ StartOrdinary(p) \/ StartSearching(p)
  <2>1. r \in Owned(p) /\ r \in Requests /\ ChannelOf(r) \in Channels
    BY <1>1, OwnedCall, OwnedTyped
       DEF StartRdma, StartOrdinary, StartSearching, Calls, Collective, TypeInv
  <2>2. Alike(req, Begun(r)) /\ Table(Begun(r)) /\ payload \in [Channels -> Messages]
    BY <2>1, BegunTyped, AlikeKeeps, TypeFacts
  <2>3. CASE StartRdma(p)
    <3> DEFINE n == req[r].operation_number + 1
    <3>1. n \in Nat
      BY <2>1, FieldsTyped, TypeFacts
    <3>2. req[r].type = "rdma"
      BY <2>3 DEF StartRdma
    <3>3. Begun(r)[r].remote \in Requests
      <4>1. req[r].remote \in Requests
        BY <2>1, <3>2, PeerTyped, TypeFacts
      <4> QED
        BY <2>1, <2>2, <4>1 DEF Alike
    <3>4. \/ req' = Announce(Begun(r), r, n)
          \/ req' = Push(Begun(r), r, n)
          \/ req' = Fetch(Begun(r), r, n)
      BY <2>3 DEF StartRdma
    <3>5. payload' = payload /\ Return(p)
      BY <2>3 DEF StartRdma
    <3> HIDE DEF n, r
    <3>6. Alike(Begun(r), req')
      BY <2>1, <2>2, <3>1, <3>3, <3>4, MovedTyped
    <3> QED
      BY <2>2, <3>5, <3>6, AlikeTransitive, ReturnTyped
  <2>4. CASE StartOrdinary(p)
    <3>1. Return(p) /\ (PostSend(Begun(r), r, FALSE) \/ PostRecv(Begun(r), r))
      BY <2>4 DEF StartOrdinary
    <3> HIDE DEF r
    <3>2. Alike(Begun(r), req') /\ payload' \in [Channels -> Messages]
      BY <2>1, <2>2, <3>1, PostSendTyped, PostRecvTyped
    <3> QED
      BY <2>2, <3>1, <3>2, AlikeTransitive, ReturnTyped
  <2>5. CASE StartSearching(p)
    <3>1. SearchPeer(Begun(r), p, r, <<Frame(r, "post", <<>>)>>)
      BY <2>5 DEF StartSearching
    <3> HIDE DEF r
    <3>2. <<Frame(r, "post", <<>>)>> \in Seq(Frames(req, p))
      BY <2>1, PlainFrame DEF Places
    <3> QED
      BY <2>1, <2>2, <3>1, <3>2, SearchPeerTyped
  <2> QED
    BY <1>1, <2>3, <2>4, <2>5
<1>2. CASE PostFirst(p)
  <2>1. stack[p] # <<>> /\ Return(p)
    BY <1>2 DEF PostFirst, At
  <2>2. \/ PostSend(req, Current(p), TRUE) \/ PostRecv(req, Current(p))
        \/ (req' = req /\ payload' = payload)
    BY <1>2 DEF PostFirst
  <2>3. Alike(req, req') /\ payload' \in [Channels -> Messages]
    BY <2>1, <2>2, TopTyped, TypeFacts, PostSendTyped, PostRecvTyped
  <2> QED
    BY <2>1, <2>3, ReturnTyped
<1> QED
  BY <1>1, <1>2

LEMMA WaitTyped ==
  ASSUME TypeInv, NEW p \in Process,
         \/ Wait(p) \/ WaitSendProbe(p) \/ WaitSendTest(p) \/ WaitSendEnd(p)
         \/ WaitRecvLook(p) \/ WaitRecvProbe(p) \/ WaitRecvDecide(p)
         \/ WaitRecvTest(p) \/ WaitRecvEnd(p) \/ WaitOrdinary(p)
  PROVE  Typed(p)
<1> USE TypeFacts
<1>1. CASE Wait(p)
  <2> DEFINE r == Call(p).on
             at == CASE req[r].type = "rdma" -> "flush"
                     [] req[r].type \in {"fallback", "plain"} -> "mpi_wait"
                     [] OTHER -> IF SideOf(r) = "S" THEN "probe" ELSE "look"
  <2>1. r \in Owned(p) /\ r \in Requests
    BY <1>1, OwnedCall, OwnedTyped DEF Wait, Calls, Collective, TypeInv
  <2>2. /\ stack[p] = <<>> /\ stack' = [stack EXCEPT ![p] = <<Frame(r, at, <<>>)>> \o @]
        /\ req' = req /\ payload' = payload
    BY <1>1 DEF Wait, Calling, Enter
  <2>3. at \in Places /\ (at \in {"flush", "flag", "fetched"} => req[r].type = "rdma")
    BY DEF Places
  <2> HIDE DEF r, at
  <2>4. at \in {"flush", "flag", "fetched"} => req[r].remote # Null
    BY <2>1, <2>3 DEF Table
  <2>5. <<>> \in Seq(Owned(p)) /\ stack[p] \in Seq(Frames(req, p)) /\ DOMAIN stack = Process
    BY DEF TypeInv
  <2>6. Frame(r, at, <<>>) \in Frames(req, p)
    BY <2>1, <2>3, <2>4, <2>5, FrameTyped
  <2>7. <<Frame(r, at, <<>>)>> \o stack[p] \in Seq(Frames(req, p))
    BY <2>5, <2>6, EntersTyped
  <2> QED
    BY <2>2, <2>7, NewStackTyped
<1>2. CASE WaitSendProbe(p) \/ WaitRecvProbe(p)
  <2>1. stack[p] # <<>> /\ \E at \in {"test", "decide", "look"} :
          SearchPeer(req, p, Current(p), <<Frame(Current(p), at, <<>>)>>)
    BY <1>2 DEF WaitSendProbe, WaitRecvProbe, At
  <2>2. PICK at \in {"test", "decide", "look"} :
          SearchPeer(req, p, Current(p), <<Frame(Current(p), at, <<>>)>>)
    BY <2>1
  <2>3. <<Frame(Current(p), at, <<>>)>> \in Seq(Frames(req, p))
    BY <2>1, TopTyped, PlainFrame DEF Places
  <2> QED
    BY <2>1, <2>2, <2>3, TopTyped, SearchPeerTyped
<1>3. CASE WaitSendTest(p)
  <2> DEFINE r == Current(p)
             done == req[r].backup # "pending"
             t == IF req[r].remote # Null THEN "rdma" ELSE req[r].type
             b == IF done THEN "null" ELSE req[r].backup
             mid == SetType(req, r, t)
  <2>1. stack[p] # <<>> /\ r \in Requests
    BY <1>3, TopTyped DEF WaitSendTest, At
  <2>2. /\ req' = SetBackup(mid, r, b) /\ payload' = payload
        /\ ProgressOthersThen(p, "sent") \/ ProgressOthersThen(p, "probe")
    BY <1>3 DEF WaitSendTest, SetType, SetBackup
  <2>3. b \in {"null", "pending", "done"}
    BY <2>1, FieldsTyped
  <2>4. Alike(req, mid)
    <3>1. t \in Types /\ (t = "rdma" => req[r].remote # Null)
      BY <2>1, FieldsTyped DEF Types, Table
    <3> HIDE DEF t
    <3> QED
      BY <2>1, <3>1, SetTyped
  <2> HIDE DEF r, b, mid
  <2>5. Alike(mid, req')
    BY <2>1, <2>2, <2>3, <2>4, SetTyped, AlikeKeeps
  <2>6. Alike(req, req') /\ "sent" \in Places /\ "probe" \in Places
    BY <2>4, <2>5, AlikeTransitive DEF Places
  <2> QED
    BY <2>1, <2>2, <2>6, GoToTyped
<1>4. CASE WaitSendEnd(p)
  <2> DEFINE r == Current(p)
             t == IF req[r].type = "rdma" THEN "rdma" ELSE "fallback"
  <2>1. stack[p] # <<>> /\ r \in Requests
    BY <1>4, TopTyped DEF WaitSendEnd, At
  <2>2. req' = SetType(req, r, t) /\ payload' = payload /\ Return(p)
    BY <1>4 DEF WaitSendEnd, SetType
  <2>3. t \in Types /\ (t = "rdma" => req[r].remote # Null)
    BY <2>1 DEF Table, Types
  <2> HIDE DEF r, t
  <2> QED
    BY <2>1, <2>2, <2>3, SetTyped, ReturnTyped
<1>5. CASE WaitRecvLook(p)
  <2>1. /\ stack[p] # <<>> /\ req' = req /\ payload' = payload
        /\ \/ GoTo(p, "decide") \/ ProgressOthersThen(p, "last")
           \/ ProgressOthersThen(p, "again")
    BY <1>5 DEF WaitRecvLook, At
  <2>2. {"decide", "last", "again"} \subseteq Places \ {"flush", "flag", "fetched"}
    BY DEF Places
  <2> QED
    BY <2>1, <2>2, GoToTyped
<1>6. CASE WaitRecvDecide(p)
  <2> DEFINE r == Current(p)
             t == IF req[r].remote = Null THEN "fallback" ELSE "rdma"
             mid == SetType(req, r, t)
  <2>1. stack[p] # <<>> /\ r \in Requests /\ ChannelOf(r) \in Channels
    BY <1>6, TopTyped DEF WaitRecvDecide, At
  <2>2. /\ GoTo(p, "receive")
        /\ PostRecv(mid, r) \/ (req' = mid /\ payload' = payload)
    BY <1>6, Zenon DEF WaitRecvDecide, SetType
  <2>3. Alike(req, mid)
    BY <2>1, SetTyped DEF Types
  <2> HIDE DEF r, mid
  <2>4. Alike(req, req') /\ payload' \in [Channels -> Messages]
    <3>1. CASE PostRecv(mid, r)
      BY <2>1, <2>3, <3>1, PostRecvTyped, AlikeKeeps, AlikeTransitive
    <3>2. CASE req' = mid /\ payload' = payload
      BY <2>3, <3>2
    <3> QED
      BY <2>2, <3>1, <3>2
  <2>5. "receive" \in Places \ {"flush", "flag", "fetched"}
    BY DEF Places
  <2> QED
    BY <2>1, <2>2, <2>4, <2>5, GoToTyped
<1>7. CASE WaitRecvTest(p) \/ WaitOrdinary(p)
  <2> DEFINE r == Current(p)
  <2>1. stack[p] # <<>> /\ r \in Requests
    BY <1>7, TopTyped DEF WaitRecvTest, WaitOrdinary, At
  <2>2. PICK b \in {"null", req[r].backup} : req' = SetBackup(req, r, b)
    BY <1>7 DEF WaitRecvTest, WaitOrdinary, SetBackup
  <2>3. /\ payload' = payload
        /\ \/ ProgressOthersThen(p, "received") \/ ProgressOthersThen(p, "receive")
           \/ Return(p)
    BY <1>7 DEF WaitRecvTest, WaitOrdinary
  <2>4. b \in {"null", "pending", "done"}
    BY <2>1, <2>2, FieldsTyped
  <2> HIDE DEF r
  <2>5. Alike(req, req')
    BY <2>1, <2>2, <2>4, SetTyped
  <2>6. {"received", "receive"} \subseteq Places \ {"flush", "flag", "fetched"}
    BY DEF Places
  <2> QED
    BY <2>1, <2>3, <2>5, <2>6, GoToTyped, ReturnTyped
<1>8. CASE WaitRecvEnd(p)
  BY <1>8, ReturnTyped DEF WaitRecvEnd
<1> QED
  BY <1>1, <1>2, <1>3, <1>4, <1>5, <1>6, <1>7, <1>8

LEMMA WaitRdmaTyped ==
  ASSUME TypeInv, NEW p \in Process,
         \/ WaitFlush(p) \/ WaitFlagRound(p) \/ WaitFlagEnd(p)
         \/ WaitCrosstalk(p) \/ WaitFetched(p)
  PROVE  Typed(p)
<1> USE TypeFacts
<1> DEFINE r == Current(p)
<1>1. stack[p] # <<>> /\ stack[p][1].at \in {"flush", "flag", "fetched"}
  BY DEF WaitFlush, WaitFlagRound, WaitFlagEnd, WaitCrosstalk, WaitFetched, At
<1>2. r \in Owned(p) /\ r \in Requests /\ req[r].remote # Null
  BY <1>1, TopTyped DEF Frames, Current
<1>3. Alike(req, req') /\ payload' \in [Channels -> Messages]
  <2>1. CASE WaitCrosstalk(p)
    <3>1. req' = Fetch(req, r, req[r].operation_number) /\ payload' = payload
      BY <2>1 DEF WaitCrosstalk
    <3>2. req[r].operation_number \in Nat /\ req[r].remote \in Requests
      BY <1>2, FieldsTyped, PeerTyped
    <3> HIDE DEF r
    <3> QED
      BY <1>2, <3>1, <3>2, MovedTyped
  <2>2. CASE WaitFlush(p) \/ WaitFlagRound(p) \/ WaitFlagEnd(p) \/ WaitFetched(p)
    BY <2>2 DEF WaitFlush, WaitFlagRound, WaitFlagEnd, WaitFetched
  <2> QED
    BY <2>1, <2>2
<1>4. \/ GoTo(p, "flag") \/ GoTo(p, "fetched") \/ ProgressOthersThen(p, "flag")
      \/ Return(p)
  BY DEF WaitFlush, WaitFlagRound, WaitFlagEnd, WaitCrosstalk, WaitFetched
<1>5. Others(p, r) \in Seq(Owned(p)) /\ <<>> \in Seq(Owned(p))
  BY OthersTyped
<1>6. /\ Frame(r, "flag", <<>>) \in Frames(req, p)
      /\ Frame(r, "fetched", <<>>) \in Frames(req, p)
      /\ Frame(r, "flag", Others(p, r)) \in Frames(req, p)
  BY <1>2, <1>5, FrameTyped DEF Places
<1> QED
  BY <1>1, <1>3, <1>4, <1>6, GoTyped, ReturnTyped DEF GoTo, ProgressOthersThen

LEMMA ProgressTyped ==
  ASSUME TypeInv, NEW p \in Process, BlockRound(p) \/ BlockEnd(p) \/ ProgressNext(p)
  PROVE  Typed(p)
<1> USE TypeFacts
<1>1. CASE BlockRound(p)
  BY <1>1, GoToTyped DEF BlockRound, At, Places
<1>2. CASE BlockEnd(p)
  <2>1. /\ stack[p] # <<>> /\ stack' = [stack EXCEPT ![p] = Tail(stack[p])]
        /\ PostRecv(req, Current(p)) \/ (req' = req /\ payload' = payload)
    BY <1>2, Zenon DEF BlockEnd, At
  <2>2. Alike(req, req') /\ payload' \in [Channels -> Messages]
    BY <2>1, TopTyped, PostRecvTyped
  <2> QED
    BY <2>1, <2>2, TopTyped, NewStackTyped
<1>3. CASE ProgressNext(p)
  <2> DEFINE f == stack[p][1]
             r == Head(f.rest)
             g == Frame(f.req, f.at, Tail(f.rest))
  <2>1. stack[p] # <<>> /\ f.rest # <<>>
    BY <1>3 DEF ProgressNext
  <2>2. f \in Frames(req, p) /\ Tail(stack[p]) \in Seq(Frames(req, p))
    BY <2>1, TopTyped
  <2>3. f.rest \in Seq(Owned(p))
    BY <2>2 DEF Frames
  <2>4. r \in Owned(p) /\ Tail(f.rest) \in Seq(Owned(p))
    BY <2>1, <2>3, HeadTailProperties
  <2>5. g \in Frames(req, p)
    BY <2>2, <2>4, FrameTyped DEF Frames
  <2>6. r \in Requests /\ req[r].operation_number \in Nat
    BY <2>4, OwnedTyped, FieldsTyped
  <2>7. \/ SearchPeer(req, p, r, <<g>> \o Tail(stack[p]))
        \/ /\ req[r].type = "rdma" /\ req' = Fetch(req, r, req[r].operation_number)
           /\ Go(p, g) /\ payload' = payload
        \/ req' = SetBackup(req, r, "null") /\ Go(p, g) /\ payload' = payload
        \/ req' = req /\ Go(p, g) /\ payload' = payload
    BY <1>3, Zenon DEF ProgressNext, SetBackup
  <2> HIDE DEF f, r, g
  <2>8. CASE SearchPeer(req, p, r, <<g>> \o Tail(stack[p]))
    BY <2>2, <2>4, <2>5, <2>8, EntersTyped, SearchPeerTyped
  <2>9. CASE /\ req[r].type = "rdma" /\ req' = Fetch(req, r, req[r].operation_number)
             /\ Go(p, g) /\ payload' = payload
    BY <2>1, <2>5, <2>6, <2>9, PeerTyped, MovedTyped, GoTyped
  <2>10. CASE req' = SetBackup(req, r, "null") /\ Go(p, g) /\ payload' = payload
    BY <2>1, <2>5, <2>6, <2>10, SetTyped, GoTyped
  <2>11. CASE req' = req /\ Go(p, g) /\ payload' = payload
    BY <2>1, <2>5, <2>11, GoTyped
  <2> QED
    BY <2>7, <2>8, <2>9, <2>10, <2>11
<1> QED
  BY <1>1, <1>2, <1>3

LEMMA InitRequestTyped ==
  ASSUME TypeInv, NEW p \in Process, InitRequest(p)
  PROVE  Typed(p)
<1> DEFINE r == Call(p).on
           new == [Cleared("search") EXCEPT !.infoSend = "pending"]
<1>1. r \in Owned(p) /\ r \in Requests
  BY OwnedCall, OwnedTyped DEF InitRequest, Calls, Collective, TypeInv
<1>2. req' = [req EXCEPT ![r] = new] /\ payload' = payload /\ Return(p)
  BY DEF InitRequest
<1>3. new \in MPIOPT_Request /\ new.type = "search"
  BY ClearedTyped DEF MPIOPT_Request
<1> HIDE DEF r, new
<1>4. Table(req') /\ \A x \in Requests : x # r => req'[x] = req[x]
  BY <1>1, <1>2, <1>3, TypeFacts DEF Table
<1>5. \A q \in Process \ {p} : r \notin Owned(q)
  BY <1>1 DEF Owned
<1>6. \A q \in Process : Owned(q) \subseteq Requests
  BY DEF Owned
<1>7. <<>> \in Seq(Frames(req', p)) /\ stack' = [stack EXCEPT ![p] = <<>>]
  BY <1>2 DEF Return
<1> QED
  BY <1>2, <1>4, <1>5, <1>6, <1>7, TypeFacts DEF Typed

LEMMA PutFlagTyped ==
  ASSUME TypeInv, NEW r \in Requests, PutFlag(r)
  PROVE  Alike(req, req')
<1> DEFINE q == req[r].remote
           n == Head(req[r].puts)
<1>1. Table(req) /\ n \in Nat /\ Tail(req[r].puts) \in Seq(Nat)
  BY TypeFacts, FieldsTyped, HeadTailProperties DEF PutFlag
<1>2. CASE q \in Requests
  <2>1. req' = SetPuts(SetFlag(req, q, n), r, Tail(req[r].puts))
    BY <1>1, <1>2 DEF PutFlag, SetFlag, SetPuts, Table, MPIOPT_Request
  <2>2. Alike(req, SetFlag(req, q, n))
    BY <1>1, <1>2, SetTyped
  <2> HIDE DEF q, n
  <2> QED
    BY <1>1, <2>1, <2>2, SetTyped, AlikeKeeps, AlikeTransitive
<1>3. CASE q \notin Requests
  <2>1. req' = SetPuts(req, r, Tail(req[r].puts))
    BY <1>1, <1>3 DEF PutFlag, SetPuts, Table
  <2> QED
    BY <1>1, <2>1, SetTyped
<1> QED
  BY <1>2, <1>3

LEMMA InitTypeInv == Init => TypeInv
<1> SUFFICES ASSUME Init PROVE TypeInv
  OBVIOUS
<1>1. \A p : <<>> \in Seq(Owned(p)) /\ <<>> \in Seq(Frames(req, p))
  OBVIOUS
<1>2. Table(req)
  BY ClearedTyped DEF Init, Table
<1>3. list \in [Process -> Seq(Requests)] /\ payload \in [Channels -> Messages]
  BY DEF Init, Messages
<1> QED
  BY <1>1, <1>2, <1>3, InitIInv DEF Init, TypeInv

\* The list of a request's own process changes, and what is freed.
LEMMA ListTyped ==
  ASSUME TypeInv, NEW p \in Process, Step(p)
  PROVE  /\ freed' \subseteq Requests
         /\ \/ list' = list
            \/ \E l \in Seq(Owned(p)) : list' = [list EXCEPT ![p] = l]
<1>1. freed \subseteq Requests /\ list[p] \in Seq(Owned(p))
  BY DEF TypeInv
<1>2. CASE InitRequest(p) \/ FreeRequest(p)
  <2>1. Call(p).on \in Owned(p) /\ Call(p).on \in Requests
    BY <1>2, OwnedCall, OwnedTyped
       DEF InitRequest, FreeRequest, Calls, Collective, TypeInv
  <2>2. /\ <<Call(p).on>> \o list[p] \in Seq(Owned(p))
        /\ Others(p, Call(p).on) \in Seq(Owned(p))
    BY <1>1, <2>1, OthersTyped, EntersTyped
  <2> QED
    BY <1>1, <1>2, <2>1, <2>2 DEF InitRequest, FreeRequest
<1>3. CASE Finalize(p)
  BY <1>1, <1>3 DEF Finalize
<1>4. CASE ~ (InitRequest(p) \/ FreeRequest(p) \/ Finalize(p))
  <2>1. list' = list /\ freed' = freed
    BY <1>4, Zenon DEF Step, StartRdma, StartOrdinary, StartSearching, PostFirst,
       Wait, WaitSendProbe, WaitSendTest, WaitSendEnd, WaitRecvLook, WaitRecvProbe,
       WaitRecvDecide, WaitRecvTest, WaitRecvEnd, WaitFlush, WaitFlagRound, WaitFlagEnd,
       WaitCrosstalk, WaitFetched, WaitOrdinary, BlockRound, BlockEnd, ProgressNext, Barrier
  <2> QED
    BY <1>1, <2>1
<1> QED
  BY <1>2, <1>3, <1>4

LEMMA StepTyped ==
  ASSUME TypeInv, NEW p \in Process, Step(p)
  PROVE  Typed(p)
<1>1. CASE FreeRequest(p) \/ Finalize(p) \/ Barrier(p)
  BY <1>1, TypeFacts, ReturnTyped DEF FreeRequest, Finalize, Barrier
<1> QED
  BY <1>1, InitRequestTyped, StartTyped, WaitTyped, WaitRdmaTyped, ProgressTyped DEF Step

LEMMA NextTypeInv == TypeInv /\ [Next]_vars => TypeInv'
<1> SUFFICES ASSUME TypeInv, [Next]_vars PROVE TypeInv'
  OBVIOUS
<1>1. IInv' /\ deployment' = deployment
  <2>1. deployment' = deployment
    BY CallsStep DEF TypeInv, Next, PutFlag, AllEnded, vars
  <2> QED
    BY <2>1, NextIInv DEF TypeInv
<1>2. ASSUME Table(req'), freed' \subseteq Requests, payload' \in [Channels -> Messages],
             list' \in [Process -> Seq(Requests)],
             \A p \in Process : list'[p] \in Seq(Owned(p)),
             DOMAIN stack' = Process, stack' = [p \in Process |-> stack'[p]],
             \A p \in Process : stack'[p] \in Seq(Frames(req', p))
      PROVE  TypeInv'
  <2>1. Requests' = Requests /\ Channels' = Channels
    BY <1>1 DEF Requests, Channels, ChannelOf
  <2>2. MPIOPT_Request' = MPIOPT_Request /\ Messages' = Messages
    BY <2>1 DEF MPIOPT_Request, Messages
  <2>3. ASSUME NEW p PROVE Owned(p)' = Owned(p)
    BY <1>1, <2>1 DEF Owned, ChannelOf, SideOf
  <2>4. ASSUME NEW p PROVE Frames(req, p)' = Frames(req', p)
    BY <2>3 DEF Frames
  <2>5. Table(req)'
    BY <1>2, <2>1, <2>2 DEF Table
  <2> QED
    BY <1>1, <1>2, <2>1, <2>2, <2>3, <2>4, <2>5 DEF TypeInv
<1>3. ASSUME NEW p \in Process, Step(p) PROVE TypeInv'
  <2>1. Typed(p)
    BY <1>3, StepTyped
  <2>2. PICK fs \in Seq(Frames(req', p)) : stack' = [stack EXCEPT ![p] = fs]
    BY <2>1 DEF Typed
  <2>3. ASSUME NEW q \in Process \ {p} PROVE stack'[q] \in Seq(Frames(req', q))
    <3>1. Frames(req, q) \subseteq Frames(req', q)
      BY <2>1 DEF Typed, Frames
    <3> QED
      BY <2>2, <3>1, SeqMonotonic DEF TypeInv
  <2>4. /\ DOMAIN stack' = Process /\ stack' = [q \in Process |-> stack'[q]]
        /\ stack'[p] \in Seq(Frames(req', p))
    BY <2>2 DEF TypeInv
  <2>5. \A q \in Process : Owned(q) \subseteq Requests
    BY DEF Owned
  <2>6. /\ list' \in [Process -> Seq(Requests)]
        /\ \A q \in Process : list'[q] \in Seq(Owned(q))
    <3>1. PICK l \in Seq(Owned(p)) : list' = list \/ list' = [list EXCEPT ![p] = l]
      BY <1>3, ListTyped DEF TypeInv
    <3>2. l \in Seq(Requests)
      BY <2>5, SeqMonotonic
    <3> QED
      BY <3>1, <3>2 DEF TypeInv
  <2> QED
    BY <1>2, <1>3, <2>1, <2>3, <2>4, <2>6, ListTyped DEF Typed
<1>4. ASSUME NEW r \in Requests, PutFlag(r) PROVE TypeInv'
  <2>1. Table(req') /\ Keeps(req, req')
    BY <1>4, PutFlagTyped, AlikeKeeps
  <2>2. \A p \in Process : stack[p] \in Seq(Frames(req', p))
    BY <2>1, FramesKept DEF TypeInv
  <2> QED
    BY <1>2, <1>4, <2>1, <2>2 DEF PutFlag, TypeInv
<1>5. CASE AllEnded \/ UNCHANGED vars
  <2>1. /\ req' = req /\ list' = list /\ freed' = freed
        /\ stack' = stack /\ payload' = payload
    BY <1>5 DEF AllEnded, vars
  <2> QED
    BY <1>2, <2>1 DEF TypeInv
<1> QED
  BY <1>3, <1>4, <1>5 DEF Next

(***************************************************************************)
(* Whatever an application calls, and however its calls nest: a process    *)
(* progresses and waits for its own requests only, and RDMA goes to a      *)
(* request whose addresses are held.  The latter is no matter of types     *)
(* alone: a call that transfers must not lose the peer it began with.      *)
(***************************************************************************)
THEOREM TypeCorrect == Spec => []TypeOK
<1>1. TypeInv => TypeOK
  <2> SUFFICES ASSUME TypeInv PROVE TypeOK
    OBVIOUS
  <2>1. ASSUME NEW p \in Process
        PROVE  stack[p] \in Seq([req : Requests, at : Places, rest : Seq(Requests)])
    <3>1. Owned(p) \subseteq Requests
      BY DEF Owned
    <3>2. Seq(Owned(p)) \subseteq Seq(Requests)
      BY <3>1, SeqMonotonic
    <3>3. Frames(req, p) \subseteq [req : Requests, at : Places, rest : Seq(Requests)]
      BY <3>1, <3>2 DEF Frames
    <3>4. stack[p] \in Seq(Frames(req, p))
      BY DEF TypeInv
    <3> HIDE DEF Frames
    <3> QED
      BY <3>3, <3>4, SeqMonotonic
  <2> QED
    BY <2>1 DEF TypeOK, TypeInv, Table, IInv, Sound, InfoSound, Messages
<1> QED
  BY <1>1, InitTypeInv, NextTypeInv, PTL DEF Spec

-----------------------------------------------------------------------------
(***************************************************************************)
(* One channel: what is true of its two requests and of the messages and   *)
(* flags between them while the application uses them as MPI demands, and  *)
(* how the operations on a request keep it true.                           *)
(*                                                                         *)
(* It is not needed that both sides settle on the same protocol: a side    *)
(* that uses RDMA alone waits for ever, but is never given a wrong message.*)
(***************************************************************************)

(* The applications. *)

\* How often the process of request r makes a call on it before position i.
Times(d, r, do, i) ==
  LET calls == d.program[Owner(d.requests[r].channel, d.requests[r].side)] IN
  Cardinality({j \in 1 .. i - 1 : calls[j].do = do /\ calls[j].on = r})

\* A request is initialised before it is started, and its starts and waits take
\* turns.
UsedInTurn ==
  \A d \in Deployments : \A p \in Process : \A i \in 1 .. Len(d.program[p]) :
    LET do == d.program[p][i].do
        r  == d.program[p][i].on
    IN /\ do = "init"  => Times(d, r, "start", i) = 0
       /\ do = "start" => Times(d, r, "start", i) = Times(d, r, "wait", i)
       /\ do = "wait"  => Times(d, r, "start", i) = Times(d, r, "wait", i) + 1

-----------------------------------------------------------------------------
(* Where a process is in its call: the frames of the calls that nest in it *)
(* are on top of its own.                                                  *)

OwnerOf(r) == Owner(ChannelOf(r), SideOf(r))
Made(r, do) == Times(deployment, r, do, next[OwnerOf(r)])

Bottom(p) == stack[p][Len(stack[p])]
InCall(p) == stack[p] # <<>>

\* Requests that are in their first start, those whose operations have all
\* returned, and those whose wait has nothing left to do.
Starting == {r \in Requests : LET p == OwnerOf(r) IN
               InCall(p) /\ Bottom(p).req = r /\ Bottom(p).at = "post"}
Idle == {r \in Requests : r \notin Starting /\ Made(r, "start") = Made(r, "wait")}
Fetched == {r \in Requests : LET p == OwnerOf(r) IN
              InCall(p) /\ Bottom(p).req = r /\ Bottom(p).at = "fetched"}
Settled == Idle \union Fetched

SendPlaces == {"probe", "test", "sent"}
RecvPlaces == {"look", "again", "last", "decide"}
Ordinary == {"fallback", "plain"}

\* What a request is like at a place of a call on it.
Fits(rq, r, at) ==
  LET x == rq[r] IN
  CASE at = "post" -> x.type = "search" /\ x.operation_number = 1
    [] at \in SendPlaces -> /\ SideOf(r) = "S" /\ x.type \in {"search", "rdma"}
                            /\ x.operation_number = 1
                            /\ at = "sent" => x.backup # "pending"
    [] at \in RecvPlaces -> SideOf(r) = "R" /\ x.type = "search" /\ x.operation_number = 1
    [] at \in {"receive", "received"} ->
                            /\ SideOf(r) = "R" /\ x.type \in {"rdma", "fallback"}
                            /\ x.operation_number = 1
                            /\ at = "received" => x.backup # "pending"
    [] at \in {"flush", "flag"} -> x.type = "rdma"
    [] at = "fetched" -> SideOf(r) = "R" /\ x.type = "rdma"
    [] at = "mpi_wait" -> x.type \in Ordinary
    [] OTHER -> FALSE

\* A process is in the call of its program that the outermost frame of its stack
\* belongs to, all others being blocks nested in it.
PlaceInv ==
  \A p \in Process :
    /\ next[p] <= Len(Program(p)) + 1
    /\ InCall(p) =>
         /\ ~Ended(p)
         /\ \A i \in 1 .. Len(stack[p]) - 1 : stack[p][i].at = "block"
         /\ Bottom(p).req = Call(p).on
         /\ Call(p).do = IF Bottom(p).at = "post" THEN "start" ELSE "wait"
         /\ Fits(req, Bottom(p).req, Bottom(p).at)

\* The operation number counts the starts.
CountInv ==
  \A r \in Requests :
    req[r].operation_number = Made(r, "start") + IF r \in Starting THEN 1 ELSE 0

-----------------------------------------------------------------------------
(* What a channel is like, from the table of requests rq, the unexpected   *)
(* messages pl, the requests st that are starting and dn that are settled. *)

Ends(c, s) == {r \in Requests : ChannelOf(r) = c /\ SideOf(r) = s}

\* A request that has not seen the message of its operation, if ordinary.
Awaiting(x) == \/ x.backup = "pending"
               \/ x.type = "search" /\ x.backup = "null" /\ x.operation_number = 1

\* The receive takes messages, not flags.
Messaging(x) == x.type = "rdma" => x.operation_number <= 1

\* An end x of a channel, starting or settled: the first operation is the one
\* that searches for the peer.
EndInv(x, starting, settled) ==
  /\ x.type = "new" => x.operation_number = 0
  /\ x.type = "search" => x.operation_number <= 1 /\ (settled => x.operation_number = 0)
  /\ x.type = "search" /\ x.operation_number = 0 => x.backup = "null"
  /\ x.type = "rdma" => x.operation_number >= 1
  /\ starting => x.type = "search" /\ x.operation_number = 1

\* A send buffer holds the message of the operation.
SendInv(x, starting, settled) ==
  /\ EndInv(x, starting, settled)
  /\ x.buf = x.operation_number

\* The message in the buffer is that of the operation, or of the one before.
RecvInv(x, msgs, starting, settled) ==
  /\ EndInv(x, starting, settled)
  /\ Messaging(x) => x.operation_number = x.buf + IF Awaiting(x) THEN 1 ELSE 0
  /\ Messaging(x) => \A i \in 1 .. Len(msgs) : msgs[i].n = x.buf + i
  /\ x.backup = "pending" => Messaging(x) /\ msgs = <<>>
  /\ x.operation_number \in {x.buf, x.buf + 1}
  /\ settled => x.operation_number = x.buf

\* Flags that the receiver may have told its peer, in operation n and with
\* message b in its buffer.
ToldByRecv(b, n) == {0} \union {e \in 5 .. 2 * b + 3 : e = 2 * b + 3 => n = b + 1}

\* Flags that the sender may have told its peer, in operation n.
ToldBySend(b, n) == ToldByRecv(b, n) \ {2 * b + 1}

\* The messages the sender x has sent.
Sent(x, starting) ==
  IF starting THEN 0 ELSE IF x.type = "rdma" THEN 1 ELSE x.operation_number

\* The sender x and the receiver y: what x has sent is in the buffer of y or on
\* its way, a first message that x has got rid of has arrived, and with RDMA x
\* is at most one operation ahead.
PairInv(x, y, msgs, starting, settled) ==
  /\ Messaging(y) => y.buf + Len(msgs) = Sent(x, starting)
  /\ y.buf <= x.operation_number
  /\ starting => y.buf = 0
  /\ x.type \in {"search", "rdma"} /\ x.operation_number = 1 /\ x.backup # "pending" =>
       starting \/ y.buf >= 1
  /\ x.type = "rdma" => x.operation_number <= y.buf + 1
  /\ x.type = "rdma" /\ settled => x.operation_number <= y.buf

\* No flag, set or on its way, says more than is true: that the peer is ready in
\* its present operation or has been through one that is complete.
FlagInv(x, y) ==
  /\ x.type # "rdma" => x.puts = <<>> /\ y.flag = 0
  /\ y.type # "rdma" => y.puts = <<>> /\ x.flag = 0
  /\ x.flag \in ToldByRecv(y.buf, y.operation_number)
  /\ \A i \in 1 .. Len(y.puts) : y.puts[i] \in ToldByRecv(y.buf, y.operation_number)
  /\ y.flag \in ToldBySend(y.buf, x.operation_number)
  /\ \A i \in 1 .. Len(x.puts) : x.puts[i] \in ToldBySend(y.buf, x.operation_number)
  /\ y.flag = 2 * y.buf + 3 => x.puts = <<>>
  /\ \A i \in 1 .. Len(x.puts) - 1 : x.puts[i] # 2 * y.buf + 3

\* All of it, for the requests that the channel has on either side.
ChannelInv(c, rq, pl, st, dn) ==
  /\ \A i \in 1 .. Len(pl[c]) : pl[c][i].from \in Ends(c, "S")
  /\ \A s \in Ends(c, "S") : SendInv(rq[s], s \in st, s \in dn)
  /\ \A r \in Ends(c, "R") : RecvInv(rq[r], pl[c], r \in st, r \in dn)
  /\ \A r \in Ends(c, "R") : Ends(c, "S") = {} => rq[r].buf = 0 /\ rq[r].flag = 0
  /\ \A s \in Ends(c, "S"), r \in Ends(c, "R") :
       /\ PairInv(rq[s], rq[r], pl[c], s \in st, s \in dn)
       /\ FlagInv(rq[s], rq[r])

MpiInv == /\ TypeInv
          /\ PlaceInv
          /\ CountInv
          /\ \A c \in Channels : ChannelInv(c, req, payload, Starting, Settled)
-----------------------------------------------------------------------------
(* What the operations do to the two ends of a channel.                    *)

Rec(x) == /\ x.type \in Types /\ x.backup \in {"null", "pending", "done"}
          /\ x.operation_number \in Nat /\ x.flag \in Nat /\ x.buf \in Nat
          /\ x.puts \in Seq(Nat)

\* Parts of a request that the channel is about.
SameCalls(x, z) == /\ z.type = x.type /\ z.operation_number = x.operation_number
                   /\ z.buf = x.buf /\ z.backup = x.backup
SameFlags(x, z) == z.flag = x.flag /\ z.puts = x.puts
Same(x, z) == SameCalls(x, z) /\ SameFlags(x, z)

\* A flag e is added to the puts s.
LEMMA PutsAppended ==
  ASSUME NEW s \in Seq(Nat), NEW e \in Nat, NEW A, NEW B,
         \A i \in 1 .. Len(s) : s[i] \in A, \A z \in A : z \in B, e \in B
  PROVE  \A i \in 1 .. Len(Append(s, e)) : Append(s, e)[i] \in B
<1>1. Len(s) \in Nat /\ Len(Append(s, e)) = Len(s) + 1
  BY AppendProperties
<1>2. \A i \in 1 .. Len(s) + 1 : Append(s, e)[i] = IF i = Len(s) + 1 THEN e ELSE s[i]
  BY AppendProperties, <1>1
<1> QED
  BY <1>1, <1>2

\* The others are what they were.
LEMMA PutsBefore ==
  ASSUME NEW s \in Seq(Nat), NEW e \in Nat, NEW A, NEW v,
         \A i \in 1 .. Len(s) : s[i] \in A, v \notin A
  PROVE  \A i \in 1 .. Len(Append(s, e)) - 1 : Append(s, e)[i] # v
<1>1. Len(s) \in Nat /\ Len(Append(s, e)) = Len(s) + 1
  BY AppendProperties
<1>2. \A i \in 1 .. Len(s) : Append(s, e)[i] = s[i]
  BY AppendProperties, <1>1
<1> QED
  BY <1>1, <1>2

\* The oldest put is carried out.
LEMMA Beheaded ==
  ASSUME NEW T, NEW s \in Seq(T), s # <<>>
  PROVE  /\ 1 \in 1 .. Len(s) /\ Head(s) = s[1]
         /\ \A i \in 1 .. Len(Tail(s)) : i + 1 \in 1 .. Len(s) /\ Tail(s)[i] = s[i + 1]
         /\ \A i \in 1 .. Len(Tail(s)) - 1 : i + 1 \in 1 .. Len(s) - 1 /\ Tail(s)[i] = s[i + 1]
         /\ Tail(s) = <<>> \/ 1 \in 1 .. Len(s) - 1
<1>1. Len(s) \in Nat /\ Len(s) # 0
  BY EmptySeq
<1>2. /\ Head(s) = s[1] /\ Len(Tail(s)) = Len(s) - 1
      /\ \A i \in 1 .. Len(s) - 1 : Tail(s)[i] = s[i + 1]
  BY <1>1, HeadTailProperties
<1>3. Tail(s) = <<>> \/ Len(s) - 1 >= 1
  <2>1. Tail(s) \in Seq(T)
    BY HeadTailProperties
  <2>2. Len(Tail(s)) = 0 => Tail(s) = <<>>
    BY <2>1, EmptySeq
  <2> QED
    BY <1>1, <1>2, <2>2
<1> QED
  BY <1>1, <1>2, <1>3

\* What has been told stays true when the next message has arrived,
LEMMA ToldLater ==
  ASSUME NEW b \in Nat, NEW n, NEW e \in ToldByRecv(b, n), NEW c \in Nat, c > b, NEW k
  PROVE  e \in ToldByRecv(c, k)
  BY DEF ToldByRecv

\* ... or the next operation begins.
LEMMA ToldBefore ==
  ASSUME NEW b \in Nat, NEW n, n = b, NEW k
  PROVE  /\ \A e \in ToldByRecv(b, n) : e \in ToldByRecv(b, k)
         /\ \A e \in ToldBySend(b, n) : /\ e \in Nat /\ e <= 2 * b + 2
                                        /\ e \in ToldBySend(b, k) /\ e \in ToldBySend(b + 1, k)
  BY DEF ToldByRecv, ToldBySend

\* A side in operation b has not been told that the peer is ready for the next.
LEMMA NotTold ==
  ASSUME NEW b \in Nat
  PROVE  2 * b + 3 \notin ToldByRecv(b, b) /\ 2 * b + 3 \notin ToldBySend(b, b)
  BY DEF ToldByRecv, ToldBySend

\* It may be told that the peer is ready for it,
LEMMA ToldReady ==
  ASSUME NEW b \in Nat, b >= 1
  PROVE  2 * (b + 1) + 1 \in ToldByRecv(b, b + 1) /\ 2 * (b + 1) + 1 \in ToldBySend(b, b + 1)
  BY DEF ToldByRecv, ToldBySend

\* ... or that the transfer is done.
LEMMA ToldDone ==
  ASSUME NEW b \in Nat, b >= 2, NEW n
  PROVE  2 * b + 2 \in ToldByRecv(b, n) /\ 2 * b + 2 \in ToldBySend(b, n)
  BY DEF ToldByRecv, ToldBySend

\* What the flag of the operation, or of the next one, says.
LEMMA ReadyTold ==
  ASSUME NEW b \in Nat, NEW n, NEW k \in Nat
  PROVE  /\ 2 * k + 1 \in ToldByRecv(b, n) /\ k > b => k = b + 1 /\ n = k /\ k >= 2
         /\ 2 * k + 1 \in ToldBySend(b, n) /\ k >= b => k = b + 1 /\ n = k /\ k >= 2
  BY DEF ToldByRecv, ToldBySend

\* Flags are as true as before if the operations and messages are the same.
LEMMA FlagsStay ==
  ASSUME NEW x, NEW y, NEW x2, NEW y2, Rec(x), Rec(y), FlagInv(x, y),
         SameFlags(x, x2), SameFlags(y, y2),
         y2.buf = y.buf /\ y2.type = y.type /\ x2.type = x.type,
         x2.operation_number = x.operation_number, y2.operation_number = y.operation_number
  PROVE  FlagInv(x2, y2)
  BY DEF FlagInv, SameFlags, ToldByRecv, ToldBySend, Rec

\* A receive that takes messages moves on.
LEMMA FlagsOfMessages ==
  ASSUME NEW x, NEW y, NEW x2, NEW y2, Rec(x), Rec(y), Rec(x2), Rec(y2),
         FlagInv(x, y), SameFlags(x, x2), SameFlags(y, y2),
         x.type # "rdma" \/ y.buf = 0,
         x.type = "rdma" => x2.type = "rdma",
         y.type = "rdma" => /\ y2.type = "rdma"
                            /\ \/ y2.buf > y.buf
                               \/ y2.operation_number = y.operation_number,
         y2.buf >= y.buf
  PROVE  FlagInv(x2, y2)
<1> USE DEF SameFlags, Rec
<1>1. ToldBySend(0, x.operation_number) = {0}
  BY DEF ToldBySend, ToldByRecv
<1>2. y.flag = 0 /\ \A i \in 1 .. Len(x.puts) : x.puts[i] = 0
  <2>1. CASE x.type # "rdma"
    <3>1. y.flag = 0 /\ x.puts = <<>>
      BY <2>1 DEF FlagInv
    <3> QED
      BY <3>1
  <2>2. CASE y.buf = 0
    BY <2>2, <1>1 DEF FlagInv
  <2> QED
    BY <2>1, <2>2
<1>3. ASSUME y.type = "rdma", NEW e \in ToldByRecv(y.buf, y.operation_number)
      PROVE  e \in ToldByRecv(y2.buf, y2.operation_number)
  <2>1. CASE y2.buf > y.buf
    BY <2>1, ToldLater
  <2>2. CASE ~(y2.buf > y.buf)
    <3>1. y2.buf = y.buf /\ y2.operation_number = y.operation_number
      BY <1>3, <2>2
    <3> QED
      BY <3>1
  <2> QED
    BY <2>1, <2>2
<1>4. x2.flag \in ToldByRecv(y2.buf, y2.operation_number) /\
      \A i \in 1 .. Len(y2.puts) : y2.puts[i] \in ToldByRecv(y2.buf, y2.operation_number)
  <2>1. CASE y.type = "rdma"
    BY <1>3, <2>1 DEF FlagInv
  <2>2. CASE y.type # "rdma"
    <3>1. x2.flag = 0 /\ y2.puts = <<>>
      BY <2>2 DEF FlagInv
    <3> QED
      BY <3>1 DEF ToldByRecv
  <2> QED
    BY <2>1, <2>2
<1>5. y2.flag \in ToldBySend(y2.buf, x2.operation_number) /\
      \A i \in 1 .. Len(x2.puts) : x2.puts[i] \in ToldBySend(y2.buf, x2.operation_number)
  <2>1. 0 \in ToldBySend(y2.buf, x2.operation_number)
    BY DEF ToldBySend, ToldByRecv
  <2> QED
    BY <1>2, <2>1
<1>6. 0 # 2 * y2.buf + 3 /\ Len(x2.puts) \in Nat
  OBVIOUS
<1>7. /\ y2.flag = 2 * y2.buf + 3 => x2.puts = <<>>
      /\ \A i \in 1 .. Len(x2.puts) - 1 : x2.puts[i] # 2 * y2.buf + 3
  <2>1. y2.flag # 2 * y2.buf + 3
    BY <1>2, <1>6
  <2>2. ASSUME NEW i \in 1 .. Len(x2.puts) - 1 PROVE x2.puts[i] # 2 * y2.buf + 3
    <3>1. i \in 1 .. Len(x.puts)
      BY <1>6
    <3>2. x2.puts[i] = 0
      BY <1>2, <3>1
    <3> QED
      BY <1>6, <3>2
  <2> QED
    BY <2>1, <2>2
<1>8. x2.type # "rdma" => x2.puts = <<>> /\ y2.flag = 0
  BY DEF FlagInv
<1>9. y2.type # "rdma" => y2.puts = <<>> /\ x2.flag = 0
  BY DEF FlagInv
<1> QED
  BY <1>4, <1>5, <1>7, <1>8, <1>9 DEF FlagInv

-----------------------------------------------------------------------------
(* Starts and messages. *)

\* The sender begins its first operation, and is not through with its start.
LEMMA SendFirst ==
  ASSUME NEW x, NEW y, NEW x2, NEW msgs, Rec(x), Rec(y), Len(msgs) \in Nat,
         SendInv(x, FALSE, TRUE), x.type = "search",
         x2.type = "search" /\ x2.operation_number = x.operation_number + 1,
         x2.buf = x2.operation_number,
         SameFlags(x, x2)
  PROVE  /\ SendInv(x2, TRUE, FALSE)
         /\ PairInv(x, y, msgs, FALSE, TRUE) => PairInv(x2, y, msgs, TRUE, FALSE)
         /\ FlagInv(x, y) => FlagInv(x2, y)
<1>1. x.operation_number = 0
  BY DEF SendInv, EndInv
<1>2. SendInv(x2, TRUE, FALSE)
  BY <1>1 DEF SendInv, EndInv
<1>3. PairInv(x, y, msgs, FALSE, TRUE) => PairInv(x2, y, msgs, TRUE, FALSE)
  BY <1>1 DEF PairInv, Sent, Rec
<1>4. FlagInv(x, y) => FlagInv(x2, y)
  BY <1>1 DEF FlagInv, SameFlags, ToldBySend, ToldByRecv, Rec
<1> QED
  BY <1>2, <1>3, <1>4

LEMMA RecvFirst ==
  ASSUME NEW x, NEW y, NEW y2, NEW msgs, Rec(x), Rec(y),
         RecvInv(y, msgs, FALSE, TRUE), y.type = "search",
         y2.type = "search" /\ y2.operation_number = y.operation_number + 1,
         y2.buf = y.buf /\ y2.backup = y.backup, SameFlags(y, y2),
         NEW sx, NEW dx
  PROVE  /\ RecvInv(y2, msgs, TRUE, FALSE)
         /\ PairInv(x, y, msgs, sx, dx) => PairInv(x, y2, msgs, sx, dx)
         /\ FlagInv(x, y) => FlagInv(x, y2)
<1>1. y.operation_number = 0 /\ y.backup = "null" /\ y.buf = 0
  BY DEF RecvInv, EndInv
<1>2. RecvInv(y2, msgs, TRUE, FALSE)
  BY <1>1 DEF RecvInv, EndInv, Messaging, Awaiting
<1>3. PairInv(x, y, msgs, sx, dx) => PairInv(x, y2, msgs, sx, dx)
  BY <1>1 DEF PairInv, Messaging
<1>4. FlagInv(x, y) => FlagInv(x, y2)
  BY <1>1 DEF FlagInv, SameFlags, ToldBySend, ToldByRecv, Rec
<1> QED
  BY <1>2, <1>3, <1>4

\* The sender x2 sends the message of its operation.
Sends(x, x2, starting) ==
  /\ x2.type = x.type /\ SameFlags(x, x2)
  /\ x2.buf = x2.operation_number
  /\ IF starting THEN x2.operation_number = x.operation_number
                 ELSE x.type \in Ordinary /\ x2.operation_number = x.operation_number + 1

LEMMA SenderSends ==
  ASSUME NEW x, NEW x2, Rec(x), NEW sx, NEW dx,
         SendInv(x, sx, dx), Sends(x, x2, sx)
  PROVE  SendInv(x2, FALSE, FALSE)
  BY DEF SendInv, EndInv, Sends, Ordinary, Rec

\* ... into the buffer of a receive that is posted,
LEMMA SendToPosted ==
  ASSUME NEW x, NEW y, NEW x2, NEW y2, NEW msgs, Rec(x), Rec(y), Rec(x2), Rec(y2),
         NEW sx, NEW dx, NEW sy, NEW dy,
         SendInv(x, sx, dx), RecvInv(y, msgs, sy, dy), PairInv(x, y, msgs, sx, dx),
         FlagInv(x, y), Sends(x, x2, sx), y.backup = "pending",
         y2.type = y.type /\ y2.operation_number = y.operation_number,
         y2.buf = x2.buf /\ y2.backup = "done", SameFlags(y, y2)
  PROVE  /\ RecvInv(y2, msgs, sy, dy)
         /\ PairInv(x2, y2, msgs, FALSE, FALSE)
         /\ FlagInv(x2, y2)
<1>1. Messaging(y) /\ msgs = <<>> /\ y.operation_number = y.buf + 1 /\ ~dy
  BY DEF RecvInv, Awaiting, Rec
<1>2. x2.buf = y.operation_number /\ x.type # "rdma"
  BY <1>1 DEF PairInv, Sends, Sent, SendInv, EndInv, Ordinary, Rec
<1>3. RecvInv(y2, msgs, sy, dy)
  BY <1>1, <1>2 DEF RecvInv, EndInv, Messaging, Awaiting, Rec
<1>4. PairInv(x2, y2, msgs, FALSE, FALSE)
  BY <1>1, <1>2 DEF PairInv, Sends, Sent, Messaging, Rec
<1>5. FlagInv(x2, y2)
  <2>1. y2.buf = y.buf + 1 /\ y2.buf > y.buf /\ y2.buf >= y.buf
    BY <1>1, <1>2 DEF Rec
  <2>2. SameFlags(x, x2)
    BY DEF Sends
  <2> QED
    BY <1>2, <2>1, <2>2, FlagsOfMessages
<1> QED
  BY <1>3, <1>4, <1>5

\* ... or to wait for the receive.
LEMMA SendAhead ==
  ASSUME NEW x, NEW y, NEW x2, NEW msgs, NEW m, Rec(x), Rec(y), Rec(x2),
         NEW T, msgs \in Seq(T), m \in T,
         NEW sx, NEW dx, NEW sy, NEW dy,
         SendInv(x, sx, dx), RecvInv(y, msgs, sy, dy), PairInv(x, y, msgs, sx, dx),
         FlagInv(x, y), Sends(x, x2, sx), y.backup # "pending",
         x2.type = "search" => x2.backup = "pending",
         m.n = x2.buf
  PROVE  /\ RecvInv(y, Append(msgs, m), sy, dy)
         /\ PairInv(x2, y, Append(msgs, m), FALSE, FALSE)
         /\ FlagInv(x2, y)
<1> DEFINE new == Append(msgs, m)
<1>1. /\ Len(msgs) \in Nat /\ Len(new) = Len(msgs) + 1
      /\ \A i \in 1 .. Len(new) : new[i] = IF i = Len(new) THEN m ELSE msgs[i]
  BY AppendProperties
<1> HIDE DEF new
<1>2. Messaging(y) => x2.buf = y.buf + Len(new)
  <2>1. CASE sx
    <3>1. x2.buf = 1 /\ Sent(x, sx) = 0
      BY <2>1 DEF Sends, Sent, SendInv, EndInv
    <3> QED
      BY <1>1, <3>1 DEF PairInv, Rec
  <2>2. CASE ~sx
    <3>1. x2.buf = Sent(x, sx) + 1 /\ Sent(x, sx) \in Nat
      BY <2>2 DEF Sends, Sent, Ordinary, Rec
    <3> QED
      BY <1>1, <3>1 DEF PairInv, Rec
  <2> QED
    BY <2>1, <2>2
<1>3. RecvInv(y, new, sy, dy)
  <2>1. Messaging(y) => \A i \in 1 .. Len(new) : new[i].n = y.buf + i
    <3> SUFFICES ASSUME Messaging(y), NEW i \in 1 .. Len(new) PROVE new[i].n = y.buf + i
      OBVIOUS
    <3>1. CASE i = Len(new)
      BY <1>1, <1>2, <3>1
    <3>2. CASE i # Len(new)
      <4>1. i \in 1 .. Len(msgs) /\ new[i] = msgs[i]
        BY <1>1, <3>2
      <4> QED
        BY <4>1 DEF RecvInv
    <3> QED
      BY <3>1, <3>2
  <2> QED
    BY <2>1 DEF RecvInv
<1>4. PairInv(x2, y, new, FALSE, FALSE)
  <2>1. Messaging(y) => y.buf + Len(new) = Sent(x2, FALSE)
    BY <1>2 DEF Sends, Sent, SendInv, EndInv, Ordinary
  <2>2. y.buf <= x2.operation_number
    BY DEF PairInv, Sends, Rec
  <2> QED
    BY <2>1, <2>2 DEF PairInv, Sends, SendInv, EndInv, Ordinary
<1>5. FlagInv(x2, y)
  <2>1. x.type # "rdma"
    BY DEF Sends, SendInv, EndInv, Ordinary
  <2> QED
    BY <2>1, FlagsOfMessages DEF Sends, Rec, SameFlags
<1> QED
  BY <1>3, <1>4, <1>5 DEF new

\* The receive y2, with y before it, is posted: it takes the next message,
Takes(y, y2) ==
  /\ y2.type = "rdma" => y2.operation_number = 1
  /\ y.type = "rdma" => y2.type = "rdma"
  /\ \/ y2.type \in {"fallback", "plain", "rdma"}
     \/ y2.type = "search" /\ y2.operation_number = 1
  /\ y2.operation_number = y.buf + 1
  /\ Messaging(y) /\ SameFlags(y, y2)
  /\ y.operation_number = y.buf => y.type # "rdma"

LEMMA RecvTakes ==
  ASSUME NEW y, NEW y2, NEW msgs, Rec(y), Rec(y2), NEW T, msgs \in Seq(T), msgs # <<>>,
         NEW sy, NEW dy, NEW s2,
         RecvInv(y, msgs, sy, dy), Takes(y, y2),
         s2 => y2.type = "search",
         y2.backup = "done", y2.buf = Head(msgs).n
  PROVE  y2.buf = y.buf + 1 /\ RecvInv(y2, Tail(msgs), s2, FALSE)
<1>1. /\ 1 \in 1 .. Len(msgs) /\ Head(msgs) = msgs[1]
      /\ Len(msgs) \in Nat /\ Len(Tail(msgs)) = Len(msgs) - 1
      /\ \A i \in 1 .. Len(Tail(msgs)) : i + 1 \in 1 .. Len(msgs) /\ Tail(msgs)[i] = msgs[i + 1]
  BY HeadTailProperties
<1>2. y2.buf = y.buf + 1
  BY <1>1 DEF RecvInv, Takes, Rec
<1>3. \A i \in 1 .. Len(Tail(msgs)) : Tail(msgs)[i].n = y2.buf + i
  <2> TAKE i \in 1 .. Len(Tail(msgs))
  <2>1. msgs[i + 1].n = y.buf + (i + 1) /\ Tail(msgs)[i] = msgs[i + 1]
    BY <1>1 DEF RecvInv, Takes
  <2> QED
    <3>1. y.buf \in Nat /\ i \in Nat
      BY <1>1 DEF Rec
    <3>2. Tail(msgs)[i].n = y.buf + (i + 1)
      BY <2>1
    <3>3. y2.buf + i = y.buf + (i + 1)
      BY <1>2, <3>1
    <3> QED
      BY <3>2, <3>3
<1>4. EndInv(y2, s2, FALSE)
  BY DEF EndInv, Takes, Rec
<1>5. ~Awaiting(y2)
  BY DEF Awaiting
<1>6. RecvInv(y2, Tail(msgs), s2, FALSE)
  <2>1. y2.operation_number = y2.buf /\ y2.operation_number \in {y2.buf, y2.buf + 1}
    BY <1>2 DEF Takes
  <2>2. y2.operation_number = y2.buf + 0
    BY <2>1 DEF Rec
  <2> QED
    BY <1>3, <1>4, <1>5, <2>1, <2>2 DEF RecvInv
<1> QED
  BY <1>2, <1>6

LEMMA PairTakes ==
  ASSUME NEW x, NEW y, NEW x2, NEW y2, NEW msgs,
         Rec(x), Rec(y), Rec(x2), Rec(y2), NEW T, msgs \in Seq(T), msgs # <<>>,
         NEW sx, NEW dx,
         SendInv(x, sx, dx), PairInv(x, y, msgs, sx, dx), FlagInv(x, y), Takes(y, y2),
         y2.buf = y.buf + 1,
         x2.type = x.type /\ x2.operation_number = x.operation_number /\ x2.buf = x.buf,
         SameFlags(x, x2), x2.backup = x.backup \/ x.backup = "pending"
  PROVE  /\ SendInv(x2, sx, dx)
         /\ PairInv(x2, y2, Tail(msgs), sx, dx)
         /\ FlagInv(x2, y2)
<1>1. Len(msgs) \in Nat \ {0} /\ Len(Tail(msgs)) = Len(msgs) - 1
  BY HeadTailProperties, EmptySeq
<1>2. y.buf + Len(msgs) = Sent(x, sx)
  BY DEF PairInv, Takes
<1>3. ~sx /\ (x.type = "rdma" => y.buf = 0)
  BY <1>1, <1>2 DEF Sent, Rec
<1>4. SendInv(x2, sx, dx)
  BY DEF SendInv, EndInv
<1>5. PairInv(x2, y2, Tail(msgs), sx, dx)
  <2>1. Sent(x2, sx) = Sent(x, sx) /\ y2.buf + Len(Tail(msgs)) = Sent(x, sx)
    BY <1>1, <1>2 DEF Sent, Rec
  <2>2. y2.buf <= x2.operation_number
    BY <1>1, <1>2, <1>3 DEF Sent, Rec, SendInv, EndInv
  <2> QED
    BY <1>3, <2>1, <2>2 DEF PairInv, Rec
<1>6. FlagInv(x2, y2)
  <2>1. y2.buf > y.buf /\ y2.buf >= y.buf
    BY DEF Rec
  <2>2. SameFlags(y, y2) /\ (y.type = "rdma" => y2.type = "rdma")
    BY DEF Takes
  <2> QED
    BY <1>3, <2>1, <2>2, FlagsOfMessages
<1> QED
  BY <1>4, <1>5, <1>6

\* ... or is ready for it.
LEMMA RecvReady ==
  ASSUME NEW y, NEW y2, NEW msgs, Rec(y), Rec(y2), msgs = <<>>,
         NEW sy, NEW dy, NEW s2,
         RecvInv(y, msgs, sy, dy), Takes(y, y2), s2 => y2.type = "search",
         y2.backup = "pending", y2.buf = y.buf
  PROVE  RecvInv(y2, msgs, s2, FALSE)
<1>1. Len(msgs) = 0
  OBVIOUS
<1>2. EndInv(y2, s2, FALSE)
  BY DEF EndInv, Takes, Rec
<1>3. Awaiting(y2) /\ (Messaging(y2))
  BY DEF Awaiting, Messaging, Takes, Rec
<1> QED
  BY <1>1, <1>2, <1>3 DEF RecvInv, Takes, Rec

LEMMA PairReady ==
  ASSUME NEW x, NEW y, NEW y2, NEW msgs, Rec(x), Rec(y), Rec(y2), msgs = <<>>,
         NEW sx, NEW dx,
         PairInv(x, y, msgs, sx, dx), FlagInv(x, y), Takes(y, y2), y2.buf = y.buf,
         y.type = "rdma" => y.operation_number = y2.operation_number
  PROVE  PairInv(x, y2, msgs, sx, dx) /\ FlagInv(x, y2)
<1>1. Len(msgs) = 0
  OBVIOUS
<1>2. PairInv(x, y2, msgs, sx, dx)
  BY <1>1 DEF PairInv, Takes, Messaging, Rec
<1>3. FlagInv(x, y2)
  <2>1. CASE y.type = "rdma"
    BY <2>1, FlagsStay DEF Takes, SameFlags, Rec
  <2>2. CASE y.type # "rdma"
    <3>1. x.flag = 0 /\ y2.puts = <<>> /\ y2.flag = y.flag
      BY <2>2 DEF FlagInv, Takes, SameFlags
    <3> QED
      BY <3>1 DEF FlagInv, Takes, ToldByRecv, ToldBySend, Rec
  <2> QED
    BY <2>1, <2>2
<1> QED
  BY <1>2, <1>3

-----------------------------------------------------------------------------
(* The ends of the waits.                                                  *)

\* The sender tests its first message, and decides when it has been received.
LEMMA SendDecides ==
  ASSUME NEW x, NEW y, NEW x2, NEW msgs, Rec(x), Rec(y), Rec(x2), NEW d2,
         SendInv(x, FALSE, FALSE),
         x.type \in {"search", "rdma"} /\ x.operation_number = 1,
         x2.type \in {x.type, "rdma"} \/ (x2.type = "fallback" /\ x.type = "search"),
         x2.operation_number = x.operation_number /\ x2.buf = x.buf,
         x2.backup = "pending" <=> x.backup = "pending", SameFlags(x, x2),
         d2 => x.backup # "pending" /\ x2.type \in {"rdma", "fallback"}
  PROVE  /\ SendInv(x2, FALSE, d2)
         /\ PairInv(x, y, msgs, FALSE, FALSE) => PairInv(x2, y, msgs, FALSE, d2)
         /\ FlagInv(x, y) /\ (x2.type = "fallback" => x.type # "rdma") => FlagInv(x2, y)
<1>1. SendInv(x2, FALSE, d2)
  BY DEF SendInv, EndInv
<1>2. PairInv(x, y, msgs, FALSE, FALSE) => PairInv(x2, y, msgs, FALSE, d2)
  BY DEF PairInv, Sent, Rec
<1>3. FlagInv(x, y) /\ (x2.type = "fallback" => x.type # "rdma") => FlagInv(x2, y)
  BY DEF FlagInv, SameFlags, ToldBySend, ToldByRecv, Rec
<1> QED
  BY <1>1, <1>2, <1>3

\* The receiver decides, its receive being posted or complete.
LEMMA RecvDecides ==
  ASSUME NEW x, NEW y, NEW y2, NEW msgs, Rec(x), Rec(y), Rec(y2),
         RecvInv(y, msgs, FALSE, FALSE), y.type = "search" /\ y.operation_number = 1,
         y.backup # "null", y2.type \in {"rdma", "fallback"},
         y2.operation_number = y.operation_number /\ y2.buf = y.buf /\ y2.backup = y.backup,
         SameFlags(y, y2), NEW sx, NEW dx
  PROVE  /\ RecvInv(y2, msgs, FALSE, FALSE)
         /\ PairInv(x, y, msgs, sx, dx) => PairInv(x, y2, msgs, sx, dx)
         /\ FlagInv(x, y) => FlagInv(x, y2)
<1>1. RecvInv(y2, msgs, FALSE, FALSE)
  BY DEF RecvInv, EndInv, Messaging, Awaiting
<1>2. PairInv(x, y, msgs, sx, dx) => PairInv(x, y2, msgs, sx, dx)
  BY DEF PairInv, Messaging
<1>3. FlagInv(x, y) => FlagInv(x, y2)
  BY DEF FlagInv, SameFlags, ToldBySend, ToldByRecv, Rec
<1> QED
  BY <1>1, <1>2, <1>3

\* A message that has been received or sent is waited for.
LEMMA SendCompletes ==
  ASSUME NEW x, NEW y, NEW x2, NEW msgs, Rec(x), Rec(y), Rec(x2),
         NEW sx, NEW dx, NEW d2,
         SendInv(x, sx, dx), x.type \in Ordinary,
         x2.type = x.type /\ x2.operation_number = x.operation_number /\ x2.buf = x.buf,
         SameFlags(x, x2)
  PROVE  /\ SendInv(x2, sx, d2)
         /\ PairInv(x, y, msgs, sx, dx) => PairInv(x2, y, msgs, sx, d2)
         /\ FlagInv(x, y) => FlagInv(x2, y)
<1>1. SendInv(x2, sx, d2)
  BY DEF SendInv, EndInv, Ordinary
<1>2. PairInv(x, y, msgs, sx, dx) => PairInv(x2, y, msgs, sx, d2)
  BY DEF PairInv, Sent, Ordinary
<1>3. FlagInv(x, y) => FlagInv(x2, y)
  BY DEF FlagInv, SameFlags, ToldBySend, ToldByRecv, Rec
<1> QED
  BY <1>1, <1>2, <1>3

LEMMA RecvCompletes ==
  ASSUME NEW x, NEW y, NEW y2, NEW msgs, Rec(x), Rec(y), Rec(y2),
         NEW sy, NEW dy, NEW d2,
         RecvInv(y, msgs, sy, dy), y.type \in {"rdma", "fallback", "plain"},
         y2.type = y.type /\ y2.operation_number = y.operation_number /\ y2.buf = y.buf,
         y2.backup = "pending" <=> y.backup = "pending",
         d2 => dy \/ (Messaging(y) /\ y.backup # "pending"),
         SameFlags(y, y2), NEW sx, NEW dx
  PROVE  /\ RecvInv(y2, msgs, sy, d2)
         /\ PairInv(x, y, msgs, sx, dx) => PairInv(x, y2, msgs, sx, dx)
         /\ FlagInv(x, y) => FlagInv(x, y2)
<1>1. RecvInv(y2, msgs, sy, d2)
  BY DEF RecvInv, EndInv, Messaging, Awaiting, Rec
<1>2. PairInv(x, y, msgs, sx, dx) => PairInv(x, y2, msgs, sx, dx)
  BY DEF PairInv, Messaging
<1>3. FlagInv(x, y) => FlagInv(x, y2)
  BY DEF FlagInv, SameFlags, ToldBySend, ToldByRecv, Rec
<1> QED
  BY <1>1, <1>2, <1>3

-----------------------------------------------------------------------------
(* Transfers and flags.                                                    *)

LEMMA PairPushed ==
  ASSUME NEW x, NEW y, NEW msgs, NEW n \in Nat, n >= 2, x.type = "rdma", y.type = "rdma",
         x.operation_number = n, y.operation_number = n, y.buf = n
  PROVE  PairInv(x, y, msgs, FALSE, FALSE)
<1>1. ~(n <= 1) /\ n # 1 /\ n <= n /\ n <= n + 1
  OBVIOUS
<1>2. ~Messaging(y)
  BY <1>1 DEF Messaging
<1> QED
  BY <1>1, <1>2 DEF PairInv

\* The sender starts and finds the receiver ready.
LEMMA SendPushes ==
  ASSUME NEW x, NEW y, NEW x2, NEW y2, NEW msgs, NEW n \in Nat, NEW b \in Nat,
         Rec(x), Rec(y), NEW sy, NEW dy,
         SendInv(x, FALSE, TRUE), RecvInv(y, msgs, sy, dy), PairInv(x, y, msgs, FALSE, TRUE),
         FlagInv(x, y), x.type = "rdma", x2.type = "rdma",
         n = x.operation_number + 1, x2.operation_number = n, x2.buf = n, y.buf = b,
         x.flag = 2 * n + 1, x2.flag = 2 * n + 2, x2.puts = Append(x.puts, 2 * n + 2),
         x2.backup = x.backup,
         y2.type = y.type /\ y2.operation_number = y.operation_number /\ y2.backup = y.backup,
         y2.buf = n, SameFlags(y, y2)
  PROVE  /\ SendInv(x2, FALSE, FALSE)
         /\ RecvInv(y2, msgs, sy, dy)
         /\ PairInv(x2, y2, msgs, FALSE, FALSE)
         /\ FlagInv(x2, y2)
<1>1. x.operation_number = b /\ n = b + 1 /\ b >= 1
  <2>1. x.operation_number \in Nat /\ x.operation_number <= b /\ b <= x.operation_number
    BY DEF PairInv, Rec
  <2>2. x.operation_number >= 1
    BY DEF SendInv, EndInv
  <2> QED
    BY <2>1, <2>2
<1>2. y.type = "rdma" /\ y.operation_number = n /\ n >= 2
  <2>1. 2 * n + 1 \in ToldByRecv(b, y.operation_number) /\ x.flag # 0
    BY <1>1 DEF FlagInv
  <2>2. n > b
    BY <1>1
  <2>3. y.operation_number = n /\ n >= 2
    BY <1>1, <2>1, <2>2, ReadyTold
  <2> QED
    BY <2>1, <2>3 DEF FlagInv
<1>3. RecvInv(y2, msgs, sy, dy)
  BY <1>1, <1>2 DEF RecvInv, EndInv, Messaging, Awaiting, Rec
<1>4. PairInv(x2, y2, msgs, FALSE, FALSE)
  BY <1>2, PairPushed
<1>5. SendInv(x2, FALSE, FALSE)
  BY <1>1 DEF SendInv, EndInv
<1>6. FlagInv(x2, y2)
  <2>1. \A e \in ToldBySend(b, b) : e \in ToldBySend(n, n)
    BY <1>1, ToldBefore
  <2>2. \A e \in ToldByRecv(b, n) : e \in ToldByRecv(n, n)
    <3>1. n > b
      BY <1>1
    <3> QED
      BY <3>1, ToldLater
  <2>3. 2 * n + 2 \in ToldBySend(n, n) /\ 2 * n + 2 \in ToldByRecv(n, n) /\ 2 * n + 2 \in Nat
    BY <1>2, ToldDone
  <2>4. 2 * n + 3 \notin ToldBySend(n, n) /\ 2 * n + 3 \notin ToldBySend(b, b)
    BY <2>1, NotTold
  <2>5. /\ y2.flag \in ToldBySend(n, n)
        /\ \A i \in 1 .. Len(y2.puts) : y2.puts[i] \in ToldByRecv(n, n)
    BY <1>1, <1>2, <2>1, <2>2 DEF FlagInv, SameFlags
  <2>6. y2.flag # 2 * n + 3
    BY <2>4, <2>5
  <2>7. \A i \in 1 .. Len(x.puts) : x.puts[i] \in ToldBySend(b, b)
    BY <1>1 DEF FlagInv
  <2>8. x.puts \in Seq(Nat)
    BY DEF Rec
  <2>9. \A i \in 1 .. Len(x2.puts) : x2.puts[i] \in ToldBySend(n, n)
    BY <2>1, <2>3, <2>7, <2>8, PutsAppended
  <2>10. \A i \in 1 .. Len(x2.puts) - 1 : x2.puts[i] # 2 * n + 3
    BY <2>3, <2>4, <2>7, <2>8, PutsBefore, ZenonT(30)
  <2> QED
    BY <1>2, <2>3, <2>5, <2>6, <2>9, <2>10 DEF FlagInv
<1> QED
  BY <1>3, <1>4, <1>5, <1>6

\* A side starts and does not find the other one ready: it announces itself.
LEMMA SendAnnounces ==
  ASSUME NEW x, NEW y, NEW x2, NEW msgs, NEW n \in Nat, NEW b \in Nat, Rec(x), Rec(y),
         SendInv(x, FALSE, TRUE), x.type = "rdma", x2.type = "rdma",
         n = x.operation_number + 1, x2.operation_number = n, x2.buf = n, y.buf = b,
         x2.flag = x.flag, x2.backup = x.backup, x2.puts = Append(x.puts, 2 * n + 1)
  PROVE  /\ SendInv(x2, FALSE, FALSE)
         /\ PairInv(x, y, msgs, FALSE, TRUE) => PairInv(x2, y, msgs, FALSE, FALSE)
         /\ PairInv(x, y, msgs, FALSE, TRUE) /\ FlagInv(x, y) => FlagInv(x2, y)
<1>1. SendInv(x2, FALSE, FALSE)
  BY DEF SendInv, EndInv, Rec
<1>2. PairInv(x, y, msgs, FALSE, TRUE) => PairInv(x2, y, msgs, FALSE, FALSE)
  BY DEF PairInv, Sent, SendInv, EndInv, Rec
<1>3. ASSUME PairInv(x, y, msgs, FALSE, TRUE), FlagInv(x, y) PROVE FlagInv(x2, y)
  <2>1. x.operation_number = b /\ n = b + 1 /\ b >= 1
    BY <1>3 DEF PairInv, SendInv, EndInv, Rec
  <2>2. \A e \in ToldBySend(b, b) : e \in ToldBySend(b, n)
    BY <2>1, ToldBefore
  <2>3. 2 * n + 1 = 2 * b + 3 /\ 2 * n + 1 \in Nat /\ 2 * n + 1 \in ToldBySend(b, n)
    BY <2>1, ToldReady
  <2>4. 2 * b + 3 \notin ToldBySend(b, b)
    BY NotTold
  <2>5. \A i \in 1 .. Len(x.puts) : x.puts[i] \in ToldBySend(b, b)
    BY <1>3, <2>1 DEF FlagInv
  <2>6. x.puts \in Seq(Nat)
    BY DEF Rec
  <2>7. \A i \in 1 .. Len(x2.puts) : x2.puts[i] \in ToldBySend(b, n)
    BY <2>2, <2>3, <2>5, <2>6, PutsAppended
  <2>8. \A i \in 1 .. Len(x2.puts) - 1 : x2.puts[i] # 2 * b + 3
    BY <2>3, <2>4, <2>5, <2>6, PutsBefore, ZenonT(30)
  <2>9. y.flag \in ToldBySend(b, n) /\ y.flag # 2 * b + 3
    BY <1>3, <2>1, <2>2, <2>4 DEF FlagInv
  <2> QED
    BY <1>3, <2>7, <2>8, <2>9 DEF FlagInv
<1> QED
  BY <1>1, <1>2, <1>3

LEMMA RecvAnnounces ==
  ASSUME NEW x, NEW y, NEW y2, NEW msgs, NEW n \in Nat, Rec(x), Rec(y),
         RecvInv(y, msgs, FALSE, TRUE), y.type = "rdma", y2.type = "rdma",
         n = y.operation_number + 1, y2.operation_number = n, y2.buf = y.buf,
         y2.flag = y.flag, y2.backup = y.backup, y2.puts = Append(y.puts, 2 * n + 1),
         NEW sx, NEW dx
  PROVE  /\ RecvInv(y2, msgs, FALSE, FALSE)
         /\ PairInv(x, y, msgs, sx, dx) => PairInv(x, y2, msgs, sx, dx)
         /\ FlagInv(x, y) => FlagInv(x, y2)
<1>1. PICK b \in Nat : y.buf = b
  BY DEF Rec
<1>2. y.operation_number = b /\ n = b + 1 /\ n >= 2 /\ b >= 1
  BY <1>1 DEF RecvInv, EndInv, Rec
<1>3. RecvInv(y2, msgs, FALSE, FALSE)
  BY <1>1, <1>2 DEF RecvInv, EndInv, Messaging, Awaiting
<1>4. PairInv(x, y, msgs, sx, dx) => PairInv(x, y2, msgs, sx, dx)
  BY <1>2 DEF PairInv, Messaging
<1>5. ASSUME FlagInv(x, y) PROVE FlagInv(x, y2)
  <2>1. \A e \in ToldByRecv(b, b) : e \in ToldByRecv(b, n)
    BY ToldBefore
  <2>2. 2 * n + 1 \in ToldByRecv(b, n) /\ 2 * n + 1 \in Nat
    BY <1>2, ToldReady
  <2>3. \A i \in 1 .. Len(y.puts) : y.puts[i] \in ToldByRecv(b, b)
    BY <1>1, <1>2, <1>5 DEF FlagInv
  <2>4. y.puts \in Seq(Nat)
    BY DEF Rec
  <2>5. \A i \in 1 .. Len(y2.puts) : y2.puts[i] \in ToldByRecv(b, n)
    BY <2>1, <2>2, <2>3, <2>4, PutsAppended
  <2>6. x.flag \in ToldByRecv(b, n)
    BY <1>1, <1>2, <1>5, <2>1 DEF FlagInv
  <2> QED
    BY <1>1, <1>5, <2>5, <2>6 DEF FlagInv
<1> QED
  BY <1>3, <1>4, <1>5

\* The receiver, in its operation or starting it, finds the sender ready.
LEMMA RecvFetches ==
  ASSUME NEW x, NEW y, NEW y2, NEW msgs, NEW n \in Nat, Rec(x), Rec(y),
         NEW sx, NEW dx, NEW dy, NEW d2,
         SendInv(x, sx, dx), RecvInv(y, msgs, FALSE, dy), PairInv(x, y, msgs, sx, dx),
         FlagInv(x, y), y.type = "rdma", y2.type = "rdma", y2.operation_number = n,
         y.operation_number = n \/ (dy /\ n = y.operation_number + 1),
         y.flag = 2 * n + 1, y2.flag = 2 * n + 2,
         y2.puts = Append(y.puts, 2 * n + 2), y2.backup = y.backup,
         y2.buf = x.buf
  PROVE  /\ RecvInv(y2, msgs, FALSE, d2)
         /\ PairInv(x, y2, msgs, sx, dx)
         /\ FlagInv(x, y2)
<1>1. PICK b \in Nat : y.buf = b
  BY DEF Rec
<1>2. n \in {b, b + 1} /\ n >= 1
  BY <1>1 DEF RecvInv, EndInv, Rec
<1>3. n = b + 1 /\ n >= 2 /\ x.operation_number = n
  <2>1. 2 * n + 1 \in ToldBySend(b, x.operation_number) /\ n >= b
    BY <1>1, <1>2 DEF FlagInv
  <2> QED
    BY <1>2, <2>1, ReadyTold
<1>4. y2.buf = n /\ x.type = "rdma" /\ x.puts = <<>>
  <2>1. y.flag # 0 /\ y.flag = 2 * b + 3
    BY <1>3
  <2> QED
    BY <1>1, <1>3, <2>1 DEF FlagInv, SendInv
<1>5. y.backup # "pending"
  BY <1>1, <1>3 DEF RecvInv, Messaging, Awaiting
<1>6. RecvInv(y2, msgs, FALSE, d2)
  BY <1>3, <1>4, <1>5 DEF RecvInv, EndInv, Messaging, Awaiting
<1>7. PairInv(x, y2, msgs, sx, dx)
  BY <1>3, <1>4 DEF PairInv, Messaging
<1>8. FlagInv(x, y2)
  <2>1. \A e \in ToldByRecv(b, y.operation_number) : e \in ToldByRecv(n, n)
    <3>1. n > b
      BY <1>3
    <3> QED
      BY <3>1, ToldLater
  <2>2. 2 * n + 2 \in ToldByRecv(n, n) /\ 2 * n + 2 \in ToldBySend(n, n) /\ 2 * n + 2 \in Nat
    BY <1>3, ToldDone
  <2>3. \A i \in 1 .. Len(y.puts) : y.puts[i] \in ToldByRecv(b, y.operation_number)
    BY <1>1 DEF FlagInv
  <2>4. y.puts \in Seq(Nat)
    BY DEF Rec
  <2>5. \A i \in 1 .. Len(y2.puts) : y2.puts[i] \in ToldByRecv(n, n)
    BY <2>1, <2>2, <2>3, <2>4, PutsAppended
  <2>6. x.flag \in ToldByRecv(n, n)
    BY <1>1, <2>1 DEF FlagInv
  <2>7. Len(x.puts) = 0
    BY <1>4
  <2> QED
    BY <1>3, <1>4, <2>2, <2>5, <2>6, <2>7 DEF FlagInv
<1> QED
  BY <1>6, <1>7, <1>8

\* The network carries out the oldest put of a side.
LEMMA SendPutArrives ==
  ASSUME NEW x, NEW y, NEW x2, NEW y2, Rec(x), Rec(y), FlagInv(x, y), x.puts # <<>>,
         SameCalls(x, x2), SameCalls(y, y2), x2.flag = x.flag, y2.puts = y.puts,
         y2.flag = Head(x.puts), x2.puts = Tail(x.puts)
  PROVE  FlagInv(x2, y2)
<1> USE DEF SameCalls
<1>1. /\ 1 \in 1 .. Len(x.puts) /\ Head(x.puts) = x.puts[1]
      /\ \A i \in 1 .. Len(Tail(x.puts)) :
           i + 1 \in 1 .. Len(x.puts) /\ Tail(x.puts)[i] = x.puts[i + 1]
      /\ \A i \in 1 .. Len(Tail(x.puts)) - 1 :
           i + 1 \in 1 .. Len(x.puts) - 1 /\ Tail(x.puts)[i] = x.puts[i + 1]
      /\ Tail(x.puts) = <<>> \/ 1 \in 1 .. Len(x.puts) - 1
  BY Beheaded DEF Rec
<1>2. y2.flag \in ToldBySend(y2.buf, x2.operation_number)
  BY <1>1 DEF FlagInv
<1>3. \A i \in 1 .. Len(x2.puts) : x2.puts[i] \in ToldBySend(y2.buf, x2.operation_number)
  BY <1>1 DEF FlagInv
<1>4. \A i \in 1 .. Len(x2.puts) - 1 : x2.puts[i] # 2 * y2.buf + 3
  BY <1>1 DEF FlagInv
<1>5. y2.flag = 2 * y2.buf + 3 => x2.puts = <<>>
  BY <1>1 DEF FlagInv
<1>6. x2.flag \in ToldByRecv(y2.buf, y2.operation_number)
  BY DEF FlagInv
<1>7. \A i \in 1 .. Len(y2.puts) : y2.puts[i] \in ToldByRecv(y2.buf, y2.operation_number)
  BY DEF FlagInv
<1> QED
  BY <1>2, <1>3, <1>4, <1>5, <1>6, <1>7 DEF FlagInv

LEMMA RecvPutArrives ==
  ASSUME NEW x, NEW y, NEW x2, NEW y2, Rec(x), Rec(y), FlagInv(x, y), y.puts # <<>>,
         SameCalls(x, x2), SameCalls(y, y2), y2.flag = y.flag, x2.puts = x.puts,
         x2.flag = Head(y.puts), y2.puts = Tail(y.puts)
  PROVE  FlagInv(x2, y2)
<1> USE DEF SameCalls
<1>1. /\ 1 \in 1 .. Len(y.puts) /\ Head(y.puts) = y.puts[1]
      /\ \A i \in 1 .. Len(Tail(y.puts)) :
           i + 1 \in 1 .. Len(y.puts) /\ Tail(y.puts)[i] = y.puts[i + 1]
  BY Beheaded DEF Rec
<1>2. x2.flag \in ToldByRecv(y2.buf, y2.operation_number)
  BY <1>1 DEF FlagInv
<1>3. \A i \in 1 .. Len(y2.puts) : y2.puts[i] \in ToldByRecv(y2.buf, y2.operation_number)
  BY <1>1 DEF FlagInv
<1>4. /\ y2.flag \in ToldBySend(y2.buf, x2.operation_number)
      /\ \A i \in 1 .. Len(x2.puts) : x2.puts[i] \in ToldBySend(y2.buf, x2.operation_number)
  BY DEF FlagInv
<1> QED
  BY <1>2, <1>3, <1>4 DEF FlagInv

-----------------------------------------------------------------------------
(* Creation.                                                               *)

Created(x) == /\ x.type = "search" /\ x.operation_number = 0 /\ x.buf = 0
              /\ x.backup = "null" /\ x.flag = 0 /\ x.puts = <<>>

LEMMA SendCreated ==
  ASSUME NEW x, NEW y, NEW x2, NEW msgs, Rec(x), Rec(y),
         NEW sx, NEW dx, NEW d2,
         SendInv(x, sx, dx), x.operation_number = 0, Created(x2)
  PROVE  /\ SendInv(x2, FALSE, d2)
         /\ PairInv(x, y, msgs, sx, dx) => PairInv(x2, y, msgs, FALSE, d2)
         /\ FlagInv(x, y) => FlagInv(x2, y)
<1>1. x.type # "rdma" /\ ~sx
  BY DEF SendInv, EndInv
<1>2. SendInv(x2, FALSE, d2)
  BY DEF SendInv, EndInv, Created
<1>3. PairInv(x, y, msgs, sx, dx) => PairInv(x2, y, msgs, FALSE, d2)
  BY <1>1 DEF PairInv, Sent, Created
<1>4. FlagInv(x, y) => FlagInv(x2, y)
  BY <1>1 DEF FlagInv, ToldBySend, ToldByRecv, Created, Rec
<1> QED
  BY <1>2, <1>3, <1>4

LEMMA RecvCreated ==
  ASSUME NEW x, NEW y, NEW y2, NEW msgs, Rec(x), Rec(y),
         NEW sy, NEW dy, NEW d2,
         NEW sx, NEW dx,
         RecvInv(y, msgs, sy, dy), y.operation_number = 0, Created(y2)
  PROVE  /\ RecvInv(y2, msgs, FALSE, d2)
         /\ PairInv(x, y, msgs, sx, dx) => PairInv(x, y2, msgs, sx, dx)
         /\ FlagInv(x, y) => FlagInv(x, y2)
<1>1. y.type # "rdma" /\ ~sy /\ Messaging(y) /\ y.buf = 0
  BY DEF RecvInv, EndInv, Messaging, Rec
<1>2. RecvInv(y2, msgs, FALSE, d2)
  BY <1>1 DEF RecvInv, EndInv, Messaging, Awaiting, Created
<1>3. PairInv(x, y, msgs, sx, dx) => PairInv(x, y2, msgs, sx, dx)
  BY <1>1 DEF PairInv, Created
<1>4. FlagInv(x, y) => FlagInv(x, y2)
  BY <1>1 DEF FlagInv, ToldBySend, ToldByRecv, Created, Rec
<1> QED
  BY <1>2, <1>3, <1>4

-----------------------------------------------------------------------------
(* The stack of a process: a call of its program, others nested in it.     *)

\* The call is on r and at place `at`.
Based(fs, r, at) ==
  /\ fs # <<>>
  /\ \A i \in 1 .. Len(fs) - 1 : fs[i].at = "block"
  /\ fs[Len(fs)].req = r /\ fs[Len(fs)].at = at

LEMMA BasedOne ==
  ASSUME NEW r, NEW at, NEW rest
  PROVE  Based(<<Frame(r, at, rest)>>, r, at)
  BY DEF Based, Frame

\* A call nests, goes on with a pass, or returns to the one it is nested in.
LEMMA BasedPush ==
  ASSUME NEW T, NEW fs \in Seq(T), NEW f \in T, NEW r, NEW at, Based(fs, r, at), f.at = "block"
  PROVE  Based(<<f>> \o fs, r, at)
<1> DEFINE new == <<f>> \o fs
<1>1. /\ <<f>> \in Seq(T) /\ Len(<<f>>) = 1 /\ <<f>>[1] = f
      /\ Len(fs) \in Nat \ {0}
  BY EmptySeq DEF Based
<1>2. /\ Len(new) = Len(fs) + 1
      /\ \A i \in 1 .. Len(fs) + 1 : new[i] = IF i = 1 THEN f ELSE fs[i - 1]
  BY <1>1, ConcatProperties
<1>3. new # <<>>
  BY <1>1, <1>2
<1> HIDE DEF new
<1>4. \A i \in 1 .. Len(new) - 1 : new[i].at = "block"
  BY <1>1, <1>2 DEF Based
<1>5. new[Len(new)] = fs[Len(fs)]
  BY <1>1, <1>2
<1>6. Based(new, r, at)
  BY <1>3, <1>4, <1>5 DEF Based
<1> QED
  BY <1>6 DEF new

LEMMA BasedTop ==
  ASSUME NEW T, NEW fs \in Seq(T), NEW g \in T, NEW r, NEW at, Based(fs, r, at),
         g.req = fs[1].req, g.at = fs[1].at
  PROVE  Based(<<g>> \o Tail(fs), r, at)
<1> DEFINE new == <<g>> \o Tail(fs)
<1>1. /\ <<g>> \in Seq(T) /\ Len(<<g>>) = 1 /\ <<g>>[1] = g
      /\ Len(fs) \in Nat \ {0}
  BY EmptySeq DEF Based
<1>2. /\ Tail(fs) \in Seq(T) /\ Len(Tail(fs)) = Len(fs) - 1
      /\ \A i \in 1 .. Len(fs) - 1 : Tail(fs)[i] = fs[i + 1]
  BY <1>1, HeadTailProperties DEF Based
<1>3. /\ Len(new) = Len(fs)
      /\ \A i \in 1 .. Len(fs) : new[i] = IF i = 1 THEN g ELSE Tail(fs)[i - 1]
  BY <1>1, <1>2, ConcatProperties
<1>4. \A i \in 1 .. Len(fs) : new[i] = IF i = 1 THEN g ELSE fs[i]
  BY <1>1, <1>2, <1>3
<1>5. new # <<>>
  BY <1>1, <1>3
<1> HIDE DEF new
<1> QED
  <2>1. Based(new, r, at)
    BY <1>1, <1>3, <1>4, <1>5 DEF Based
  <2> QED
    BY <2>1 DEF new

LEMMA BasedPop ==
  ASSUME NEW T, NEW fs \in Seq(T), NEW r, NEW at, Based(fs, r, at),
         at # "block", fs[1].at = "block"
  PROVE  Based(Tail(fs), r, at)
<1>1. Len(fs) \in Nat \ {0} /\ Len(fs) # 1
  BY EmptySeq DEF Based
<1>2. /\ Tail(fs) \in Seq(T) /\ Len(Tail(fs)) = Len(fs) - 1
      /\ \A i \in 1 .. Len(fs) - 1 : Tail(fs)[i] = fs[i + 1]
  BY <1>1, HeadTailProperties DEF Based
<1>3. Tail(fs) # <<>>
  <2>1. Len(Tail(fs)) # 0
    BY <1>1, <1>2
  <2> QED
    BY <1>2, <2>1, EmptySeq
<1> QED
  BY <1>1, <1>2, <1>3 DEF Based

\* A call that nothing is nested in.
LEMMA BasedAlone ==
  ASSUME NEW T, NEW fs \in Seq(T), NEW r, NEW at, Based(fs, r, at), fs[1].at # "block"
  PROVE  /\ fs[1].req = r /\ fs[1].at = at
         /\ \A f : Based(<<f>> \o Tail(fs), f.req, f.at)
<1>1. Len(fs) \in Nat \ {0}
  BY EmptySeq DEF Based
<1>2. Len(fs) = 1
  <2>1. PICK n \in Nat \ {0} : n = Len(fs)
    BY <1>1
  <2>2. 1 \notin 1 .. n - 1
    BY <2>1 DEF Based
  <2>3. n = 1
    BY <2>2
  <2> QED
    BY <2>1, <2>3
<1>3. Tail(fs) = <<>>
  <2>1. Tail(fs) \in Seq(T) /\ Len(Tail(fs)) = 0
    BY <1>2, HeadTailProperties DEF Based
  <2> QED
    BY <2>1, EmptySeq
<1>4. ASSUME NEW f PROVE Based(<<f>> \o Tail(fs), f.req, f.at)
  <2>1. <<f>> \o Tail(fs) = <<f>>
    <3>1. <<f>> \in Seq({f})
      OBVIOUS
    <3> QED
      BY <1>3, <3>1, ConcatEmptySeq
  <2> QED
    BY <2>1 DEF Based
<1> QED
  BY <1>2, <1>4 DEF Based

-----------------------------------------------------------------------------
(* Starts and waits that have been made.                                   *)

LEMMA TimesStep ==
  ASSUME NEW d, NEW r, NEW do, NEW i \in Nat \ {0}
  PROVE  LET calls == d.program[Owner(d.requests[r].channel, d.requests[r].side)] IN
         /\ Times(d, r, do, i) \in Nat
         /\ Times(d, r, do, i + 1) = Times(d, r, do, i) +
              IF calls[i].do = do /\ calls[i].on = r THEN 1 ELSE 0
<1> DEFINE calls == d.program[Owner(d.requests[r].channel, d.requests[r].side)]
           T(k) == {j \in 1 .. k - 1 : calls[j].do = do /\ calls[j].on = r}
<1>1. \A k : Times(d, r, do, k) = Cardinality(T(k))
  BY DEF Times
<1> HIDE DEF calls
<1>2. IsFiniteSet(T(i)) /\ Cardinality(T(i)) \in Nat
  <2>1. IsFiniteSet(1 .. i - 1)
    BY FS_Interval
  <2> QED
    BY <2>1, FS_Subset, FS_CardinalityType
<1>3. CASE calls[i].do = do /\ calls[i].on = r
  <2>1. T(i + 1) = T(i) \union {i} /\ i \notin T(i)
    BY <1>3
  <2>2. Cardinality(T(i + 1)) = Cardinality(T(i)) + 1
    BY <1>2, <2>1, FS_AddElement
  <2> QED
    BY <1>1, <1>2, <1>3, <2>2 DEF calls
<1>4. CASE ~ (calls[i].do = do /\ calls[i].on = r)
  <2>1. T(i + 1) = T(i)
    BY <1>4
  <2>2. /\ Times(d, r, do, i + 1) = Times(d, r, do, i)
        /\ Times(d, r, do, i) \in Nat
    BY <1>1, <1>2, <2>1
  <2> QED
    BY <1>4, <2>2 DEF calls
<1> QED
  BY <1>3, <1>4

LEMMA OwnerTyped ==
  ASSUME IInv, NEW r \in Requests
  PROVE  OwnerOf(r) \in Process
  BY RequestsTyped DEF OwnerOf, Owner, Channel

\* A call that is not collective is on a request of the process.
LEMMA CallOwned ==
  ASSUME IInv, NEW p \in Process, ~Ended(p), Call(p).do \notin Collective
  PROVE  Call(p).on \in Requests /\ OwnerOf(Call(p).on) = p
<1>1. next[p] \in 1 .. Len(Program(p))
  BY DEF IInv, Ended
<1> QED
  BY <1>1, DeploymentsAssumption
     DEF IInv, Call, Program, Requests, OwnerOf, ChannelOf, SideOf

LEMMA MadeNat ==
  ASSUME IInv, NEW r \in Requests, NEW do
  PROVE  Made(r, do) \in Nat
  BY TimesStep, OwnerTyped DEF Made, IInv

\* A process whose call returns.
Advances(p) == /\ deployment' = deployment /\ next' = [next EXCEPT ![p] = @ + 1]
               /\ ~Ended(p)

LEMMA MadeStep ==
  ASSUME IInv, NEW p \in Process, Advances(p), NEW r \in Requests,
         NEW do \in Calls \ Collective
  PROVE  Made(r, do)' = Made(r, do) + IF Call(p).do = do /\ Call(p).on = r THEN 1 ELSE 0
<1>1. OwnerOf(r)' = OwnerOf(r) /\ OwnerOf(r) \in Process /\ next[OwnerOf(r)] \in Nat \ {0}
  BY OwnerTyped DEF OwnerOf, ChannelOf, SideOf, Advances, IInv
<1>2. Made(r, do)' = Times(deployment, r, do, next'[OwnerOf(r)]) /\ Made(r, do) \in Nat
  BY <1>1, MadeNat DEF Made, Advances, Times
<1>3. CASE OwnerOf(r) = p
  <2>1. next'[p] = next[p] + 1
    BY <1>1, <1>3 DEF Advances, IInv
  <2>2. Program(p) = deployment.program[Owner(deployment.requests[r].channel, deployment.requests[r].side)]
    BY <1>3 DEF Program, OwnerOf, ChannelOf, SideOf
  <2>3. Call(p) = Program(p)[next[p]]
    BY DEF Call
  <2> QED
    BY <1>1, <1>2, <1>3, <2>1, <2>2, <2>3, TimesStep, SMTT(20) DEF Made
<1>4. CASE OwnerOf(r) # p
  <2>1. ~ (Call(p).do = do /\ Call(p).on = r)
    BY <1>4, CallOwned DEF Advances
  <2>2. next'[OwnerOf(r)] = next[OwnerOf(r)]
    BY <1>1, <1>4 DEF Advances, IInv
  <2> QED
    BY <1>2, <2>1, <2>2 DEF Made
<1> QED
  BY <1>3, <1>4

LEMMA MadeSame ==
  ASSUME deployment' = deployment, next' = next, NEW r, NEW do
  PROVE  Made(r, do)' = Made(r, do)
  BY DEF Made, Times, OwnerOf, ChannelOf, SideOf

LEMMA InTurn ==
  ASSUME UsedInTurn, IInv, NEW p \in Process, ~Ended(p)
  PROVE  LET r == Call(p).on IN
         /\ Call(p).do = "init"  => Made(r, "start") = 0
         /\ Call(p).do = "start" => Made(r, "start") = Made(r, "wait")
         /\ Call(p).do = "wait"  => Made(r, "start") = Made(r, "wait") + 1
<1>1. next[p] \in 1 .. Len(Program(p)) /\ deployment \in Deployments
  BY DEF IInv, Ended
<1>2. Call(p).do \notin Collective => OwnerOf(Call(p).on) = p
  BY CallOwned
<1> QED
  BY <1>1, <1>2 DEF UsedInTurn, Made, Call, Program, Collective

-----------------------------------------------------------------------------
(* Which requests are starting, and which are settled.                     *)

\* The call that a process is in.
LEMMA BaseOf ==
  ASSUME TypeInv, PlaceInv, NEW p \in Process, InCall(p)
  PROVE  /\ stack[p] \in Seq(Frames(req, p)) /\ Based(stack[p], Call(p).on, Bottom(p).at)
         /\ ~Ended(p) /\ Bottom(p).req = Call(p).on /\ Call(p).do \in {"start", "wait"}
         /\ Bottom(p).at # "block" /\ (Bottom(p).at = "post" <=> Call(p).do = "start")
         /\ Call(p).on \in Requests /\ OwnerOf(Call(p).on) = p
         /\ Fits(req, Call(p).on, Bottom(p).at)
<1>1. stack[p] \in Seq(Frames(req, p)) /\ ~Ended(p) /\ Bottom(p).req = Call(p).on
  BY DEF TypeInv, PlaceInv
<1>2. Call(p).do \in {"start", "wait"} /\ (Bottom(p).at = "post" <=> Call(p).do = "start")
  BY DEF PlaceInv
<1>3. Call(p).on \in Requests /\ OwnerOf(Call(p).on) = p
  BY <1>1, <1>2, CallOwned DEF TypeInv, Collective
<1>4. Fits(req, Call(p).on, Bottom(p).at)
  BY <1>1 DEF PlaceInv
<1>5. Bottom(p).at # "block"
  BY <1>4 DEF Fits, SendPlaces, RecvPlaces
<1>6. Based(stack[p], Call(p).on, Bottom(p).at)
  BY <1>1 DEF PlaceInv, Based, InCall, Bottom
<1> QED
  BY <1>1, <1>2, <1>3, <1>4, <1>5, <1>6

\* The process is at a place of its call.
LEMMA AtBase ==
  ASSUME TypeInv, PlaceInv, NEW p \in Process, NEW place, place # "block", At(p, place)
  PROVE  /\ InCall(p) /\ Current(p) = Call(p).on /\ Bottom(p).at = place
         /\ \A f : Based(<<f>> \o Tail(stack[p]), f.req, f.at)
<1>1. InCall(p) /\ stack[p][1].at = place
  BY DEF At, InCall
<1>2. stack[p] \in Seq(Frames(req, p)) /\ Based(stack[p], Call(p).on, Bottom(p).at)
  BY <1>1, BaseOf
<1> QED
  BY <1>1, <1>2, BasedAlone DEF Current

\* The status of the request that a call is on, before the step,
LEMMA StatusBefore ==
  ASSUME UsedInTurn, TypeInv, PlaceInv, NEW p \in Process, ~Ended(p),
         Call(p).do \in {"start", "wait"}
  PROVE  LET r == Call(p).on IN
         /\ r \in Requests /\ OwnerOf(r) = p
         /\ r \in Starting <=> InCall(p) /\ Call(p).do = "start"
         /\ r \in Settled <=> IF InCall(p) THEN Bottom(p).at = "fetched" ELSE Call(p).do = "start"
<1> DEFINE r == Call(p).on
<1>1. r \in Requests /\ OwnerOf(r) = p
  BY CallOwned DEF TypeInv, Collective
<1>2. r \in Starting <=> InCall(p) /\ Call(p).do = "start"
  BY <1>1, BaseOf DEF Starting
<1>3. r \in Fetched <=> InCall(p) /\ Bottom(p).at = "fetched"
  BY <1>1, BaseOf DEF Fetched
<1>4. (Made(r, "start") = Made(r, "wait")) <=> (Call(p).do = "start")
  <2>1. Made(r, "start") \in Nat /\ Made(r, "wait") \in Nat
    BY <1>1, MadeNat DEF TypeInv
  <2> QED
    BY <2>1, InTurn DEF TypeInv
<1>5. InCall(p) => (Bottom(p).at = "post" <=> Call(p).do = "start")
  BY BaseOf
<1> QED
  BY <1>1, <1>2, <1>3, <1>4, <1>5 DEF Settled, Idle

\* What does not change for the requests other than r.
OthersKept(r) ==
  \A z \in Requests \ {r} : (z \in Starting' <=> z \in Starting) /\ (z \in Settled' <=> z \in Settled)

LEMMA NextStatus ==
  ASSUME deployment' = deployment, NEW r \in Requests
  PROVE  LET fs == stack'[OwnerOf(r)]
             f  == fs[Len(fs)]
         IN
         /\ r \in Starting' <=> fs # <<>> /\ f.req = r /\ f.at = "post"
         /\ r \in Settled' <=> \/ r \notin Starting' /\ Made(r, "start")' = Made(r, "wait")'
                               \/ fs # <<>> /\ f.req = r /\ f.at = "fetched"
<1>1. Requests' = Requests /\ OwnerOf(r)' = OwnerOf(r)
  BY DEF Requests, OwnerOf, ChannelOf, SideOf
<1> QED
  BY <1>1 DEF Starting, Settled, Idle, Fetched, InCall, Bottom, OwnerOf, ChannelOf, SideOf

\* ... after a step that goes on,
LEMMA StatusMoves ==
  ASSUME UsedInTurn, TypeInv, PlaceInv, NEW p \in Process, ~Ended(p),
         Call(p).do \in {"start", "wait"},
         UNCHANGED <<deployment, next>>, NEW fs, stack' = [stack EXCEPT ![p] = fs],
         NEW at, Based(fs, Call(p).on, at), at = "post" <=> Call(p).do = "start"
  PROVE  /\ OthersKept(Call(p).on)
         /\ Call(p).on \in Starting' <=> Call(p).do = "start"
         /\ Call(p).on \in Settled' <=> at = "fetched"
<1>0. PICK r \in Requests : r = Call(p).on /\ OwnerOf(r) = p
  BY StatusBefore
<1>1. r \in Requests /\ OwnerOf(r) = p
  BY <1>0
<1>2. stack'[p] = fs /\ \A q \in Process \ {p} : stack'[q] = stack[q]
  BY DEF TypeInv
<1>3. (Made(r, "start")' = Made(r, "wait")') <=> (Call(p).do = "start")
  <2>1. Made(r, "start") \in Nat /\ Made(r, "wait") \in Nat
    BY <1>1, MadeNat DEF TypeInv
  <2>2. Made(r, "start")' = Made(r, "start") /\ Made(r, "wait")' = Made(r, "wait")
    BY MadeSame
  <2> QED
    BY <1>0, <2>1, <2>2, InTurn DEF TypeInv
<1>4. fs # <<>> /\ fs[Len(fs)].req = r /\ fs[Len(fs)].at = at
  BY <1>0 DEF Based
<1>5. OthersKept(r)
  <2> SUFFICES ASSUME NEW z \in Requests, z # r
               PROVE (z \in Starting' <=> z \in Starting) /\ (z \in Settled' <=> z \in Settled)
    BY DEF OthersKept
  <2>1. /\ Made(z, "start")' = Made(z, "start") /\ Made(z, "wait")' = Made(z, "wait")
        /\ OwnerOf(z) \in Process
    BY MadeSame, OwnerTyped DEF TypeInv
  <2>2. CASE OwnerOf(z) = p
    <3>1. z \notin Starting /\ z \notin Fetched
      BY <1>0, <2>2, BaseOf DEF Starting, Fetched
    <3> QED
      BY <1>2, <1>4, <2>1, <2>2, <3>1, NextStatus DEF Settled, Idle
  <2>3. CASE OwnerOf(z) # p
    <3>1. stack'[OwnerOf(z)] = stack[OwnerOf(z)]
      BY <1>2, <2>1, <2>3
    <3> QED
      BY <2>1, <3>1, NextStatus DEF Settled, Idle, Starting, Fetched, InCall, Bottom
  <2> QED
    BY <2>2, <2>3
<1>6. r \in Starting' <=> at = "post"
  BY <1>1, <1>2, <1>4, NextStatus
<1>7. r \in Settled' <=> at = "fetched"
  BY <1>1, <1>2, <1>3, <1>4, <1>6, NextStatus
<1> QED
  BY <1>0, <1>5, <1>6, <1>7

\* Within a call its place stays the same.
LEMMA StatusStays ==
  ASSUME UsedInTurn, TypeInv, PlaceInv, NEW p \in Process, InCall(p),
         UNCHANGED <<deployment, next>>, NEW fs, stack' = [stack EXCEPT ![p] = fs],
         Based(fs, Call(p).on, Bottom(p).at)
  PROVE  \A z \in Requests : (z \in Starting' <=> z \in Starting) /\ (z \in Settled' <=> z \in Settled)
<1> DEFINE r == Call(p).on
<1>1. /\ ~Ended(p) /\ Call(p).do \in {"start", "wait"}
      /\ Bottom(p).at = "post" <=> Call(p).do = "start"
  BY BaseOf
<1>2. /\ OthersKept(r)
      /\ r \in Starting' <=> Call(p).do = "start"
      /\ r \in Settled' <=> Bottom(p).at = "fetched"
  BY <1>1, StatusMoves
<1>3. /\ r \in Starting <=> Call(p).do = "start"
      /\ r \in Settled <=> Bottom(p).at = "fetched"
  BY <1>1, StatusBefore
<1> QED
  BY <1>2, <1>3 DEF OthersKept

\* ... and after one that returns.
LEMMA StatusReturns ==
  ASSUME UsedInTurn, TypeInv, PlaceInv, NEW p \in Process, Advances(p),
         stack' = [stack EXCEPT ![p] = <<>>]
  PROVE  /\ Call(p).do \in {"start", "wait"} =>
              /\ OthersKept(Call(p).on) /\ Call(p).on \notin Starting'
              /\ Call(p).on \in Settled' <=> Call(p).do = "wait"
         /\ Call(p).do \notin {"start", "wait"} =>
              \A z \in Requests : (z \in Starting' <=> z \in Starting) /\ (z \in Settled' <=> z \in Settled)
<1> DEFINE r == Call(p).on
           do == Call(p).do
<1>1. stack'[p] = <<>> /\ \A q \in Process \ {p} : stack'[q] = stack[q]
  BY DEF TypeInv
<1>2. ~Ended(p) /\ deployment' = deployment /\ IInv
  BY DEF Advances, TypeInv
<1>3. ASSUME NEW z \in Requests, do \in {"start", "wait"} => z # r
      PROVE  (z \in Starting' <=> z \in Starting) /\ (z \in Settled' <=> z \in Settled)
  <2>1. Made(z, "start")' = Made(z, "start") /\ Made(z, "wait")' = Made(z, "wait")
    <3>1. Made(z, "start") \in Nat /\ Made(z, "wait") \in Nat
      BY <1>2, MadeNat
    <3>2. "start" \in Calls \ Collective /\ "wait" \in Calls \ Collective
      BY DEF Calls, Collective
    <3> QED
      BY <1>2, <1>3, <3>1, <3>2, MadeStep
  <2>2. OwnerOf(z) \in Process
    BY <1>2, OwnerTyped
  <2>3. CASE OwnerOf(z) = p
    <3>1. z \notin Starting /\ z \notin Fetched
      BY <1>3, <2>3, BaseOf DEF Starting, Fetched
    <3> QED
      BY <1>1, <1>2, <2>1, <2>3, <3>1, NextStatus DEF Settled, Idle
  <2>4. CASE OwnerOf(z) # p
    <3>1. stack'[OwnerOf(z)] = stack[OwnerOf(z)]
      BY <1>1, <2>2, <2>4
    <3> QED
      BY <1>2, <2>1, <3>1, NextStatus DEF Settled, Idle, Starting, Fetched, InCall, Bottom
  <2> QED
    BY <2>3, <2>4
<1>4. ASSUME do \in {"start", "wait"}
      PROVE  r \notin Starting' /\ (r \in Settled' <=> do = "wait")
  <2>1. PICK q \in Requests : q = r /\ OwnerOf(q) = p
    BY <1>2, <1>4, StatusBefore
  <2>2. Made(q, "start") \in Nat /\ Made(q, "wait") \in Nat
    BY <1>2, MadeNat
  <2>3. "start" \in Calls \ Collective /\ "wait" \in Calls \ Collective
    BY DEF Calls, Collective
  <2>4. (Made(q, "start")' = Made(q, "wait")') <=> (do = "wait")
    <3>1. /\ Made(q, "start")' = Made(q, "start") + IF do = "start" THEN 1 ELSE 0
          /\ Made(q, "wait")' = Made(q, "wait") + IF do = "wait" THEN 1 ELSE 0
      BY <1>2, <2>1, <2>3, MadeStep
    <3>2. /\ do = "start" => Made(q, "start") = Made(q, "wait")
          /\ do = "wait" => Made(q, "start") = Made(q, "wait") + 1
      BY <1>2, <2>1, InTurn
    <3> QED
      BY <1>4, <2>2, <3>1, <3>2
  <2> QED
    BY <1>1, <1>2, <2>1, <2>4, NextStatus
<1> QED
  BY <1>3, <1>4 DEF OthersKept

-----------------------------------------------------------------------------
(* What changes a channel.                                                 *)

LEMMA RecOf ==
  ASSUME NEW rq, Table(rq), NEW r \in Requests
  PROVE  Rec(rq[r])
  BY FieldsTyped DEF Rec

\* The requests of a channel.
LEMMA OneEnd ==
  ASSUME OneRequestPerSide, IInv, NEW r \in Requests
  PROVE  /\ ChannelOf(r) \in Channels /\ SideOf(r) \in {"S", "R"}
         /\ Ends(ChannelOf(r), SideOf(r)) = {r}
         /\ \A s \in {"S", "R"} : Ends(ChannelOf(r), s) \subseteq Requests
         /\ \A s : s # SideOf(r) => r \notin Ends(ChannelOf(r), s)
  BY RequestsTyped DEF OneRequestPerSide, Requests, ChannelOf, SideOf, IInv, Ends, Side

Chans(rq, pl, st, dn) == \A c \in Channels : ChannelInv(c, rq, pl, st, dn)

Status(z, st, dn, s, d) == s = (z \in st) /\ d = (z \in dn)
SameStatus(z, st, st2, dn, dn2) == (z \in st2 <=> z \in st) /\ (z \in dn2 <=> z \in dn)

LEMMA StatusIs ==
  ASSUME NEW z, NEW st, NEW dn, NEW s \in BOOLEAN, NEW d \in BOOLEAN,
         z \in st <=> s, z \in dn <=> d
  PROVE  Status(z, st, dn, s, d)
<1>1. s = (z \in st)
  OBVIOUS
<1>2. d = (z \in dn)
  OBVIOUS
<1> QED
  BY <1>1, <1>2 DEF Status

LEMMA OtherChannels ==
  ASSUME NEW rq, NEW rq2, NEW pl, NEW pl2, NEW st, NEW st2, NEW dn, NEW dn2,
         NEW c \in Channels, Chans(rq, pl, st, dn),
         \A z \in Requests : ChannelOf(z) # c => rq2[z] = rq[z] /\ SameStatus(z, st, st2, dn, dn2),
         \A d \in Channels : d # c => pl2[d] = pl[d],
         ChannelInv(c, rq2, pl2, st2, dn2)
  PROVE  Chans(rq2, pl2, st2, dn2)
<1> SUFFICES ASSUME NEW d \in Channels, d # c PROVE ChannelInv(d, rq2, pl2, st2, dn2)
  BY DEF Chans
<1>1. ChannelInv(d, rq, pl, st, dn) /\ pl2[d] = pl[d]
  BY DEF Chans
<1>2. ASSUME NEW s, NEW z \in Ends(d, s)
      PROVE  rq2[z] = rq[z] /\ (z \in st2) = (z \in st) /\ (z \in dn2) = (z \in dn)
  BY DEF Ends, SameStatus
<1> QED
  BY <1>1, <1>2 DEF ChannelInv

\* What is known of an end.
LEMMA SendEnd ==
  ASSUME IInv, NEW rq, NEW pl, NEW st, NEW dn, Chans(rq, pl, st, dn),
         NEW r \in Requests, SideOf(r) = "S", NEW sr, NEW dr,
         Status(r, st, dn, sr, dr)
  PROVE  /\ SendInv(rq[r], sr, dr)
         /\ \A y \in Ends(ChannelOf(r), "R") :
              PairInv(rq[r], rq[y], pl[ChannelOf(r)], sr, dr) /\ FlagInv(rq[r], rq[y])
<1>1. r \in Ends(ChannelOf(r), "S") /\ ChannelInv(ChannelOf(r), rq, pl, st, dn)
  BY RequestsTyped DEF Ends, Chans
<1>2. (r \in st) = sr /\ (r \in dn) = dr
  BY DEF Status
<1> QED
  BY <1>1, <1>2 DEF ChannelInv

LEMMA RecvEnd ==
  ASSUME IInv, NEW rq, NEW pl, NEW st, NEW dn, Chans(rq, pl, st, dn),
         NEW r \in Requests, SideOf(r) = "R", NEW sr, NEW dr,
         Status(r, st, dn, sr, dr)
  PROVE  /\ RecvInv(rq[r], pl[ChannelOf(r)], sr, dr)
         /\ Ends(ChannelOf(r), "S") = {} => rq[r].buf = 0 /\ rq[r].flag = 0
         /\ \A i \in 1 .. Len(pl[ChannelOf(r)]) : pl[ChannelOf(r)][i].from \in Ends(ChannelOf(r), "S")
<1>1. r \in Ends(ChannelOf(r), "R") /\ ChannelInv(ChannelOf(r), rq, pl, st, dn)
  BY RequestsTyped DEF Ends, Chans
<1>2. (r \in st) = sr /\ (r \in dn) = dr
  BY DEF Status
<1> QED
  BY <1>1, <1>2 DEF ChannelInv

\* The sender of a channel changes, and maybe the messages under way.
LEMMA SendChanged ==
  ASSUME OneRequestPerSide, IInv,
         NEW rq, NEW rq2, NEW pl, NEW pl2, NEW st, NEW st2, NEW dn, NEW dn2,
         Chans(rq, pl, st, dn), NEW r \in Requests, SideOf(r) = "S",
         NEW s2, NEW d2, Status(r, st2, dn2, s2, d2),
         \A z \in Requests \ {r} : rq2[z] = rq[z] /\ SameStatus(z, st, st2, dn, dn2),
         \A d \in Channels : d # ChannelOf(r) => pl2[d] = pl[d],
         \A i \in 1 .. Len(pl2[ChannelOf(r)]) : pl2[ChannelOf(r)][i].from \in Ends(ChannelOf(r), "S"),
         SendInv(rq2[r], s2, d2),
         \A y \in Ends(ChannelOf(r), "R") : \A sy, dy :
           RecvInv(rq[y], pl[ChannelOf(r)], sy, dy) =>
             /\ RecvInv(rq[y], pl2[ChannelOf(r)], sy, dy)
             /\ PairInv(rq2[r], rq[y], pl2[ChannelOf(r)], s2, d2) /\ FlagInv(rq2[r], rq[y])
  PROVE  Chans(rq2, pl2, st2, dn2)
<1> DEFINE c == ChannelOf(r)
<1>1. c \in Channels /\ Ends(c, "S") = {r} /\ Ends(c, "R") \subseteq Requests /\ r \notin Ends(c, "R")
  BY OneEnd
<1>2. ChannelInv(c, rq, pl, st, dn)
  BY <1>1 DEF Chans
<1>3. (r \in st2) = s2 /\ (r \in dn2) = d2
  BY DEF Status
<1>4. \A y \in Ends(c, "R") : rq2[y] = rq[y] /\ (y \in st2) = (y \in st) /\ (y \in dn2) = (y \in dn)
  BY <1>1 DEF SameStatus
<1>5. ASSUME NEW y \in Ends(c, "R")
      PROVE  /\ RecvInv(rq2[y], pl2[c], y \in st2, y \in dn2)
             /\ Ends(c, "S") = {} => rq2[y].buf = 0 /\ rq2[y].flag = 0
             /\ PairInv(rq2[r], rq2[y], pl2[c], s2, d2) /\ FlagInv(rq2[r], rq2[y])
  <2>1. RecvInv(rq[y], pl[c], y \in st, y \in dn)
    BY <1>2 DEF ChannelInv
  <2>2. (y \in st) \in BOOLEAN /\ (y \in dn) \in BOOLEAN
    OBVIOUS
  <2>3. /\ RecvInv(rq[y], pl2[c], y \in st, y \in dn)
        /\ PairInv(rq2[r], rq[y], pl2[c], s2, d2) /\ FlagInv(rq2[r], rq[y])
    BY <2>1, <2>2
  <2> QED
    BY <1>1, <1>4, <2>3
<1>6. ChannelInv(c, rq2, pl2, st2, dn2)
  BY <1>1, <1>3, <1>5 DEF ChannelInv
<1>7. \A z \in Requests : ChannelOf(z) # c => rq2[z] = rq[z] /\ SameStatus(z, st, st2, dn, dn2)
  OBVIOUS
<1> QED
  BY <1>1, <1>6, <1>7, OtherChannels

\* The receiver of a channel changes.
LEMMA RecvChanged ==
  ASSUME OneRequestPerSide, IInv,
         NEW rq, NEW rq2, NEW pl, NEW st, NEW st2, NEW dn, NEW dn2,
         Chans(rq, pl, st, dn), NEW r \in Requests, SideOf(r) = "R",
         NEW s2, NEW d2, Status(r, st2, dn2, s2, d2),
         \A z \in Requests \ {r} : rq2[z] = rq[z] /\ SameStatus(z, st, st2, dn, dn2),
         RecvInv(rq2[r], pl[ChannelOf(r)], s2, d2),
         Ends(ChannelOf(r), "S") = {} => rq2[r].buf = 0 /\ rq2[r].flag = 0,
         \A x \in Ends(ChannelOf(r), "S") : \A sx, dx :
           /\ SendInv(rq[x], sx, dx)
           /\ PairInv(rq[x], rq[r], pl[ChannelOf(r)], sx, dx) /\ FlagInv(rq[x], rq[r])
           => PairInv(rq[x], rq2[r], pl[ChannelOf(r)], sx, dx) /\ FlagInv(rq[x], rq2[r])
  PROVE  Chans(rq2, pl, st2, dn2)
<1> DEFINE c == ChannelOf(r)
<1>1. c \in Channels /\ Ends(c, "R") = {r} /\ Ends(c, "S") \subseteq Requests /\ r \notin Ends(c, "S")
  BY OneEnd
<1>2. ChannelInv(c, rq, pl, st, dn)
  BY <1>1 DEF Chans
<1>3. (r \in st2) = s2 /\ (r \in dn2) = d2
  BY DEF Status
<1>4. \A x \in Ends(c, "S") : rq2[x] = rq[x] /\ (x \in st2) = (x \in st) /\ (x \in dn2) = (x \in dn)
  BY <1>1 DEF SameStatus
<1>5. ASSUME NEW x \in Ends(c, "S")
      PROVE  /\ SendInv(rq2[x], x \in st2, x \in dn2)
             /\ PairInv(rq2[x], rq2[r], pl[c], x \in st2, x \in dn2) /\ FlagInv(rq2[x], rq2[r])
  <2>1. /\ SendInv(rq[x], x \in st, x \in dn)
        /\ PairInv(rq[x], rq[r], pl[c], x \in st, x \in dn) /\ FlagInv(rq[x], rq[r])
    BY <1>1, <1>2 DEF ChannelInv
  <2>2. (x \in st) \in BOOLEAN /\ (x \in dn) \in BOOLEAN
    OBVIOUS
  <2>3. PairInv(rq[x], rq2[r], pl[c], x \in st, x \in dn) /\ FlagInv(rq[x], rq2[r])
    BY <2>1, <2>2
  <2> QED
    BY <1>4, <2>1, <2>3
<1>6. ChannelInv(c, rq2, pl, st2, dn2)
  BY <1>1, <1>2, <1>3, <1>5 DEF ChannelInv
<1>7. \A z \in Requests : ChannelOf(z) # c => rq2[z] = rq[z] /\ SameStatus(z, st, st2, dn, dn2)
  OBVIOUS
<1> QED
  BY <1>1, <1>6, <1>7, OtherChannels

\* Both change.
LEMMA BothChanged ==
  ASSUME OneRequestPerSide, IInv,
         NEW rq, NEW rq2, NEW pl, NEW pl2, NEW st, NEW st2, NEW dn, NEW dn2,
         Chans(rq, pl, st, dn), NEW x \in Requests, SideOf(x) = "S",
         NEW y \in Requests, SideOf(y) = "R", ChannelOf(y) = ChannelOf(x),
         NEW sx, NEW dx, Status(x, st2, dn2, sx, dx),
         NEW sy, NEW dy, Status(y, st2, dn2, sy, dy),
         \A z \in Requests \ {x, y} : rq2[z] = rq[z] /\ SameStatus(z, st, st2, dn, dn2),
         \A d \in Channels : d # ChannelOf(x) => pl2[d] = pl[d],
         \A i \in 1 .. Len(pl2[ChannelOf(x)]) : pl2[ChannelOf(x)][i].from \in Ends(ChannelOf(x), "S"),
         SendInv(rq2[x], sx, dx), RecvInv(rq2[y], pl2[ChannelOf(x)], sy, dy),
         PairInv(rq2[x], rq2[y], pl2[ChannelOf(x)], sx, dx), FlagInv(rq2[x], rq2[y])
  PROVE  Chans(rq2, pl2, st2, dn2)
<1> DEFINE c == ChannelOf(x)
<1>1. c \in Channels /\ Ends(c, "S") = {x} /\ Ends(c, "R") = {y}
  BY OneEnd
<1>2. /\ (x \in st2) = sx /\ (x \in dn2) = dx
      /\ (y \in st2) = sy /\ (y \in dn2) = dy
  BY DEF Status
<1>3. ChannelInv(c, rq2, pl2, st2, dn2)
  BY <1>1, <1>2 DEF ChannelInv
<1>4. \A z \in Requests : ChannelOf(z) # c => rq2[z] = rq[z] /\ SameStatus(z, st, st2, dn, dn2)
  OBVIOUS
<1> QED
  BY <1>1, <1>3, <1>4, OtherChannels

\* No channel changes.
LEMMA NoneChanged ==
  ASSUME NEW rq, NEW rq2, NEW pl, NEW st, NEW st2, NEW dn, NEW dn2,
         Chans(rq, pl, st, dn), Table(rq), Table(rq2),
         \A z \in Requests : Same(rq[z], rq2[z]) /\ SameStatus(z, st, st2, dn, dn2)
  PROVE  Chans(rq2, pl, st2, dn2)
<1> SUFFICES ASSUME NEW c \in Channels PROVE ChannelInv(c, rq2, pl, st2, dn2)
  BY DEF Chans
<1>1. ChannelInv(c, rq, pl, st, dn)
  BY DEF Chans
<1>2. ASSUME NEW s, NEW z \in Ends(c, s)
      PROVE  Same(rq[z], rq2[z]) /\ (z \in st2) = (z \in st) /\ (z \in dn2) = (z \in dn)
  BY DEF Ends, SameStatus
<1>3. ASSUME NEW x, NEW x2, NEW s, NEW d, NEW msgs, Same(x, x2)
      PROVE  /\ SendInv(x, s, d) => SendInv(x2, s, d)
             /\ RecvInv(x, msgs, s, d) => RecvInv(x2, msgs, s, d)
  BY <1>3 DEF Same, SameCalls, SendInv, RecvInv, EndInv, Awaiting, Messaging
<1>4. ASSUME NEW x, NEW x2, NEW y, NEW y2, NEW s, NEW d, NEW msgs, Same(x, x2), Same(y, y2)
      PROVE  /\ PairInv(x, y, msgs, s, d) => PairInv(x2, y2, msgs, s, d)
             /\ FlagInv(x, y) => FlagInv(x2, y2)
  BY <1>4 DEF Same, SameCalls, SameFlags, PairInv, FlagInv, Sent, Messaging
<1>5. ASSUME NEW z \in Ends(c, "S") PROVE SendInv(rq2[z], z \in st2, z \in dn2)
  BY <1>1, <1>2, <1>3 DEF ChannelInv
<1>6. ASSUME NEW z \in Ends(c, "R")
      PROVE  /\ RecvInv(rq2[z], pl[c], z \in st2, z \in dn2)
             /\ Ends(c, "S") = {} => rq2[z].buf = 0 /\ rq2[z].flag = 0
  BY <1>1, <1>2, <1>3 DEF ChannelInv, Same, SameCalls, SameFlags
<1>7. ASSUME NEW z \in Ends(c, "S"), NEW y \in Ends(c, "R")
      PROVE  PairInv(rq2[z], rq2[y], pl[c], z \in st2, z \in dn2) /\ FlagInv(rq2[z], rq2[y])
  BY <1>1, <1>2, <1>4 DEF ChannelInv
<1> QED
  BY <1>1, <1>5, <1>6, <1>7 DEF ChannelInv

-----------------------------------------------------------------------------
(* Messages.                                                               *)

\* What any step may do to a request whose process does not take part.
Calm(rq, new, z) ==
  /\ new[z].type = rq[z].type
  /\ new[z].operation_number = rq[z].operation_number
  /\ new[z].backup = "pending" =>
       rq[z].backup = "pending" \/ (rq[z].type = "search" /\ SideOf(z) = "R")

\* Message m is queued behind those of sender r.
LEMMA FromSender ==
  ASSUME NEW msgs \in Messages, NEW E, \A i \in 1 .. Len(msgs) : msgs[i].from \in E,
         NEW m, m \in [from : Requests, n : Nat], m.from \in E
  PROVE  \A i \in 1 .. Len(Append(msgs, m)) : Append(msgs, m)[i].from \in E
<1>1. msgs \in Seq([from : Requests, n : Nat])
  BY DEF Messages
<1>2. /\ Len(msgs) \in Nat /\ Len(Append(msgs, m)) = Len(msgs) + 1
      /\ \A i \in 1 .. Len(msgs) : Append(msgs, m)[i] = msgs[i]
      /\ Append(msgs, m)[Len(msgs) + 1] = m
  BY <1>1, AppendProperties
<1> QED
  BY <1>2

\* A message is sent: rq is old but for the changes that the call makes to r
\* before.
LEMMA PostSendChans ==
  ASSUME OneRequestPerSide, IInv, Table(req), payload \in [Channels -> Messages],
         Chans(req, payload, Starting, Settled),
         NEW rq, Table(rq), Table(req'), NEW r \in Requests, SideOf(r) = "S",
         \A z \in Requests \ {r} : rq[z] = req[z],
         NEW sr, NEW dr, Status(r, Starting, Settled, sr, dr),
         Sends(req[r], rq[r], sr),
         NEW synchronous, rq[r].type = "search" => synchronous,
         PostSend(rq, r, synchronous), OthersKept(r),
         Status(r, Starting', Settled', FALSE, FALSE)
  PROVE  Chans(req', payload', Starting', Settled')
<1> DEFINE c == ChannelOf(r)
<1>0. PICK no : no = FALSE
  OBVIOUS
<1>1. /\ c \in Channels /\ Ends(c, "S") = {r} /\ Ends(c, "R") \subseteq Requests
      /\ r \notin Ends(c, "R")
  BY OneEnd
<1>2. SendInv(req[r], sr, dr)
  BY SendEnd
<1>9. \A y \in Ends(c, "R") : PairInv(req[r], req[y], payload[c], sr, dr) /\ FlagInv(req[r], req[y])
  BY SendEnd
<1>3. rq \in [Requests -> MPIOPT_Request]
  BY DEF Table
<1>4. \A z \in Requests \ {r} : SameStatus(z, Starting, Starting', Settled, Settled')
  BY DEF OthersKept, SameStatus
<1>5. payload[c] \in Messages /\ \A i \in 1 .. Len(payload[c]) : payload[c][i].from \in Ends(c, "S")
  BY <1>1 DEF Chans, ChannelInv
<1>6. Rec(req[r]) /\ Rec(req'[r])
  BY RecOf
<1>7. CASE Posted(c) # {}
  <2>1. PICK y \in Posted(c) :
          /\ req' = [rq EXCEPT ![r].backup = "done", ![y].backup = "done", ![y].buf = rq[r].buf]
          /\ payload' = payload
    BY <1>7 DEF PostSend
  <2>2. /\ y \in Requests /\ SideOf(y) = "R" /\ ChannelOf(y) = c /\ req[y].backup = "pending"
        /\ y # r /\ y \in Ends(c, "R")
    BY DEF Posted, Ends
  <2>3. /\ req'[r] = [rq[r] EXCEPT !.backup = "done"]
        /\ req'[y] = [req[y] EXCEPT !.backup = "done", !.buf = rq[r].buf]
        /\ \A z \in Requests \ {r, y} : req'[z] = req[z]
    BY <1>3, <2>1, <2>2 DEF MPIOPT_Request
  <2>4. /\ rq[r] \in MPIOPT_Request /\ req[y] \in MPIOPT_Request
    BY <2>2, FieldsTyped
  <2>5. Sends(req[r], req'[r], sr)
    BY <2>3, <2>4 DEF Sends, SameFlags, MPIOPT_Request
  <2>11. /\ req'[y].buf = req'[r].buf /\ req'[y].backup = "done"
         /\ req'[y].type = req[y].type /\ req'[y].operation_number = req[y].operation_number
         /\ SameFlags(req[y], req'[y])
    BY <2>3, <2>4 DEF Sends, SameFlags, MPIOPT_Request
  <2>6. PICK sy, dy : Status(y, Starting, Settled, sy, dy)
    BY DEF Status
  <2>7. RecvInv(req[y], payload[c], sy, dy)
    BY <2>2, <2>6, RecvEnd
  <2>8. SendInv(req'[r], FALSE, FALSE)
    BY <1>2, <1>6, <2>5, SenderSends
  <2>9. /\ RecvInv(req'[y], payload[c], sy, dy) /\ PairInv(req'[r], req'[y], payload[c], FALSE, FALSE)
        /\ FlagInv(req'[r], req'[y])
    <3>1. PairInv(req[r], req[y], payload[c], sr, dr) /\ FlagInv(req[r], req[y])
      BY <1>9, <2>2
    <3>2. Rec(req[y]) /\ Rec(req'[y])
      BY <2>2, RecOf
    <3>3. req[y].backup = "pending"
      BY <2>2
    <3> QED
      BY <1>2, <1>6, <2>5, <2>7, <2>11, <3>1, <3>2, <3>3, SendToPosted
  <2>10. Status(y, Starting', Settled', sy, dy)
    BY <2>2, <2>6 DEF OthersKept, Status
  <2>12. \A z \in Requests \ {r, y} : /\ req'[z] = req[z]
                                      /\ SameStatus(z, Starting, Starting', Settled, Settled')
    BY <1>4, <2>3
  <2>13. payload'[c] = payload[c] /\ \A d \in Channels : d # c => payload'[d] = payload[d]
    BY <2>1
  <2>14. \A i \in 1 .. Len(payload'[c]) : payload'[c][i].from \in Ends(c, "S")
    BY <1>5, <2>13
  <2>15. RecvInv(req'[y], payload'[c], sy, dy) /\ PairInv(req'[r], req'[y], payload'[c], FALSE, FALSE)
    BY <2>9, <2>13
  <2>16. y \in Requests /\ SideOf(y) = "R" /\ ChannelOf(y) = ChannelOf(r)
    BY <2>2
  <2>17. /\ Status(r, Starting', Settled', no, no) /\ SendInv(req'[r], no, no)
         /\ PairInv(req'[r], req'[y], payload'[c], no, no)
    BY <1>0, <2>8, <2>15
  <2> QED
    BY <2>9, <2>10, <2>12, <2>13, <2>14, <2>15, <2>16, <2>17, BothChanged
<1>8. CASE Posted(c) = {}
  <2>1. PICK b \in {"pending", "done"} : /\ req' = [rq EXCEPT ![r].backup = b]
                                         /\ synchronous => b = "pending"
    BY <1>8 DEF PostSend
  <2> DEFINE m == [from |-> r, n |-> rq[r].buf]
             msgs == Append(payload[c], m)
  <2>2. payload' = [payload EXCEPT ![c] = msgs]
    BY <1>8 DEF PostSend
  <2>3. m \in [from : Requests, n : Nat] /\ m.from = r /\ m.n = rq[r].buf
    BY FieldsTyped
  <2> HIDE DEF m
  <2>4. /\ payload'[c] = msgs
        /\ \A d \in Channels : d # c => payload'[d] = payload[d]
    BY <1>1, <2>2
  <2>5. \A i \in 1 .. Len(msgs) : msgs[i].from \in Ends(c, "S")
    BY <1>1, <1>5, <2>3, FromSender
  <2>6. /\ req'[r] = [rq[r] EXCEPT !.backup = b]
        /\ \A z \in Requests \ {r} : req'[z] = req[z]
    BY <1>3, <2>1
  <2>7. /\ Sends(req[r], req'[r], sr)
        /\ req'[r].type = "search" => req'[r].backup = "pending"
        /\ m.n = req'[r].buf
    <3>1. rq[r] \in MPIOPT_Request
      BY FieldsTyped
    <3> QED
      BY <2>1, <2>3, <2>6, <3>1 DEF Sends, SameFlags, MPIOPT_Request
  <2>8. SendInv(req'[r], FALSE, FALSE)
    BY <1>2, <1>6, <2>7, SenderSends
  <2>9. ASSUME NEW y \in Ends(c, "R"), NEW sy, NEW dy,
               RecvInv(req[y], payload[c], sy, dy)
        PROVE  /\ RecvInv(req[y], msgs, sy, dy)
               /\ PairInv(req'[r], req[y], msgs, FALSE, FALSE) /\ FlagInv(req'[r], req[y])
    <3>1. y \in Requests /\ req[y].backup # "pending"
      BY <1>1, <1>8 DEF Posted, Ends
    <3>2. payload[c] \in Seq([from : Requests, n : Nat])
      BY <1>5 DEF Messages
    <3>3. PairInv(req[r], req[y], payload[c], sr, dr) /\ FlagInv(req[r], req[y])
      BY <1>9
    <3>4. req'[r].type = "search" => req'[r].backup = "pending"
      BY <2>7
    <3>5. Rec(req[r]) /\ Rec(req[y]) /\ Rec(req'[r])
      BY <1>6, <3>1, RecOf
    <3>6. Sends(req[r], req'[r], sr) /\ m.n = req'[r].buf
      BY <2>7
    <3>7. PICK T : payload[c] \in Seq(T) /\ m \in T
      BY <2>3, <3>2
    <3>8. req[y].backup # "pending"
      BY <3>1
    <3> QED
      BY <1>2, <2>9, <3>3, <3>4, <3>5, <3>6, <3>7, <3>8, SendAhead
  <2> HIDE DEF msgs
  <2>10. \A i \in 1 .. Len(payload'[c]) : payload'[c][i].from \in Ends(c, "S")
    BY <2>4, <2>5
  <2>11. \A z \in Requests \ {r} : /\ req'[z] = req[z]
                                   /\ SameStatus(z, Starting, Starting', Settled, Settled')
    BY <1>4, <2>6
  <2>12. ASSUME NEW y \in Ends(c, "R"), NEW sy, NEW dy,
                RecvInv(req[y], payload[c], sy, dy)
         PROVE  /\ RecvInv(req[y], payload'[c], sy, dy)
                /\ PairInv(req'[r], req[y], payload'[c], FALSE, FALSE) /\ FlagInv(req'[r], req[y])
    BY <2>4, <2>9, <2>12
  <2>13. \A d \in Channels : d # c => payload'[d] = payload[d]
    BY <2>4
  <2>14. \A y \in Ends(c, "R") : \A sy, dy :
           RecvInv(req[y], payload[c], sy, dy) =>
             /\ RecvInv(req[y], payload'[c], sy, dy)
             /\ PairInv(req'[r], req[y], payload'[c], FALSE, FALSE) /\ FlagInv(req'[r], req[y])
    BY <2>12
  <2>15. \A y \in Ends(c, "R") : \A sy, dy :
           RecvInv(req[y], payload[c], sy, dy) =>
             /\ RecvInv(req[y], payload'[c], sy, dy)
             /\ PairInv(req'[r], req[y], payload'[c], no, no) /\ FlagInv(req'[r], req[y])
    BY <1>0, <2>14
  <2>16. Status(r, Starting', Settled', no, no) /\ SendInv(req'[r], no, no)
    BY <1>0, <2>8
  <2> QED
    BY <2>10, <2>11, <2>13, <2>15, <2>16, SendChanged
<1> QED
  BY <1>7, <1>8

\* A receive is posted: rq is old but for the changes that the call makes to r
\* before, and r is not settled after it.
LEMMA PostRecvChans ==
  ASSUME OneRequestPerSide, IInv, payload \in [Channels -> Messages],
         NEW old, Table(old), NEW rq, Table(rq), Table(req'),
         NEW st, NEW dn, NEW st2, NEW dn2, Chans(old, payload, st, dn),
         NEW r \in Requests, SideOf(r) = "R",
         \A z \in Requests \ {r} : rq[z] = old[z] /\ SameStatus(z, st, st2, dn, dn2),
         NEW sr, NEW dr, Status(r, st, dn, sr, dr),
         NEW s2, NEW d2, Status(r, st2, dn2, s2, d2), s2 => rq[r].type = "search", d2 = FALSE,
         Takes(old[r], rq[r]), rq[r].buf = old[r].buf,
         old[r].type = "rdma" => rq[r].operation_number = old[r].operation_number,
         PostRecv(rq, r)
  PROVE  Chans(req', payload', st2, dn2)
<1> DEFINE c == ChannelOf(r)
<1>1. /\ c \in Channels /\ Ends(c, "R") = {r} /\ Ends(c, "S") \subseteq Requests
      /\ r \notin Ends(c, "S")
  BY OneEnd
<1>2. /\ RecvInv(old[r], payload[c], sr, dr)
      /\ Ends(c, "S") = {} => old[r].buf = 0 /\ old[r].flag = 0
      /\ \A i \in 1 .. Len(payload[c]) : payload[c][i].from \in Ends(c, "S")
  BY RecvEnd
<1>3. rq \in [Requests -> MPIOPT_Request] /\ rq[r] \in MPIOPT_Request
  BY FieldsTyped DEF Table
<1>4. Rec(old[r]) /\ Rec(req'[r])
  BY RecOf
<1>5. PICK T : T = [from : Requests, n : Nat]
  OBVIOUS
<1>6. payload[c] \in Seq(T)
  BY <1>1, <1>5 DEF Messages
<1>7. CASE payload[c] # <<>>
  <2> DEFINE msgs == payload[c]
  <2>1. PICK m : m = Head(msgs)
    OBVIOUS
  <2>2. /\ 1 \in 1 .. Len(msgs) /\ m = msgs[1]
        /\ \A i \in 1 .. Len(Tail(msgs)) : i + 1 \in 1 .. Len(msgs) /\ Tail(msgs)[i] = msgs[i + 1]
    BY <1>6, <1>7, <2>1, Beheaded
  <2>3. PICK x : x = m.from
    OBVIOUS
  <2>4. x \in Ends(c, "S") /\ x \in Requests /\ x # r
    BY <1>1, <1>2, <2>2, <2>3
  <2>5. SideOf(x) = "S" /\ ChannelOf(x) = c
    BY <2>4 DEF Ends
  <2>6. /\ req' = [rq EXCEPT ![r].backup = "done", ![r].buf = m.n, ![x].backup = Acknowledged(rq, m)]
        /\ payload' = [payload EXCEPT ![c] = Tail(msgs)]
    BY <1>7, <2>1, <2>3 DEF PostRecv
  <2>7. PICK b : /\ b = Acknowledged(rq, m)
                 /\ b = old[x].backup \/ old[x].backup = "pending"
    BY <2>3, <2>4 DEF Acknowledged
  <2>8. /\ req'[r] = [rq[r] EXCEPT !.backup = "done", !.buf = m.n]
        /\ req'[x] = [old[x] EXCEPT !.backup = b]
        /\ \A z \in Requests \ {r, x} : req'[z] = old[z]
    BY <1>3, <2>4, <2>6, <2>7 DEF MPIOPT_Request
  <2>9. old[x] \in MPIOPT_Request /\ Rec(old[x]) /\ Rec(req'[x])
    BY <2>4, RecOf, FieldsTyped
  <2>10. /\ req'[r].type = rq[r].type /\ req'[r].operation_number = rq[r].operation_number
         /\ SameFlags(rq[r], req'[r]) /\ req'[r].backup = "done" /\ req'[r].buf = m.n
    BY <1>3, <2>8 DEF MPIOPT_Request, SameFlags
  <2>11. Takes(old[r], req'[r])
    BY <2>10 DEF Takes, SameFlags
  <2>12. s2 => req'[r].type = "search"
    BY <2>10
  <2>13. req'[r].buf = old[r].buf + 1 /\ RecvInv(req'[r], Tail(msgs), s2, FALSE)
    BY <1>2, <1>4, <1>6, <1>7, <2>1, <2>10, <2>11, <2>12, RecvTakes
  <2>14. /\ req'[x].type = old[x].type /\ req'[x].operation_number = old[x].operation_number
         /\ req'[x].buf = old[x].buf /\ SameFlags(old[x], req'[x])
         /\ req'[x].backup = old[x].backup \/ old[x].backup = "pending"
    BY <2>7, <2>8, <2>9 DEF MPIOPT_Request, SameFlags
  <2>15. PICK sx, dx : Status(x, st, dn, sx, dx)
    BY DEF Status
  <2>16. SendInv(old[x], sx, dx) /\ PairInv(old[x], old[r], msgs, sx, dx) /\ FlagInv(old[x], old[r])
    BY <1>1, <2>4, <2>5, <2>15, SendEnd
  <2>17. /\ SendInv(req'[x], sx, dx) /\ PairInv(req'[x], req'[r], Tail(msgs), sx, dx)
         /\ FlagInv(req'[x], req'[r])
    <3>1. req'[r].buf = old[r].buf + 1
      BY <2>13
    <3> QED
      BY <1>4, <1>6, <1>7, <2>9, <2>11, <2>14, <2>16, <3>1, PairTakes, ZenonT(30)
  <2>18. Status(x, st2, dn2, sx, dx)
    BY <2>4, <2>15 DEF Status, SameStatus
  <2>19. payload'[c] = Tail(msgs) /\ \A d \in Channels : d # c => payload'[d] = payload[d]
    BY <1>1, <2>6
  <2>20. \A i \in 1 .. Len(payload'[c]) : payload'[c][i].from \in Ends(c, "S")
    BY <1>2, <2>2, <2>19
  <2>21. RecvInv(req'[r], payload'[c], s2, d2) /\ PairInv(req'[x], req'[r], payload'[c], sx, dx)
    BY <2>13, <2>17, <2>19
  <2>22. \A z \in Requests \ {x, r} : req'[z] = old[z] /\ SameStatus(z, st, st2, dn, dn2)
    BY <2>8
  <2>23. \A d \in Channels : d # ChannelOf(x) => payload'[d] = payload[d]
    BY <2>5, <2>19
  <2>24. ChannelOf(x) = ChannelOf(r) /\ ChannelOf(r) = ChannelOf(x)
    BY <2>5
  <2>25. /\ \A i \in 1 .. Len(payload'[ChannelOf(x)]) : payload'[ChannelOf(x)][i].from \in Ends(ChannelOf(x), "S")
         /\ RecvInv(req'[r], payload'[ChannelOf(x)], s2, d2)
         /\ PairInv(req'[x], req'[r], payload'[ChannelOf(x)], sx, dx)
    BY <2>20, <2>21, <2>24
  <2> QED
    BY <2>4, <2>5, <2>17, <2>18, <2>22, <2>23, <2>24, <2>25, BothChanged
<1>8. CASE payload[c] = <<>>
  <2>1. req' = [rq EXCEPT ![r].backup = "pending"] /\ payload' = payload
    BY <1>8 DEF PostRecv
  <2>2. /\ req'[r] = [rq[r] EXCEPT !.backup = "pending"]
        /\ \A z \in Requests \ {r} : req'[z] = old[z]
    BY <1>3, <2>1
  <2>3. /\ req'[r].type = rq[r].type /\ req'[r].operation_number = rq[r].operation_number
        /\ SameFlags(rq[r], req'[r]) /\ req'[r].backup = "pending" /\ req'[r].buf = old[r].buf
        /\ req'[r].flag = old[r].flag
    BY <1>3, <2>2 DEF MPIOPT_Request, SameFlags, Takes
  <2>4. Takes(old[r], req'[r])
    BY <2>3 DEF Takes, SameFlags
  <2>5. s2 => req'[r].type = "search"
    BY <2>3
  <2>6. RecvInv(req'[r], payload[c], s2, FALSE)
    BY <1>2, <1>4, <1>8, <2>3, <2>4, <2>5, RecvReady
  <2>7. ASSUME NEW x \in Ends(c, "S"), NEW sx, NEW dx,
               SendInv(old[x], sx, dx),
               PairInv(old[x], old[r], payload[c], sx, dx), FlagInv(old[x], old[r])
        PROVE  PairInv(old[x], req'[r], payload[c], sx, dx) /\ FlagInv(old[x], req'[r])
    <3>1. Rec(old[x])
      BY <1>1, RecOf
    <3>2. req'[r].buf = old[r].buf
      BY <2>3
    <3>3. old[r].type = "rdma" => old[r].operation_number = req'[r].operation_number
      BY <2>3
    <3> QED
      BY <1>4, <1>8, <2>4, <2>7, <3>1, <3>2, <3>3, PairReady
  <2>8. Ends(c, "S") = {} => req'[r].buf = 0 /\ req'[r].flag = 0
    BY <1>2, <2>3
  <2>9. RecvInv(req'[r], payload[c], s2, d2)
    BY <2>6
  <2>10. \A z \in Requests \ {r} : req'[z] = old[z] /\ SameStatus(z, st, st2, dn, dn2)
    BY <2>2
  <2>11. \A x \in Ends(c, "S") : \A sx, dx :
           /\ SendInv(old[x], sx, dx)
           /\ PairInv(old[x], old[r], payload[c], sx, dx) /\ FlagInv(old[x], old[r])
           => PairInv(old[x], req'[r], payload[c], sx, dx) /\ FlagInv(old[x], req'[r])
    BY <2>7
  <2>12. Chans(req', payload, st2, dn2)
    BY <2>8, <2>9, <2>10, <2>11, RecvChanged
  <2> QED
    BY <2>1, <2>12
<1> QED
  BY <1>7, <1>8

\* A connected receive in its first operation is posted, wherever its process is.
LEMMA PostsReceiveChans ==
  ASSUME OneRequestPerSide, IInv, payload \in [Channels -> Messages],
         NEW rq, Table(rq), Table(req'), NEW st, NEW dn, Chans(rq, payload, st, dn),
         NEW r \in Requests, PostsReceive(rq, r), PostRecv(rq, r)
  PROVE  Chans(req', payload', st, dn)
<1>1. /\ SideOf(r) = "R" /\ rq[r].type = "search" /\ rq[r].backup = "null"
      /\ rq[r].operation_number = 1
  BY DEF PostsReceive
<1>2. PICK sr, dr : Status(r, st, dn, sr, dr)
  BY DEF Status
<1>3. RecvInv(rq[r], payload[ChannelOf(r)], sr, dr)
  BY <1>1, <1>2, RecvEnd
<1>4. rq[r].operation_number = rq[r].buf + 1 /\ dr = FALSE
  <2>1. Awaiting(rq[r]) /\ Messaging(rq[r])
    BY <1>1 DEF Awaiting, Messaging
  <2>2. ~dr /\ rq[r].operation_number = rq[r].buf + 1
    BY <1>1, <1>3, <2>1 DEF RecvInv, EndInv
  <2>3. dr \in BOOLEAN
    BY <1>2 DEF Status
  <2> QED
    BY <2>2, <2>3
<1>5. Takes(rq[r], rq[r])
  <2>1. rq[r].buf \in Nat
    BY FieldsTyped
  <2> QED
    BY <1>1, <1>4, <2>1 DEF Takes, Messaging, SameFlags
<1>6. \A z \in Requests \ {r} : rq[z] = rq[z] /\ SameStatus(z, st, st, dn, dn)
  BY DEF SameStatus
<1> QED
  BY <1>1, <1>2, <1>4, <1>5, <1>6, PostRecvChans

\* A search for the peer may post the receive of the first operation.
LEMMA SearchPeerChans ==
  ASSUME OneRequestPerSide, IInv, payload \in [Channels -> Messages],
         NEW rq, Table(rq), Table(req'), NEW st, NEW dn, Chans(rq, payload, st, dn),
         NEW p, NEW r \in Requests, NEW callers, SearchPeer(rq, p, r, callers)
  PROVE  Chans(req', payload', st, dn)
<1>1. CASE rq[r].remote = Null /\ Iprobe(r)
  <2> DEFINE q == Head(info[Inbox(r)])
  <2>1. /\ req' = [rq EXCEPT ![r].remote = q, ![q].infoSend = "done"]
        /\ payload' = payload
    BY <1>1 DEF SearchPeer
  <2> HIDE DEF q
  <2>2. ASSUME NEW z \in Requests PROVE Same(rq[z], req'[z]) /\ SameStatus(z, st, st, dn, dn)
    <3>1. /\ req'[z].type = rq[z].type /\ req'[z].operation_number = rq[z].operation_number
          /\ req'[z].buf = rq[z].buf /\ req'[z].backup = rq[z].backup
          /\ req'[z].flag = rq[z].flag /\ req'[z].puts = rq[z].puts
      <4>1. PICK mid : /\ mid = [rq EXCEPT ![r].remote = q]
                       /\ req' = [mid EXCEPT ![q].infoSend = "done"]
        BY <2>1
      <4>2. rq \in [Requests -> MPIOPT_Request] /\ rq[z] \in MPIOPT_Request
        BY DEF Table
      <4>3. \E v : mid[z] = [rq[z] EXCEPT !.remote = v]
        BY <4>1, <4>2, ZenonT(30) DEF MPIOPT_Request
      <4>4. z \in DOMAIN mid
        BY <4>1, <4>2
      <4>5. req'[z] = mid[z] \/ req'[z] = [mid[z] EXCEPT !.infoSend = "done"]
        BY <4>1, <4>4
      <4>6. /\ DOMAIN mid[z] = DOMAIN rq[z]
            /\ \A f \in DOMAIN rq[z] : f # "remote" => mid[z][f] = rq[z][f]
        BY <4>3
      <4>7. \A f \in DOMAIN rq[z] : f \notin {"remote", "infoSend"} => req'[z][f] = rq[z][f]
        BY <4>5, <4>6
      <4>8. DOMAIN rq[z] = {"type", "operation_number", "remote", "infoSend", "backup", "flag",
                            "puts", "buf"}
        BY <4>2 DEF MPIOPT_Request
      <4> QED
        BY <4>7, <4>8
    <3> QED
      BY <3>1 DEF Same, SameCalls, SameFlags, SameStatus
  <2>3. Chans(req', payload, st, dn)
    BY <2>2, NoneChanged
  <2> QED
    BY <2>1, <2>3
<1>2. CASE ~ (rq[r].remote = Null /\ Iprobe(r)) /\ PostsReceive(rq, r)
  <2>1. PostRecv(rq, r)
    BY <1>2 DEF SearchPeer
  <2> QED
    BY <1>2, <2>1, PostsReceiveChans
<1>3. CASE ~ (rq[r].remote = Null /\ Iprobe(r)) /\ ~PostsReceive(rq, r)
  BY <1>3 DEF SearchPeer
<1> QED
  BY <1>1, <1>2, <1>3

\* What these leave of the other requests.
LEMMA PostSendCalm ==
  ASSUME IInv, NEW rq, Table(rq), NEW r \in Requests, SideOf(r) = "S",
         NEW synchronous, PostSend(rq, r, synchronous)
  PROVE  /\ \A z \in Requests \ {r} : Calm(rq, req', z)
         /\ req'[r].operation_number = rq[r].operation_number
         /\ req'[r].type = rq[r].type
<1>1. rq \in [Requests -> MPIOPT_Request]
  BY DEF Table
<1>2. \/ \E q, m : req' = [rq EXCEPT ![r].backup = "done", ![q].backup = "done", ![q].buf = m]
      \/ \E b : req' = [rq EXCEPT ![r].backup = b]
  BY Zenon DEF PostSend
<1>3. ASSUME NEW q, NEW m,
             req' = [rq EXCEPT ![r].backup = "done", ![q].backup = "done", ![q].buf = m]
      PROVE  /\ \A z \in Requests \ {r} : Calm(rq, req', z)
             /\ req'[r].operation_number = rq[r].operation_number
             /\ req'[r].type = rq[r].type
  BY <1>1, <1>3 DEF Calm, MPIOPT_Request
<1>4. ASSUME NEW b, req' = [rq EXCEPT ![r].backup = b]
      PROVE  /\ \A z \in Requests \ {r} : Calm(rq, req', z)
             /\ req'[r].operation_number = rq[r].operation_number
             /\ req'[r].type = rq[r].type
  BY <1>1, <1>4 DEF Calm, MPIOPT_Request
<1> QED
  BY <1>2, <1>3, <1>4

LEMMA PostRecvCalm ==
  ASSUME IInv, NEW rq, Table(rq), NEW r \in Requests, SideOf(r) = "R", PostRecv(rq, r)
  PROVE  /\ \A z \in Requests \ {r} : Calm(rq, req', z)
         /\ req'[r].operation_number = rq[r].operation_number
         /\ req'[r].type = rq[r].type
         /\ rq[r].type = "search" => Calm(rq, req', r)
         /\ payload[ChannelOf(r)] # <<>> \/ req'[r].backup = "pending"
<1>1. rq \in [Requests -> MPIOPT_Request]
  BY DEF Table
<1>2. CASE payload[ChannelOf(r)] # <<>>
  <2> DEFINE m == Head(payload[ChannelOf(r)])
  <2>1. PICK q, b, n : /\ q = m.from /\ b = Acknowledged(rq, m) /\ n = m.n
    OBVIOUS
  <2>2. req' = [rq EXCEPT ![r].backup = "done", ![r].buf = n, ![q].backup = b]
    BY <1>2, <2>1 DEF PostRecv
  <2>3. q \in Requests => b = "done" \/ b = rq[q].backup
    BY <2>1 DEF Acknowledged
  <2> HIDE DEF m
  <2> QED
    BY <1>1, <1>2, <2>2, <2>3 DEF Calm, MPIOPT_Request
<1>3. CASE payload[ChannelOf(r)] = <<>>
  <2>1. req' = [rq EXCEPT ![r].backup = "pending"]
    BY <1>3 DEF PostRecv
  <2> QED
    BY <1>1, <2>1 DEF Calm, MPIOPT_Request
<1> QED
  BY <1>2, <1>3

LEMMA SearchPeerCalm ==
  ASSUME IInv, NEW rq, Table(rq), NEW p, NEW r \in Requests, NEW callers,
         SearchPeer(rq, p, r, callers)
  PROVE  \A z \in Requests : Calm(rq, req', z)
<1>1. CASE rq[r].remote = Null /\ Iprobe(r)
  <2>1. PICK q : req' = [rq EXCEPT ![r].remote = q, ![q].infoSend = "done"]
    BY <1>1 DEF SearchPeer
  <2> QED
    BY <2>1 DEF Table, MPIOPT_Request, Calm
<1>2. CASE ~ (rq[r].remote = Null /\ Iprobe(r)) /\ PostsReceive(rq, r)
  <2>1. PostRecv(rq, r) /\ SideOf(r) = "R" /\ rq[r].type = "search"
    BY <1>2 DEF SearchPeer, PostsReceive
  <2> QED
    BY <2>1, PostRecvCalm
<1>3. CASE ~ (rq[r].remote = Null /\ Iprobe(r)) /\ ~PostsReceive(rq, r)
  BY <1>3 DEF SearchPeer, Calm
<1> QED
  BY <1>1, <1>2, <1>3

\* The calls it leaves on the stack.
LEMMA SearchPeerStack ==
  ASSUME NEW rq, NEW p, NEW r, NEW callers, SearchPeer(rq, p, r, callers),
         NEW T, callers \in Seq(T), Frame(r, "block", <<>>) \in T,
         NEW q, NEW at, Based(callers, q, at)
  PROVE  \E fs : stack' = [stack EXCEPT ![p] = fs] /\ Based(fs, q, at)
<1>1. \/ stack' = [stack EXCEPT ![p] = <<Frame(r, "block", <<>>)>> \o callers]
      \/ stack' = [stack EXCEPT ![p] = callers]
  BY DEF SearchPeer
<1>2. Based(<<Frame(r, "block", <<>>)>> \o callers, q, at)
  <2>1. Frame(r, "block", <<>>).at = "block"
    BY DEF Frame
  <2> QED
    BY <2>1, BasedPush
<1> QED
  BY <1>1, <1>2

-----------------------------------------------------------------------------
(* RDMA.                                                                   *)

\* What a transfer writes.
LEMMA WrittenFields ==
  ASSUME NEW rq, Table(rq), NEW r \in Requests, NEW q \in Requests,
         NEW n, NEW ps, NEW b, NEW new,
         new = SetBuf(SetPuts(SetFlag(rq, r, n), r, ps), q, b)
  PROVE  /\ \A z \in Requests \ {r, q} : new[z] = rq[z]
         /\ new[r].flag = n /\ new[r].puts = ps
         /\ q # r => new[r].buf = rq[r].buf
         /\ new[r].type = rq[r].type /\ new[r].backup = rq[r].backup
         /\ new[r].operation_number = rq[r].operation_number
         /\ new[q].buf = b
         /\ new[q].type = rq[q].type /\ new[q].backup = rq[q].backup
         /\ new[q].operation_number = rq[q].operation_number
         /\ q # r => SameFlags(rq[q], new[q])
<1>1. rq \in [Requests -> MPIOPT_Request]
  BY DEF Table
<1>2. PICK a : a = SetFlag(rq, r, n)
  OBVIOUS
<1>3. PICK d : d = SetPuts(a, r, ps)
  OBVIOUS
<1>4. new = SetBuf(d, q, b)
  BY <1>2, <1>3
<1>5. /\ DOMAIN a = Requests /\ \A z \in Requests \ {r} : a[z] = rq[z]
      /\ a[r] = [rq[r] EXCEPT !.flag = n]
  BY <1>1, <1>2 DEF SetFlag
<1>6. /\ DOMAIN d = Requests /\ \A z \in Requests \ {r} : d[z] = a[z]
      /\ d[r] = [a[r] EXCEPT !.puts = ps]
  BY <1>3, <1>5 DEF SetPuts
<1>7. /\ \A z \in Requests \ {q} : new[z] = d[z]
      /\ new[q] = [d[q] EXCEPT !.buf = b]
  BY <1>4, <1>6 DEF SetBuf
<1>8. rq[r] \in MPIOPT_Request /\ rq[q] \in MPIOPT_Request
  BY <1>1
<1>9. PICK x : x = rq[r] /\ x \in MPIOPT_Request
  BY <1>8
<1>10. PICK y : y = rq[q] /\ y \in MPIOPT_Request
  BY <1>8
<1>11. d[r] = [[x EXCEPT !.flag = n] EXCEPT !.puts = ps]
  BY <1>5, <1>6, <1>9
<1>12. /\ d[r].flag = n /\ d[r].puts = ps /\ d[r].buf = x.buf /\ d[r].type = x.type
       /\ d[r].backup = x.backup /\ d[r].operation_number = x.operation_number
       /\ DOMAIN d[r] = DOMAIN x
  BY <1>9, <1>11 DEF MPIOPT_Request
<1>13. CASE q = r
  <2>1. /\ new[r].flag = n /\ new[r].puts = ps /\ new[r].buf = b /\ new[r].type = x.type
        /\ new[r].backup = x.backup /\ new[r].operation_number = x.operation_number
    BY <1>7, <1>9, <1>12, <1>13 DEF MPIOPT_Request
  <2>2. \A z \in Requests \ {r, q} : new[z] = rq[z]
    BY <1>5, <1>6, <1>7, <1>13
  <2> QED
    BY <1>9, <1>13, <2>1, <2>2
<1>14. CASE q # r
  <2>1. new[r] = d[r] /\ d[q] = y /\ new[q] = [y EXCEPT !.buf = b]
    BY <1>5, <1>6, <1>7, <1>10, <1>14
  <2>2. /\ new[q].buf = b /\ new[q].type = y.type /\ new[q].backup = y.backup
        /\ new[q].operation_number = y.operation_number /\ SameFlags(y, new[q])
    BY <1>10, <2>1 DEF MPIOPT_Request, SameFlags
  <2>3. \A z \in Requests \ {r, q} : new[z] = rq[z]
    BY <1>5, <1>6, <1>7, <1>14
  <2> QED
    BY <1>9, <1>10, <1>12, <1>14, <2>1, <2>2, <2>3
<1> QED
  BY <1>13, <1>14

\* A request of type rdma has a peer, the other end of its channel.
LEMMA PeerEnd ==
  ASSUME IInv, Table(req), NEW r \in Requests, req[r].type = "rdma"
  PROVE  /\ req[r].remote \in Requests /\ ChannelOf(req[r].remote) = ChannelOf(r)
         /\ SideOf(req[r].remote) # SideOf(r) /\ SideOf(req[r].remote) \in {"S", "R"}
<1>1. req[r].remote \in Requests
  BY PeerTyped
<1>2. req[r].remote # Null
  BY DEF Table
<1> QED
  BY <1>1, <1>2, RequestsTyped DEF IInv, Sound, Paired, Side

LEMMA FetchFields ==
  ASSUME NEW rq, Table(rq), NEW r \in Requests, rq[r].remote \in Requests, NEW n,
         NEW new, new = Fetch(rq, r, n)
  PROVE  /\ \A z \in Requests \ {r} : new[z] = rq[z]
         /\ new[r].type = rq[r].type /\ new[r].operation_number = rq[r].operation_number
         /\ new[r].flag = 2 * n + 2 /\ new[r].puts = Append(rq[r].puts, 2 * n + 2)
         /\ new[r].backup = rq[r].backup /\ new[r].buf = rq[rq[r].remote].buf
<1>1. new = SetBuf(SetPuts(SetFlag(rq, r, 2 * n + 2), r, Append(rq[r].puts, 2 * n + 2)),
                   r, rq[rq[r].remote].buf)
  BY DEF Fetch, SetBuf, SetPuts, SetFlag, Table, MPIOPT_Request
<1>2. PICK m, ps, b : m = 2 * n + 2 /\ ps = Append(rq[r].puts, 2 * n + 2) /\ b = rq[rq[r].remote].buf
  OBVIOUS
<1>3. new = SetBuf(SetPuts(SetFlag(rq, r, m), r, ps), r, b)
  BY <1>1, <1>2
<1>4. /\ \A z \in Requests \ {r} : new[z] = rq[z]
      /\ new[r].type = rq[r].type /\ new[r].operation_number = rq[r].operation_number
      /\ new[r].flag = m /\ new[r].puts = ps
      /\ new[r].backup = rq[r].backup /\ new[r].buf = b
  BY <1>3, WrittenFields
<1> QED
  BY <1>2, <1>4

LEMMA PushFields ==
  ASSUME NEW rq, Table(rq), NEW r \in Requests, NEW q \in Requests, q = rq[r].remote, q # r, NEW n,
         NEW new, new = Push(rq, r, n)
  PROVE  /\ \A z \in Requests \ {r, q} : new[z] = rq[z]
         /\ new[r].type = rq[r].type /\ new[r].operation_number = rq[r].operation_number
         /\ new[r].flag = 2 * n + 2 /\ new[r].puts = Append(rq[r].puts, 2 * n + 2)
         /\ new[r].backup = rq[r].backup /\ new[r].buf = rq[r].buf
         /\ new[q].type = rq[q].type /\ new[q].operation_number = rq[q].operation_number
         /\ new[q].backup = rq[q].backup /\ SameFlags(rq[q], new[q])
         /\ new[q].buf = rq[r].buf
<1>1. new = SetBuf(SetPuts(SetFlag(rq, r, 2 * n + 2), r, Append(rq[r].puts, 2 * n + 2)),
                   q, rq[r].buf)
  BY DEF Push, SetBuf, SetPuts, SetFlag, Table, MPIOPT_Request
<1>2. PICK m, ps, b : m = 2 * n + 2 /\ ps = Append(rq[r].puts, 2 * n + 2) /\ b = rq[r].buf
  OBVIOUS
<1>3. new = SetBuf(SetPuts(SetFlag(rq, r, m), r, ps), q, b)
  BY <1>1, <1>2
<1>4. /\ \A z \in Requests \ {r, q} : new[z] = rq[z]
      /\ new[r].type = rq[r].type /\ new[r].operation_number = rq[r].operation_number
      /\ new[r].flag = m /\ new[r].puts = ps
      /\ new[r].backup = rq[r].backup /\ new[r].buf = rq[r].buf
  BY <1>3, WrittenFields
<1>5. /\ new[q].type = rq[q].type /\ new[q].operation_number = rq[q].operation_number
      /\ new[q].backup = rq[q].backup /\ SameFlags(rq[q], new[q])
      /\ new[q].buf = b
  BY <1>3, WrittenFields
<1> QED
  BY <1>2, <1>4, <1>5

LEMMA AnnounceFields ==
  ASSUME NEW rq, Table(rq), NEW r \in Requests, NEW n,
         NEW new, new = Announce(rq, r, n)
  PROVE  /\ \A z \in Requests \ {r} : new[z] = rq[z]
         /\ new[r].type = rq[r].type /\ new[r].operation_number = rq[r].operation_number
         /\ new[r].flag = rq[r].flag /\ new[r].puts = Append(rq[r].puts, 2 * n + 1)
         /\ new[r].backup = rq[r].backup /\ new[r].buf = rq[r].buf
<1>1. PICK m, ps : m = 2 * n + 1 /\ ps = Append(rq[r].puts, 2 * n + 1)
  OBVIOUS
<1>2. new = SetPuts(rq, r, ps)
  BY <1>1 DEF Announce, SetPuts, Table, MPIOPT_Request
<1>3. PICK x : x = rq[r] /\ x \in MPIOPT_Request
  BY FieldsTyped
<1>4. /\ \A z \in Requests \ {r} : new[z] = rq[z]
      /\ new[r] = [x EXCEPT !.puts = ps]
  BY <1>2, <1>3 DEF SetPuts, Table
<1> QED
  BY <1>1, <1>3, <1>4 DEF MPIOPT_Request

\* A receive whose peer is ready, in its operation or at the start of it.
LEMMA FetchChans ==
  ASSUME OneRequestPerSide, IInv, Table(req),
         NEW st, NEW dn, NEW st2, NEW dn2, Chans(req, payload, st, dn),
         NEW r \in Requests, SideOf(r) = "R", req[r].type = "rdma", NEW n \in Nat,
         NEW rq, Table(rq),
         \A z \in Requests \ {r} : rq[z] = req[z] /\ SameStatus(z, st, st2, dn, dn2),
         rq[r].type = "rdma" /\ rq[r].operation_number = n /\ rq[r].backup = req[r].backup,
         SameFlags(req[r], rq[r]), rq[r].remote = req[r].remote,
         NEW dy, NEW d2, Status(r, st, dn, FALSE, dy), Status(r, st2, dn2, FALSE, d2),
         req[r].operation_number = n \/ (dy /\ n = req[r].operation_number + 1),
         req[r].flag = 2 * n + 1,
         NEW new, new = Fetch(rq, r, n)
  PROVE  Chans(new, payload, st2, dn2)
<1> DEFINE c == ChannelOf(r)
<1>1. PICK no : no = FALSE
  OBVIOUS
<1>2. Status(r, st, dn, no, dy) /\ Status(r, st2, dn2, no, d2)
  BY <1>1
<1>3. PICK x : x = req[r].remote
  OBVIOUS
<1>4. x \in Requests /\ ChannelOf(x) = c /\ SideOf(x) = "S" /\ x # r
  BY <1>3, PeerEnd
<1>5. PICK y2 : y2 = new[r]
  OBVIOUS
<1>6. /\ \A z \in Requests \ {r} : new[z] = req[z]
      /\ y2.type = "rdma" /\ y2.operation_number = n
      /\ y2.flag = 2 * n + 2 /\ y2.puts = Append(req[r].puts, 2 * n + 2)
      /\ y2.backup = req[r].backup /\ y2.buf = req[x].buf
  <2>1. rq[r].remote = x /\ rq[x] = req[x]
    BY <1>3, <1>4
  <2>2. /\ \A z \in Requests \ {r} : new[z] = rq[z]
        /\ y2.type = rq[r].type /\ y2.operation_number = rq[r].operation_number
        /\ y2.flag = 2 * n + 2 /\ y2.puts = Append(rq[r].puts, 2 * n + 2)
        /\ y2.backup = rq[r].backup /\ y2.buf = rq[x].buf
    BY <1>4, <1>5, <2>1, FetchFields
  <2> QED
    BY <2>1, <2>2 DEF SameFlags
<1>7. RecvInv(req[r], payload[c], no, dy)
  BY <1>2, RecvEnd
<1>8. Rec(req[r]) /\ Rec(req[x])
  BY <1>4, RecOf
<1>9. Ends(c, "S") = {x}
  BY <1>4, OneEnd
<1>10. ASSUME NEW sx, NEW dx, SendInv(req[x], sx, dx),
              PairInv(req[x], req[r], payload[c], sx, dx), FlagInv(req[x], req[r])
       PROVE  /\ RecvInv(y2, payload[c], no, d2)
              /\ PairInv(req[x], y2, payload[c], sx, dx) /\ FlagInv(req[x], y2)
  <2>1. RecvInv(req[r], payload[c], FALSE, dy)
    BY <1>1, <1>7
  <2>2. RecvInv(y2, payload[c], FALSE, d2)
    BY <1>6, <1>8, <1>10, <2>1, RecvFetches
  <2>3. PairInv(req[x], y2, payload[c], sx, dx) /\ FlagInv(req[x], y2)
    BY <1>6, <1>8, <1>10, <2>1, RecvFetches
  <2> QED
    BY <1>1, <2>2, <2>3
<1>11. PICK sx, dx : Status(x, st, dn, sx, dx)
  BY DEF Status
<1>12. SendInv(req[x], sx, dx) /\ PairInv(req[x], req[r], payload[c], sx, dx) /\ FlagInv(req[x], req[r])
  <2>1. r \in Ends(ChannelOf(x), "R") /\ ChannelOf(x) = c
    BY <1>4 DEF Ends
  <2> QED
    BY <1>4, <1>11, <2>1, SendEnd
<1>13. RecvInv(new[r], payload[c], no, d2)
  BY <1>5, <1>10, <1>12
<1>14. Ends(c, "S") = {} => new[r].buf = 0 /\ new[r].flag = 0
  BY <1>9
<1>15. \A z \in Ends(c, "S") : \A s, d :
         /\ SendInv(req[z], s, d) /\ PairInv(req[z], req[r], payload[c], s, d) /\ FlagInv(req[z], req[r])
         => PairInv(req[z], new[r], payload[c], s, d) /\ FlagInv(req[z], new[r])
  BY <1>5, <1>9, <1>10
<1>16. \A z \in Requests \ {r} : new[z] = req[z] /\ SameStatus(z, st, st2, dn, dn2)
  BY <1>6
<1> QED
  BY <1>2, <1>13, <1>14, <1>15, <1>16, RecvChanged
=============================================================================
