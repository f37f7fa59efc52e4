----------------------------- MODULE RdvProcess ------------------------------
(***************************************************************************)
(* MPI processes that use several persistent requests of the rendezvous    *)
(* transport: how the requests of a process are progressed while it is     *)
(* blocked in a call on one of them.                                       *)
(*                                                                         *)
(* A process keeps its live requests in request_list.  Wherever it waits   *)
(* it passes over that list, again and again, and progresses all other     *)
(* requests.  A request that finds the addresses of its peer on the way    *)
(* blocks in receive_rdma_info until its own addresses have been taken,    *)
(* and passes over the list itself: these calls nest on the stack.         *)
(*                                                                         *)
(* Here a message is visible to the receiver once it is sent, and RDMA     *)
(* moves data at once while the put of a flag takes its time.  What a late *)
(* message does to a handshake is in RdvHandshake, what the order of RDMA  *)
(* operations does to a transfer is in RdvTransfer.                        *)
(***************************************************************************)
EXTENDS MpiCalls, SequencesExt

VARIABLES
  req,      \* req[r]: the MPIOPT_Request
  list,     \* list[p]: the request_list of p, from its head
  freed,    \* the requests on the to_free_list of their process
  stack,    \* stack[p]: the calls p is in, innermost first
  info,     \* info[q]: handshake messages that have not been received, see Queue
  payload   \* payload[c]: unexpected messages of channel c

vars == <<deployment, next, req, list, freed, stack, info, payload>>

Requests == DOMAIN deployment.requests
Channels == {ChannelOf(r) : r \in Requests}

\* Broken variant of Communicator: one for both directions of the handshake.
SameCommunicator(s) == "handshake"

\* The communicator on which side s sends its addresses: handshake_communicator
\* or handshake_response_communicator.
Communicator(s) == IF s = "S" THEN "handshake" ELSE "response"

PeerSide(s) == IF s = "S" THEN "R" ELSE "S"

\* What MPI goes by when it matches the handshake message of side s of channel c.
Queue(c, s) == <<Communicator(s), Owner(c, s), Owner(c, PeerSide(s)), c.tag>>
Queues == {Queue(c, s) : c \in Channels, s \in Side}

Null == "null"

\* No request is at NULL.
ASSUME NullAssumption == \A d \in Deployments : Null \notin DOMAIN d.requests

\* The fields of a request: its protocol, operation_number, the request whose
\* addresses it holds (remote_data_addr and remote_flag_addr), the state of
\* rdma_exchange_request_send and of backup_request, the flag, the puts to the
\* peer's flag that have not been flushed, and the number of the message in
\* the application's buffer.
MPIOPT_Request ==
  [type : {"new", "plain", "search", "rdma", "fallback"},
   operation_number : Nat,
   remote : Requests \union {Null},
   infoSend : {"null", "pending", "done"},
   backup : {"null", "pending", "done"},
   flag : Nat,
   puts : Seq(Nat),
   buf : Nat]

\* Broken variant of Cleared: the flag holds whatever was in the memory.
Uncleared(t) ==
  [type |-> t, operation_number |-> 0, remote |-> Null, infoSend |-> "null",
   backup |-> "null", flag |-> -1, puts |-> <<>>, buf |-> 0]

Cleared(t) ==
  [type |-> t, operation_number |-> 0, remote |-> Null, infoSend |-> "null",
   backup |-> "null", flag |-> 0, puts |-> <<>>, buf |-> 0]

\* Where a call on a request is, see the actions.
Places == {"post",              \* MPIX_Start of the first operation
           "probe", "test", "sent",                       \* its wait, sender
           "look", "again", "last", "decide", "receive", "received",  \* receiver
           "flush", "flag", "fetched",                    \* wait, RDMA
           "mpi_wait",                                    \* wait, ordinary MPI
           "block"}             \* receive_rdma_info

\* A call on a request, with the requests left of a pass over the list.
Frame(r, at, rest) == [req |-> r, at |-> at, rest |-> rest]

TypeOK ==
  /\ next \in [Process -> Nat \ {0}]
  /\ req \in [Requests -> MPIOPT_Request]
  /\ list \in [Process -> Seq(Requests)]
  /\ freed \subseteq Requests
  /\ stack \in [Process -> Seq([req : Requests, at : Places, rest : Seq(Requests)])]
  /\ info \in [Queues -> Seq(Requests)]
  /\ payload \in [Channels -> Seq([from : Requests, n : Nat])]

Init ==
  /\ deployment \in Deployments
  /\ next = [p \in Process |-> 1]
  /\ req = [r \in Requests |->
              Cleared(IF deployment.requests[r].persistent THEN "new" ELSE "plain")]
  /\ list = [p \in Process |-> <<>>]
  /\ freed = {}
  /\ stack = [p \in Process |-> <<>>]
  /\ info = [q \in Queues |-> <<>>]
  /\ payload = [c \in Channels |-> <<>>]

-----------------------------------------------------------------------------
(* The stack. *)

\* p is about to make call `do`, or is at a place of the innermost call.
Calling(p, do) == stack[p] = <<>> /\ ~Ended(p) /\ Call(p).do = do
At(p, place)   == stack[p] # <<>> /\ stack[p][1].at = place /\ stack[p][1].rest = <<>>
Current(p)     == stack[p][1].req

Enter(p, f)    == stack' = [stack EXCEPT ![p] = <<f>> \o @]
Go(p, f)       == stack' = [stack EXCEPT ![p] = <<f>> \o Tail(@)]
GoTo(p, place) == Go(p, Frame(Current(p), place, <<>>))

\* The call of the application returns.
Return(p) == /\ stack' = [stack EXCEPT ![p] = <<>>]
             /\ next' = [next EXCEPT ![p] = @ + 1]

\* The list without r, which it holds once.
Others(p, r) == RemoveFirst(list[p], r)

\* progress_other_requests, then on to a place.
ProgressOthersThen(p, place) ==
  Go(p, Frame(Current(p), place, Others(p, Current(p))))

-----------------------------------------------------------------------------
(* Ordinary messages.  These take the requests as they have been changed by  *)
(* the step so far.                                                          *)

Posted(c) == {q \in Requests : /\ SideOf(q) = "R" /\ ChannelOf(q) = c
                               /\ req[q].backup = "pending"}

\* MPI_Issend, or MPI_Isend, which may be buffered.
PostSend(rq, r, synchronous) ==
  LET c == ChannelOf(r) IN
  IF Posted(c) # {}
    THEN LET q == CHOOSE q \in Posted(c) : TRUE IN
         /\ req' = [rq EXCEPT ![r].backup = "done",
                              ![q].backup = "done", ![q].buf = rq[r].buf]
         /\ UNCHANGED payload
    ELSE /\ \E b \in IF synchronous THEN {"pending"} ELSE {"pending", "done"} :
              req' = [rq EXCEPT ![r].backup = b]
         /\ payload' = [payload EXCEPT ![c] = Append(@, [from |-> r, n |-> rq[r].buf])]

\* The send of message m once the message is received.
Acknowledged(rq, m) ==
  LET backup == rq[m.from].backup IN
  IF backup = "pending" /\ rq[m.from].buf = m.n THEN "done" ELSE backup

\* MPI_Irecv.
PostRecv(rq, r) ==
  LET c == ChannelOf(r) IN
  IF payload[c] # <<>>
    THEN LET m == Head(payload[c]) IN
         /\ req' = [rq EXCEPT ![r].backup = "done", ![r].buf = m.n,
                             ![m.from].backup = Acknowledged(rq, m)]
         /\ payload' = [payload EXCEPT ![c] = Tail(@)]
    ELSE /\ req' = [rq EXCEPT ![r].backup = "pending"]
         /\ UNCHANGED payload

-----------------------------------------------------------------------------
(* The handshake. *)

Outbox(r) == Queue(ChannelOf(r), SideOf(r))

\* Broken variant of Inbox: it is on the communicator the request sends on.
SwappedInbox(r) ==
  LET c == ChannelOf(r) s == SideOf(r) IN
  <<Communicator(s), Owner(c, PeerSide(s)), Owner(c, s), c.tag>>

Inbox(r) == Queue(ChannelOf(r), PeerSide(SideOf(r)))

\* MPI_Iprobe for the addresses of the peer.
Iprobe(r) == Inbox(r) \in Queues /\ info[Inbox(r)] # <<>>

\* A connected receive whose first operation is started posts its receive.
PostsReceive(rq, r) ==
  /\ rq[r].remote # Null
  /\ SideOf(r) = "R" /\ rq[r].type = "search"
  /\ rq[r].backup = "null" /\ rq[r].operation_number = 1

\* progress_request_waiting_for_rdma: without news the process goes on with its
\* callers, with the peer's addresses it first blocks until its own are taken.
SearchPeer(rq, p, r, callers) ==
  IF rq[r].remote = Null /\ Iprobe(r)
    THEN LET q == Head(info[Inbox(r)]) IN
         /\ req' = [rq EXCEPT ![r].remote = q, ![q].infoSend = "done"]
         /\ info' = [info EXCEPT ![Inbox(r)] = Tail(@)]
         /\ stack' = [stack EXCEPT ![p] = <<Frame(r, "block", <<>>)>> \o callers]
         /\ UNCHANGED payload
    ELSE /\ stack' = [stack EXCEPT ![p] = callers]
         /\ UNCHANGED info
         /\ IF PostsReceive(rq, r) THEN PostRecv(rq, r)
                                   ELSE req' = rq /\ UNCHANGED payload

\* Broken variant of BlockRound: it tests its own message only.
BlockAlone(p) ==
  /\ At(p, "block") /\ req[Current(p)].infoSend # "done"
  /\ UNCHANGED vars

\* receive_rdma_info waits for its own MPI_Issend, progressing the others ...
BlockRound(p) ==
  /\ At(p, "block") /\ req[Current(p)].infoSend # "done"
  /\ ProgressOthersThen(p, "block")
  /\ UNCHANGED <<deployment, next, req, list, freed, info, payload>>

\* ... and the caller goes on with the rest of progress_request_waiting_for_rdma.
BlockEnd(p) ==
  /\ At(p, "block") /\ req[Current(p)].infoSend = "done"
  /\ stack' = [stack EXCEPT ![p] = Tail(@)]
  /\ IF PostsReceive(req, Current(p)) THEN PostRecv(req, Current(p))
                                      ELSE UNCHANGED <<req, payload>>
  /\ UNCHANGED <<deployment, next, list, freed, info>>

-----------------------------------------------------------------------------
(* The RDMA transfer of operation n: the flag 2n+1 says that the peer has    *)
(* started it, 2n+2 that it has been carried out.                            *)

ReadyFlag(r) == 2 * req[r].operation_number + 1
DoneFlag(r)  == 2 * req[r].operation_number + 2

\* The second to start moves the data: the sender puts ahead of its flag ...
Push(rq, r, n) ==
  [rq EXCEPT ![r].flag = 2 * n + 2, ![r].puts = Append(@, 2 * n + 2),
             ![rq[r].remote].buf = rq[r].buf]

\* ... the receiver gets.
Fetch(rq, r, n) ==
  [rq EXCEPT ![r].flag = 2 * n + 2, ![r].puts = Append(@, 2 * n + 2),
             ![r].buf = rq[rq[r].remote].buf]

Announce(rq, r, n) == [rq EXCEPT ![r].puts = Append(@, 2 * n + 1)]

\* The network carries out the oldest put of r.
PutFlag(r) ==
  /\ req[r].puts # <<>>
  /\ req' = [req EXCEPT ![req[r].remote].flag = Head(req[r].puts),
                        ![r].puts = Tail(@)]
  /\ UNCHANGED <<deployment, next, list, freed, stack, info, payload>>

-----------------------------------------------------------------------------
(* Passing over the list. *)

\* progress_request for the next request of a pass.
ProgressNext(p) ==
  /\ stack[p] # <<>> /\ stack[p][1].rest # <<>>
  /\ LET f == stack[p][1]
         r == Head(f.rest)
         g == Frame(f.req, f.at, Tail(f.rest))
     IN
     CASE req[r].type = "search" -> SearchPeer(req, p, r, <<g>> \o Tail(stack[p]))
       [] req[r].type = "rdma" /\ SideOf(r) = "R" /\ req[r].flag = ReadyFlag(r) ->
            /\ req' = Fetch(req, r, req[r].operation_number)
            /\ Go(p, g) /\ UNCHANGED <<info, payload>>
       [] req[r].type = "fallback" /\ req[r].backup = "done" ->
            /\ req' = [req EXCEPT ![r].backup = "null"]
            /\ Go(p, g) /\ UNCHANGED <<info, payload>>
       [] OTHER -> Go(p, g) /\ UNCHANGED <<req, info, payload>>
  /\ UNCHANGED <<deployment, next, list, freed>>

-----------------------------------------------------------------------------
(* MPIX_Send_init and MPIX_Recv_init. *)

InitRequest(p) ==
  /\ Calling(p, "init")
  /\ LET r == Call(p).on IN
     /\ req' = [req EXCEPT ![r] = [Cleared("search") EXCEPT !.infoSend = "pending"]]
     /\ info' = [info EXCEPT ![Outbox(r)] = Append(@, r)]
     /\ list' = [list EXCEPT ![p] = <<r>> \o @]
  /\ Return(p)
  /\ UNCHANGED <<deployment, freed, payload>>

-----------------------------------------------------------------------------
(* MPIX_Start.  The application has put the next message into a send buffer. *)

Begun(r) ==
  [req EXCEPT ![r].operation_number = @ + 1,
              ![r].buf = IF SideOf(r) = "S" THEN Started(ChannelOf(r), "S") + 1 ELSE @]

\* b_send and b_recv.
StartRdma(p) ==
  /\ Calling(p, "start") /\ req[Call(p).on].type = "rdma"
  /\ LET r == Call(p).on n == req[r].operation_number + 1 IN
     req' = IF req[r].flag # 2 * n + 1 THEN Announce(Begun(r), r, n)
            ELSE IF SideOf(r) = "S" THEN Push(Begun(r), r, n)
            ELSE Fetch(Begun(r), r, n)
  /\ Return(p)
  /\ UNCHANGED <<deployment, list, freed, info, payload>>

\* The fallback, and the calls of an application that uses MPI itself.
StartOrdinary(p) ==
  /\ Calling(p, "start") /\ req[Call(p).on].type \in {"fallback", "plain"}
  /\ LET r == Call(p).on IN
     IF SideOf(r) = "S" THEN PostSend(Begun(r), r, FALSE) ELSE PostRecv(Begun(r), r)
  /\ Return(p)
  /\ UNCHANGED <<deployment, list, freed, info>>

\* The first operation: look for the peer, then post.
StartSearching(p) ==
  /\ Calling(p, "start") /\ req[Call(p).on].type = "search"
  /\ LET r == Call(p).on IN SearchPeer(Begun(r), p, r, <<Frame(r, "post", <<>>)>>)
  /\ UNCHANGED <<deployment, next, list, freed>>

PostFirst(p) ==
  /\ At(p, "post")
  /\ LET r == Current(p) IN
     IF SideOf(r) = "S" THEN PostSend(req, r, TRUE)
     ELSE IF /\ req[r].backup = "null"
             /\ req[r].remote # Null \/ payload[ChannelOf(r)] # <<>>
       THEN PostRecv(req, r)
       ELSE UNCHANGED <<req, payload>>
  /\ Return(p)
  /\ UNCHANGED <<deployment, list, freed, info>>

-----------------------------------------------------------------------------
(* MPIX_Wait. *)

Wait(p) ==
  /\ Calling(p, "wait")
  /\ LET r == Call(p).on IN
     Enter(p, Frame(r, CASE req[r].type = "rdma" -> "flush"
                         [] req[r].type \in {"fallback", "plain"} -> "mpi_wait"
                         [] OTHER -> IF SideOf(r) = "S" THEN "probe" ELSE "look",
                    <<>>))
  /\ UNCHANGED <<deployment, next, req, list, freed, info, payload>>

\* The sender's first wait: look for the peer, test the message, pass over the
\* list, until the message has been received.
WaitSendProbe(p) ==
  /\ At(p, "probe")
  /\ SearchPeer(req, p, Current(p), <<Frame(Current(p), "test", <<>>)>>)
  /\ UNCHANGED <<deployment, next, list, freed>>

WaitSendTest(p) ==
  /\ At(p, "test")
  /\ LET r == Current(p) done == req[r].backup # "pending" IN
     /\ req' = [req EXCEPT ![r].type = IF req[r].remote # Null THEN "rdma" ELSE @,
                           ![r].backup = IF done THEN "null" ELSE @]
     /\ ProgressOthersThen(p, IF done THEN "sent" ELSE "probe")
  /\ UNCHANGED <<deployment, next, list, freed, info, payload>>

WaitSendEnd(p) ==
  /\ At(p, "sent")
  /\ req' = [req EXCEPT ![Current(p)].type = IF @ = "rdma" THEN @ ELSE "fallback"]
  /\ Return(p)
  /\ UNCHANGED <<deployment, list, freed, info, payload>>

\* The receiver's first wait: until it has the addresses, or a last look for
\* them after the message has been seen finds none.
WaitRecvLook(p) ==
  /\ At(p, "look")
  /\ IF req[Current(p)].remote # Null THEN GoTo(p, "decide")
     ELSE ProgressOthersThen(p, IF payload[ChannelOf(Current(p))] # <<>>
                                  THEN "last" ELSE "again")
  /\ UNCHANGED <<deployment, next, req, list, freed, info, payload>>

WaitRecvProbe(p) ==
  /\ At(p, "again") \/ At(p, "last")
  /\ LET place == IF At(p, "last") THEN "decide" ELSE "look" IN
     SearchPeer(req, p, Current(p), <<Frame(Current(p), place, <<>>)>>)
  /\ UNCHANGED <<deployment, next, list, freed>>

WaitRecvDecide(p) ==
  /\ At(p, "decide")
  /\ LET r == Current(p)
         decided == [req EXCEPT ![r].type = IF req[r].remote = Null THEN "fallback"
                                                                    ELSE "rdma"]
     IN IF req[r].backup = "null" THEN PostRecv(decided, r)
                                  ELSE req' = decided /\ UNCHANGED payload
  /\ GoTo(p, "receive")
  /\ UNCHANGED <<deployment, next, list, freed, info>>

\* Broken variant of WaitRecvTest: a connected receiver does not wait for the
\* message.
WaitRecvUnlessConnected(p) ==
  /\ At(p, "receive")
  /\ LET r == Current(p) IN
     /\ req[r].type = "rdma" \/ req[r].backup # "pending"
     /\ req' = [req EXCEPT ![r].backup = "null"]
  /\ GoTo(p, "received")
  /\ UNCHANGED <<deployment, next, list, freed, info, payload>>

WaitRecvTest(p) ==
  /\ At(p, "receive")
  /\ LET r == Current(p) done == req[r].backup # "pending" IN
     /\ req' = [req EXCEPT ![r].backup = IF done THEN "null" ELSE @]
     /\ ProgressOthersThen(p, IF done THEN "received" ELSE "receive")
  /\ UNCHANGED <<deployment, next, list, freed, info, payload>>

WaitRecvEnd(p) ==
  /\ At(p, "received")
  /\ Return(p)
  /\ UNCHANGED <<deployment, req, list, freed, info, payload>>

\* e_send and e_recv: flush, then wait for the flag, progressing the others.
WaitFlush(p) ==
  /\ At(p, "flush") /\ req[Current(p)].puts = <<>>
  /\ GoTo(p, "flag")
  /\ UNCHANGED <<deployment, next, req, list, freed, info, payload>>

\* The flag that ends the loop of e_send, or of e_recv.
Awaited(r) == IF SideOf(r) = "S" THEN DoneFlag(r) ELSE ReadyFlag(r)

WaitFlagRound(p) ==
  /\ At(p, "flag") /\ req[Current(p)].flag < Awaited(Current(p))
  /\ ProgressOthersThen(p, "flag")
  /\ UNCHANGED <<deployment, next, req, list, freed, info, payload>>

WaitFlagEnd(p) ==
  /\ At(p, "flag") /\ req[Current(p)].flag >= DoneFlag(Current(p))
  /\ Return(p)
  /\ UNCHANGED <<deployment, req, list, freed, info, payload>>

\* Both sides announced themselves: the receiver fetches.
WaitCrosstalk(p) ==
  /\ At(p, "flag") /\ SideOf(Current(p)) = "R"
  /\ req[Current(p)].flag = ReadyFlag(Current(p))
  /\ req' = Fetch(req, Current(p), req[Current(p)].operation_number)
  /\ GoTo(p, "fetched")
  /\ UNCHANGED <<deployment, next, list, freed, info, payload>>

\* Broken variant of WaitFetched: the fetch is not flushed.
WaitUnflushed(p) ==
  /\ At(p, "fetched")
  /\ Return(p)
  /\ UNCHANGED <<deployment, req, list, freed, info, payload>>

WaitFetched(p) ==
  /\ At(p, "fetched") /\ req[Current(p)].puts = <<>>
  /\ Return(p)
  /\ UNCHANGED <<deployment, req, list, freed, info, payload>>

\* MPI_Wait on the backup request.
WaitOrdinary(p) ==
  /\ At(p, "mpi_wait") /\ req[Current(p)].backup # "pending"
  /\ req' = [req EXCEPT ![Current(p)].backup = "null"]
  /\ Return(p)
  /\ UNCHANGED <<deployment, list, freed, info, payload>>

-----------------------------------------------------------------------------
(* MPIX_Request_free and MPIX_Finalize. *)

\* What belongs to the request stays until finalize; nothing is cancelled.
FreeRequest(p) ==
  /\ Calling(p, "free")
  /\ list' = [list EXCEPT ![p] = Others(p, Call(p).on)]
  /\ freed' = freed \union {Call(p).on}
  /\ Return(p)
  /\ UNCHANGED <<deployment, req, info, payload>>

\* MPI_Win_free is collective; then all that was freed is released.
Finalize(p) ==
  /\ Calling(p, "finalize") /\ AllHere(p)
  /\ Return(p)
  /\ freed' = {r \in freed : Owner(ChannelOf(r), SideOf(r)) # p}
  /\ UNCHANGED <<deployment, req, list, info, payload>>

\* MPI_Barrier of the application.
Barrier(p) ==
  /\ Calling(p, "barrier") /\ AllHere(p)
  /\ Return(p)
  /\ UNCHANGED <<deployment, req, list, freed, info, payload>>

-----------------------------------------------------------------------------

Step(p) ==
  \/ InitRequest(p)
  \/ StartRdma(p) \/ StartOrdinary(p) \/ StartSearching(p) \/ PostFirst(p)
  \/ Wait(p) \/ WaitSendProbe(p) \/ WaitSendTest(p) \/ WaitSendEnd(p)
  \/ WaitRecvLook(p) \/ WaitRecvProbe(p) \/ WaitRecvDecide(p)
  \/ WaitRecvTest(p) \/ WaitRecvEnd(p)
  \/ WaitFlush(p) \/ WaitFlagRound(p) \/ WaitFlagEnd(p)
  \/ WaitCrosstalk(p) \/ WaitFetched(p) \/ WaitOrdinary(p)
  \/ BlockRound(p) \/ BlockEnd(p) \/ ProgressNext(p)
  \/ FreeRequest(p) \/ Finalize(p) \/ Barrier(p)

AllEnded == (\A p \in Process : Ended(p)) /\ UNCHANGED vars

Next == \/ \E p \in Process : Step(p)
        \/ \E r \in Requests : PutFlag(r)
        \/ AllEnded

Spec == Init /\ [][Next]_vars

\* Processes run, and the network carries out what was posted.
Fairness == /\ \A p \in Process : WF_vars(Step(p))
            /\ WF_vars(\E r \in Requests : PutFlag(r))

FairSpec == Spec /\ Fairness

-----------------------------------------------------------------------------

(***************************************************************************)
(* A handshake pairs two requests: whoever holds addresses holds those of  *)
(* the other side of its channel, which holds none yet or its addresses.   *)
(***************************************************************************)
PartnersPaired ==
  \A r \in Requests :
    LET q == req[r].remote IN
    q # Null => /\ ChannelOf(q) = ChannelOf(r) /\ SideOf(q) # SideOf(r)
                /\ req[q].remote \in {Null, r}

(***************************************************************************)
(* The assertions of the calls: MPI is started with no message under way,  *)
(* RDMA is started, and a connected request freed, with nothing left to    *)
(* flush, and the search for a peer ends with the first operation.         *)
(***************************************************************************)
AssertionsHold ==
  \A p \in Process :
    /\ Calling(p, "start") =>
         LET r == req[Call(p).on] IN
         CASE r.type = "rdma"     -> r.puts = <<>>
           [] r.type = "search"   -> r.operation_number = 0 /\ r.backup = "null"
           [] r.type = "fallback" -> r.backup = "null"
           [] OTHER               -> TRUE
    /\ Calling(p, "free") => req[Call(p).on].puts = <<>>
    /\ \A i \in DOMAIN stack[p] :
         LET f == stack[p][i] IN
         /\ f.at \in {"post", "probe", "test", "look", "again", "last", "decide"} =>
              req[f.req].operation_number = 1
         /\ f.at = "post" /\ SideOf(f.req) = "S" => req[f.req].backup = "null"

(***************************************************************************)
(* What finalize relies on when it frees the communicators: the only       *)
(* handshake messages left are those of requests whose channel has no      *)
(* persistent request on its other side.                                   *)
(***************************************************************************)
HandshakesSettled ==
  (\A p \in Process : Ended(p)) =>
    \A q \in Queues : \A i \in DOMAIN info[q] : \A r \in Requests :
      ChannelOf(r) = ChannelOf(info[q][i]) /\ SideOf(r) # SideOf(info[q][i]) =>
        ~deployment.requests[r].persistent

(***************************************************************************)
(* The wait of a receive returns with the message of its operation, among  *)
(* all the messages of the channel and of all requests, in the buffer.     *)
(***************************************************************************)
ReceivesItsMessage ==
  [][\A p \in Process :
       next'[p] # next[p] /\ Call(p).do = "wait" /\ SideOf(Call(p).on) = "R" =>
         req'[Call(p).on].buf = Started(ChannelOf(Call(p).on), "R")]_vars

(***************************************************************************)
(* MPI's promise to the application: every call returns when it must, a    *)
(* start without the help of the peer, a wait once the peer has started,   *)
(* and a receive not before.                                               *)
(***************************************************************************)
Mpi == INSTANCE MpiProgram WITH deployment <- deployment, next <- next

ImplementsMpi == Mpi!FairSpec
=============================================================================
