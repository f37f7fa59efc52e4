----------------------------- MODULE RdvTransfer -----------------------------
(***************************************************************************)
(* The RDMA rendezvous between one persistent send request (side "S") and  *)
(* the persistent receive request (side "R") it is connected to, from the  *)
(* second operation on.  The handshake that connects them and the first    *)
(* operation, which travels over ordinary MPI, are behind us.              *)
(*                                                                         *)
(* Each request has an int `flag` that its peer writes by RDMA.  In        *)
(* operation n the value 2n+1 says "the peer has started operation n" and  *)
(* 2n+2 says "operation n has been carried out".  Whoever starts second    *)
(* finds 2n+1 and moves the data: the sender by an RDMA put, the receiver  *)
(* by an RDMA get.  When both start at once each announces itself          *)
(* ("crosstalk") and the receiver fetches.                                 *)
(*                                                                         *)
(* Posted RDMA operations are carried out by the network at any later      *)
(* time, in any order except across a ucp_worker_fence.                    *)
(*                                                                         *)
(* A definition whose comment begins with "Broken variant" is not part of  *)
(* the specification: put in the place of the definition after it, it      *)
(* makes a property fail, which shows what that property rests on.         *)
(***************************************************************************)
EXTENDS Integers

CONSTANTS
  MaxOp,             \* bound: number of operations of the two requests
  DeferredRead,      \* may the network read flag_buffer after ucp_put_nbi has
                     \* returned?  (UCX only promises a read before the flush)
  OtherRequests,     \* does the receiver wait for other requests while this
                     \* one is started or inactive?
  NewRequests        \* is another receiver request still looking for its peer
                     \* while this one blocks in its own wait?

ASSUME ConstantsAssumption ==
  /\ MaxOp \in Nat \ {0}
  /\ DeferredRead \in BOOLEAN
  /\ OtherRequests \in BOOLEAN
  /\ NewRequests \in BOOLEAN

Side == {"S", "R"}

Peer(s) == IF s = "S" THEN "R" ELSE "S"

VARIABLES
  op,        \* op[s]: operation_number
  flag,      \* flag[s]: flag, written by s itself and by the peer's puts
  flagBuf,   \* flagBuf[s]: flag_buffer, the source of the puts to the peer
  flagReq,   \* flagReq[s]: the posted operations ucx_request_flag_transfer
             \* flushes, {} when it is NULL
  dataReq,   \* dataReq[s]: the same for ucx_request_data_transfer
  pc,        \* pc[s]: where the user of side s is, see PCs
  resume,    \* resume[s]: where it continues after the transfer it initiates
  posted,    \* posted[s]: RDMA operations of side s not yet carried out
  epoch,     \* epoch[s]: number of fences side s has issued
  sendBuf,   \* number of the message in the user's send buffer
  recvBuf    \* number of the message in the user's receive buffer

vars == <<op, flag, flagBuf, flagReq, dataReq, pc, resume, posted, epoch,
          sendBuf, recvBuf>>

PCs == {"idle",       \* no operation active, the user owns the buffer
        "announce",   \* in b_send/b_recv: the peer was not ready
        "transfer",   \* the peer was found ready, the flag is not incremented yet
        "started",    \* MPIX_Start has returned, or the wait is in its flag flush
        "dataWait",   \* in e_send/e_recv: waiting for the data flush
        "spin",       \* in e_send/e_recv: waiting for the peer's flag
        "drain",      \* e_recv after crosstalk: waiting for the fetch
        "freed"}

ReadyFlag(n) == 2 * n + 1
DoneFlag(n)  == 2 * n + 2

RdmaOp == [kind : {"flag", "put", "get"}, val : Nat, epoch : Nat]

FlagPut(v, e) == [kind |-> "flag", val |-> v, epoch |-> e]

\* Moving the data of operation n: the sender puts, the receiver gets.
DataMove(s, n, e) ==
  [kind |-> IF s = "S" THEN "put" ELSE "get", val |-> n, epoch |-> e]

DataOps(s) == {o \in posted[s] : o.kind # "flag"}
FlagOps(s) == {o \in posted[s] : o.kind = "flag"}

TypeOK ==
  /\ op \in [Side -> 1 .. MaxOp]
  /\ flag \in [Side -> Nat]
  /\ flagBuf \in [Side -> Nat]
  /\ flagReq \in [Side -> SUBSET RdmaOp]
  /\ dataReq \in [Side -> SUBSET RdmaOp]
  /\ pc \in [Side -> PCs]
  /\ resume \in [Side -> {"idle", "started", "spin", "drain"}]
  /\ posted \in [Side -> SUBSET RdmaOp]
  /\ epoch \in [Side -> Nat]
  /\ sendBuf \in Nat
  /\ recvBuf \in Nat

-----------------------------------------------------------------------------

\* Broken variant: the request is not cleared when it is created.
InitUncleared ==
  /\ op = [s \in Side |-> 1]
  /\ flag = [s \in Side |-> -1]
  /\ flagBuf = [s \in Side |-> 0]
  /\ flagReq = [s \in Side |-> {}]
  /\ dataReq = [s \in Side |-> {}]
  /\ pc = [s \in Side |-> "idle"]
  /\ resume = [s \in Side |-> "started"]
  /\ posted = [s \in Side |-> {}]
  /\ epoch = [s \in Side |-> 0]
  /\ sendBuf = 1
  /\ recvBuf = 1

\* The request is cleared by memset when it is created; operation 1 leaves the
\* flags alone and delivers message 1.
Init ==
  /\ op = [s \in Side |-> 1]
  /\ flag = [s \in Side |-> 0]
  /\ flagBuf = [s \in Side |-> 0]
  /\ flagReq = [s \in Side |-> {}]
  /\ dataReq = [s \in Side |-> {}]
  /\ pc = [s \in Side |-> "idle"]
  /\ resume = [s \in Side |-> "started"]
  /\ posted = [s \in Side |-> {}]
  /\ epoch = [s \in Side |-> 0]
  /\ sendBuf = 1
  /\ recvBuf = 1

\* The user writes the next message; the buffer is the user's while no
\* operation is active.
FillSendBuffer ==
  /\ pc["S"] = "idle"
  /\ sendBuf = op["S"]
  /\ sendBuf < MaxOp
  /\ sendBuf' = sendBuf + 1
  /\ UNCHANGED <<op, flag, flagBuf, flagReq, dataReq, pc, resume, posted,
                 epoch, recvBuf>>

\* Broken variant: a value that says more than "ready" is taken for it.
PeerReadyOrMore(s, n) == flag[s] >= ReadyFlag(n)

\* b_send/b_recv look whether the peer has started operation n.
PeerReady(s, n) == flag[s] = ReadyFlag(n)

\* MPIX_Start, up to and including the test of the flag.
Start(s) ==
  /\ pc[s] = "idle"
  /\ op[s] < MaxOp
  /\ s = "S" => sendBuf = op[s] + 1
  /\ op' = [op EXCEPT ![s] = @ + 1]
  /\ pc' = [pc EXCEPT ![s] = IF PeerReady(s, op[s] + 1) THEN "transfer"
                                                        ELSE "announce"]
  /\ resume' = [resume EXCEPT ![s] = "started"]
  /\ UNCHANGED <<flag, flagBuf, flagReq, dataReq, posted, epoch, sendBuf,
                 recvBuf>>

\* The else branch: put 2n+1 into the peer's flag and flush.
Announce(s) ==
  /\ pc[s] = "announce"
  /\ flagBuf' = [flagBuf EXCEPT ![s] = ReadyFlag(op[s])]
  /\ posted' = [posted EXCEPT ![s] = @ \union {FlagPut(ReadyFlag(op[s]), epoch[s])}]
  /\ flagReq' = [flagReq EXCEPT ![s] = posted'[s]]
  /\ pc' = [pc EXCEPT ![s] = "started"]
  /\ UNCHANGED <<op, flag, dataReq, resume, epoch, sendBuf, recvBuf>>

\* Broken variant: no fence between the data and the flag.
WithoutFence(e) == e

\* The epoch in which the flag put that follows the data is posted: a
\* ucp_worker_fence lies between the two.
AfterFence(e) == e + 1

\* The then branch, also the body of progress_recv_request: move the data,
\* fence, put 2n+2 into the peer's flag, flush.
Transfer(s) ==
  /\ pc[s] = "transfer"
  /\ flag' = [flag EXCEPT ![s] = @ + 1]
  /\ flagBuf' = [flagBuf EXCEPT ![s] = DoneFlag(op[s])]
  /\ epoch' = [epoch EXCEPT ![s] = AfterFence(@)]
  /\ posted' = [posted EXCEPT ![s] =
                  @ \union {DataMove(s, op[s], epoch[s]),
                            FlagPut(DoneFlag(op[s]), epoch'[s])}]
  /\ dataReq' = [dataReq EXCEPT ![s] = posted'[s]]
  /\ pc' = [pc EXCEPT ![s] = resume[s]]
  /\ UNCHANGED <<op, flagReq, resume, sendBuf, recvBuf>>

\* Broken variant: a flush is taken for complete when it is posted.
FlushIgnored(s, req) == TRUE

\* ucp_request_check_status of a flush: the operations it covers are done.
Flushed(s, req) == req \intersect posted[s] = {}

\* MPIX_Wait begins with the flush of the announcement ...
WaitFlagFlush(s) ==
  /\ pc[s] = "started"
  /\ Flushed(s, flagReq[s])
  /\ flagReq' = [flagReq EXCEPT ![s] = {}]
  /\ pc' = [pc EXCEPT ![s] = "dataWait"]
  /\ UNCHANGED <<op, flag, flagBuf, dataReq, resume, posted, epoch, sendBuf,
                 recvBuf>>

\* ... then the flush of the data ...
WaitDataFlush(s) ==
  /\ pc[s] = "dataWait"
  /\ Flushed(s, dataReq[s])
  /\ dataReq' = [dataReq EXCEPT ![s] = {}]
  /\ pc' = [pc EXCEPT ![s] = "spin"]
  /\ UNCHANGED <<op, flag, flagBuf, flagReq, resume, posted, epoch, sendBuf,
                 recvBuf>>

\* Broken variant: the sender's threshold is off by two.
SendCompleteEarly ==
  /\ pc["S"] = "spin"
  /\ flag["S"] >= 2 * op["S"]
  /\ pc' = [pc EXCEPT !["S"] = "idle"]
  /\ UNCHANGED <<op, flag, flagBuf, flagReq, dataReq, resume, posted, epoch,
                 sendBuf, recvBuf>>

\* Broken variant: the sender, too, resolves crosstalk by moving the data.
SendCompleteOrPush ==
  /\ pc["S"] = "spin"
  /\ flag["S"] >= ReadyFlag(op["S"])
  /\ pc' = [pc EXCEPT !["S"] = IF PeerReady("S", op["S"]) THEN "transfer" ELSE "idle"]
  /\ resume' = [resume EXCEPT !["S"] = "spin"]
  /\ UNCHANGED <<op, flag, flagBuf, flagReq, dataReq, posted, epoch, sendBuf,
                 recvBuf>>

\* ... and then spins on the flag.  The sender waits for 2n+2.
SendComplete ==
  /\ pc["S"] = "spin"
  /\ flag["S"] >= DoneFlag(op["S"])
  /\ pc' = [pc EXCEPT !["S"] = "idle"]
  /\ UNCHANGED <<op, flag, flagBuf, flagReq, dataReq, resume, posted, epoch,
                 sendBuf, recvBuf>>

\* Broken variant: the receiver, like the sender, waits for 2n+2.
RecvCompleteNoCrosstalk ==
  /\ pc["R"] = "spin"
  /\ flag["R"] >= DoneFlag(op["R"])
  /\ pc' = [pc EXCEPT !["R"] = "idle"]
  /\ UNCHANGED <<op, flag, flagBuf, flagReq, dataReq, resume, posted, epoch,
                 sendBuf, recvBuf>>

\* The receiver waits for 2n+1; when it finds exactly that, both sides have
\* announced themselves and it fetches the data (crosstalk).
RecvComplete ==
  /\ pc["R"] = "spin"
  /\ flag["R"] >= ReadyFlag(op["R"])
  /\ IF PeerReady("R", op["R"])
       THEN /\ pc' = [pc EXCEPT !["R"] = "transfer"]
            /\ resume' = [resume EXCEPT !["R"] = "drain"]
       ELSE /\ pc' = [pc EXCEPT !["R"] = "idle"]
            /\ UNCHANGED resume
  /\ UNCHANGED <<op, flag, flagBuf, flagReq, dataReq, posted, epoch, sendBuf,
                 recvBuf>>

\* Broken variant: the handle is not reset after the fetch.
DrainWithoutReset ==
  /\ pc["R"] = "drain"
  /\ Flushed("R", dataReq["R"])
  /\ pc' = [pc EXCEPT !["R"] = "idle"]
  /\ UNCHANGED <<op, flag, flagBuf, flagReq, dataReq, resume, posted, epoch,
                 sendBuf, recvBuf>>

\* Block until the fetch of the crosstalk case has finished.
Drain ==
  /\ pc["R"] = "drain"
  /\ Flushed("R", dataReq["R"])
  /\ dataReq' = [dataReq EXCEPT !["R"] = {}]
  /\ pc' = [pc EXCEPT !["R"] = "idle"]
  /\ UNCHANGED <<op, flag, flagBuf, flagReq, resume, posted, epoch, sendBuf,
                 recvBuf>>

\* Where the receiver can be when another request has this one progressed: in
\* a wait for that request, or in its own e_recv, from where it progresses one
\* that is still searching, which blocks in receive_rdma_info.
Progressed ==
  (IF OtherRequests THEN {"idle", "started"} ELSE {}) \union
  (IF NewRequests THEN {"spin"} ELSE {})

\* progress_other_requests, progress_recv_request.
ProgressFromOthers ==
  /\ pc["R"] \in Progressed
  /\ PeerReady("R", op["R"])
  /\ pc' = [pc EXCEPT !["R"] = "transfer"]
  /\ resume' = [resume EXCEPT !["R"] = pc["R"]]
  /\ UNCHANGED <<op, flag, flagBuf, flagReq, dataReq, posted, epoch, sendBuf,
                 recvBuf>>

\* The buffer of an inactive request is unmapped, the flag stays mapped.
Free(s) ==
  /\ pc[s] = "idle"
  /\ pc' = [pc EXCEPT ![s] = "freed"]
  /\ UNCHANGED <<op, flag, flagBuf, flagReq, dataReq, resume, posted, epoch,
                 sendBuf, recvBuf>>

-----------------------------------------------------------------------------
(* The network. *)

\* An operation waits for those its side posted before the last fence.
Executable(s, o) == \A q \in posted[s] : q.epoch >= o.epoch

\* The value a flag put writes: the one flag_buffer held when it was posted,
\* or, when the read is deferred, the one it holds now.
Written(s, o) == {o.val} \union (IF DeferredRead THEN {flagBuf[s]} ELSE {})

ExecuteFlagPut(s) ==
  \E o \in FlagOps(s) :
    /\ Executable(s, o)
    /\ \E v \in Written(s, o) : flag' = [flag EXCEPT ![Peer(s)] = v]
    /\ posted' = [posted EXCEPT ![s] = @ \ {o}]
    /\ UNCHANGED <<op, flagBuf, flagReq, dataReq, pc, resume, epoch, sendBuf,
                   recvBuf>>

\* A put and a get move the same bytes.
ExecuteDataMove(s) ==
  \E o \in DataOps(s) :
    /\ Executable(s, o)
    /\ recvBuf' = sendBuf
    /\ posted' = [posted EXCEPT ![s] = @ \ {o}]
    /\ UNCHANGED <<op, flag, flagBuf, flagReq, dataReq, pc, resume, epoch,
                   sendBuf>>

-----------------------------------------------------------------------------

\* Nothing is left to do: each side has freed its request, or waits for an
\* operation that its peer will never start.
Abandoned(s) == pc[s] = "spin" /\ pc[Peer(s)] = "freed" /\ op[Peer(s)] < op[s]

Stopped ==
  /\ \A s \in Side : pc[s] = "freed" \/ Abandoned(s)
  /\ UNCHANGED vars

Next ==
  \/ FillSendBuffer
  \/ SendComplete
  \/ RecvComplete
  \/ Drain
  \/ ProgressFromOthers
  \/ \E s \in Side : \/ Start(s)
                     \/ Announce(s)
                     \/ Transfer(s)
                     \/ WaitFlagFlush(s)
                     \/ WaitDataFlush(s)
                     \/ Free(s)
                     \/ ExecuteFlagPut(s)
                     \/ ExecuteDataMove(s)
  \/ Stopped

Spec == Init /\ [][Next]_vars

\* A call that can return does, a started operation is waited for, and the
\* network carries out what is posted.  Nobody has to start or to free.
Fairness ==
  /\ WF_vars(SendComplete)
  /\ WF_vars(RecvComplete)
  /\ WF_vars(Drain)
  /\ \A s \in Side : /\ WF_vars(Announce(s))
                     /\ WF_vars(Transfer(s))
                     /\ WF_vars(WaitFlagFlush(s))
                     /\ WF_vars(WaitDataFlush(s))
                     /\ WF_vars(ExecuteFlagPut(s))
                     /\ WF_vars(ExecuteDataMove(s))

FairSpec == Spec /\ Fairness

-----------------------------------------------------------------------------
(* Properties. *)

Inactive(s) == pc[s] \in {"idle", "freed"}

\* When the receiver's wait for operation n has returned, its buffer holds
\* message n and keeps it until the next start: what the memcmp of
\* MPIOPT_Wait_recv_internal (BUFFER_CONTENT_CHECKING) tests.
BufferContent == Inactive("R") => recvBuf = op["R"]

\* The send buffer is the user's as soon as the wait has returned, to overwrite
\* it or to have Request_free unmap it: no put out of it and no get from it is
\* outstanding while the sender is inactive.
SendBufferReturned == Inactive("S") => DataOps("S") = {} /\ DataOps("R") = {}

\* The same for the receive buffer: nothing is still going to write to it.
RecvBufferReturned == Inactive("R") => DataOps("S") = {} /\ DataOps("R") = {}

\* "No possibility of data race": between the test of the flag and its
\* increment no put of the peer to that flag is in flight, and the increment
\* gives 2n+2, as the assertions of b_send, b_recv, progress_recv_request say.
NoFlagRace ==
  \A s \in Side : pc[s] = "transfer" =>
    /\ flag[s] = ReadyFlag(op[s])
    /\ FlagOps(Peer(s)) = {}

\* No handle of an outstanding flush is overwritten or left behind: the
\* assertions of b_send, b_recv and Request_free that the handles are NULL.
NoHandleLost ==
  \A s \in Side :
    /\ pc[s] = "announce" => flagReq[s] = {}
    /\ pc[s] = "transfer" => dataReq[s] = {}
    /\ Inactive(s) => flagReq[s] = {} /\ dataReq[s] = {}

\* Side s has moved the data of its current operation, or is about to.
Moves(s) == pc[s] = "transfer" \/ flagBuf[s] = DoneFlag(op[s])

\* The data of an operation is moved by one side only, whatever the
\* interleaving of the two starts.
OneMover == op["S"] = op["R"] => ~(Moves("S") /\ Moves("R"))

\* A side whose wait has returned has nothing outstanding: it may destroy the
\* keys of its peer's memory, reuse flag_buffer, and MPIOPT_FINALIZE, which both
\* sides enter together, may unmap the flags.
NothingOutstanding == \A s \in Side : Inactive(s) => posted[s] = {}

\* A flag never decreases: no late or reordered put undoes a signal.
FlagsMonotone == [][\A s \in Side : flag'[s] >= flag[s]]_vars

\* The rendezvous is a persistent channel.
Channel == INSTANCE PersistentChannel WITH
  started <- op,
  active <- [s \in Side |-> ~Inactive(s)],
  delivered <- recvBuf

ImplementsChannel == Channel!ChanSpec

ImplementsFairChannel == Channel!ChanFairSpec
=============================================================================
