--------------------------- MODULE ActiveMessage ----------------------------
(***************************************************************************)
(* The transport of one-sided-persistent.c: a connected persistent send    *)
(* ("S") whose messages reach a connected persistent receive ("R") as UCX  *)
(* active messages.                                                        *)
(*                                                                         *)
(* A message that arrives runs incoming_am_msg_handler in the receiver's   *)
(* process, inside any call of ucp_worker_progress.  In the eager mode the *)
(* message is its data; in the rendezvous mode it is a descriptor, and the *)
(* data moves from the send buffer when the receiver asks for it.  The     *)
(* handler puts it to use if the receive is ready, or keeps it in          *)
(* list_of_pending_msgs for the next start.                                *)
(***************************************************************************)
EXTENDS Naturals, Sequences

CONSTANTS
  Builds,   \* how the transport is built and used, see BuildsAssumption
  MaxOp     \* bound: number of operations of a side

\* mode is "eager" (USE_EAGER) or "rendezvous" (USE_RENDEZVOUS).  waitEarly: the
\* application may wait for a receive before its message has arrived.  others:
\* the receiver's process also waits for other requests.
ASSUME BuildsAssumption ==
  Builds \subseteq [mode : {"eager", "rendezvous"}, waitEarly : BOOLEAN, others : BOOLEAN]

ASSUME MaxOpAssumption == MaxOp \in Nat \ {0}

\* The uses in which a wait returns with its own message: no other request is
\* waited for, and in the rendezvous mode only what has arrived.
SafeBuild(b) == ~b.others /\ (b.mode = "rendezvous" => ~b.waitEarly)

VARIABLES
  build,     \* the build at hand, fixed
  op,        \* op[s]: number of operations s has started
  pc,        \* pc[s]: where the process of s is
  resume,    \* where the receiver continues after b_recv
  sendBuf,   \* number of the message in the send buffer
  recvBuf,   \* number of the message in the receive buffer
  transfer,  \* transfer[s]: ucx_request_data_transfer
  network,   \* messages under way: their data, or number of the descriptor
  ready,     \* is_ready_to_recv
  pending    \* list_of_pending_msgs

vars == <<build, op, pc, resume, sendBuf, recvBuf, transfer, network, ready, pending>>

Side == {"S", "R"}

Transfers == {"null", "pending", "done"}

TypeOK ==
  /\ build \in Builds
  /\ op \in [Side -> 0 .. MaxOp]
  /\ pc \in [Side -> {"idle", "b_recv", "started", "wait"}]
  /\ pc["S"] # "b_recv"
  /\ resume \in {"idle", "started"}
  /\ sendBuf \in 0 .. MaxOp
  /\ recvBuf \in 0 .. MaxOp
  /\ transfer \in [Side -> Transfers]
  /\ network \in Seq(1 .. MaxOp)
  /\ ready \in BOOLEAN
  /\ pending \in Seq(1 .. MaxOp)

\* Broken variant of Init: the request is not cleared when it is created.
InitUncleared ==
  /\ build \in Builds
  /\ op = [s \in Side |-> 0]
  /\ pc = [s \in Side |-> "idle"]
  /\ resume = "idle"
  /\ sendBuf = 0 /\ recvBuf = 0
  /\ transfer = [s \in Side |-> "uninitialised"]
  /\ network = <<>> /\ pending = <<>>
  /\ ready = FALSE

Init ==
  /\ build \in Builds
  /\ op = [s \in Side |-> 0]
  /\ pc = [s \in Side |-> "idle"]
  /\ resume = "idle"
  /\ sendBuf = 0 /\ recvBuf = 0
  /\ transfer = [s \in Side |-> "null"]
  /\ network = <<>> /\ pending = <<>>
  /\ ready = FALSE

-----------------------------------------------------------------------------
(* The sender. *)

\* The application fills the buffer and starts: b_send.  UCX may have taken an
\* eager message at once; a descriptor always leaves at once.
StartSend ==
  /\ pc["S"] = "idle" /\ op["S"] < MaxOp
  /\ op' = [op EXCEPT !["S"] = @ + 1]
  /\ sendBuf' = op["S"] + 1
  /\ pc' = [pc EXCEPT !["S"] = "started"]
  /\ \/ /\ build.mode = "eager"
        /\ transfer' = [transfer EXCEPT !["S"] = "null"]
        /\ network' = Append(network, sendBuf')
     \/ /\ transfer' = [transfer EXCEPT !["S"] = "pending"]
        /\ network' = IF build.mode = "eager" THEN network ELSE Append(network, op'["S"])
  /\ UNCHANGED <<build, resume, recvBuf, ready, pending>>

\* UCX takes an eager message that was left pending.
TakeEager ==
  /\ build.mode = "eager" /\ transfer["S"] = "pending"
  /\ transfer' = [transfer EXCEPT !["S"] = "done"]
  /\ network' = Append(network, sendBuf)
  /\ UNCHANGED <<build, op, pc, resume, sendBuf, recvBuf, ready, pending>>

WaitSend ==
  /\ pc["S"] = "started"
  /\ pc' = [pc EXCEPT !["S"] = "wait"]
  /\ UNCHANGED <<build, op, resume, sendBuf, recvBuf, transfer, network, ready, pending>>

\* Broken variant of SendComplete: the transfer is only looked at, not waited for.
SendCompleteAnyway ==
  /\ pc["S"] = "wait"
  /\ transfer' = [transfer EXCEPT !["S"] = IF @ = "done" THEN "null" ELSE @]
  /\ pc' = [pc EXCEPT !["S"] = "idle"]
  /\ UNCHANGED <<build, op, resume, sendBuf, recvBuf, network, ready, pending>>

\* e_send: until the transfer has completed.
SendComplete ==
  /\ pc["S"] = "wait" /\ transfer["S"] # "pending"
  /\ transfer' = [transfer EXCEPT !["S"] = "null"]
  /\ pc' = [pc EXCEPT !["S"] = "idle"]
  /\ UNCHANGED <<build, op, resume, sendBuf, recvBuf, network, ready, pending>>

-----------------------------------------------------------------------------
(* The receiver. *)

StartRecv ==
  /\ pc["R"] = "idle" /\ op["R"] < MaxOp
  /\ op' = [op EXCEPT !["R"] = @ + 1]
  /\ pc' = [pc EXCEPT !["R"] = "b_recv"]
  /\ resume' = "started"
  /\ UNCHANGED <<build, sendBuf, recvBuf, transfer, network, ready, pending>>

\* The wait of another request progresses this one: progress_recv_request.
ProgressFromOthers ==
  /\ build.others
  /\ pc["R"] \in {"idle", "started"} /\ ready
  /\ pc' = [pc EXCEPT !["R"] = "b_recv"]
  /\ resume' = pc["R"]
  /\ UNCHANGED <<build, op, sendBuf, recvBuf, transfer, network, ready, pending>>

\* ucp_am_recv_data_nbx completes at once, or leaves a transfer pending.
FetchNow   == /\ recvBuf' = sendBuf
              /\ transfer' = [transfer EXCEPT !["S"] = "done"]
FetchLater == /\ transfer' = [transfer EXCEPT !["R"] = "pending"]
              /\ UNCHANGED recvBuf

\* Broken variant of BRecv: it does not look for a message kept earlier.
BRecvIgnoringPending ==
  /\ pc["R"] = "b_recv"
  /\ pc' = [pc EXCEPT !["R"] = resume]
  /\ ready' = TRUE
  /\ UNCHANGED <<build, op, resume, sendBuf, recvBuf, transfer, network, pending>>

\* b_recv, after its ucp_worker_progress: use the first message kept, or be
\* ready for the next one that arrives.
BRecv ==
  /\ pc["R"] = "b_recv"
  /\ pc' = [pc EXCEPT !["R"] = resume]
  /\ IF pending # <<>>
       THEN /\ pending' = Tail(pending)
            /\ \/ /\ build.mode = "eager" /\ recvBuf' = Head(pending) /\ UNCHANGED transfer
               \/ build.mode = "rendezvous" /\ (FetchNow \/ FetchLater)
            /\ UNCHANGED ready
       ELSE /\ ready' = TRUE
            /\ UNCHANGED <<pending, recvBuf, transfer>>
  /\ UNCHANGED <<build, op, resume, sendBuf, network>>

\* The application waits at any time, or only once the message has arrived.
WaitRecv ==
  /\ pc["R"] = "started"
  /\ ready => build.waitEarly
  /\ pc' = [pc EXCEPT !["R"] = "wait"]
  /\ UNCHANGED <<build, op, resume, sendBuf, recvBuf, transfer, network, ready, pending>>

\* Broken variant of RecvComplete: the eager wait does not spin.
RecvCompleteAnyway ==
  /\ pc["R"] = "wait"
  /\ transfer["R"] # "pending"
  /\ transfer' = [transfer EXCEPT !["R"] = "null"]
  /\ pc' = [pc EXCEPT !["R"] = "idle"]
  /\ UNCHANGED <<build, op, resume, sendBuf, recvBuf, network, ready, pending>>

\* Broken variant of RecvComplete: a wait that finds nothing posts the receive
\* once more.
RecvCompleteOrRestart ==
  /\ pc["R"] = "wait"
  /\ IF ready /\ pending = <<>>
       THEN /\ pc' = [pc EXCEPT !["R"] = "b_recv"]
            /\ resume' = "started"
       ELSE /\ pc' = [pc EXCEPT !["R"] = "idle"]
            /\ UNCHANGED resume
  /\ UNCHANGED <<build, op, sendBuf, recvBuf, transfer, network, ready, pending>>

\* e_recv.  Eager: spin until the handler has used a message, or one is kept.
\* Rendezvous: until the transfer that has been started, if any, has completed.
RecvComplete ==
  /\ pc["R"] = "wait"
  /\ \/ /\ build.mode = "eager"
        /\ ready => pending # <<>>
        /\ IF ready THEN pending' = Tail(pending) /\ recvBuf' = Head(pending)
                    ELSE UNCHANGED <<pending, recvBuf>>
        /\ ready' = FALSE
        /\ UNCHANGED transfer
     \/ /\ build.mode = "rendezvous"
        /\ transfer["R"] # "pending"
        /\ transfer' = [transfer EXCEPT !["R"] = "null"]
        /\ UNCHANGED <<ready, pending, recvBuf>>
  /\ pc' = [pc EXCEPT !["R"] = "idle"]
  /\ UNCHANGED <<build, op, resume, sendBuf, network>>

\* incoming_am_msg_handler, within some ucp_worker_progress of the receiver.
Incoming ==
  /\ network # <<>>
  /\ network' = Tail(network)
  /\ IF ~ready
       THEN /\ pending' = Append(pending, Head(network))
            /\ UNCHANGED <<ready, recvBuf, transfer>>
       ELSE /\ ready' = FALSE
            /\ \/ /\ build.mode = "eager" /\ recvBuf' = Head(network) /\ UNCHANGED transfer
               \/ build.mode = "rendezvous" /\ (FetchNow \/ FetchLater)
            /\ UNCHANGED pending
  /\ UNCHANGED <<build, op, pc, resume, sendBuf>>

\* UCX moves the data of a rendezvous: both transfers complete.
MoveData ==
  /\ transfer["R"] = "pending"
  /\ recvBuf' = sendBuf
  /\ transfer' = [transfer EXCEPT !["R"] = "done", !["S"] = "done"]
  /\ UNCHANGED <<build, op, pc, resume, sendBuf, network, ready, pending>>

-----------------------------------------------------------------------------

Finished == (\A s \in Side : op[s] = MaxOp /\ pc[s] = "idle") /\ UNCHANGED vars

Next ==
  \/ StartSend \/ TakeEager \/ WaitSend \/ SendComplete
  \/ StartRecv \/ ProgressFromOthers \/ BRecv \/ WaitRecv \/ RecvComplete
  \/ Incoming \/ MoveData
  \/ Finished

Spec == Init /\ [][Next]_vars

\* The application waits for what it has started, UCX makes progress, and the calls
\* run.
Fairness ==
  /\ WF_vars(TakeEager) /\ WF_vars(WaitSend) /\ WF_vars(SendComplete)
  /\ WF_vars(BRecv) /\ WF_vars(WaitRecv) /\ WF_vars(RecvComplete)
  /\ WF_vars(Incoming) /\ WF_vars(MoveData)

FairSpec == Spec /\ Fairness

-----------------------------------------------------------------------------

(***************************************************************************)
(* When the wait of operation n has returned, message n is in the receive  *)
(* buffer, until the next start.  The source asserts it of every use.      *)
(***************************************************************************)
BufferContent == pc["R"] = "idle" => recvBuf = op["R"]

(***************************************************************************)
(* The uses for which it holds: a sender that runs ahead and a handler     *)
(* called at any point do not disturb it.                                  *)
(***************************************************************************)
SafeBufferContent == SafeBuild(build) => BufferContent

(***************************************************************************)
(* However the transport is built and used, nothing reads the buffer of an *)
(* inactive sender: UCX has taken an eager message, and a rendezvous has   *)
(* put its data into the receive buffer, with no descriptor left that      *)
(* would fetch once more.                                                  *)
(***************************************************************************)
SendBufferReturned ==
  pc["S"] = "idle" =>
    /\ transfer["S"] # "pending"
    /\ build.mode = "rendezvous" =>
         /\ network = <<>> /\ pending = <<>> /\ transfer["R"] # "pending"
         /\ recvBuf = op["S"]

\* The messages that are neither kept nor in the network nor used: an eager one
\* that UCX has not taken, or one whose data is being fetched.
Underway ==
  IF build.mode = "eager" THEN IF transfer["S"] = "pending" THEN 1 ELSE 0
                          ELSE IF transfer["R"] = "pending" THEN 1 ELSE 0

(***************************************************************************)
(* However the transport is built and used, the messages that are kept, in *)
(* the network and under way are those sent after the one in the receive   *)
(* buffer, in order and each of them once; a receive that is ready has     *)
(* none kept that the next one would overtake.  Where no wait comes early  *)
(* and no other request interferes, the assertions of the handler and of   *)
(* b_recv hold: one rendezvous at a time.                                  *)
(***************************************************************************)
NoOvertaking ==
  /\ \A i \in 1 .. Len(pending) : pending[i] = recvBuf + i
  /\ \A i \in 1 .. Len(network) : network[i] = recvBuf + Len(pending) + i
  /\ op["S"] = recvBuf + Len(pending) + Len(network) + Underway
  /\ ready => pending = <<>>
  /\ build.mode = "rendezvous" /\ SafeBuild(build) =>
       /\ network # <<>> /\ ready => transfer["R"] = "null"
       /\ pc["R"] = "b_recv" /\ pending # <<>> => transfer["R"] = "null"

Completed(s, n) == op[s] > n \/ (op[s] = n /\ pc[s] = "idle")

(***************************************************************************)
(* An operation both sides have started completes on both, in the uses in  *)
(* which its message is its own: e_recv does not spin for a message that   *)
(* was already used.                                                       *)
(***************************************************************************)
MatchedOperationsComplete ==
  \A n \in 1 .. MaxOp :
    (SafeBuild(build) /\ \A s \in Side : op[s] >= n) ~> (\A s \in Side : Completed(s, n))
=============================================================================
