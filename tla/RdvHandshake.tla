---------------------------- MODULE RdvHandshake ----------------------------
(***************************************************************************)
(* How a persistent send ("S") and a persistent receive ("R") of the       *)
(* rendezvous transport find out whether their peer is persistent, too.    *)
(*                                                                         *)
(* Every request sends its RDMA addresses with MPI_Issend when it is       *)
(* created, the sender on handshake_communicator, the receiver on          *)
(* handshake_response_communicator.  The first operation always travels    *)
(* over ordinary MPI; while it does, each side probes for the addresses of *)
(* the other.  A side that has them is connected and uses RDMA from the    *)
(* second operation on; a side that completes the first operation without  *)
(* them falls back to MPI_Isend / MPI_Irecv for good.                      *)
(*                                                                         *)
(* A side outside Persistent is an ordinary MPI process: it calls          *)
(* MPI_Send / MPI_Recv with the same tag.                                  *)
(***************************************************************************)
EXTENDS Naturals, Sequences, SequencesExt

CONSTANTS
  Deployments,     \* the ways the pair of requests is used, see Deployment
  MaxOp            \* bound: number of operations of a side

Side == {"S", "R"}

Peer(s) == IF s = "S" THEN "R" ELSE "S"

\* What the application guarantees before the first payload arrives.
Setups == {"none",        \* nothing
           "initsFirst",  \* both requests are created, and know of each other,
                          \* before one is started
           "recvFirst"}   \* the receiver has looked for the first payload before
                          \* the sender starts

Deployment == [
  persistent : SUBSET Side,  \* the sides that use a persistent request
  setup : Setups,
  ordered : BOOLEAN,         \* messages of one process reach the other in the
                             \* order they were sent, across communicators
  others : BOOLEAN]          \* each process also waits for other requests

ASSUME HandshakeAssumption ==
  /\ Deployments \subseteq Deployment
  /\ MaxOp \in Nat \ {0}

VARIABLES
  deployment, \* the deployment at hand, fixed
  type,       \* type[s]: which protocol the request uses
  op,         \* op[s]: operation_number
  pc,         \* pc[s]: where the process is
  return,     \* return[s]: where it continues after looking for the peer
  connected,  \* connected[s]: remote_data_addr is set
  infoSend,   \* infoSend[s]: rdma_exchange_request_send has completed
  backup,     \* backup[s]: backup_request
  transit,    \* transit[s]: messages of s on their way
  mailbox,    \* mailbox[s]: messages that have arrived at s, unmatched
  recvBuf     \* number of the payload in the receive buffer

vars == <<deployment, type, op, pc, return, connected, infoSend, backup, transit,
          mailbox, recvBuf>>

Persistent == deployment.persistent

Types == {"search", "rdma", "fallback", "plain"}

PCs == {"new",       \* the request does not exist yet
        "idle",      \* no operation active
        "probe",     \* in progress_request_waiting_for_rdma
        "block",     \* in receive_rdma_info: until its own addresses are taken
        "post",      \* the sender of the first operation, before MPI_Issend
        "fallback?", \* the receiver, in its first start, before MPI_Iprobe
        "started",   \* MPIX_Start has returned
        "test",      \* wait loop of the sender, before MPI_Test
        "sent",      \* the sender, after MPI_Test found the message received
        "search",    \* wait loop of the receiver while it looks for its peer
        "decide",    \* the receiver, after that loop
        "wait"}      \* until the backup request has completed

Message == [kind : {"info", "infoAck"}, n : {0}]
           \union [kind : {"payload", "payloadAck"}, n : 1 .. MaxOp]

Info            == [kind |-> "info", n |-> 0]
InfoAck         == [kind |-> "infoAck", n |-> 0]
Payload(n)      == [kind |-> "payload", n |-> n]
PayloadAck(n)   == [kind |-> "payloadAck", n |-> n]

TypeOK ==
  /\ deployment \in Deployments
  /\ type \in [Side -> Types]
  /\ op \in [Side -> 0 .. MaxOp]
  /\ pc \in [Side -> PCs]
  /\ return \in [Side -> PCs]
  /\ connected \in [Side -> BOOLEAN]
  /\ infoSend \in [Side -> {"null", "pending", "done"}]
  /\ backup \in [Side -> {"null", "pending", "done"}]
  /\ transit \in [Side -> Seq(Message)]
  /\ mailbox \in [Side -> Seq(Message)]
  /\ recvBuf \in 0 .. MaxOp

Send(s, msg) == transit' = [transit EXCEPT ![s] = Append(@, msg)]

\* Positions of the unmatched messages of a kind at s, and MPI_Iprobe.
Arrived(s, kind) == {i \in DOMAIN mailbox[s] : mailbox[s][i].kind = kind}
Iprobe(s, kind) == Arrived(s, kind) # {}
First(s, kind) == CHOOSE i \in Arrived(s, kind) : \A j \in Arrived(s, kind) : i <= j

-----------------------------------------------------------------------------

\* Broken variant of Init: the request is not cleared, so operation_number
\* holds whatever was in the memory.
InitUncleared ==
  /\ deployment \in Deployments
  /\ type = [s \in Side |-> IF s \in Persistent THEN "search" ELSE "plain"]
  /\ op = [s \in Side |-> MaxOp + 1]
  /\ pc = [s \in Side |-> IF s \in Persistent THEN "new" ELSE "idle"]
  /\ return = [s \in Side |-> "idle"]
  /\ connected = [s \in Side |-> FALSE]
  /\ infoSend = [s \in Side |-> "null"] /\ backup = [s \in Side |-> "null"]
  /\ transit = [s \in Side |-> <<>>] /\ mailbox = [s \in Side |-> <<>>]
  /\ recvBuf = 0

Init ==
  /\ deployment \in Deployments
  /\ type = [s \in Side |-> IF s \in Persistent THEN "search" ELSE "plain"]
  /\ op = [s \in Side |-> 0]
  /\ pc = [s \in Side |-> IF s \in Persistent THEN "new" ELSE "idle"]
  /\ return = [s \in Side |-> "idle"]
  /\ connected = [s \in Side |-> FALSE]
  /\ infoSend = [s \in Side |-> "null"]
  /\ backup = [s \in Side |-> "null"]
  /\ transit = [s \in Side |-> <<>>]
  /\ mailbox = [s \in Side |-> <<>>]
  /\ recvBuf = 0

\* MPIX_Send_init / MPIX_Recv_init: send_rdma_info.
InitRequest(s) ==
  /\ pc[s] = "new"
  /\ pc' = [pc EXCEPT ![s] = "idle"]
  /\ infoSend' = [infoSend EXCEPT ![s] = "pending"]
  /\ Send(s, Info)
  /\ UNCHANGED <<deployment, type, op, return, connected, backup, mailbox,
                 recvBuf>>

\* The peer of t has, or can probe for, the addresses of t.
Announced(t) == pc[t] # "new" /\ (connected[Peer(t)] \/ Iprobe(Peer(t), "info"))

\* The receiver is connected or has looked for the payload in its first start.
ReceiverLooked ==
  op["R"] > 0 /\ \/ connected["R"] \/ type["R"] = "plain"
                 \/ pc["R"] # "fallback?" /\ (pc["R"] = "probe" => return["R"] # "fallback?")

\* The application starts a side only when its set-up phase is over.
SetUp(s) ==
  /\ deployment.setup = "initsFirst" => \A t \in Persistent : Announced(t)
  /\ deployment.setup = "recvFirst" /\ s = "S" => ReceiverLooked

\* MPI_Irecv on the payload, which takes an unexpected message if there is one.
PostRecv ==
  IF Iprobe("R", "payload")
    THEN LET i == First("R", "payload") n == mailbox["R"][i].n IN
         /\ backup' = [backup EXCEPT !["R"] = "done"]
         /\ mailbox' = [mailbox EXCEPT !["R"] = RemoveAt(@, i)]
         /\ recvBuf' = n
         /\ Send("R", PayloadAck(n))
    ELSE /\ backup' = [backup EXCEPT !["R"] = "pending"]
         /\ UNCHANGED <<mailbox, recvBuf, transit>>

KeepMessages == UNCHANGED <<backup, mailbox, recvBuf, transit>>

\* MPIX_Start of the first operation: first look for the peer.
StartSearching(s) ==
  /\ pc[s] = "idle" /\ type[s] = "search" /\ op[s] = 0
  /\ SetUp(s)
  /\ op' = [op EXCEPT ![s] = 1]
  /\ pc' = [pc EXCEPT ![s] = "probe"]
  /\ return' = [return EXCEPT ![s] = IF s = "S" THEN "post" ELSE "fallback?"]
  /\ KeepMessages /\ UNCHANGED <<deployment, type, connected, infoSend>>

\* progress_request_waiting_for_rdma without news: a receiver that was
\* connected earlier posts the receive of its first operation.
PostsReceive(s) == /\ s = "R" /\ connected[s] /\ type[s] = "search"
                   /\ backup[s] = "null" /\ op[s] = 1

ProbeNothing(s) ==
  /\ pc[s] = "probe"
  /\ connected[s] \/ ~Iprobe(s, "info")
  /\ pc' = [pc EXCEPT ![s] = return[s]]
  /\ IF PostsReceive(s) THEN PostRecv ELSE KeepMessages
  /\ UNCHANGED <<deployment, type, op, return, connected, infoSend>>

\* The peer's addresses are here: receive_rdma_info takes them ...
ProbeFindsPeer(s) ==
  /\ pc[s] = "probe"
  /\ ~connected[s] /\ Iprobe(s, "info")
  /\ connected' = [connected EXCEPT ![s] = TRUE]
  /\ mailbox' = [mailbox EXCEPT ![s] = RemoveAt(@, First(s, "info"))]
  /\ Send(s, InfoAck)
  /\ pc' = [pc EXCEPT ![s] = "block"]
  /\ UNCHANGED <<deployment, type, op, return, infoSend, backup, recvBuf>>

\* Broken variant of PeerTookInfo: it does not wait for its own MPI_Issend.
PeerTookInfoEarly(s) ==
  /\ pc[s] = "block"
  /\ pc' = [pc EXCEPT ![s] = return[s]]
  /\ IF PostsReceive(s) THEN PostRecv ELSE KeepMessages
  /\ UNCHANGED <<deployment, type, op, return, connected, infoSend>>

\* ... and blocks until the peer has taken ours.
PeerTookInfo(s) ==
  /\ pc[s] = "block"
  /\ infoSend[s] = "done"
  /\ pc' = [pc EXCEPT ![s] = return[s]]
  /\ IF PostsReceive(s) THEN PostRecv ELSE KeepMessages
  /\ UNCHANGED <<deployment, type, op, return, connected, infoSend>>

\* A wait or a handshake of another request progresses this one, also from
\* inside the wait loop of this one.
ProgressFromOthers(s) ==
  /\ deployment.others
  /\ pc[s] \in {"idle", "started", "sent"} /\ type[s] = "search"
  /\ return' = [return EXCEPT ![s] = pc[s]]
  /\ pc' = [pc EXCEPT ![s] = "probe"]
  /\ KeepMessages /\ UNCHANGED <<deployment, type, op, connected, infoSend>>

\* progress_request on the backup request of an idle or waiting side.
ProgressFallback(s) ==
  /\ deployment.others
  /\ type[s] = "fallback" /\ backup[s] = "done"
  /\ backup' = [backup EXCEPT ![s] = "null"]
  /\ UNCHANGED <<deployment, type, op, pc, return, connected, infoSend,
                 transit, mailbox,
                 recvBuf>>

\* While it blocks it progresses the others, and they progress it.
ProgressWhileBlocked ==
  /\ deployment.others
  /\ pc["R"] = "block" /\ PostsReceive("R")
  /\ PostRecv
  /\ UNCHANGED <<deployment, type, op, pc, return, connected, infoSend>>

\* Broken variant of IssendPayload: MPI_Isend, which may complete at once.
IsendPayload ==
  /\ pc["S"] = "post"
  /\ \E b \in {"pending", "done"} : backup' = [backup EXCEPT !["S"] = b]
  /\ Send("S", Payload(op["S"]))
  /\ pc' = [pc EXCEPT !["S"] = "started"]
  /\ UNCHANGED <<deployment, type, op, return, connected, infoSend, mailbox,
                 recvBuf>>

\* start_send_when_searching_for_connection: the payload, synchronously.
IssendPayload ==
  /\ pc["S"] = "post"
  /\ backup' = [backup EXCEPT !["S"] = "pending"]
  /\ Send("S", Payload(op["S"]))
  /\ pc' = [pc EXCEPT !["S"] = "started"]
  /\ UNCHANGED <<deployment, type, op, return, connected, infoSend, mailbox,
                 recvBuf>>

\* start_recv_when_searching_for_connection: a payload without addresses is
\* taken for an ordinary message.
FallbackInStart ==
  /\ pc["R"] = "fallback?"
  /\ pc' = [pc EXCEPT !["R"] = "started"]
  /\ IF backup["R"] = "null" /\ (connected["R"] \/ Iprobe("R", "payload"))
       THEN PostRecv ELSE KeepMessages
  /\ UNCHANGED <<deployment, type, op, return, connected, infoSend>>

\* MPIX_Wait of the first operation, sender: look for the peer, then test.
WaitSearchingSend ==
  /\ pc["S"] = "started" /\ type["S"] = "search"
  /\ pc' = [pc EXCEPT !["S"] = "probe"]
  /\ return' = [return EXCEPT !["S"] = "test"]
  /\ KeepMessages /\ UNCHANGED <<deployment, type, op, connected, infoSend>>

\* The sender's wait loop ends when done, and else starts over.
TestPayload(done) ==
  /\ pc["S"] = "test"
  /\ type' = [type EXCEPT !["S"] = IF connected["S"] THEN "rdma" ELSE @]
  /\ IF done
       THEN /\ backup' = [backup EXCEPT !["S"] = "null"]
            /\ pc' = [pc EXCEPT !["S"] = "sent"]
            /\ UNCHANGED return
       ELSE /\ pc' = [pc EXCEPT !["S"] = "probe"]
            /\ return' = [return EXCEPT !["S"] = "test"]
            /\ UNCHANGED backup
  /\ UNCHANGED <<deployment, op, connected, infoSend, transit, mailbox,
                 recvBuf>>

\* Broken variants of TestPayloadSent: a connected sender does not wait for the
\* message, does not test it, or an unconnected one does not give up.
TestPayloadOrConnected    == TestPayload(backup["S"] = "done" \/ connected["S"])
TestPayloadUnlessConnected == TestPayload(backup["S"] = "done" /\ ~connected["S"])
TestPayloadAndConnected   == TestPayload(backup["S"] = "done" /\ connected["S"])

TestPayloadSent == TestPayload(backup["S"] = "done")

\* Broken variant of LeaveWaitSend: what the loop found is not looked at.
LeaveWaitSendUnconnected ==
  /\ pc["S"] = "sent"
  /\ type' = [type EXCEPT !["S"] = "fallback"]
  /\ pc' = [pc EXCEPT !["S"] = "idle"]
  /\ KeepMessages /\ UNCHANGED <<deployment, op, return, connected, infoSend>>

LeaveWaitSend ==
  /\ pc["S"] = "sent"
  /\ type' = [type EXCEPT !["S"] = IF @ = "rdma" THEN @ ELSE "fallback"]
  /\ pc' = [pc EXCEPT !["S"] = "idle"]
  /\ KeepMessages /\ UNCHANGED <<deployment, op, return, connected, infoSend>>

\* MPIX_Wait of the first operation, receiver: until the peer's addresses or
\* the payload are here.
WaitSearchingRecv ==
  /\ pc["R"] = "started" /\ type["R"] = "search"
  /\ pc' = [pc EXCEPT !["R"] = "search"]
  /\ KeepMessages /\ UNCHANGED <<deployment, type, op, return, connected,
                                 infoSend>>

\* Broken variant of SearchRound: the receiver gives up when it has seen the
\* payload, without a last look for the addresses.
SearchRoundGivesUp ==
  /\ pc["R"] = "search"
  /\ pc' = [pc EXCEPT !["R"] = IF connected["R"] \/ Iprobe("R", "payload")
                                THEN "decide" ELSE "probe"]
  /\ return' = [return EXCEPT !["R"] = "search"]
  /\ KeepMessages /\ UNCHANGED <<deployment, type, op, connected, infoSend>>

\* Broken variant of SearchRound: the loop ends for the addresses only.
SearchRoundUntilConnected ==
  /\ pc["R"] = "search"
  /\ pc' = [pc EXCEPT !["R"] = IF connected["R"] THEN "decide" ELSE "probe"]
  /\ return' = [return EXCEPT !["R"] = "search"]
  /\ KeepMessages /\ UNCHANGED <<deployment, type, op, connected, infoSend>>

SearchRound ==
  /\ pc["R"] = "search"
  /\ IF connected["R"]
       THEN /\ pc' = [pc EXCEPT !["R"] = "decide"]
            /\ UNCHANGED return
       ELSE /\ pc' = [pc EXCEPT !["R"] = "probe"]
            /\ return' = [return EXCEPT !["R"] =
                 IF Iprobe("R", "payload") THEN "decide" ELSE "search"]
  /\ KeepMessages /\ UNCHANGED <<deployment, type, op, connected, infoSend>>

Decide ==
  /\ pc["R"] = "decide"
  /\ type' = [type EXCEPT !["R"] = IF connected["R"] THEN "rdma" ELSE "fallback"]
  /\ pc' = [pc EXCEPT !["R"] = "wait"]
  /\ IF backup["R"] = "null" THEN PostRecv ELSE KeepMessages
  /\ UNCHANGED <<deployment, op, return, connected, infoSend>>

\* MPIX_Start with the fallback, and MPI_Send / MPI_Recv of a plain process.
\* A standard-mode send may complete before it is matched.
StartOrdinary(s) ==
  /\ pc[s] = "idle" /\ type[s] \in {"fallback", "plain"} /\ op[s] < MaxOp
  /\ SetUp(s)
  /\ op' = [op EXCEPT ![s] = @ + 1]
  /\ pc' = [pc EXCEPT ![s] = "wait"]
  /\ IF s = "S"
       THEN /\ \E b \in {"pending", "done"} : backup' = [backup EXCEPT !["S"] = b]
            /\ Send("S", Payload(op["S"] + 1))
            /\ UNCHANGED <<mailbox, recvBuf>>
       ELSE PostRecv
  /\ UNCHANGED <<deployment, type, return, connected, infoSend>>

\* Broken variant of BackupDone: the wait does not wait for the message.
BackupAbandoned(s) ==
  /\ pc[s] = "wait"
  /\ backup' = [backup EXCEPT ![s] = "null"]
  /\ pc' = [pc EXCEPT ![s] = "idle"]
  /\ UNCHANGED <<deployment, type, op, return, connected, infoSend, transit,
                 mailbox, recvBuf>>

\* MPI_Wait on the backup request, or the test loop of the receiver.
BackupDone(s) ==
  /\ pc[s] = "wait"
  /\ backup[s] \in {"done", "null"}
  /\ backup' = [backup EXCEPT ![s] = "null"]
  /\ pc' = [pc EXCEPT ![s] = "idle"]
  /\ UNCHANGED <<deployment, type, op, return, connected, infoSend, transit,
                 mailbox, recvBuf>>

-----------------------------------------------------------------------------

\* Message i of s may arrive next: messages of one kind do not overtake.
Deliverable(s, i) ==
  IF deployment.ordered THEN i = 1
  ELSE \A j \in 1 .. i - 1 : transit[s][j].kind # transit[s][i].kind

\* A message of s arrives at its peer; an acknowledgement completes a send, a
\* payload completes a posted receive, anything else waits to be matched.
Arrive(s) ==
  \E i \in DOMAIN transit[s] :
    LET msg == transit[s][i] p == Peer(s) rest == RemoveAt(transit[s], i) IN
    /\ Deliverable(s, i)
    /\ CASE msg.kind = "infoAck" ->
              /\ infoSend' = [infoSend EXCEPT ![p] = "done"]
              /\ transit' = [transit EXCEPT ![s] = rest]
              /\ UNCHANGED <<backup, mailbox, recvBuf>>
         [] msg.kind = "payloadAck" ->
              /\ backup' = [backup EXCEPT ![p] =
                              IF msg.n = op[p] /\ @ = "pending" THEN "done" ELSE @]
              /\ transit' = [transit EXCEPT ![s] = rest]
              /\ UNCHANGED <<infoSend, mailbox, recvBuf>>
         [] msg.kind = "payload" /\ backup[p] = "pending" ->
              /\ backup' = [backup EXCEPT ![p] = "done"]
              /\ recvBuf' = msg.n
              /\ transit' = [transit EXCEPT ![s] = rest, ![p] = Append(@, PayloadAck(msg.n))]
              /\ UNCHANGED <<infoSend, mailbox>>
         [] OTHER ->
              /\ mailbox' = [mailbox EXCEPT ![p] = Append(@, msg)]
              /\ transit' = [transit EXCEPT ![s] = rest]
              /\ UNCHANGED <<infoSend, backup, recvBuf>>
    /\ UNCHANGED <<deployment, type, op, pc, return, connected>>

-----------------------------------------------------------------------------

\* Both sides are through with what this module is about.
Through(s) == pc[s] = "idle" /\ (type[s] = "rdma" \/ op[s] = MaxOp)

Stopped == (\A s \in Side : Through(s)) /\ UNCHANGED vars

Next ==
  \/ IssendPayload \/ WaitSearchingSend \/ TestPayloadSent \/ LeaveWaitSend
  \/ FallbackInStart \/ WaitSearchingRecv \/ SearchRound \/ Decide
  \/ ProgressWhileBlocked
  \/ \E s \in Side : \/ InitRequest(s)
                     \/ StartSearching(s)
                     \/ StartOrdinary(s)
                     \/ ProbeNothing(s)
                     \/ ProbeFindsPeer(s)
                     \/ PeerTookInfo(s)
                     \/ ProgressFromOthers(s)
                     \/ ProgressFallback(s)
                     \/ BackupDone(s)
                     \/ Arrive(s)
  \/ Stopped

Spec == Init /\ [][Next]_vars

(***************************************************************************)
(* Every call is carried out once it can be, every message arrives, and    *)
(* the application waits for what it started.  Being progressed by another *)
(* request must not keep it from that, which takes strong fairness.        *)
(***************************************************************************)
Fairness ==
  /\ WF_vars(IssendPayload) /\ WF_vars(TestPayloadSent)
  /\ WF_vars(FallbackInStart) /\ WF_vars(SearchRound) /\ WF_vars(Decide)
  /\ SF_vars(WaitSearchingSend) /\ SF_vars(WaitSearchingRecv)
  /\ SF_vars(LeaveWaitSend)
  /\ \A s \in Side : /\ WF_vars(ProbeNothing(s) \/ ProbeFindsPeer(s))
                     /\ WF_vars(PeerTookInfo(s))
                     /\ WF_vars(BackupDone(s))
                     /\ WF_vars(Arrive(s))

FairSpec == Spec /\ Fairness

-----------------------------------------------------------------------------

(***************************************************************************)
(* The sides never disagree on the protocol: when one goes on with RDMA,   *)
(* the other has not fallen back to MPI messages.                          *)
(***************************************************************************)
Agreement == \A s \in Side : type[s] = "rdma" => type[Peer(s)] \in {"search", "rdma"}

(***************************************************************************)
(* A side that uses RDMA has the addresses of its peer and the peer has    *)
(* its addresses: either may write the flag of the other.                  *)
(***************************************************************************)
AddressesExchanged ==
  \A s \in Side : type[s] = "rdma" => connected[s] /\ connected[Peer(s)]

(***************************************************************************)
(* Two persistent sides that know of each other in time do not miss the    *)
(* chance: after the first operation both use RDMA.                        *)
(***************************************************************************)
ConnectsIfPossible ==
  Persistent = Side => \A s \in Side : op[s] > 0 /\ pc[s] = "idle" => type[s] = "rdma"

(***************************************************************************)
(* When a wait of the receiver has returned, the payload with the number   *)
(* of its operation is in the buffer, whichever way it took.               *)
(***************************************************************************)
PayloadReceived == pc["R"] = "idle" => recvBuf = op["R"]

(***************************************************************************)
(* The first wait of a persistent sender returns only when the receiver    *)
(* has matched the message, persistent or not.                             *)
(***************************************************************************)
FirstSendMatched ==
  "S" \in Persistent /\ op["S"] > 0 /\ pc["S"] = "idle" => op["R"] > 0

\* Operation n of s is over.
Completed(s, n) == op[s] > n \/ (op[s] = n /\ pc[s] = "idle")

(***************************************************************************)
(* An operation that both sides have started completes on both sides: no   *)
(* side waits for a handshake, or for a message, that never comes.         *)
(***************************************************************************)
StartedOperationsComplete ==
  \A n \in 1 .. MaxOp :
    (\A s \in Side : op[s] >= n) ~> (\A s \in Side : Completed(s, n))
=============================================================================
