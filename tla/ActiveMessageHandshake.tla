----------------------- MODULE ActiveMessageHandshake -----------------------
(***************************************************************************)
(* How a persistent send ("S") and a persistent receive ("R") of the       *)
(* active-message transport agree on it.  The receiver sends the id of its *)
(* message handler with MPI_Issend when it is created, the sender posts an *)
(* MPI_Irecv for it.  The first operation is an MPI_Issend matched by an   *)
(* MPI_Irecv; after its wait each side tests, once, whether its half of    *)
(* the exchange is complete, and otherwise uses MPI messages for good.     *)
(*                                                                         *)
(* A side may also be an ordinary process, of type "plain", that calls     *)
(* MPI_Send / MPI_Recv with the same tag.                                  *)
(*                                                                         *)
(* The id travels on handshake_communicator, the operations on the         *)
(* communicator of the request.  MPI orders the messages of one            *)
(* communicator only, and says nothing about when the completion of an     *)
(* MPI_Issend shows in MPI_Test.  A transport that delivers all messages   *)
(* of a process, the acknowledgements among them, in the order in which    *)
(* they were sent gives more than that: `ordered`.                         *)
(***************************************************************************)
EXTENDS Naturals, Sequences, SequencesExt

CONSTANTS
  Deployments,  \* how the pair is used, and over which transport: Deployment
  MaxOp         \* bound: number of operations of a side

Deployment ==
  [idFirst : BOOLEAN,   \* the sender starts only when it has the id of a handler
   ordered : BOOLEAN]   \* no message of a process overtakes an earlier one

Side == {"S", "R"}

Peer(s) == IF s = "S" THEN "R" ELSE "S"

ASSUME HandshakeAssumption ==
  /\ Deployments \subseteq Deployment
  /\ MaxOp \in Nat \ {0}

VARIABLES
  deployment,  \* the deployment at hand, fixed
  type,      \* type[s]: which protocol the request uses
  op,        \* op[s]: number of operations s has started
  pc,        \* pc[s]: where the process is
  exchange,  \* exchange[s]: rdma_exchange_request
  backup,    \* backup[s]: backup_request
  transit,   \* transit[s]: messages of s under way, in order
  mailbox,   \* mailbox[s]: messages that have arrived at s, unmatched
  recvBuf    \* number of the payload in the receive buffer

vars == <<deployment, type, op, pc, exchange, backup, transit, mailbox, recvBuf>>

Message == [kind : {"id", "idAck"}, n : {0}]
           \union [kind : {"payload", "payloadAck"}, n : 1 .. MaxOp]

Id            == [kind |-> "id", n |-> 0]
IdAck         == [kind |-> "idAck", n |-> 0]
Payload(n)    == [kind |-> "payload", n |-> n]
PayloadAck(n) == [kind |-> "payloadAck", n |-> n]

Progresses == {"null", "pending", "done"}

TypeOK ==
  /\ deployment \in Deployments
  /\ type \in [Side -> {"search", "am", "fallback", "plain"}]
  /\ op \in [Side -> 0 .. MaxOp]
  /\ pc \in [Side -> {"new", "idle", "started", "test"}]
  /\ exchange \in [Side -> Progresses]
  /\ backup \in [Side -> Progresses]
  /\ transit \in [Side -> Seq(Message)]
  /\ mailbox \in [Side -> Seq(Message)]
  /\ recvBuf \in 0 .. MaxOp

\* Broken variant of Init: the request is not cleared when it is created.
InitUncleared ==
  /\ deployment \in Deployments
  /\ type \in [Side -> {"search", "plain"}]
  /\ op = [s \in Side |-> 0]
  /\ pc = [s \in Side |-> IF type[s] = "search" THEN "new" ELSE "idle"]
  /\ exchange = [s \in Side |-> "uninitialised"]
  /\ backup = [s \in Side |-> "null"]
  /\ transit = [s \in Side |-> <<>>] /\ mailbox = [s \in Side |-> <<>>]
  /\ recvBuf = 0

Init ==
  /\ deployment \in Deployments
  /\ type \in [Side -> {"search", "plain"}]
  /\ op = [s \in Side |-> 0]
  /\ pc = [s \in Side |-> IF type[s] = "search" THEN "new" ELSE "idle"]
  /\ exchange = [s \in Side |-> "null"]
  /\ backup = [s \in Side |-> "null"]
  /\ transit = [s \in Side |-> <<>>] /\ mailbox = [s \in Side |-> <<>>]
  /\ recvBuf = 0

-----------------------------------------------------------------------------

Arrived(s, kind) == {i \in DOMAIN mailbox[s] : mailbox[s][i].kind = kind}
First(s, kind) == CHOOSE i \in Arrived(s, kind) : \A j \in Arrived(s, kind) : i <= j

Send(s, msg) == transit' = [transit EXCEPT ![s] = Append(@, msg)]

\* Matching message i of the mailbox of s, and acknowledging it.
Match(s, i, ack) ==
  /\ mailbox' = [mailbox EXCEPT ![s] = RemoveAt(@, i)]
  /\ Send(s, ack)

\* MPIX_Recv_init: the id of the handler.
InitRecv ==
  /\ pc["R"] = "new"
  /\ pc' = [pc EXCEPT !["R"] = "idle"]
  /\ exchange' = [exchange EXCEPT !["R"] = "pending"]
  /\ Send("R", Id)
  /\ UNCHANGED <<deployment, type, op, backup, mailbox, recvBuf>>

\* MPIX_Send_init: the receive for it, which takes an id that came before.
InitSend ==
  /\ pc["S"] = "new"
  /\ pc' = [pc EXCEPT !["S"] = "idle"]
  /\ IF Arrived("S", "id") # {}
       THEN /\ exchange' = [exchange EXCEPT !["S"] = "done"]
            /\ Match("S", First("S", "id"), IdAck)
       ELSE /\ exchange' = [exchange EXCEPT !["S"] = "pending"]
            /\ UNCHANGED <<mailbox, transit>>
  /\ UNCHANGED <<deployment, type, op, backup, recvBuf>>

\* The first start of a persistent sender is synchronous; a later one with the
\* fallback, and MPI_Send, may complete before the message is matched.
StartSend ==
  /\ pc["S"] = "idle" /\ op["S"] < MaxOp /\ type["S"] # "am"
  /\ deployment.idFirst /\ type["S"] = "search" /\ type["R"] # "plain" =>
       exchange["S"] = "done"
  /\ op' = [op EXCEPT !["S"] = @ + 1]
  /\ pc' = [pc EXCEPT !["S"] = "started"]
  /\ \E b \in IF type["S"] = "search" THEN {"pending"} ELSE {"pending", "done"} :
       backup' = [backup EXCEPT !["S"] = b]
  /\ Send("S", Payload(op'["S"]))
  /\ UNCHANGED <<deployment, type, exchange, mailbox, recvBuf>>

\* Broken variant of StartRecv: a payload that came before is not looked for.
StartRecvUnaware ==
  /\ pc["R"] = "idle" /\ op["R"] < MaxOp /\ type["R"] # "am"
  /\ op' = [op EXCEPT !["R"] = @ + 1]
  /\ pc' = [pc EXCEPT !["R"] = "started"]
  /\ backup' = [backup EXCEPT !["R"] = "pending"]
  /\ UNCHANGED <<deployment, type, exchange, transit, mailbox, recvBuf>>

StartRecv ==
  /\ pc["R"] = "idle" /\ op["R"] < MaxOp /\ type["R"] # "am"
  /\ op' = [op EXCEPT !["R"] = @ + 1]
  /\ pc' = [pc EXCEPT !["R"] = "started"]
  /\ IF Arrived("R", "payload") # {}
       THEN LET i == First("R", "payload") n == mailbox["R"][i].n IN
            /\ backup' = [backup EXCEPT !["R"] = "done"]
            /\ recvBuf' = n
            /\ Match("R", i, PayloadAck(n))
       ELSE /\ backup' = [backup EXCEPT !["R"] = "pending"]
            /\ UNCHANGED <<mailbox, recvBuf, transit>>
  /\ UNCHANGED <<deployment, type, exchange>>

\* Broken variant of WaitBackup: the wait does not wait for the message.
WaitNothing(s) ==
  /\ pc[s] = "started"
  /\ backup' = [backup EXCEPT ![s] = "null"]
  /\ pc' = [pc EXCEPT ![s] = IF type[s] = "search" THEN "test" ELSE "idle"]
  /\ UNCHANGED <<deployment, type, op, exchange, transit, mailbox, recvBuf>>

\* MPI_Wait on the message of the operation.
WaitBackup(s) ==
  /\ pc[s] = "started" /\ backup[s] = "done"
  /\ backup' = [backup EXCEPT ![s] = "null"]
  /\ pc' = [pc EXCEPT ![s] = IF type[s] = "search" THEN "test" ELSE "idle"]
  /\ UNCHANGED <<deployment, type, op, exchange, transit, mailbox, recvBuf>>

\* Broken variant of TestExchange: the result of MPI_Test is mixed up.
TestExchangeInverted(s) ==
  /\ pc[s] = "test"
  /\ type' = [type EXCEPT ![s] = IF s = "R" \/ exchange[s] = "done" THEN "am" ELSE "fallback"]
  /\ pc' = [pc EXCEPT ![s] = "idle"]
  /\ UNCHANGED <<deployment, op, exchange, backup, transit, mailbox, recvBuf>>

\* MPI_Test on the exchange, in the wait of the first operation.
TestExchange(s) ==
  /\ pc[s] = "test"
  /\ type' = [type EXCEPT ![s] = IF exchange[s] = "done" THEN "am" ELSE "fallback"]
  /\ pc' = [pc EXCEPT ![s] = "idle"]
  /\ UNCHANGED <<deployment, op, exchange, backup, transit, mailbox, recvBuf>>

\* Message i of s may arrive next: messages of one kind are of one communicator
\* and direction, and do not overtake.
Deliverable(s, i) ==
  IF deployment.ordered THEN i = 1
  ELSE \A j \in 1 .. i - 1 : transit[s][j].kind # transit[s][i].kind

\* Message i of s reaches its peer: it completes what was posted for it, or waits
\* to be matched.
ArriveAt(s, i) ==
  LET msg == transit[s][i]
      p == Peer(s)
      rest == RemoveAt(transit[s], i)
      Deliver(ack) == transit' = [transit EXCEPT ![s] = rest, ![p] = Append(@, ack)]
      Drop == transit' = [transit EXCEPT ![s] = rest]
  IN
  /\ \/ /\ msg.kind = "idAck"
        /\ exchange' = [exchange EXCEPT ![p] = "done"]
        /\ Drop /\ UNCHANGED <<backup, mailbox, recvBuf>>
     \/ /\ msg.kind = "payloadAck"
        /\ backup' = [backup EXCEPT ![p] =
                        IF msg.n = op[p] /\ @ = "pending" THEN "done" ELSE @]
        /\ Drop /\ UNCHANGED <<exchange, mailbox, recvBuf>>
     \/ /\ msg.kind = "id" /\ exchange[p] = "pending"
        /\ exchange' = [exchange EXCEPT ![p] = "done"]
        /\ Deliver(IdAck) /\ UNCHANGED <<backup, mailbox, recvBuf>>
     \/ /\ msg.kind = "payload" /\ backup[p] = "pending"
        /\ backup' = [backup EXCEPT ![p] = "done"]
        /\ recvBuf' = msg.n
        /\ Deliver(PayloadAck(msg.n)) /\ UNCHANGED <<exchange, mailbox>>
     \/ /\ \/ msg.kind = "id" /\ exchange[p] # "pending"
           \/ msg.kind = "payload" /\ backup[p] # "pending"
        /\ mailbox' = [mailbox EXCEPT ![p] = Append(@, msg)]
        /\ Drop /\ UNCHANGED <<exchange, backup, recvBuf>>
  /\ UNCHANGED <<deployment, type, op, pc>>

Arrive(s) == \E i \in DOMAIN transit[s] : Deliverable(s, i) /\ ArriveAt(s, i)

-----------------------------------------------------------------------------

\* The system stops when both sides are through with what this module is about.
Next ==
  \/ InitRecv \/ InitSend \/ StartSend \/ StartRecv
  \/ \E s \in Side : WaitBackup(s) \/ TestExchange(s) \/ Arrive(s)

Spec == Init /\ [][Next]_vars

\* Messages arrive, and the application waits for what it has started.
Fairness == \A s \in Side : /\ WF_vars(WaitBackup(s)) /\ WF_vars(TestExchange(s))
                            /\ WF_vars(Arrive(s))

FairSpec == Spec /\ Fairness

-----------------------------------------------------------------------------

(***************************************************************************)
(* The sides decide alike: when one uses active messages, the other does,  *)
(* or has not decided yet.                                                 *)
(***************************************************************************)
Agreement == \A s \in Side : type[s] = "am" => type[Peer(s)] \in {"search", "am"}

(***************************************************************************)
(* They do where the one test of each side comes late enough: the sender   *)
(* has the id before it starts, and the completion of the receiver's       *)
(* MPI_Issend is not overtaken by the payload.  Neither alone is enough.   *)
(***************************************************************************)
TimelyAgreement == deployment.idFirst /\ deployment.ordered => Agreement

(***************************************************************************)
(* In every deployment, a sender that uses active messages has the id of a *)
(* handler which a persistent receiver has registered, and a receiver that *)
(* waits for them has a sender that holds its id: no message goes to a     *)
(* handler nobody registered, though the two may still decide differently. *)
(***************************************************************************)
HandlerKnown ==
  /\ type["S"] = "am" => type["R"] # "plain" /\ pc["R"] # "new"
  /\ type["R"] = "am" => type["S"] # "plain" /\ exchange["S"] = "done"

(***************************************************************************)
(* When a wait of the receiver has returned, the payload with the number   *)
(* of its operation is in the buffer.                                      *)
(***************************************************************************)
PayloadReceived == pc["R"] = "idle" => recvBuf = op["R"]

Completed(s, n) == op[s] > n \/ (op[s] = n /\ pc[s] = "idle")

(***************************************************************************)
(* In every deployment, an operation that both sides have started over MPI *)
(* completes on both sides: the receive takes the payload whether it came  *)
(* before or comes later, whatever the sides decide afterwards.            *)
(***************************************************************************)
StartedOperationsComplete ==
  \A n \in 1 .. MaxOp :
    (\A s \in Side : op[s] >= n) ~> (\A s \in Side : Completed(s, n))
=============================================================================
