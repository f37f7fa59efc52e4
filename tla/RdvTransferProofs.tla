-------------------------- MODULE RdvTransferProofs --------------------------
(***************************************************************************)
(* The safety of RdvTransfer for every number of operations, by an         *)
(* inductive invariant.                                                    *)
(***************************************************************************)
EXTENDS RdvTransfer, TLAPS

\* The deployments in which the protocol is safe: no request is searching for
\* its peer while the receiver spins, and the network reads flag_buffer before
\* ucp_put_nbi returns if the receive is progressed by waits for others.
SafeDeployment == ~NewRequests /\ ~(DeferredRead /\ OtherRequests)

\* flagBuf[s] is the last flag value s has posted, hence what s has told its
\* peer about operation op[s]: nothing yet, that it started, that it moved.
Silent(s)    == flagBuf[s] <= 2 * op[s]
Announced(s) == flagBuf[s] = ReadyFlag(op[s])
Moved(s)     == flagBuf[s] = DoneFlag(op[s])

\* A flag put with value v is outstanding.
InFlight(s, v) == \E o \in FlagOps(s) : o.val = v

\* The user's position agrees with what has been posted.
PcInv(s) ==
  /\ Silent(s) \/ Announced(s) \/ Moved(s)
  /\ op[s] = 1 => Inactive(s) /\ Silent(s) /\ flag[s] # ReadyFlag(1)
  /\ pc[s] = "announce" => Silent(s)
  /\ pc[s] = "transfer" => ~Moved(s)
  /\ pc[s] = "transfer" /\ Silent(s) => resume[s] = "started"
  /\ pc[s] = "transfer" /\ Announced(s) =>
       s = "R" /\ (resume[s] = "drain" \/ (resume[s] = "started" /\ OtherRequests))
  /\ pc[s] \in {"started", "dataWait", "spin"} => ~Silent(s)
  /\ pc[s] = "drain" => Moved(s) /\ s = "R"
  /\ Inactive(s) /\ op[s] > 1 => ~Silent(s) /\ flag[s] >= DoneFlag(op[s])

\* What is still outstanding is covered by a flush that is still awaited.
FlushInv(s) ==
  /\ pc[s] \notin {"started", "transfer"} => flagReq[s] = {}
  /\ pc[s] = "transfer" /\ (resume[s] = "drain" \/ Silent(s)) => flagReq[s] = {}
  /\ pc[s] \notin {"started", "dataWait", "drain"} \/ ~Moved(s) => dataReq[s] = {}
  /\ posted[s] \subseteq flagReq[s] \union dataReq[s]

\* At most the announcement, the data and the completion of the current
\* operation are outstanding, and the fences order them.
PostedInv(s) ==
  /\ \A o \in posted[s] : o.epoch <= epoch[s]
  /\ \A o \in DataOps(s) :
       Moved(s) /\ \E q \in FlagOps(s) : q.val = DoneFlag(op[s]) /\ o.epoch < q.epoch
  /\ \A o, q \in DataOps(s) : o = q
  /\ \A o \in FlagOps(s) :
       \/ o.val = ReadyFlag(op[s]) /\ ~Silent(s)
       \/ o.val = DoneFlag(op[s]) /\ Moved(s)
  /\ \A o, q \in FlagOps(s) :
       o.val = ReadyFlag(op[s]) /\ q.val = DoneFlag(op[s]) => o.epoch < q.epoch
  /\ \A o, q \in FlagOps(s) : o.val = q.val => o = q
  /\ DeferredRead => \A o \in FlagOps(s) : o.val = flagBuf[s]
  /\ Moved(s) /\ InFlight(s, ReadyFlag(op[s])) => s = "R" /\ InFlight(s, DoneFlag(op[s]))

\* What the peer's flag says about s.
FlagInv(s) ==
  /\ Silent(s) => flag[Peer(s)] <= 2 * op[s]
  /\ Announced(s) /\ InFlight(s, ReadyFlag(op[s])) =>
       /\ flag[Peer(s)] <= 2 * op[s]
       /\ op[Peer(s)] = op[s] => ~Moved(Peer(s))
  /\ Announced(s) /\ ~InFlight(s, ReadyFlag(op[s])) =>
       \/ /\ flag[Peer(s)] = ReadyFlag(op[s])
          /\ op[Peer(s)] = op[s] => ~Moved(Peer(s))
          /\ op[Peer(s)] <= op[s]
       \/ /\ flag[Peer(s)] = DoneFlag(op[s])
          /\ op[Peer(s)] = op[s] => Moved(Peer(s))
          /\ op[Peer(s)] >= op[s]
  /\ Moved(s) /\ InFlight(s, DoneFlag(op[s])) =>
       /\ flag[Peer(s)] <= ReadyFlag(op[s])
       /\ s = "S" \/ InFlight(s, ReadyFlag(op[s])) => flag[Peer(s)] <= 2 * op[s]
  /\ Moved(s) /\ ~InFlight(s, DoneFlag(op[s])) => flag[Peer(s)] = DoneFlag(op[s])

\* The two sides relative to each other.
PairInv(s) ==
  /\ op[Peer(s)] <= op[s] + 1
  /\ op[Peer(s)] = op[s] + 1 =>
       /\ posted[s] = {}
       /\ recvBuf = op[s]
       /\ op[s] > 1 => ~Silent(s) /\ flag[s] >= DoneFlag(op[s])
       /\ pc[s] \notin {"announce", "transfer"}
  /\ Inactive(s) => op[Peer(s)] >= op[s]
  /\ Moved(s) => op[Peer(s)] >= op[s] /\ (op[Peer(s)] = op[s] => Announced(Peer(s)))
  /\ pc[s] = "transfer" =>
       /\ op[Peer(s)] = op[s]
       /\ Announced(Peer(s))
       /\ FlagOps(Peer(s)) = {}
       /\ flag[s] = ReadyFlag(op[s])

\* The receive buffer holds message n once one side has moved it.
BufferInv ==
  /\ sendBuf = op["S"] \/ (Inactive("S") /\ sendBuf = op["S"] + 1)
  /\ op["R"] = op["S"] =>
       IF op["S"] = 1 \/ \E s \in Side : Moved(s) /\ DataOps(s) = {}
       THEN recvBuf = op["S"] ELSE recvBuf = op["S"] - 1

SideInv(s) ==
  PcInv(s) /\ FlushInv(s) /\ PostedInv(s) /\ FlagInv(s) /\ PairInv(s)

IInv == TypeOK /\ BufferInv /\ \A s \in Side : SideInv(s)

-----------------------------------------------------------------------------

\* There are two sides, each the peer of the other.
LEMMA Sides ==
  ASSUME NEW s \in Side
  PROVE  /\ Peer(s) \in Side
         /\ Peer(s) # s
         /\ Peer(Peer(s)) = s
         /\ \A t \in Side : t = s \/ t = Peer(s)
BY DEF Side, Peer

\* The invariant holds initially.
LEMMA InitIInv == Init => IInv
BY ConstantsAssumption DEF ConstantsAssumption, Init, IInv, TypeOK, BufferInv, SideInv,
   PcInv, FlushInv, PostedInv, FlagInv, PairInv, Silent, Announced, Moved, InFlight,
   DataOps, FlagOps, Inactive, ReadyFlag, DoneFlag, Side, Peer, PCs, RdmaOp

\* The user writes the next message.
LEMMA FillSendBufferStep ==
  ASSUME SafeDeployment, IInv, FillSendBuffer
  PROVE  IInv'
<1> DEFINE s == "S"  p == Peer(s)
<1>1. p \in Side /\ p # s /\ Peer(p) = s /\ \A t \in Side : t = s \/ t = p
  BY Sides DEF Side
<1>2. TypeOK /\ BufferInv /\ SideInv(s) /\ SideInv(p)
  BY <1>1 DEF IInv, Side
<1>3. TypeOK'
  BY <1>1, <1>2 DEF FillSendBuffer, TypeOK, PCs
<1>4. PcInv(s)'
  BY <1>1, <1>2 DEF FillSendBuffer, SideInv, PcInv, TypeOK, Silent,
     Announced, Moved, Inactive, ReadyFlag, DoneFlag
<1>5. PcInv(p)'
  BY <1>1, <1>2 DEF FillSendBuffer, SideInv, PcInv, TypeOK, Silent,
     Announced, Moved, Inactive, ReadyFlag, DoneFlag
<1>6. FlushInv(s)'
  BY <1>1, <1>2 DEF FillSendBuffer, SideInv, FlushInv, TypeOK, Silent, Moved,
     DoneFlag
<1>7. FlushInv(p)'
  BY <1>1, <1>2 DEF FillSendBuffer, SideInv, FlushInv, TypeOK, Silent, Moved,
     DoneFlag
<1>8. PostedInv(s)'
  BY <1>1, <1>2 DEF FillSendBuffer, SideInv, PostedInv, TypeOK, Silent,
     Announced, Moved, InFlight, FlagOps, DataOps, ReadyFlag, DoneFlag
<1>9. PostedInv(p)'
  BY <1>1, <1>2 DEF FillSendBuffer, SideInv, PostedInv, TypeOK, Silent,
     Announced, Moved, InFlight, FlagOps, DataOps, ReadyFlag, DoneFlag
<1>10. FlagInv(s)'
  BY <1>1, <1>2 DEF FillSendBuffer, SideInv, FlagInv, TypeOK, Silent,
     Announced, Moved, InFlight, FlagOps, ReadyFlag, DoneFlag
<1>11. FlagInv(p)'
  BY <1>1, <1>2 DEF FillSendBuffer, SideInv, FlagInv, TypeOK, Silent,
     Announced, Moved, InFlight, FlagOps, ReadyFlag, DoneFlag
<1>12. PairInv(s)'
  BY <1>1, <1>2 DEF FillSendBuffer, SideInv, PairInv, TypeOK, Silent,
     Announced, Moved, FlagOps, Inactive, ReadyFlag, DoneFlag
<1>13. PairInv(p)'
  BY <1>1, <1>2 DEF FillSendBuffer, SideInv, PairInv, TypeOK, Silent,
     Announced, Moved, FlagOps, Inactive, ReadyFlag, DoneFlag
<1>14. BufferInv'
  BY <1>1, <1>2 DEF FillSendBuffer, BufferInv, TypeOK, Moved, DataOps,
     Inactive, DoneFlag
<1> QED
  BY <1>1, <1>3, <1>4, <1>5, <1>6, <1>7, <1>8, <1>9, <1>10, <1>11, <1>12, <1>13, <1>14 DEF
     IInv, SideInv

\* A start finds out whether the peer has started the operation, too.
LEMMA StartStep ==
  ASSUME SafeDeployment, IInv, NEW s \in Side, Start(s)
  PROVE  IInv'
<1> DEFINE p == Peer(s)
<1>1. p \in Side /\ p # s /\ Peer(p) = s /\ \A t \in Side : t = s \/ t = p
  BY Sides
<1>2. TypeOK /\ BufferInv /\ SideInv(s) /\ SideInv(p)
  BY <1>1 DEF IInv
<1>3. TypeOK'
  BY ConstantsAssumption, <1>1, <1>2 DEF Start, PeerReady, TypeOK, PCs,
     ConstantsAssumption
<1>4. PcInv(s)'
  BY <1>1, <1>2 DEF Start, PeerReady, SideInv, PcInv, TypeOK, Silent,
     Announced, Moved, Inactive, ReadyFlag, DoneFlag
<1>5. PcInv(p)'
  BY <1>1, <1>2 DEF Start, PeerReady, SideInv, PcInv, TypeOK, Silent,
     Announced, Moved, Inactive, ReadyFlag, DoneFlag
<1>6. FlushInv(s)'
  BY <1>1, <1>2 DEF Start, PeerReady, SideInv, FlushInv, TypeOK, Silent,
     Moved, DoneFlag
<1>7. FlushInv(p)'
  BY <1>1, <1>2 DEF Start, PeerReady, SideInv, FlushInv, TypeOK, Silent,
     Moved, DoneFlag
<1>8. PostedInv(s)'
  BY <1>1, <1>2 DEF Start, PeerReady, SideInv, FlushInv, PostedInv, TypeOK,
     Silent, Announced, Moved, InFlight, FlagOps, DataOps, ReadyFlag,
     DoneFlag
<1>9. PostedInv(p)'
  BY <1>1, <1>2 DEF Start, PeerReady, SideInv, PostedInv, TypeOK, Silent,
     Announced, Moved, InFlight, FlagOps, DataOps, ReadyFlag, DoneFlag
<1>10. FlagInv(s)'
  BY <1>1, <1>2 DEF Start, PeerReady, SideInv, PcInv, FlagInv, TypeOK,
     Silent, Announced, Moved, InFlight, FlagOps, ReadyFlag, DoneFlag
<1>11. FlagInv(p)'
  BY <1>1, <1>2 DEF Start, PeerReady, SideInv, PcInv, PostedInv, FlagInv,
     TypeOK, Silent, Announced, Moved, InFlight, FlagOps, Inactive,
     ReadyFlag, DoneFlag
<1>12. PairInv(s)'
  BY <1>1, <1>2 DEF Start, PeerReady, SideInv, PcInv, PostedInv, FlagInv,
     PairInv, TypeOK, Silent, Announced, Moved, InFlight, FlagOps, Inactive,
     ReadyFlag, DoneFlag
<1>13. PairInv(p)'
  BY <1>1, <1>2 DEF Start, PeerReady, SideInv, PcInv, FlushInv, PostedInv,
     FlagInv, PairInv, BufferInv, TypeOK, Silent, Announced, Moved, InFlight,
     FlagOps, DataOps, Inactive, ReadyFlag, DoneFlag, Side
<1>14. BufferInv'
  BY <1>1, <1>2 DEF Start, PeerReady, SideInv, PcInv, PairInv, BufferInv,
     TypeOK, Silent, Announced, Moved, DataOps, Inactive, ReadyFlag,
     DoneFlag, Side
<1> QED
  BY <1>1, <1>3, <1>4, <1>5, <1>6, <1>7, <1>8, <1>9, <1>10, <1>11, <1>12, <1>13, <1>14 DEF
     IInv, SideInv

\* An announcement puts the first flag value of its operation.
LEMMA AnnounceStep ==
  ASSUME SafeDeployment, IInv, NEW s \in Side, Announce(s)
  PROVE  IInv'
<1> DEFINE p == Peer(s)  o == FlagPut(ReadyFlag(op[s]), epoch[s])
<1>1. p \in Side /\ p # s /\ Peer(p) = s /\ \A t \in Side : t = s \/ t = p
  BY Sides
<1>2. TypeOK /\ BufferInv /\ SideInv(s) /\ SideInv(p)
  BY <1>1 DEF IInv
<1>3. o \in RdmaOp /\ o.kind = "flag" /\ o.val = ReadyFlag(op[s]) /\ o.epoch = epoch[s]
  BY <1>2 DEF FlagPut, RdmaOp, TypeOK, ReadyFlag
<1>4. Silent(s) /\ posted[s] = {}
  BY <1>2 DEF Announce, SideInv, PcInv, FlushInv
<1>5. /\ pc[s] = "announce" /\ pc' = [pc EXCEPT ![s] = "started"]
       /\ flagBuf' = [flagBuf EXCEPT ![s] = ReadyFlag(op[s])]
       /\ posted' = [posted EXCEPT ![s] = {o}]
       /\ flagReq' = [flagReq EXCEPT ![s] = {o}]
       /\ UNCHANGED <<op, flag, dataReq, resume, epoch, sendBuf, recvBuf>>
  BY <1>1, <1>2, <1>4 DEF Announce, TypeOK
<1>6. FlagOps(s)' = {o} /\ DataOps(s)' = {} /\ FlagOps(p)' = FlagOps(p) /\ DataOps(p)' = DataOps(p)
  BY <1>1, <1>2, <1>3, <1>5 DEF FlagOps, DataOps, TypeOK
<1>7. TypeOK'
  BY <1>1, <1>2, <1>3, <1>4, <1>5, <1>6 DEF TypeOK, PCs, ReadyFlag, RdmaOp
<1>8. PcInv(s)'
  BY <1>1, <1>2, <1>3, <1>4, <1>5, <1>6 DEF SideInv, PcInv, TypeOK, Silent,
     Announced, Moved, Inactive, ReadyFlag, DoneFlag
<1>9. PcInv(p)'
  BY <1>1, <1>2, <1>3, <1>4, <1>5, <1>6 DEF SideInv, PcInv, TypeOK, Silent,
     Announced, Moved, Inactive, ReadyFlag, DoneFlag
<1>10. FlushInv(s)'
  BY <1>1, <1>2, <1>3, <1>4, <1>5, <1>6 DEF SideInv, FlushInv, TypeOK,
     Silent, Moved, DoneFlag
<1>11. FlushInv(p)'
  BY <1>1, <1>2, <1>3, <1>4, <1>5, <1>6 DEF SideInv, FlushInv, TypeOK,
     Silent, Moved, DoneFlag
<1>12. PostedInv(s)'
  BY <1>1, <1>2, <1>3, <1>4, <1>5, <1>6 DEF SideInv, PostedInv, TypeOK,
     Silent, Announced, Moved, InFlight, FlagOps, DataOps, ReadyFlag,
     DoneFlag
<1>13. PostedInv(p)'
  BY <1>1, <1>2, <1>3, <1>4, <1>5, <1>6 DEF SideInv, PostedInv, TypeOK,
     Silent, Announced, Moved, InFlight, FlagOps, DataOps, ReadyFlag,
     DoneFlag
<1>14. FlagInv(s)'
  BY <1>1, <1>2, <1>3, <1>4, <1>5, <1>6 DEF SideInv, FlagInv, TypeOK, Silent,
     Announced, Moved, InFlight, FlagOps, ReadyFlag, DoneFlag, PairInv
<1>15. FlagInv(p)'
  BY <1>1, <1>2, <1>3, <1>4, <1>5, <1>6 DEF SideInv, FlagInv, TypeOK, Silent,
     Announced, Moved, InFlight, FlagOps, ReadyFlag, DoneFlag
<1>16. PairInv(s)'
  BY <1>1, <1>2, <1>3, <1>4, <1>5, <1>6 DEF SideInv, PairInv, TypeOK, Silent,
     Announced, Moved, FlagOps, Inactive, ReadyFlag, DoneFlag
<1>17. PairInv(p)'
  BY <1>1, <1>2, <1>3, <1>4, <1>5, <1>6 DEF SideInv, PairInv, TypeOK, Silent,
     Announced, Moved, FlagOps, Inactive, ReadyFlag, DoneFlag
<1>18. BufferInv'
  BY <1>1, <1>2, <1>3, <1>4, <1>5, <1>6 DEF BufferInv, TypeOK, Moved,
     DataOps, Inactive, DoneFlag, ReadyFlag, Silent, Side, Announced,
     SideInv, PcInv
<1> QED
  BY <1>1, <1>3, <1>4, <1>5, <1>6, <1>7, <1>8, <1>9, <1>10, <1>11, <1>12, <1>13, <1>14, <1>15, <1>16, <1>17, <1>18 DEF
     IInv, SideInv

\* A transfer is posted while the peer waits for it.
LEMMA TransferStep ==
  ASSUME SafeDeployment, IInv, NEW s \in Side, Transfer(s)
  PROVE  IInv'
<1> DEFINE p == Peer(s)  d == DataMove(s, op[s], epoch[s])
             f == FlagPut(DoneFlag(op[s]), epoch[s] + 1)
<1>1. p \in Side /\ p # s /\ Peer(p) = s /\ \A t \in Side : t = s \/ t = p
  BY Sides
<1>2. TypeOK /\ BufferInv /\ SideInv(s) /\ SideInv(p)
  BY <1>1 DEF IInv
<1>3. /\ d \in RdmaOp /\ d.kind # "flag" /\ d.epoch = epoch[s]
       /\ f \in RdmaOp /\ f.kind = "flag" /\ f.val = DoneFlag(op[s])
       /\ f.epoch = epoch[s] + 1
  BY <1>2 DEF FlagPut, DataMove, RdmaOp, TypeOK, DoneFlag
<1>4. /\ pc[s] = "transfer" /\ ~Moved(s) /\ dataReq[s] = {} /\ DataOps(s) = {}
       /\ flag[s] = ReadyFlag(op[s]) /\ op[p] = op[s] /\ Announced(p) /\ FlagOps(p) = {}
  BY <1>2 DEF Transfer, SideInv, PcInv, FlushInv, PostedInv, PairInv
<1>5. flag[s] + 1 = DoneFlag(op[s])
  BY <1>2, <1>4 DEF TypeOK, ReadyFlag, DoneFlag
<1>6. \A q \in FlagOps(s) : /\ q.val = ReadyFlag(op[s])
                              /\ q.epoch <= epoch[s]
                              /\ s = "R"
                              /\ ~DeferredRead
                              /\ \A r \in FlagOps(s) : r = q
  BY <1>2, <1>4 DEF SafeDeployment, SideInv, PcInv, FlushInv, PostedInv,
     Announced, FlagOps
<1>7. /\ pc' = [pc EXCEPT ![s] = resume[s]]
       /\ flag' = [flag EXCEPT ![s] = DoneFlag(op[s])]
       /\ flagBuf' = [flagBuf EXCEPT ![s] = DoneFlag(op[s])]
       /\ epoch' = [epoch EXCEPT ![s] = epoch[s] + 1]
       /\ UNCHANGED <<op, flagReq, resume, sendBuf, recvBuf>>
  BY <1>1, <1>2, <1>5 DEF Transfer, TypeOK, AfterFence
<1>8. /\ posted' = [posted EXCEPT ![s] = posted[s] \union {d, f}]
       /\ dataReq' = [dataReq EXCEPT ![s] = posted[s] \union {d, f}]
  BY <1>1, <1>2, <1>7 DEF Transfer, TypeOK
<1>9. /\ FlagOps(s)' = FlagOps(s) \union {f} /\ DataOps(s)' = {d}
       /\ FlagOps(p)' = {} /\ DataOps(p)' = DataOps(p)
  BY <1>1, <1>2, <1>3, <1>4, <1>8 DEF FlagOps, DataOps, TypeOK
<1>10. TypeOK'
  BY <1>1, <1>2, <1>3, <1>4, <1>5, <1>6, <1>7, <1>8, <1>9 DEF TypeOK, PCs,
     ReadyFlag, DoneFlag, RdmaOp, SideInv, PcInv, Announced
<1>11. PcInv(s)'
  BY <1>1, <1>2, <1>3, <1>4, <1>5, <1>6, <1>7, <1>8, <1>9 DEF SideInv, PcInv,
     TypeOK, Silent, Announced, Moved, Inactive, ReadyFlag, DoneFlag
<1>12. PcInv(p)'
  BY <1>1, <1>2, <1>3, <1>4, <1>5, <1>6, <1>7, <1>8, <1>9 DEF SideInv, PcInv,
     TypeOK, Silent, Announced, Moved, Inactive, ReadyFlag, DoneFlag
<1>13. FlushInv(s)'
  BY <1>1, <1>2, <1>3, <1>4, <1>5, <1>6, <1>7, <1>8, <1>9 DEF SideInv,
     FlushInv, TypeOK, Silent, Moved, DoneFlag, PcInv
<1>14. FlushInv(p)'
  BY <1>1, <1>2, <1>3, <1>4, <1>5, <1>6, <1>7, <1>8, <1>9 DEF SideInv,
     FlushInv, TypeOK, Silent, Moved, DoneFlag
<1>15. PostedInv(s)'
  BY <1>1, <1>2, <1>3, <1>4, <1>5, <1>6, <1>7, <1>8, <1>9 DEF SideInv,
     PostedInv, TypeOK, Silent, Announced, Moved, InFlight, FlagOps, DataOps,
     ReadyFlag, DoneFlag, RdmaOp
<1>16. PostedInv(p)'
  BY <1>1, <1>2, <1>3, <1>4, <1>5, <1>6, <1>7, <1>8, <1>9 DEF SideInv,
     PostedInv, TypeOK, Silent, Announced, Moved, InFlight, FlagOps, DataOps,
     ReadyFlag, DoneFlag
<1>17. FlagInv(s)'
  BY <1>1, <1>2, <1>3, <1>4, <1>5, <1>6, <1>7, <1>8, <1>9 DEF SideInv,
     FlagInv, TypeOK, Silent, Announced, Moved, InFlight, FlagOps, ReadyFlag,
     DoneFlag, PairInv, PcInv, PostedInv
<1>18. FlagInv(p)'
  BY <1>1, <1>2, <1>3, <1>4, <1>5, <1>6, <1>7, <1>8, <1>9 DEF SideInv,
     FlagInv, TypeOK, Silent, Announced, Moved, InFlight, FlagOps, ReadyFlag,
     DoneFlag
<1>19. PairInv(s)'
  BY <1>1, <1>2, <1>3, <1>4, <1>5, <1>6, <1>7, <1>8, <1>9 DEF SideInv,
     PairInv, TypeOK, Silent, Announced, Moved, FlagOps, Inactive, ReadyFlag,
     DoneFlag
<1>20. PairInv(p)'
  BY <1>1, <1>2, <1>3, <1>4, <1>5, <1>6, <1>7, <1>8, <1>9 DEF SideInv,
     PairInv, TypeOK, Silent, Announced, Moved, FlagOps, Inactive, ReadyFlag,
     DoneFlag, FlagInv, PcInv
<1>21. BufferInv'
  BY <1>1, <1>2, <1>3, <1>4, <1>5, <1>6, <1>7, <1>8, <1>9 DEF BufferInv,
     TypeOK, Moved, DataOps, Inactive, DoneFlag
<1> QED
  BY <1>1, <1>3, <1>4, <1>5, <1>6, <1>7, <1>8, <1>9, <1>10, <1>11, <1>12, <1>13, <1>14, <1>15, <1>16, <1>17, <1>18, <1>19, <1>20, <1>21 DEF
     IInv, SideInv

\* The flush of the announcement.
LEMMA WaitFlagFlushStep ==
  ASSUME SafeDeployment, IInv, NEW s \in Side, WaitFlagFlush(s)
  PROVE  IInv'
<1> DEFINE p == Peer(s)
<1>1. p \in Side /\ p # s /\ Peer(p) = s /\ \A t \in Side : t = s \/ t = p
  BY Sides
<1>2. TypeOK /\ BufferInv /\ SideInv(s) /\ SideInv(p)
  BY <1>1 DEF IInv
<1>3. TypeOK'
  BY <1>1, <1>2 DEF WaitFlagFlush, Flushed, TypeOK, PCs
<1>4. PcInv(s)'
  BY <1>1, <1>2 DEF WaitFlagFlush, Flushed, SideInv, PcInv, TypeOK, Silent,
     Announced, Moved, Inactive, ReadyFlag, DoneFlag
<1>5. PcInv(p)'
  BY <1>1, <1>2 DEF WaitFlagFlush, Flushed, SideInv, PcInv, TypeOK, Silent,
     Announced, Moved, Inactive, ReadyFlag, DoneFlag
<1>6. FlushInv(s)'
  BY <1>1, <1>2 DEF WaitFlagFlush, Flushed, SideInv, FlushInv, TypeOK,
     Silent, Moved, DoneFlag
<1>7. FlushInv(p)'
  BY <1>1, <1>2 DEF WaitFlagFlush, Flushed, SideInv, FlushInv, TypeOK,
     Silent, Moved, DoneFlag
<1>8. PostedInv(s)'
  BY <1>1, <1>2 DEF WaitFlagFlush, Flushed, SideInv, PostedInv, TypeOK,
     Silent, Announced, Moved, InFlight, FlagOps, DataOps, ReadyFlag,
     DoneFlag
<1>9. PostedInv(p)'
  BY <1>1, <1>2 DEF WaitFlagFlush, Flushed, SideInv, PostedInv, TypeOK,
     Silent, Announced, Moved, InFlight, FlagOps, DataOps, ReadyFlag,
     DoneFlag
<1>10. FlagInv(s)'
  BY <1>1, <1>2 DEF WaitFlagFlush, Flushed, SideInv, FlagInv, TypeOK, Silent,
     Announced, Moved, InFlight, FlagOps, ReadyFlag, DoneFlag
<1>11. FlagInv(p)'
  BY <1>1, <1>2 DEF WaitFlagFlush, Flushed, SideInv, FlagInv, TypeOK, Silent,
     Announced, Moved, InFlight, FlagOps, ReadyFlag, DoneFlag
<1>12. PairInv(s)'
  BY <1>1, <1>2 DEF WaitFlagFlush, Flushed, SideInv, PairInv, TypeOK, Silent,
     Announced, Moved, FlagOps, Inactive, ReadyFlag, DoneFlag
<1>13. PairInv(p)'
  BY <1>1, <1>2 DEF WaitFlagFlush, Flushed, SideInv, PairInv, TypeOK, Silent,
     Announced, Moved, FlagOps, Inactive, ReadyFlag, DoneFlag
<1>14. BufferInv'
  BY <1>1, <1>2 DEF WaitFlagFlush, Flushed, BufferInv, TypeOK, Moved,
     DataOps, Inactive, DoneFlag
<1> QED
  BY <1>1, <1>3, <1>4, <1>5, <1>6, <1>7, <1>8, <1>9, <1>10, <1>11, <1>12, <1>13, <1>14 DEF
     IInv, SideInv

\* The flush of the data.
LEMMA WaitDataFlushStep ==
  ASSUME SafeDeployment, IInv, NEW s \in Side, WaitDataFlush(s)
  PROVE  IInv'
<1> DEFINE p == Peer(s)
<1>1. p \in Side /\ p # s /\ Peer(p) = s /\ \A t \in Side : t = s \/ t = p
  BY Sides
<1>2. TypeOK /\ BufferInv /\ SideInv(s) /\ SideInv(p)
  BY <1>1 DEF IInv
<1>3. TypeOK'
  BY <1>1, <1>2 DEF WaitDataFlush, Flushed, TypeOK, PCs
<1>4. PcInv(s)'
  BY <1>1, <1>2 DEF WaitDataFlush, Flushed, SideInv, PcInv, TypeOK, Silent,
     Announced, Moved, Inactive, ReadyFlag, DoneFlag
<1>5. PcInv(p)'
  BY <1>1, <1>2 DEF WaitDataFlush, Flushed, SideInv, PcInv, TypeOK, Silent,
     Announced, Moved, Inactive, ReadyFlag, DoneFlag
<1>6. FlushInv(s)'
  BY <1>1, <1>2 DEF WaitDataFlush, Flushed, SideInv, FlushInv, TypeOK,
     Silent, Moved, DoneFlag
<1>7. FlushInv(p)'
  BY <1>1, <1>2 DEF WaitDataFlush, Flushed, SideInv, FlushInv, TypeOK,
     Silent, Moved, DoneFlag
<1>8. PostedInv(s)'
  BY <1>1, <1>2 DEF WaitDataFlush, Flushed, SideInv, PostedInv, TypeOK,
     Silent, Announced, Moved, InFlight, FlagOps, DataOps, ReadyFlag,
     DoneFlag
<1>9. PostedInv(p)'
  BY <1>1, <1>2 DEF WaitDataFlush, Flushed, SideInv, PostedInv, TypeOK,
     Silent, Announced, Moved, InFlight, FlagOps, DataOps, ReadyFlag,
     DoneFlag
<1>10. FlagInv(s)'
  BY <1>1, <1>2 DEF WaitDataFlush, Flushed, SideInv, FlagInv, TypeOK, Silent,
     Announced, Moved, InFlight, FlagOps, ReadyFlag, DoneFlag
<1>11. FlagInv(p)'
  BY <1>1, <1>2 DEF WaitDataFlush, Flushed, SideInv, FlagInv, TypeOK, Silent,
     Announced, Moved, InFlight, FlagOps, ReadyFlag, DoneFlag
<1>12. PairInv(s)'
  BY <1>1, <1>2 DEF WaitDataFlush, Flushed, SideInv, PairInv, TypeOK, Silent,
     Announced, Moved, FlagOps, Inactive, ReadyFlag, DoneFlag
<1>13. PairInv(p)'
  BY <1>1, <1>2 DEF WaitDataFlush, Flushed, SideInv, PairInv, TypeOK, Silent,
     Announced, Moved, FlagOps, Inactive, ReadyFlag, DoneFlag
<1>14. BufferInv'
  BY <1>1, <1>2 DEF WaitDataFlush, Flushed, BufferInv, TypeOK, Moved,
     DataOps, Inactive, DoneFlag
<1> QED
  BY <1>1, <1>3, <1>4, <1>5, <1>6, <1>7, <1>8, <1>9, <1>10, <1>11, <1>12, <1>13, <1>14 DEF
     IInv, SideInv

\* The sender's wait returns.
LEMMA SendCompleteStep ==
  ASSUME SafeDeployment, IInv, SendComplete
  PROVE  IInv'
<1> DEFINE s == "S"  p == Peer(s)
<1>1. p \in Side /\ p # s /\ Peer(p) = s /\ \A t \in Side : t = s \/ t = p
  BY Sides DEF Side
<1>2. TypeOK /\ BufferInv /\ SideInv(s) /\ SideInv(p)
  BY <1>1 DEF IInv, Side
<1>3. TypeOK'
  BY <1>1, <1>2 DEF SendComplete, TypeOK, PCs
<1>4. PcInv(s)'
  BY <1>1, <1>2 DEF SendComplete, SideInv, PcInv, TypeOK, Silent, Announced,
     Moved, Inactive, ReadyFlag, DoneFlag
<1>5. PcInv(p)'
  BY <1>1, <1>2 DEF SendComplete, SideInv, PcInv, TypeOK, Silent, Announced,
     Moved, Inactive, ReadyFlag, DoneFlag
<1>6. FlushInv(s)'
  BY <1>1, <1>2 DEF SendComplete, SideInv, FlushInv, TypeOK, Silent, Moved,
     DoneFlag
<1>7. FlushInv(p)'
  BY <1>1, <1>2 DEF SendComplete, SideInv, FlushInv, TypeOK, Silent, Moved,
     DoneFlag
<1>8. PostedInv(s)'
  BY <1>1, <1>2 DEF SendComplete, SideInv, PostedInv, TypeOK, Silent,
     Announced, Moved, InFlight, FlagOps, DataOps, ReadyFlag, DoneFlag
<1>9. PostedInv(p)'
  BY <1>1, <1>2 DEF SendComplete, SideInv, PostedInv, TypeOK, Silent,
     Announced, Moved, InFlight, FlagOps, DataOps, ReadyFlag, DoneFlag
<1>10. FlagInv(s)'
  BY <1>1, <1>2 DEF SendComplete, SideInv, FlagInv, TypeOK, Silent,
     Announced, Moved, InFlight, FlagOps, ReadyFlag, DoneFlag
<1>11. FlagInv(p)'
  BY <1>1, <1>2 DEF SendComplete, SideInv, FlagInv, TypeOK, Silent,
     Announced, Moved, InFlight, FlagOps, ReadyFlag, DoneFlag
<1>12. PairInv(s)'
  BY <1>1, <1>2 DEF SendComplete, SideInv, PcInv, FlagInv, PairInv, TypeOK,
     Silent, Announced, Moved, FlagOps, Inactive, ReadyFlag, DoneFlag
<1>13. PairInv(p)'
  BY <1>1, <1>2 DEF SendComplete, SideInv, PairInv, TypeOK, Silent,
     Announced, Moved, FlagOps, Inactive, ReadyFlag, DoneFlag
<1>14. BufferInv'
  BY <1>1, <1>2 DEF SendComplete, BufferInv, TypeOK, Moved, DataOps,
     Inactive, DoneFlag
<1> QED
  BY <1>1, <1>3, <1>4, <1>5, <1>6, <1>7, <1>8, <1>9, <1>10, <1>11, <1>12, <1>13, <1>14 DEF
     IInv, SideInv

\* The receiver's wait returns or fetches the data.
LEMMA RecvCompleteStep ==
  ASSUME SafeDeployment, IInv, RecvComplete
  PROVE  IInv'
<1> DEFINE s == "R"  p == Peer(s)
<1>1. p \in Side /\ p # s /\ Peer(p) = s /\ \A t \in Side : t = s \/ t = p
  BY Sides DEF Side
<1>2. TypeOK /\ BufferInv /\ SideInv(s) /\ SideInv(p)
  BY <1>1 DEF IInv, Side
<1>3. TypeOK'
  BY <1>1, <1>2 DEF RecvComplete, PeerReady, TypeOK, PCs
<1>4. PcInv(s)'
  BY <1>1, <1>2 DEF RecvComplete, PeerReady, SideInv, PcInv, FlagInv,
     PairInv, TypeOK, Silent, Announced, Moved, Inactive, ReadyFlag, DoneFlag
<1>5. PcInv(p)'
  BY <1>1, <1>2 DEF RecvComplete, PeerReady, SideInv, PcInv, TypeOK, Silent,
     Announced, Moved, Inactive, ReadyFlag, DoneFlag
<1>6. FlushInv(s)'
  BY <1>1, <1>2 DEF RecvComplete, PeerReady, SideInv, FlushInv, TypeOK,
     Silent, Moved, DoneFlag
<1>7. FlushInv(p)'
  BY <1>1, <1>2 DEF RecvComplete, PeerReady, SideInv, FlushInv, TypeOK,
     Silent, Moved, DoneFlag
<1>8. PostedInv(s)'
  BY <1>1, <1>2 DEF RecvComplete, PeerReady, SideInv, PostedInv, TypeOK,
     Silent, Announced, Moved, InFlight, FlagOps, DataOps, ReadyFlag,
     DoneFlag
<1>9. PostedInv(p)'
  BY <1>1, <1>2 DEF RecvComplete, PeerReady, SideInv, PostedInv, TypeOK,
     Silent, Announced, Moved, InFlight, FlagOps, DataOps, ReadyFlag,
     DoneFlag
<1>10. FlagInv(s)'
  BY <1>1, <1>2 DEF RecvComplete, PeerReady, SideInv, FlagInv, TypeOK,
     Silent, Announced, Moved, InFlight, FlagOps, ReadyFlag, DoneFlag
<1>11. FlagInv(p)'
  BY <1>1, <1>2 DEF RecvComplete, PeerReady, SideInv, FlagInv, TypeOK,
     Silent, Announced, Moved, InFlight, FlagOps, ReadyFlag, DoneFlag
<1>12. PairInv(s)'
  BY <1>1, <1>2 DEF RecvComplete, PeerReady, SideInv, PcInv, PostedInv,
     FlagInv, PairInv, TypeOK, Silent, Announced, Moved, InFlight, FlagOps,
     Inactive, ReadyFlag, DoneFlag, Side
<1>13. PairInv(p)'
  BY <1>1, <1>2 DEF RecvComplete, PeerReady, SideInv, PairInv, TypeOK,
     Silent, Announced, Moved, FlagOps, Inactive, ReadyFlag, DoneFlag
<1>14. BufferInv'
  BY <1>1, <1>2 DEF RecvComplete, PeerReady, BufferInv, TypeOK, Moved,
     DataOps, Inactive, DoneFlag, Side
<1> QED
  BY <1>1, <1>3, <1>4, <1>5, <1>6, <1>7, <1>8, <1>9, <1>10, <1>11, <1>12, <1>13, <1>14 DEF
     IInv, SideInv

\* The fetch of the crosstalk case has finished.
LEMMA DrainStep ==
  ASSUME SafeDeployment, IInv, Drain
  PROVE  IInv'
<1> DEFINE s == "R"  p == Peer(s)
<1>1. p \in Side /\ p # s /\ Peer(p) = s /\ \A t \in Side : t = s \/ t = p
  BY Sides DEF Side
<1>2. TypeOK /\ BufferInv /\ SideInv(s) /\ SideInv(p)
  BY <1>1 DEF IInv, Side
<1>3. TypeOK'
  BY <1>1, <1>2 DEF Drain, Flushed, TypeOK, PCs
<1>4. PcInv(s)'
  BY <1>1, <1>2 DEF Drain, Flushed, SideInv, PcInv, FlagInv, PairInv, TypeOK,
     Silent, Announced, Moved, Inactive, ReadyFlag, DoneFlag
<1>5. PcInv(p)'
  BY <1>1, <1>2 DEF Drain, Flushed, SideInv, PcInv, TypeOK, Silent,
     Announced, Moved, Inactive, ReadyFlag, DoneFlag
<1>6. FlushInv(s)'
  BY <1>1, <1>2 DEF Drain, Flushed, SideInv, FlushInv, TypeOK, Silent, Moved,
     DoneFlag
<1>7. FlushInv(p)'
  BY <1>1, <1>2 DEF Drain, Flushed, SideInv, FlushInv, TypeOK, Silent, Moved,
     DoneFlag
<1>8. PostedInv(s)'
  BY <1>1, <1>2 DEF Drain, Flushed, SideInv, PostedInv, TypeOK, Silent,
     Announced, Moved, InFlight, FlagOps, DataOps, ReadyFlag, DoneFlag
<1>9. PostedInv(p)'
  BY <1>1, <1>2 DEF Drain, Flushed, SideInv, PostedInv, TypeOK, Silent,
     Announced, Moved, InFlight, FlagOps, DataOps, ReadyFlag, DoneFlag
<1>10. FlagInv(s)'
  BY <1>1, <1>2 DEF Drain, Flushed, SideInv, FlagInv, TypeOK, Silent,
     Announced, Moved, InFlight, FlagOps, ReadyFlag, DoneFlag
<1>11. FlagInv(p)'
  BY <1>1, <1>2 DEF Drain, Flushed, SideInv, FlagInv, TypeOK, Silent,
     Announced, Moved, InFlight, FlagOps, ReadyFlag, DoneFlag
<1>12. PairInv(s)'
  BY <1>1, <1>2 DEF Drain, Flushed, SideInv, PcInv, PairInv, TypeOK, Silent,
     Announced, Moved, FlagOps, Inactive, ReadyFlag, DoneFlag
<1>13. PairInv(p)'
  BY <1>1, <1>2 DEF Drain, Flushed, SideInv, PairInv, TypeOK, Silent,
     Announced, Moved, FlagOps, Inactive, ReadyFlag, DoneFlag
<1>14. BufferInv'
  BY <1>1, <1>2 DEF Drain, Flushed, BufferInv, TypeOK, Moved, DataOps,
     Inactive, DoneFlag
<1> QED
  BY <1>1, <1>3, <1>4, <1>5, <1>6, <1>7, <1>8, <1>9, <1>10, <1>11, <1>12, <1>13, <1>14 DEF
     IInv, SideInv

\* A wait for another request finds the sender ready.
LEMMA ProgressFromOthersStep ==
  ASSUME SafeDeployment, IInv, ProgressFromOthers
  PROVE  IInv'
<1> DEFINE s == "R"  p == Peer(s)
<1>1. p \in Side /\ p # s /\ Peer(p) = s /\ \A t \in Side : t = s \/ t = p
  BY Sides DEF Side
<1>2. TypeOK /\ BufferInv /\ SideInv(s) /\ SideInv(p)
  BY <1>1 DEF IInv, Side
<1>0. OtherRequests /\ pc["R"] \in {"idle", "started"}
  BY DEF SafeDeployment, ProgressFromOthers, Progressed
<1>3. TypeOK'
  BY <1>0, <1>1, <1>2 DEF ProgressFromOthers, PeerReady, TypeOK, PCs
<1>4. PcInv(s)'
  BY <1>0, <1>1, <1>2 DEF ProgressFromOthers, PeerReady, SideInv, PcInv, FlagInv,
     PairInv, TypeOK, Silent, Announced, Moved, Inactive, ReadyFlag, DoneFlag
<1>5. PcInv(p)'
  BY <1>0, <1>1, <1>2 DEF ProgressFromOthers, PeerReady, SideInv, PcInv, TypeOK,
     Silent, Announced, Moved, Inactive, ReadyFlag, DoneFlag
<1>6. FlushInv(s)'
  BY <1>0, <1>1, <1>2 DEF ProgressFromOthers, PeerReady, SideInv, FlushInv, TypeOK,
     Silent, Moved, DoneFlag, PcInv, FlagInv, PairInv, Announced, InFlight,
     FlagOps, ReadyFlag
<1>7. FlushInv(p)'
  BY <1>0, <1>1, <1>2 DEF ProgressFromOthers, PeerReady, SideInv, FlushInv, TypeOK,
     Silent, Moved, DoneFlag
<1>8. PostedInv(s)'
  BY <1>0, <1>1, <1>2 DEF ProgressFromOthers, PeerReady, SideInv, PostedInv,
     TypeOK, Silent, Announced, Moved, InFlight, FlagOps, DataOps, ReadyFlag,
     DoneFlag
<1>9. PostedInv(p)'
  BY <1>0, <1>1, <1>2 DEF ProgressFromOthers, PeerReady, SideInv, PostedInv,
     TypeOK, Silent, Announced, Moved, InFlight, FlagOps, DataOps, ReadyFlag,
     DoneFlag
<1>10. FlagInv(s)'
  BY <1>0, <1>1, <1>2 DEF ProgressFromOthers, PeerReady, SideInv, FlagInv, TypeOK,
     Silent, Announced, Moved, InFlight, FlagOps, ReadyFlag, DoneFlag
<1>11. FlagInv(p)'
  BY <1>0, <1>1, <1>2 DEF ProgressFromOthers, PeerReady, SideInv, FlagInv, TypeOK,
     Silent, Announced, Moved, InFlight, FlagOps, ReadyFlag, DoneFlag
<1>12. PairInv(s)'
  BY <1>0, <1>1, <1>2 DEF ProgressFromOthers, PeerReady, SideInv, PcInv, PostedInv,
     FlagInv, PairInv, TypeOK, Silent, Announced, Moved, InFlight, FlagOps,
     Inactive, ReadyFlag, DoneFlag, Side
<1>13. PairInv(p)'
  BY <1>0, <1>1, <1>2 DEF ProgressFromOthers, PeerReady, SideInv, PairInv, TypeOK,
     Silent, Announced, Moved, FlagOps, Inactive, ReadyFlag, DoneFlag
<1>14. BufferInv'
  BY <1>0, <1>1, <1>2 DEF ProgressFromOthers, PeerReady, BufferInv, TypeOK, Moved,
     DataOps, Inactive, DoneFlag
<1> QED
  BY <1>1, <1>3, <1>4, <1>5, <1>6, <1>7, <1>8, <1>9, <1>10, <1>11, <1>12, <1>13, <1>14 DEF
     IInv, SideInv

\* An inactive request is freed.
LEMMA FreeStep ==
  ASSUME SafeDeployment, IInv, NEW s \in Side, Free(s)
  PROVE  IInv'
<1> DEFINE p == Peer(s)
<1>1. p \in Side /\ p # s /\ Peer(p) = s /\ \A t \in Side : t = s \/ t = p
  BY Sides
<1>2. TypeOK /\ BufferInv /\ SideInv(s) /\ SideInv(p)
  BY <1>1 DEF IInv
<1>3. TypeOK'
  BY <1>1, <1>2 DEF Free, TypeOK, PCs
<1>4. PcInv(s)'
  BY <1>1, <1>2 DEF Free, SideInv, PcInv, TypeOK, Silent, Announced, Moved,
     Inactive, ReadyFlag, DoneFlag
<1>5. PcInv(p)'
  BY <1>1, <1>2 DEF Free, SideInv, PcInv, TypeOK, Silent, Announced, Moved,
     Inactive, ReadyFlag, DoneFlag
<1>6. FlushInv(s)'
  BY <1>1, <1>2 DEF Free, SideInv, FlushInv, TypeOK, Silent, Moved, DoneFlag
<1>7. FlushInv(p)'
  BY <1>1, <1>2 DEF Free, SideInv, FlushInv, TypeOK, Silent, Moved, DoneFlag
<1>8. PostedInv(s)'
  BY <1>1, <1>2 DEF Free, SideInv, PostedInv, TypeOK, Silent, Announced,
     Moved, InFlight, FlagOps, DataOps, ReadyFlag, DoneFlag
<1>9. PostedInv(p)'
  BY <1>1, <1>2 DEF Free, SideInv, PostedInv, TypeOK, Silent, Announced,
     Moved, InFlight, FlagOps, DataOps, ReadyFlag, DoneFlag
<1>10. FlagInv(s)'
  BY <1>1, <1>2 DEF Free, SideInv, FlagInv, TypeOK, Silent, Announced, Moved,
     InFlight, FlagOps, ReadyFlag, DoneFlag
<1>11. FlagInv(p)'
  BY <1>1, <1>2 DEF Free, SideInv, FlagInv, TypeOK, Silent, Announced, Moved,
     InFlight, FlagOps, ReadyFlag, DoneFlag
<1>12. PairInv(s)'
  BY <1>1, <1>2 DEF Free, SideInv, PairInv, TypeOK, Silent, Announced, Moved,
     FlagOps, Inactive, ReadyFlag, DoneFlag
<1>13. PairInv(p)'
  BY <1>1, <1>2 DEF Free, SideInv, PairInv, TypeOK, Silent, Announced, Moved,
     FlagOps, Inactive, ReadyFlag, DoneFlag
<1>14. BufferInv'
  BY <1>1, <1>2 DEF Free, BufferInv, TypeOK, Moved, DataOps, Inactive,
     DoneFlag
<1> QED
  BY <1>1, <1>3, <1>4, <1>5, <1>6, <1>7, <1>8, <1>9, <1>10, <1>11, <1>12, <1>13, <1>14 DEF
     IInv, SideInv

\* A flag put reaches the peer; it writes the value it was posted with.
LEMMA ExecuteFlagPutStep ==
  ASSUME SafeDeployment, IInv, NEW s \in Side, ExecuteFlagPut(s)
  PROVE  IInv'
<1> DEFINE p == Peer(s)
<1>1. p \in Side /\ p # s /\ Peer(p) = s /\ \A t \in Side : t = s \/ t = p
  BY Sides
<1>2. TypeOK /\ BufferInv /\ SideInv(s) /\ SideInv(p)
  BY <1>1 DEF IInv
<1>3. PICK o \in FlagOps(s) :
        /\ Executable(s, o)
        /\ \E v \in Written(s, o) : flag' = [flag EXCEPT ![p] = v]
        /\ posted' = [posted EXCEPT ![s] = @ \ {o}]
        /\ UNCHANGED <<op, flagBuf, flagReq, dataReq, pc, resume, epoch, sendBuf,
                       recvBuf>>
  BY DEF ExecuteFlagPut
<1>4. flag' = [flag EXCEPT ![p] = o.val]
  BY <1>2, <1>3 DEF Written, SideInv, PostedInv
<1>5. TypeOK'
  BY <1>1, <1>2, <1>3, <1>4 DEF TypeOK, FlagOps, RdmaOp
<1>6. PcInv(s)'
  BY <1>1, <1>2, <1>3, <1>4 DEF SideInv, PcInv, TypeOK, Silent, Announced, Moved,
     Inactive, ReadyFlag, DoneFlag
<1>7. PcInv(p)'
  BY <1>1, <1>2, <1>3, <1>4 DEF SideInv, PcInv, PostedInv, FlagInv, PairInv, TypeOK,
     Silent, Announced, Moved, Inactive, ReadyFlag, DoneFlag, InFlight, FlagOps
<1>8. FlushInv(s)' /\ FlushInv(p)'
  BY <1>1, <1>2, <1>3, <1>4 DEF SideInv, FlushInv, TypeOK, Silent, Moved
<1>9. PostedInv(s)'
  BY <1>1, <1>2, <1>3, <1>4 DEF SideInv, PostedInv, TypeOK, Silent, Announced, Moved,
     ReadyFlag, DoneFlag, InFlight, FlagOps, DataOps, Executable, RdmaOp
<1>10. PostedInv(p)'
  BY <1>1, <1>2, <1>3, <1>4 DEF SideInv, PostedInv, TypeOK, Silent, Announced, Moved,
     ReadyFlag, DoneFlag, InFlight, FlagOps, DataOps
<1>11. FlagInv(s)'
  BY <1>1, <1>2, <1>3, <1>4 DEF SideInv, PostedInv, FlagInv, PairInv, PcInv, TypeOK,
     Silent, Announced, Moved, ReadyFlag, DoneFlag, InFlight, FlagOps, DataOps, Executable
<1>12. FlagInv(p)'
  BY <1>1, <1>2, <1>3, <1>4 DEF SideInv, FlagInv, TypeOK, Silent, Announced, Moved,
     ReadyFlag, DoneFlag, InFlight, FlagOps
<1>13. PairInv(s)'
  BY <1>1, <1>2, <1>3, <1>4 DEF SideInv, PostedInv, FlagInv, PairInv, PcInv, TypeOK,
     Silent, Announced, Moved, ReadyFlag, DoneFlag, InFlight, FlagOps, Inactive
<1>14. PairInv(p)'
  BY <1>1, <1>2, <1>3, <1>4 DEF SideInv, PostedInv, FlagInv, PairInv, PcInv, TypeOK,
     Silent, Announced, Moved, ReadyFlag, DoneFlag, InFlight, FlagOps, Inactive
<1>15. BufferInv'
  BY <1>1, <1>2, <1>3, <1>4 DEF BufferInv, TypeOK, Moved, FlagOps, DataOps, DoneFlag,
     Inactive
<1> QED
  BY <1>1, <1>5, <1>6, <1>7, <1>8, <1>9, <1>10, <1>11, <1>12, <1>13, <1>14, <1>15
     DEF IInv, SideInv

\* While data is outstanding both operations have the same number and the
\* sender's buffer holds that message.
LEMMA DataOutstanding ==
  ASSUME IInv, NEW s \in Side, DataOps(s) # {}
  PROVE  /\ op["R"] = op["S"]
         /\ sendBuf = op["S"]
         /\ ~Inactive("S")
         /\ Moved(s)
         /\ op[s] > 1
<1> DEFINE p == Peer(s)
<1>1. p \in Side /\ p # s /\ Peer(p) = s /\ "S" \in Side /\ "R" \in Side
  BY Sides DEF Side
<1>2. TypeOK /\ BufferInv /\ SideInv(s) /\ SideInv(p) /\ SideInv("S")
  BY <1>1 DEF IInv
<1>3. Moved(s) /\ InFlight(s, DoneFlag(op[s])) /\ posted[s] # {}
  BY <1>2 DEF SideInv, PostedInv, InFlight, DataOps
<1>4. op[p] = op[s] /\ op[s] > 1
  BY <1>1, <1>2, <1>3 DEF SideInv, PairInv, PcInv, Moved, Silent, TypeOK, DoneFlag
<1>5. op["R"] = op["S"]
  BY <1>1, <1>4 DEF Side, Peer
<1>6. ~Inactive("S")
  <2>1. CASE s = "S"
    BY <1>2, <1>3, <2>1 DEF SideInv, FlushInv, Inactive
  <2>2. CASE s = "R"
    <3>1. p = "S"
      BY <2>2 DEF Peer
    <3>2. flag["S"] <= ReadyFlag(op["S"])
      BY <1>2, <1>3, <1>5, <2>2, <3>1 DEF SideInv, FlagInv
    <3> QED
      BY <1>1, <1>2, <1>4, <1>5, <2>2, <3>2 DEF SideInv, PcInv, TypeOK, ReadyFlag, DoneFlag
  <2> QED
    BY <2>1, <2>2 DEF Side
<1> QED
  BY <1>2, <1>3, <1>4, <1>5, <1>6 DEF BufferInv

\* The data of an operation reaches the receive buffer.
LEMMA ExecuteDataMoveStep ==
  ASSUME SafeDeployment, IInv, NEW s \in Side, ExecuteDataMove(s)
  PROVE  IInv'
<1> DEFINE p == Peer(s)
<1>1. p \in Side /\ p # s /\ Peer(p) = s /\ \A t \in Side : t = s \/ t = p
  BY Sides
<1>2. TypeOK /\ BufferInv /\ SideInv(s) /\ SideInv(p)
  BY <1>1 DEF IInv
<1>3. PICK o \in DataOps(s) :
        /\ recvBuf' = sendBuf
        /\ posted' = [posted EXCEPT ![s] = @ \ {o}]
        /\ UNCHANGED <<op, flag, flagBuf, flagReq, dataReq, pc, resume, epoch, sendBuf>>
  BY DEF ExecuteDataMove
<1>4. op["R"] = op["S"] /\ op[p] = op[s] /\ sendBuf = op["S"] /\ ~Inactive("S")
      /\ Moved(s) /\ op[s] > 1
  BY <1>1, <1>3, DataOutstanding DEF Side, Peer
<1>5. /\ FlagOps(s)' = FlagOps(s) /\ DataOps(s)' = {}
      /\ FlagOps(p)' = FlagOps(p) /\ DataOps(p)' = DataOps(p)
  BY <1>1, <1>2, <1>3 DEF FlagOps, DataOps, SideInv, PostedInv, TypeOK
<1>6. TypeOK'
  BY <1>1, <1>2, <1>3, <1>4 DEF TypeOK
<1>7. PcInv(s)' /\ PcInv(p)'
  BY <1>2, <1>3 DEF SideInv, PcInv, Silent, Announced, Moved, Inactive
<1>8. FlushInv(s)' /\ FlushInv(p)'
  BY <1>1, <1>2, <1>3 DEF SideInv, FlushInv, TypeOK, Silent, Moved
<1>9. PostedInv(s)' /\ PostedInv(p)'
  BY <1>1, <1>2, <1>3, <1>5 DEF SideInv, PostedInv, TypeOK, Silent, Moved, InFlight
<1>10. FlagInv(s)' /\ FlagInv(p)'
  BY <1>1, <1>2, <1>3, <1>5 DEF SideInv, FlagInv, Silent, Announced, Moved, InFlight
<1>11. PairInv(s)' /\ PairInv(p)'
  BY <1>1, <1>2, <1>3, <1>4, <1>5 DEF SideInv, PairInv, TypeOK, Silent, Announced, Moved,
     Inactive
<1>12. BufferInv'
  BY <1>2, <1>3, <1>4, <1>5 DEF BufferInv, Moved, Inactive
<1> QED
  BY <1>1, <1>6, <1>7, <1>8, <1>9, <1>10, <1>11, <1>12 DEF IInv, SideInv

\* The invariant is about the variables only.
LEMMA StutterStep ==
  ASSUME IInv, UNCHANGED vars
  PROVE  IInv'
BY DEF vars, IInv, TypeOK, BufferInv, SideInv, PcInv, FlushInv, PostedInv, FlagInv,
   PairInv, Silent, Announced, Moved, InFlight, DataOps, FlagOps, Inactive

\* Every step preserves the invariant.
LEMMA NextIInv ==
  ASSUME SafeDeployment, IInv, [Next]_vars
  PROVE  IInv'
<1>1. CASE FillSendBuffer
  BY <1>1, FillSendBufferStep
<1>2. CASE SendComplete
  BY <1>2, SendCompleteStep
<1>3. CASE RecvComplete
  BY <1>3, RecvCompleteStep
<1>4. CASE Drain
  BY <1>4, DrainStep
<1>5. CASE ProgressFromOthers
  BY <1>5, ProgressFromOthersStep
<1>6. ASSUME NEW s \in Side,
             Start(s) \/ Announce(s) \/ Transfer(s) \/ WaitFlagFlush(s)
             \/ WaitDataFlush(s) \/ Free(s) \/ ExecuteFlagPut(s) \/ ExecuteDataMove(s)
      PROVE  IInv'
  BY <1>6, StartStep, AnnounceStep, TransferStep, WaitFlagFlushStep, WaitDataFlushStep,
     FreeStep, ExecuteFlagPutStep, ExecuteDataMoveStep
<1>7. CASE Stopped \/ UNCHANGED vars
  BY <1>7, StutterStep DEF Stopped
<1> QED
  BY <1>1, <1>2, <1>3, <1>4, <1>5, <1>6, <1>7 DEF Next

\* IInv holds in every state of every behaviour.
THEOREM Invariance == SafeDeployment => (Spec => []IInv)
<1>1. SUFFICES ASSUME SafeDeployment PROVE Spec => []IInv
  OBVIOUS
<1>2. IInv /\ [Next]_vars => IInv'
  BY <1>1, NextIInv
<1> QED
  BY <1>2, InitIInv, PTL DEF Spec

-----------------------------------------------------------------------------
(* What the invariant says about the properties of RdvTransfer. *)

\* While a side is inactive it has nothing outstanding and no data moves.
LEMMA InactiveSide ==
  ASSUME IInv, NEW s \in Side, Inactive(s)
  PROVE  DataOps("S") = {} /\ DataOps("R") = {} /\ posted[s] = {}
<1>1. posted[s] = {}
  BY DEF IInv, SideInv, FlushInv, Inactive
<1>2. ASSUME NEW t \in Side, DataOps(t) # {} PROVE FALSE
  <2> DEFINE p == Peer(t)
  <2>1. p \in Side /\ p # t /\ Peer(p) = t /\ (s = t \/ s = p)
    BY Sides
  <2>2. TypeOK /\ SideInv(t) /\ SideInv(s)
    BY <2>1 DEF IInv
  <2>3. Moved(t) /\ op[t] > 1 /\ op[p] = op[t]
    BY <1>2, <2>1, DataOutstanding DEF Side, Peer
  <2>4. s = p
    BY <1>1, <1>2, <2>1 DEF DataOps
  <2>5. flag[s] <= ReadyFlag(op[s])
    BY <1>2, <2>2, <2>3, <2>4 DEF SideInv, PostedInv, FlagInv, InFlight
  <2> QED
    BY <2>1, <2>2, <2>3, <2>4, <2>5 DEF SideInv, PcInv, TypeOK, ReadyFlag, DoneFlag
<1> QED
  BY <1>1, <1>2 DEF Side

\* A side that is inactive finds the message of its last operation delivered.
LEMMA InactiveDelivered ==
  ASSUME IInv, NEW s \in Side, Inactive(s)
  PROVE  recvBuf = op[s]
<1> DEFINE p == Peer(s)
<1>1. p \in Side /\ p # s /\ Peer(p) = s /\ (op["S"] = op["R"] <=> op[p] = op[s])
  BY Sides DEF Side, Peer
<1>2. TypeOK /\ BufferInv /\ SideInv(s) /\ SideInv(p)
  BY <1>1 DEF IInv
<1>3. DataOps(s) = {} /\ DataOps(p) = {} /\ posted[s] = {}
  BY <1>1, InactiveSide DEF Side
<1>4. op[p] = op[s] \/ op[p] = op[s] + 1
  BY <1>1, <1>2 DEF SideInv, PairInv, TypeOK
<1>5. CASE op[p] = op[s] + 1
  BY <1>2, <1>5 DEF SideInv, PairInv
<1>6. CASE op[p] = op[s] /\ op[s] > 1
  <2>1. flag[s] >= DoneFlag(op[s])
    BY <1>2, <1>6 DEF SideInv, PcInv
  <2>2. Moved(s) \/ Moved(p)
    BY <1>1, <1>2, <1>6, <2>1 DEF SideInv, PcInv, FlagInv, TypeOK, Silent, Announced,
       Moved, ReadyFlag, DoneFlag
  <2> QED
    BY <1>1, <1>2, <1>3, <1>6, <2>2 DEF BufferInv, Side
<1>7. CASE op[p] = op[s] /\ op[s] = 1
  BY <1>1, <1>2, <1>7 DEF BufferInv, Side
<1> QED
  BY <1>1, <1>2, <1>4, <1>5, <1>6, <1>7 DEF TypeOK

\* The invariant implies the properties.
LEMMA IInvSafe ==
  ASSUME IInv
  PROVE  /\ TypeOK /\ BufferContent /\ SendBufferReturned /\ RecvBufferReturned
         /\ NoFlagRace /\ NoHandleLost /\ OneMover /\ NothingOutstanding
<1> DEFINE s == "S"  r == "R"
<1>1. s \in Side /\ r \in Side /\ Peer(s) = r /\ Peer(r) = s /\ \A t \in Side : t = s \/ t = r
  BY DEF Side, Peer
<1>2. TypeOK /\ BufferInv /\ SideInv(s) /\ SideInv(r)
  BY <1>1 DEF IInv
<1>3. SendBufferReturned /\ RecvBufferReturned
  BY <1>1, InactiveSide DEF SendBufferReturned, RecvBufferReturned
<1>4. NothingOutstanding
  BY InactiveSide DEF NothingOutstanding
<1>5. NoFlagRace
  BY Sides DEF NoFlagRace, IInv, SideInv, PairInv
<1>6. NoHandleLost
  BY DEF NoHandleLost, IInv, SideInv, FlushInv, PcInv, Inactive
<1>7. OneMover
  BY <1>1, <1>2 DEF OneMover, Moves, SideInv, PairInv, PcInv, TypeOK, Announced, Moved,
     Silent, ReadyFlag, DoneFlag
<1>8. BufferContent
  BY <1>1, InactiveDelivered DEF BufferContent
<1> QED
  BY <1>2, <1>3, <1>4, <1>5, <1>6, <1>7, <1>8

\* The variables keep their types.
THEOREM TypeCorrect == SafeDeployment => (Spec => []TypeOK)
BY Invariance, IInvSafe, PTL

\* What MPIX_Wait on the receiver promises: message n is in the buffer.
THEOREM BufferContentHolds == SafeDeployment => (Spec => []BufferContent)
BY Invariance, IInvSafe, PTL

\* The user may reuse, and Request_free unmap, the send buffer of an inactive request.
THEOREM SendBufferReturnedHolds == SafeDeployment => (Spec => []SendBufferReturned)
BY Invariance, IInvSafe, PTL

\* The same for the receive buffer: nothing is written to it later.
THEOREM RecvBufferReturnedHolds == SafeDeployment => (Spec => []RecvBufferReturned)
BY Invariance, IInvSafe, PTL

\* The claims "no possibility of data race" of the source are right.
THEOREM NoFlagRaceHolds == SafeDeployment => (Spec => []NoFlagRace)
BY Invariance, IInvSafe, PTL

\* The assertions on the two transfer handles never fail.
THEOREM NoHandleLostHolds == SafeDeployment => (Spec => []NoHandleLost)
BY Invariance, IInvSafe, PTL

\* One side only moves the data of an operation.
THEOREM OneMoverHolds == SafeDeployment => (Spec => []OneMover)
BY Invariance, IInvSafe, PTL

\* An inactive side has nothing outstanding when its resources are released.
THEOREM NothingOutstandingHolds == SafeDeployment => (Spec => []NothingOutstanding)
BY Invariance, IInvSafe, PTL

\* No step lowers a flag.
LEMMA FlagsGrow ==
  ASSUME IInv, [Next]_vars, NEW t \in Side
  PROVE  flag'[t] >= flag[t]
<1>1. TypeOK
  BY DEF IInv
<1>2. CASE UNCHANGED flag
  BY <1>1, <1>2 DEF TypeOK
<1>3. ASSUME NEW s \in Side, Transfer(s) PROVE flag'[t] >= flag[t]
  BY <1>1, <1>3 DEF Transfer, TypeOK
<1>4. ASSUME NEW s \in Side, ExecuteFlagPut(s) PROVE flag'[t] >= flag[t]
  <2> DEFINE p == Peer(s)
  <2>1. p \in Side /\ SideInv(s)
    BY Sides DEF IInv
  <2>2. PICK o \in FlagOps(s) :
          Executable(s, o) /\ \E v \in Written(s, o) : flag' = [flag EXCEPT ![p] = v]
    BY <1>4 DEF ExecuteFlagPut
  <2>3. flag' = [flag EXCEPT ![p] = o.val]
    BY <2>1, <2>2 DEF Written, SideInv, PostedInv
  <2>4. o.val >= flag[p]
    BY <1>1, <2>1, <2>2 DEF SideInv, PostedInv, FlagInv, PcInv, InFlight, TypeOK,
       Silent, Announced, Moved, ReadyFlag, DoneFlag
  <2> QED
    BY <1>1, <2>1, <2>3, <2>4 DEF TypeOK
<1> QED
  BY <1>2, <1>3, <1>4 DEF Next, vars, FillSendBuffer, SendComplete, RecvComplete, Drain,
     ProgressFromOthers, Start, Announce, WaitFlagFlush,
     WaitDataFlush, Free, ExecuteDataMove, Stopped

\* A flag never decreases.
THEOREM FlagsMonotoneHolds == SafeDeployment => (Spec => FlagsMonotone)
<1>1. IInv /\ [Next]_vars => [\A s \in Side : flag'[s] >= flag[s]]_vars
  BY FlagsGrow
<1> QED
  BY <1>1, Invariance, PTL DEF Spec, FlagsMonotone

-----------------------------------------------------------------------------
(* The rendezvous implements the persistent channel. *)

\* The connected pair starts as a channel whose first message has arrived.
LEMMA ChannelInit == Init => Channel!ChanInit
BY DEF Init, Channel!ChanInit, Channel!Side, Side, Inactive

\* Every step is a step of the channel or leaves it unchanged.
LEMMA ChannelStep ==
  ASSUME IInv, IInv', [Next]_vars
  PROVE  [Channel!ChanNext]_(Channel!chanVars)
<1> USE DEF Channel!Side, Side
<1>1. TypeOK /\ TypeOK'
  BY DEF IInv
<1>2. CASE UNCHANGED <<op, recvBuf>> /\ \A s \in Side : Inactive(s)' <=> Inactive(s)
  BY <1>2 DEF Channel!chanVars
<1>3. ASSUME NEW s \in Side, Start(s) PROVE Channel!ChanStart(s)
  BY <1>1, <1>3 DEF Start, Channel!ChanStart, Inactive, TypeOK
<1>4. ASSUME NEW s \in Side, UNCHANGED <<op, recvBuf>>, ~Inactive(s),
             pc' = [pc EXCEPT ![s] = "idle"]
      PROVE  Channel!ChanComplete(s)
  <2>1. Inactive(s)' /\ \A t \in Side \ {s} : Inactive(t)' <=> Inactive(t)
    BY <1>1, <1>4 DEF Inactive, TypeOK
  <2>2. (IInv /\ Inactive(s))' => (recvBuf = op[s])'
    BY InactiveDelivered, PTL
  <2>3. recvBuf = op[s]
    BY <1>4, <2>1, <2>2
  <2> QED
    BY <1>4, <2>1, <2>3 DEF Channel!ChanComplete
<1>5. ASSUME NEW s \in Side, ExecuteDataMove(s) PROVE Channel!Deliver
  <2>1. DataOps(s) # {} /\ recvBuf' = sendBuf /\ UNCHANGED <<op, pc>>
    BY <1>5 DEF ExecuteDataMove
  <2>2. op["R"] = op["S"] /\ sendBuf = op["S"] /\ Moved(s) /\ op[s] > 1
    BY <2>1, DataOutstanding
  <2>3. \A t \in Side : ~Inactive(t)
    BY <2>1, InactiveSide
  <2>4. \A t \in Side : Moved(t) => DataOps(t) # {}
    BY <2>1, <2>2, IInvSafe DEF OneMover, Moves, Moved
  <2>5. recvBuf = op["S"] - 1
    BY <2>2, <2>4 DEF IInv, BufferInv
  <2>6. op["S"] \in Nat /\ recvBuf' = recvBuf + 1
    BY <1>1, <2>1, <2>2, <2>5 DEF TypeOK
  <2>7. \A t \in Side : op[t] = recvBuf + 1
    BY <2>2, <2>5, <2>6
  <2>8. \A t \in Side : Inactive(t)' <=> Inactive(t)
    BY <2>1 DEF Inactive
  <2> QED
    BY <2>1, <2>3, <2>6, <2>7, <2>8 DEF Channel!Deliver
<1>6. ASSUME NEW s \in Side,
             Announce(s) \/ WaitFlagFlush(s) \/ WaitDataFlush(s) \/ Free(s)
             \/ ExecuteFlagPut(s)
      PROVE  UNCHANGED <<op, recvBuf>> /\ \A t \in Side : Inactive(t)' <=> Inactive(t)
  BY <1>1, <1>6 DEF Announce, WaitFlagFlush, WaitDataFlush, Free, ExecuteFlagPut,
     Inactive, TypeOK
<1>7. ASSUME NEW s \in Side, Transfer(s)
      PROVE  UNCHANGED <<op, recvBuf>> /\ \A t \in Side : Inactive(t)' <=> Inactive(t)
  <2>1. resume[s] \in {"started", "drain"}
    BY <1>7 DEF Transfer, IInv, SideInv, PcInv
  <2> QED
    BY <1>1, <1>7, <2>1 DEF Transfer, Inactive, TypeOK
<1>8. CASE ProgressFromOthers
  <2>1. ~Inactive("R")
    BY <1>8 DEF ProgressFromOthers, PeerReady, IInv, SideInv, PcInv, TypeOK, ReadyFlag,
       DoneFlag
  <2> QED
    BY <1>1, <1>2, <1>8, <2>1 DEF ProgressFromOthers, Inactive, TypeOK
<1>9. CASE RecvComplete
  <2>1. CASE pc' = [pc EXCEPT !["R"] = "idle"]
    BY <1>4, <1>9, <2>1 DEF RecvComplete, Inactive, Channel!ChanNext
  <2>2. CASE pc' = [pc EXCEPT !["R"] = "transfer"]
    BY <1>1, <1>2, <1>9, <2>2 DEF RecvComplete, Inactive, TypeOK
  <2> QED
    BY <1>9, <2>1, <2>2 DEF RecvComplete
<1>10. CASE SendComplete \/ Drain
  BY <1>4, <1>10 DEF SendComplete, Drain, Inactive, Channel!ChanNext
<1>11. CASE FillSendBuffer \/ Stopped \/ UNCHANGED vars
  BY <1>1, <1>2, <1>11 DEF FillSendBuffer, Stopped, vars, Inactive,
     TypeOK
<1> QED
  BY <1>2, <1>3, <1>5, <1>6, <1>7, <1>8, <1>9, <1>10, <1>11 DEF Next, Channel!ChanNext

\* The rendezvous is a persistent channel: message n moves once, while both
\* operations n are active, and neither completes before.
THEOREM Implementation == SafeDeployment => (Spec => ImplementsChannel)
<1>1. IInv /\ IInv' /\ [Next]_vars => [Channel!ChanNext]_(Channel!chanVars)
  BY ChannelStep
<1> QED
  BY <1>1, ChannelInit, Invariance, PTL DEF Spec, ImplementsChannel, Channel!ChanSpec
=============================================================================
